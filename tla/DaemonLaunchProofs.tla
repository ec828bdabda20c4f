-------------------------- MODULE DaemonLaunchProofs --------------------------
(***************************************************************************)
(* DaemonLaunch for any number of commands, daemons and faults: the type   *)
(* invariant, one daemon at a time, and a serving daemon that is found.    *)
(***************************************************************************)
EXTENDS DaemonLaunch, TLAPS

DaemonRecord == [at : DaemonPoints, draining : BOOLEAN, closing : BOOLEAN]
CommandRecord == [at : CommandPoints, pids : SUBSET Daemons]

(* The conjuncts of TypeOK that give each variable its set. *)
Shapes ==
  /\ daemon \in [Daemons -> DaemonRecord]
  /\ pidFile \in Daemons \cup {Nobody} /\ portOwner \in Daemons \cup {Nobody} /\ portFile \in BOOLEAN
  /\ lock \in [by : SUBSET Commands, stale : BOOLEAN]
  /\ command \in [Commands -> CommandRecord]
  /\ faults \in 0..MaxFaults
  /\ hist \subseteq {"misled", "delisted"}

(* Its conjunct that relates them. *)
Fit(d) ==
  /\ daemon[d].closing => daemon[d].draining /\ daemon[d].at \in HasServer
  /\ daemon[d].draining => daemon[d].at \notin {"dead", "booting", "starting"}
  /\ portOwner = d => daemon[d].at \in {"bound"} \cup HasServer

LEMMA TypeOKParts == TypeOK <=> Shapes /\ \A d \in Daemons : Fit(d)
  BY DEF TypeOK, Shapes, Fit, DaemonRecord, CommandRecord

LEMMA NobodyIsNoDaemon == Nobody \notin Daemons
  BY DEF Nobody, Daemons

-----------------------------------------------------------------------------
(* Types *)

LEMMA ShapesInit == Init => Shapes /\ \A d \in Daemons : Fit(d)
<1>. SUFFICES ASSUME Init PROVE Shapes /\ \A d \in Daemons : Fit(d)
  OBVIOUS
<1>1. daemon \in [Daemons -> DaemonRecord]
  BY DEF Init, Dead, DaemonRecord, DaemonPoints
<1>2. command \in [Commands -> CommandRecord]
  BY DEF Init, Idle, CommandRecord, CommandPoints
<1>3. lock \in [by : SUBSET Commands, stale : BOOLEAN]
  BY DEF Init, NoLock
<1>4. faults \in 0..MaxFaults
  BY LaunchBoundsAssumption DEF Init
<1>5. \A d \in Daemons : Fit(d)
  BY NobodyIsNoDaemon DEF Init, Fit, Dead
<1>. QED  BY <1>1, <1>2, <1>3, <1>4, <1>5 DEF Init, Shapes

LEMMA CommandMoves ==
  ASSUME Shapes, NEW c \in Commands, NEW at \in CommandPoints, Goes(c, at) \/ Returns(c)
  PROVE  command' \in [Commands -> CommandRecord]
  BY DEF Shapes, Goes, Returns, Idle, CommandRecord, CommandPoints

LEMMA DaemonMoves ==
  ASSUME Shapes, NEW d \in Daemons, NEW r \in DaemonRecord, daemon' = [daemon EXCEPT ![d] = r]
  PROVE  daemon' \in [Daemons -> DaemonRecord]
  BY DEF Shapes

LEMMA Signalled ==
  ASSUME Shapes, \A d \in Daemons : Fit(d), NEW D \in SUBSET Daemons, Signal(D)
  PROVE  /\ daemon' \in [Daemons -> DaemonRecord]
         /\ portOwner' \in Daemons \cup {Nobody}
         /\ \A d \in Daemons : Fit(d)'
<1>1. ASSUME NEW d \in Daemons PROVE Terminated(d) \in DaemonRecord
  BY DEF Terminated, Dead, Alive, Shapes, DaemonRecord, DaemonPoints
<1>2. /\ daemon' = [d \in Daemons |-> IF d \in D THEN Terminated(d) ELSE daemon[d]]
      /\ portOwner' = IF portOwner \in D /\ daemon[portOwner].at \in HasServer THEN Nobody ELSE portOwner
  BY DEF Signal
<1>3. daemon' \in [Daemons -> DaemonRecord] /\ portOwner' \in Daemons \cup {Nobody}
  BY <1>1, <1>2 DEF Shapes
<1>4. ASSUME NEW d \in Daemons PROVE Fit(d)'
  <2>1. CASE d \in D
    <3>1. daemon'[d] = Terminated(d)
      BY <1>2, <2>1
    <3>2. portOwner' = d => portOwner = d /\ daemon[d].at \notin HasServer
      BY <1>2, <2>1, NobodyIsNoDaemon
    <3>3. CASE daemon[d].at \in {"booting", "starting"}
      BY <3>1, <3>2, <3>3 DEF Fit, Terminated, Dead
    <3>4. CASE daemon[d].at \notin {"booting", "starting"} /\ (daemon[d].draining \/ ~Alive(d))
      BY <3>1, <3>2, <3>4 DEF Fit, Terminated
    <3>5. CASE daemon[d].at \notin {"booting", "starting"} /\ ~daemon[d].draining /\ Alive(d)
      <4>1. CASE daemon[d].at \in HasServer
        <5>1. Terminated(d) = [at |-> daemon[d].at, draining |-> TRUE, closing |-> TRUE]
          BY <3>5, <4>1 DEF Terminated
        <5>. QED  BY <3>1, <3>2, <4>1, <5>1 DEF Fit, HasServer
      <4>2. CASE daemon[d].at \notin HasServer
        <5>1. ASSUME NEW b, b = (daemon[d].at \in HasServer)
              PROVE  Terminated(d) = [at |-> daemon[d].at, draining |-> TRUE, closing |-> b]
          BY <3>5, <5>1, Zenon DEF Terminated
        <5>2. FALSE = (daemon[d].at \in HasServer)
          BY <4>2, SMT
        <5>3. Terminated(d) = [at |-> daemon[d].at, draining |-> TRUE, closing |-> FALSE]
          BY <5>1, <5>2
        <5>. QED  BY <3>1, <3>2, <3>5, <4>2, <5>3 DEF Fit, Alive
      <4>. QED  BY <4>1, <4>2
    <3>. QED  BY <3>3, <3>4, <3>5
  <2>2. CASE d \notin D
    BY <1>2, <2>2, NobodyIsNoDaemon DEF Shapes, DaemonRecord, Fit
  <2>. QED  BY <2>1, <2>2
<1>. QED  BY <1>3, <1>4

LEMMA StartTypes ==
  ASSUME Shapes, \A d \in Daemons : Fit(d), NEW c \in Commands, StartStep(c)
  PROVE  Shapes' /\ \A d \in Daemons : Fit(d)'
<1>1. command' \in [Commands -> CommandRecord]
  BY CommandMoves
  DEF StartStep, EnsureDaemon, StartForced, PortIsFree, PortIsHeld, TryAcquireLockFile, RepairLock,
      RetryLock,
      SpawnDaemon, FoundUnderLock, WaitForDaemonPid, WaitTimesOut, StarterDies, CommandPoints
<1>2. lock' \in [by : SUBSET Commands, stale : BOOLEAN]
  <2>1. ASSUME StarterDies(c) PROVE lock' = [by |-> lock.by, stale |-> lock.stale \/ lock.by = {c}]
    BY <2>1 DEF StarterDies, Shapes
  <2>2. \/ lock' = lock \/ lock' = NoLock \/ lock' = [by |-> {c}, stale |-> FALSE]
        \/ lock' = [by |-> lock.by, stale |-> lock.stale \/ lock.by = {c}]
    BY <2>1
    DEF StartStep, EnsureDaemon, StartForced, PortIsFree, PortIsHeld, TryAcquireLockFile,
        RepairLock, RetryLock,
        SpawnDaemon, FoundUnderLock, WaitForDaemonPid, WaitTimesOut, Acquire, Release
  <2>3. (lock.stale \/ lock.by = {c}) \in BOOLEAN
    OBVIOUS
  <2>4. PICK b \in BOOLEAN : \/ lock' = lock \/ lock' = NoLock \/ lock' = [by |-> {c}, stale |-> FALSE]
                            \/ lock' = [by |-> lock.by, stale |-> b]
    BY <2>2, <2>3, Zenon
  <2>5. NoLock \in [by : SUBSET Commands, stale : BOOLEAN]
    BY DEF NoLock
  <2>6. [by |-> {c}, stale |-> FALSE] \in [by : SUBSET Commands, stale : BOOLEAN]
    OBVIOUS
  <2>7. [by |-> lock.by, stale |-> b] \in [by : SUBSET Commands, stale : BOOLEAN]
    BY DEF Shapes
  <2>. QED  BY <2>4, <2>5, <2>6, <2>7, Zenon DEF Shapes
<1>3. pidFile' \in Daemons \cup {Nobody}
  BY DEF StartStep, EnsureDaemon, StartForced, PortIsFree, PortIsHeld, TryAcquireLockFile,
         RepairLock, RetryLock,
      SpawnDaemon, FoundUnderLock, WaitForDaemonPid, WaitTimesOut, StarterDies, Shapes, StatusRead, files
<1>4. faults' \in 0..MaxFaults /\ hist' \subseteq {"misled", "delisted"}
  BY LaunchBoundsAssumption
  DEF StartStep, EnsureDaemon, StartForced, PortIsFree, PortIsHeld, TryAcquireLockFile, RepairLock,
      RetryLock,
      SpawnDaemon, FoundUnderLock, WaitForDaemonPid, WaitTimesOut, StarterDies, Shapes, Faulty, Noted
<1>5. portFile' = portFile /\ portOwner' = portOwner
  BY DEF StartStep, EnsureDaemon, StartForced, PortIsFree, PortIsHeld, TryAcquireLockFile,
         RepairLock, RetryLock,
      SpawnDaemon, FoundUnderLock, WaitForDaemonPid, WaitTimesOut, StarterDies, files
<1>6. daemon' \in [Daemons -> DaemonRecord] /\ \A d \in Daemons : Fit(d)'
  <2>1. CASE daemon' = daemon
    BY <1>5, <2>1 DEF Shapes, Fit
  <2>2. ASSUME NEW x \in Daemons, Spawns(x)
        PROVE  daemon' \in [Daemons -> DaemonRecord] /\ \A d \in Daemons : Fit(d)'
    <3>1. daemon[x].at = "dead" /\ daemon' = [daemon EXCEPT ![x].at = "booting"]
      BY <2>2 DEF Spawns, Spare
    <3>2. daemon' \in [Daemons -> DaemonRecord]
      BY <3>1 DEF Shapes, DaemonRecord, DaemonPoints
    <3>. QED  BY <1>5, <3>1, <3>2 DEF Shapes, Fit, DaemonRecord, HasServer
  <2>. QED
    BY <2>1, <2>2
    DEF StartStep, EnsureDaemon, StartForced, PortIsFree, PortIsHeld, TryAcquireLockFile,
        RepairLock, RetryLock,
        SpawnDaemon, FoundUnderLock, WaitForDaemonPid, WaitTimesOut, StarterDies
<1>. QED  BY <1>1, <1>2, <1>3, <1>4, <1>5, <1>6 DEF Shapes

LEMMA StopTypes ==
  ASSUME Shapes, \A d \in Daemons : Fit(d), NEW c \in Commands, StopStep(c)
  PROVE  Shapes' /\ \A d \in Daemons : Fit(d)'
<1>1. CASE StopDaemon(c)
  <2>1. PICK D \in SUBSET Daemons : Signal(D) /\ command' = [command EXCEPT ![c] = [at |-> "scan", pids |-> D]]
    BY <1>1 DEF StopDaemon, TrackedRuns, Alive, Shapes
  <2>2. command' \in [Commands -> CommandRecord]
    BY <2>1 DEF Shapes, CommandRecord, CommandPoints
  <2>. QED  BY <1>1, <2>1, <2>2, Signalled DEF StopDaemon, Shapes
<1>2. CASE ReapZombies(c)
  <2>1. PICK D \in SUBSET Daemons : Signal(D)
    BY <1>2 DEF ReapZombies, Living
  <2>2. faults' \in 0..MaxFaults
    BY <1>2, LaunchBoundsAssumption DEF ReapZombies, Sound, Faulty, Shapes
  <2>3. command' \in [Commands -> CommandRecord]
    BY <1>2, CommandMoves DEF ReapZombies, CommandPoints
  <2>. QED  BY <1>2, <2>1, <2>2, <2>3, Signalled DEF ReapZombies, Shapes, files
<1>3. CASE SkipReaper(c)
  <2>1. command' \in [Commands -> CommandRecord]
    <3>1. command' = [command EXCEPT ![c] = [at |-> "sweep", pids |-> Living \ command[c].pids]]
      BY <1>3 DEF SkipReaper
    <3>. QED  BY <3>1 DEF Shapes, CommandRecord, CommandPoints, Living
  <2>. QED  BY <1>3, <2>1 DEF SkipReaper, Shapes, Fit, files
<1>4. CASE SweepGhost(c)
  <2>1. command' \in [Commands -> CommandRecord]
    BY <1>4, CommandMoves DEF SweepGhost, CommandPoints
  <2>2. CASE portOwner \in command[c].pids
    <3>1. portOwner \in Daemons /\ daemon' = [daemon EXCEPT ![portOwner] = Dead] /\ portOwner' = Nobody
      BY <1>4, <2>2 DEF SweepGhost, Shapes, CommandRecord
    <3>2. Dead \in DaemonRecord
      BY DEF Dead, DaemonRecord, DaemonPoints
    <3>3. daemon' \in [Daemons -> DaemonRecord]
      BY <3>1, <3>2, DaemonMoves
    <3>4. \A d \in Daemons : Fit(d)'
      BY <3>1, NobodyIsNoDaemon DEF Shapes, Fit, Dead
    <3>. QED  BY <1>4, <2>1, <3>1, <3>3, <3>4 DEF SweepGhost, Shapes, files
  <2>3. CASE portOwner \notin command[c].pids
    BY <1>4, <2>1, <2>3 DEF SweepGhost, Shapes, Fit, files
  <2>. QED  BY <2>2, <2>3
<1>. QED  BY <1>1, <1>2, <1>3, <1>4 DEF StopStep

LEMMA OneChanges ==
  ASSUME Shapes, \A e \in Daemons : Fit(e), NEW d \in Daemons, NEW r \in DaemonRecord,
         daemon' = [daemon EXCEPT ![d] = r],
         r.closing => r.draining /\ r.at \in HasServer,
         r.draining => r.at \notin {"dead", "booting", "starting"},
         portOwner' \in {portOwner, d, Nobody},
         portOwner' = d => r.at \in {"bound"} \cup HasServer
  PROVE  daemon' \in [Daemons -> DaemonRecord] /\ \A e \in Daemons : Fit(e)'
<1>1. daemon' \in [Daemons -> DaemonRecord]
  BY DaemonMoves
<1>2. ASSUME NEW e \in Daemons, e # d PROVE Fit(e)'
  BY <1>2, NobodyIsNoDaemon DEF Fit, Shapes
<1>3. Fit(d)'
  BY DEF Fit, Shapes
<1>. QED  BY <1>1, <1>2, <1>3

LEMMA MovesTo ==
  ASSUME Shapes, NEW d \in Daemons, NEW at \in DaemonPoints, Moves(d, at)
  PROVE  \E r \in DaemonRecord : /\ daemon' = [daemon EXCEPT ![d] = r]
                                 /\ r.at = at /\ r.draining = daemon[d].draining
                                 /\ r.closing = daemon[d].closing
<1>. DEFINE r == [daemon[d] EXCEPT !.at = at]
<1>1. daemon' = [daemon EXCEPT ![d] = r]
  BY DEF Moves
<1>2. r \in DaemonRecord /\ r.at = at /\ r.draining = daemon[d].draining /\ r.closing = daemon[d].closing
  BY DEF Shapes, DaemonRecord
<1>. QED  BY <1>1, <1>2

LEMMA DaemonTypes ==
  ASSUME Shapes, \A d \in Daemons : Fit(d), NEW d \in Daemons,
         BootStep(d) \/ DrainStep(d) \/ SkipHttp(d) \/ GivesUp(d) \/ Crashes(d)
  PROVE  Shapes' /\ \A e \in Daemons : Fit(e)'
<1>1. command' = command /\ lock' = lock
  BY DEF BootStep, DrainStep, WritePidFile, RegisterHandlers, Binds, BindFails, WritePortFile,
         StartHttp, ServerClosed,
      Exits, SkipHttp, GivesUp, Crashes
<1>2. pidFile' \in Daemons \cup {Nobody} /\ portFile' \in BOOLEAN /\ portOwner' \in Daemons \cup {Nobody}
  BY DEF BootStep, DrainStep, WritePidFile, RegisterHandlers, Binds, BindFails, WritePortFile,
         StartHttp, ServerClosed,
      Exits, SkipHttp, GivesUp, Crashes, PidFileSetBy, PortReleasedBy, Shapes, files
<1>3. faults' \in 0..MaxFaults /\ hist' \subseteq {"misled", "delisted"}
  BY LaunchBoundsAssumption
  DEF BootStep, DrainStep, WritePidFile, RegisterHandlers, Binds, BindFails, WritePortFile,
      StartHttp, ServerClosed,
      Exits, SkipHttp, GivesUp, Crashes, PidFileSetBy, Noted, Faulty, Shapes
<1>4. daemon' \in [Daemons -> DaemonRecord] /\ \A e \in Daemons : Fit(e)'
  <2>1. ASSUME NEW at \in {"starting", "ready", "deaf", "retrying", "bound", "listed"}, Moves(d, at),
               daemon[d].at \in {"booting", "starting", "ready", "retrying", "bound"},
               at = "starting" => daemon[d].at = "booting",
               at = "listed" <=> daemon[d].at = "bound",
               portOwner' = portOwner \/ (portOwner' = d /\ at = "bound")
        PROVE  <1>4!:
    <3>1. PICK r \in DaemonRecord : /\ daemon' = [daemon EXCEPT ![d] = r]
                                    /\ r.at = at /\ r.draining = daemon[d].draining
                                    /\ r.closing = daemon[d].closing
      BY <2>1, MovesTo DEF DaemonPoints
    <3>2. r.closing => r.draining /\ r.at \in HasServer
      BY <2>1, <3>1 DEF Fit, HasServer
    <3>3. r.draining => r.at \notin {"dead", "booting", "starting"}
      BY <2>1, <3>1 DEF Fit
    <3>4. portOwner' \in {portOwner, d, Nobody} /\ (portOwner' = d => r.at \in {"bound"} \cup HasServer)
      BY <2>1, <3>1 DEF Fit, HasServer
    <3>. QED  BY <3>1, <3>2, <3>3, <3>4, OneChanges
  <2>2. CASE StartHttp(d)
    <3>1. daemon' = [daemon EXCEPT ![d] = [at |-> "serving", draining |-> daemon[d].draining,
                                           closing |-> daemon[d].draining]]
      BY <2>2 DEF StartHttp
    <3>2. [at |-> "serving", draining |-> daemon[d].draining, closing |-> daemon[d].draining] \in DaemonRecord
      BY DEF Shapes, DaemonRecord, DaemonPoints
    <3>3. portOwner' \in {portOwner, d, Nobody}
      BY <2>2 DEF StartHttp, PortReleasedBy
    <3>. QED  BY <3>1, <3>2, <3>3, OneChanges DEF HasServer
  <2>3. CASE ServerClosed(d)
    <3>1. daemon' = [daemon EXCEPT ![d] = [daemon[d] EXCEPT !.closing = FALSE]]
      BY <2>3 DEF ServerClosed
    <3>2. /\ [daemon[d] EXCEPT !.closing = FALSE] \in DaemonRecord
          /\ [daemon[d] EXCEPT !.closing = FALSE].at \in HasServer
          /\ [daemon[d] EXCEPT !.closing = FALSE].at \notin {"dead", "booting", "starting"}
          /\ [daemon[d] EXCEPT !.closing = FALSE].closing = FALSE
      BY <2>3 DEF ServerClosed, Shapes, DaemonRecord, Fit, HasServer
    <3>3. portOwner' = portOwner
      BY <2>3 DEF ServerClosed
    <3>. QED  BY <3>1, <3>2, <3>3, OneChanges
  <2>4. CASE Exits(d) \/ GivesUp(d) \/ Crashes(d)
    <3>1. daemon' = [daemon EXCEPT ![d] = Dead] /\ PortReleasedBy(d)
      BY <2>4 DEF Exits, GivesUp, Crashes
    <3>2. Dead \in DaemonRecord /\ Dead.closing = FALSE /\ Dead.draining = FALSE
      BY DEF Dead, DaemonRecord, DaemonPoints
    <3>3. portOwner' \in {portOwner, Nobody} /\ portOwner' # d
      BY <3>1, NobodyIsNoDaemon DEF PortReleasedBy
    <3>. QED  BY <3>1, <3>2, <3>3, OneChanges
  <2>. QED
    <3>1. CASE WritePidFile(d)
      <4>1. Moves(d, "starting") /\ daemon[d].at = "booting" /\ portOwner' = portOwner
        BY <3>1 DEF WritePidFile, Steps
      <4>. QED  BY <2>1, <4>1
    <3>2. CASE RegisterHandlers(d)
      <4>1. Moves(d, "ready") /\ daemon[d].at = "starting" /\ portOwner' = portOwner
        BY <3>2 DEF RegisterHandlers, Steps
      <4>. QED  BY <2>1, <4>1
    <3>3. CASE Binds(d)
      BY <2>1, <3>3 DEF Binds
    <3>4. CASE BindFails(d)
      <4>1. Moves(d, "retrying") /\ daemon[d].at = "ready" /\ portOwner' = portOwner
        BY <3>4 DEF BindFails, Steps
      <4>. QED  BY <2>1, <4>1
    <3>5. CASE SkipHttp(d)
      <4>1. Moves(d, "deaf") /\ daemon[d].at = "ready" /\ portOwner' = portOwner
        BY <3>5 DEF SkipHttp, Steps
      <4>. QED  BY <2>1, <4>1
    <3>6. CASE WritePortFile(d)
      <4>1. Moves(d, "listed") /\ daemon[d].at = "bound" /\ portOwner' = portOwner
        BY <3>6 DEF WritePortFile, Steps
      <4>. QED  BY <2>1, <4>1
    <3>. QED  BY <2>2, <2>3, <2>4, <3>1, <3>2, <3>3, <3>4, <3>5, <3>6 DEF BootStep, DrainStep
<1>. QED  BY <1>1, <1>2, <1>3, <1>4 DEF Shapes

LEMMA TypesKept == TypeOK /\ [Next]_launchVars => TypeOK'
<1>. SUFFICES ASSUME Shapes, \A d \in Daemons : Fit(d), [Next]_launchVars
              PROVE  Shapes' /\ \A d \in Daemons : Fit(d)'
  BY TypeOKParts DEF TypeOK, Shapes, Fit, DaemonRecord, CommandRecord
<1>1. CASE LockAges
  <2>1. lock' \in [by : SUBSET Commands, stale : BOOLEAN]
    BY <1>1 DEF LockAges, Shapes
  <2>2. faults' \in 0..MaxFaults
    BY <1>1, LaunchBoundsAssumption DEF LockAges, Faulty, Shapes
  <2>. QED  BY <1>1, <2>1, <2>2 DEF LockAges, Shapes, Fit, files
<1>2. CASE UNCHANGED launchVars
  BY <1>2 DEF launchVars, Shapes, Fit
<1>. QED  BY <1>1, <1>2, StartTypes, StopTypes, DaemonTypes DEF Next

(* The state keeps its shape. *)
THEOREM LaunchTypeCorrect == LaunchSpec => []TypeOK
<1>1. Init => TypeOK
  BY ShapesInit, TypeOKParts
<1>. QED  BY <1>1, TypesKept, PTL DEF LaunchSpec

-----------------------------------------------------------------------------
(* What happens to a daemon *)

DaemonStep(d) == BootStep(d) \/ DrainStep(d) \/ SkipHttp(d) \/ GivesUp(d) \/ Crashes(d)

(* A signal leaves alone, drains or ends. *)
LEMMA SignalEnds ==
  ASSUME Shapes, \A d \in Daemons : Fit(d), NEW D \in SUBSET Daemons, Signal(D), NEW e \in Daemons
  PROVE  /\ Up(e)' => e \notin D
         /\ e \notin D => daemon'[e] = daemon[e]
         /\ daemon'[e].at = "booting" => daemon[e].at = "booting" /\ e \notin D
         /\ portOwner' \in {portOwner, Nobody}
<1>1. /\ daemon' = [d \in Daemons |-> IF d \in D THEN Terminated(d) ELSE daemon[d]]
      /\ portOwner' \in {portOwner, Nobody}
  BY DEF Signal
<1>2. CASE e \notin D
  BY <1>1, <1>2
<1>3. CASE e \in D
  <2>1. daemon'[e] = Terminated(e)
    BY <1>1, <1>3
  <2>2. Terminated(e).at # "booting"
    BY DEF Terminated, Dead
  <2>3. ~(Terminated(e).at # "dead" /\ ~Terminated(e).draining)
    BY NobodyIsNoDaemon DEF Terminated, Dead, Alive
  <2>. QED  BY <1>1, <1>3, <2>1, <2>2, <2>3 DEF Up, Alive
<1>. QED  BY <1>2, <1>3

(* A step of a daemon, which is its own to take: it is dead, moves on, or  *)
(* goes on serving.                                                        *)
LEMMA DaemonStepsAlone ==
  ASSUME Shapes, \A d \in Daemons : Fit(d), NEW d \in Daemons, DaemonStep(d)
  PROVE  /\ \A e \in Daemons \ {d} : daemon'[e] = daemon[e]
         /\ daemon[d].at # "dead" /\ daemon'[d].at # "booting"
         /\ Up(d)' => Up(d)
         /\ portOwner' \in {portOwner, d, Nobody}
         /\ Serving(d)' => Serving(d) \/ WritePortFile(d)
<1>. USE DEF Up, Alive, Shapes, DaemonRecord
<1>1. ASSUME NEW at \in DaemonPoints, daemon' = [daemon EXCEPT ![d].at = at]
      PROVE  /\ \A e \in Daemons \ {d} : daemon'[e] = daemon[e]
             /\ daemon'[d].at = at /\ daemon'[d].draining = daemon[d].draining
  BY <1>1
<1>2. CASE WritePidFile(d)
  BY <1>1, <1>2 DEF WritePidFile, Steps, Moves, DaemonPoints, Serving, HasServer
<1>3. CASE RegisterHandlers(d)
  BY <1>1, <1>3 DEF RegisterHandlers, Steps, Moves, DaemonPoints, Serving, HasServer
<1>4. CASE Binds(d)
  BY <1>1, <1>4 DEF Binds, Moves, DaemonPoints, Serving, HasServer
<1>5. CASE BindFails(d)
  BY <1>1, <1>5 DEF BindFails, Steps, Moves, DaemonPoints, Serving, HasServer
<1>6. CASE SkipHttp(d)
  BY <1>1, <1>6 DEF SkipHttp, Steps, Moves, DaemonPoints, Serving, HasServer
<1>7. CASE WritePortFile(d)
  BY <1>1, <1>7 DEF WritePortFile, Steps, Moves, DaemonPoints
<1>10. CASE StartHttp(d)
  <2>1. daemon' = [daemon EXCEPT ![d] = [at |-> "serving", draining |-> daemon[d].draining,
                                         closing |-> daemon[d].draining]]
    BY <1>10 DEF StartHttp
  <2>. QED  BY <1>10, <2>1 DEF StartHttp, PortReleasedBy, Serving, HasServer, Nobody, Daemons
<1>8. CASE ServerClosed(d)
  <2>1. daemon' = [daemon EXCEPT ![d] = [daemon[d] EXCEPT !.closing = FALSE]] /\ daemon[d].draining
    BY <1>8 DEF ServerClosed, Fit
  <2>. QED  BY <1>8, <2>1 DEF ServerClosed, Serving, Fit
<1>9. CASE Exits(d) \/ GivesUp(d) \/ Crashes(d)
  <2>1. daemon' = [daemon EXCEPT ![d] = Dead] /\ portOwner' \in {portOwner, Nobody}
    BY <1>9 DEF Exits, GivesUp, Crashes, PortReleasedBy
  <2>2. daemon[d].at # "dead"
    BY <1>9 DEF Exits, GivesUp, Crashes, Fit
  <2>. QED  BY <2>1, <2>2 DEF Dead, Serving
<1>. QED  BY <1>2, <1>3, <1>4, <1>5, <1>6, <1>7, <1>8, <1>9, <1>10 DEF DaemonStep, BootStep,
                                                                       DrainStep

-----------------------------------------------------------------------------
(* A serving daemon is found *)

FoundInv == "delisted" \notin hist => \A d \in Daemons : Serving(d) => portFile

LEMMA FoundKept == TypeOK /\ FoundInv /\ [Next]_launchVars => FoundInv'
<1>. SUFFICES ASSUME Shapes, \A d \in Daemons : Fit(d), FoundInv, [Next]_launchVars,
                     "delisted" \notin hist', NEW e \in Daemons, Serving(e)'
              PROVE  portFile'
  BY TypeOKParts DEF FoundInv
<1>1. CASE \E d \in Daemons : WritePortFile(d)
  BY <1>1 DEF WritePortFile
<1>a. SUFFICES ASSUME ~\E d \in Daemons : WritePortFile(d) PROVE portFile'
  BY <1>1
<1>b. "delisted" \notin hist
  BY <1>a
  DEF Next, StartStep, EnsureDaemon, StartForced, PortIsFree, PortIsHeld, TryAcquireLockFile,
      RepairLock, RetryLock, SpawnDaemon, FoundUnderLock, WaitForDaemonPid, WaitTimesOut,
      StarterDies, StopStep,
      StopDaemon, ReapZombies, SkipReaper, SweepGhost, LockAges, BootStep, DrainStep, WritePidFile,
      RegisterHandlers, Binds, BindFails, StartHttp, ServerClosed, Exits, SkipHttp, GivesUp, Crashes,
      PidFileSetBy, Noted, launchVars
<1>2. Serving(e) => portFile
  BY <1>b DEF FoundInv
<1>3. CASE portFile' = portFile /\ (Serving(e)' => Serving(e))
  BY <1>2, <1>3
<1>4. ASSUME NEW d \in Daemons, DaemonStep(d) PROVE portFile'
  <2>1. ~WritePortFile(d)
    BY <1>a
  <2>2. CASE ServerClosed(d)
    <3>1. daemon[d].draining /\ daemon' = [daemon EXCEPT ![d].closing = FALSE] /\ portOwner' = portOwner
      BY <2>2 DEF ServerClosed, Fit
    <3>2. e # d /\ Serving(e)
      BY <3>1 DEF Serving, Up, Alive, Shapes, DaemonRecord
    <3>. QED  BY <2>2, <3>2 DEF ServerClosed, Noted
  <2>3. ~WritePortFile(d) /\ ~ServerClosed(d) => portFile' = portFile
    BY <1>4
    DEF DaemonStep, BootStep, DrainStep, WritePidFile, RegisterHandlers, Binds, BindFails, StartHttp,
        Exits, SkipHttp, GivesUp, Crashes, files
  <2>4. Serving(e)' => Serving(e) \/ WritePortFile(d)
    BY <1>4, DaemonStepsAlone, NobodyIsNoDaemon DEF Serving, Up, Alive
  <2>. QED  BY <1>3, <2>1, <2>2, <2>3, <2>4
<1>5. ASSUME NEW c \in Commands, StartStep(c) PROVE portFile'
  <2>1. portFile' = portFile /\ portOwner' = portOwner
    BY <1>5
    DEF StartStep, EnsureDaemon, StartForced, PortIsFree, PortIsHeld, TryAcquireLockFile,
        RepairLock, RetryLock,
        SpawnDaemon, FoundUnderLock, WaitForDaemonPid, WaitTimesOut, StarterDies, files
  <2>2. daemon'[e] = daemon[e] \/ daemon'[e].at = "booting"
    BY <1>5
    DEF StartStep, EnsureDaemon, StartForced, PortIsFree, PortIsHeld, TryAcquireLockFile,
        RepairLock, RetryLock,
        SpawnDaemon, FoundUnderLock, WaitForDaemonPid, WaitTimesOut, StarterDies, Spawns, Shapes,
        DaemonRecord
  <2>. QED  BY <1>3, <2>1, <2>2 DEF Serving, HasServer, Up, Alive
<1>6. ASSUME NEW D \in SUBSET Daemons, Signal(D), portFile' = portFile PROVE portFile'
  BY <1>3, <1>6, SignalEnds, NobodyIsNoDaemon DEF Serving, Up, Alive
<1>7. ASSUME NEW c \in Commands, StopStep(c) PROVE portFile'
  <2>1. CASE StopDaemon(c)
    BY <1>6, <2>1 DEF StopDaemon, TrackedRuns, Alive, Shapes
  <2>2. CASE ReapZombies(c)
    BY <1>6, <2>2 DEF ReapZombies, Living, files
  <2>3. CASE SkipReaper(c)
    BY <1>3, <2>3 DEF SkipReaper, files, Serving, Up, Alive
  <2>4. CASE SweepGhost(c)
    <3>1. portFile' = portFile /\ ((portOwner' = portOwner /\ daemon' = daemon) \/ portOwner' = Nobody)
      BY <2>4 DEF SweepGhost, files
    <3>. QED  BY <1>3, <3>1, NobodyIsNoDaemon DEF Serving, Up, Alive
  <2>. QED  BY <1>7, <2>1, <2>2, <2>3, <2>4 DEF StopStep
<1>8. CASE LockAges \/ UNCHANGED launchVars
  BY <1>3, <1>8 DEF LockAges, launchVars, files, Serving, Up, Alive
<1>. QED  BY <1>4, <1>5, <1>7, <1>8 DEF Next, DaemonStep

(* Whoever asks before starting another daemon finds the one that serves.  *)
THEOREM ServingIsFoundByPort == LaunchSpec => []FoundByPort
<1>1. Init => FoundInv
  BY DEF Init, FoundInv, Serving, Up, Alive, Dead
<1>2. TypeOK /\ FoundInv => FoundByPort
  BY NobodyIsNoDaemon DEF FoundInv, FoundByPort, IsDaemonRunning, PortOwnershipLiveness, Serving
<1>. QED  BY <1>1, <1>2, FoundKept, LaunchTypeCorrect, PTL DEF LaunchSpec

-----------------------------------------------------------------------------
(* One daemon *)

Trusted == "misled" \notin hist
Booting(d) == daemon[d].at = "booting"

LockStands == \A c \in Holders : lock.by = {c}
BootWatched == \A d \in Daemons : Booting(d) => \E c \in Commands : command[c].at = "await"
BootsAlone == \A d, e \in Daemons : Booting(d) /\ Up(e) => d = e
UpIsTracked == \A d \in Daemons : Up(d) /\ ~Booting(d) => pidFile = d
OneInv == Trusted => LockStands /\ BootWatched /\ BootsAlone /\ UpIsTracked

LEMMA OneInvImplies == TypeOK /\ OneInv => OneDaemon
  BY DEF OneInv, OneDaemon, Trusted, BootsAlone, UpIsTracked

(* What is trusted after a step was before it, or is started afresh.       *)
LEMMA TrustIsLost ==
  [Next]_launchVars /\ Trusted'
    => Trusted \/ \E c \in Commands : SpawnDaemon(c) /\ StartsAfresh(c)
  BY DEF Trusted, Next, StartStep, EnsureDaemon, StartForced, PortIsFree, PortIsHeld,
      TryAcquireLockFile, RepairLock, RetryLock, SpawnDaemon, FoundUnderLock, WaitForDaemonPid, WaitTimesOut,
      StarterDies, StopStep, StopDaemon, ReapZombies, SkipReaper, SweepGhost, LockAges, BootStep,
      DrainStep, WritePidFile, RegisterHandlers, Binds, BindFails, WritePortFile, StartHttp,
      ServerClosed, Exits,
      SkipHttp, GivesUp, Crashes, PidFileSetBy, Noted, launchVars

(* A daemon started under the lock, with none up, is the only one.         *)
LEMMA FreshStart ==
  ASSUME Shapes, \A d \in Daemons : Fit(d), NEW c \in Commands, SpawnDaemon(c), StartsAfresh(c)
  PROVE  LockStands' /\ BootWatched' /\ BootsAlone' /\ UpIsTracked'
<1>1. /\ lock' = lock /\ command'[c].at = "await"
      /\ \A x \in Commands \ {c} : command'[x] = command[x]
  BY DEF SpawnDaemon, Goes, Shapes, CommandRecord
<1>2. ~(\E d \in Daemons : Booting(d))
  BY NobodyIsNoDaemon DEF StartsAfresh, Up, Alive, Booting, Fit
<1>3. PICK d \in Daemons : daemon' = [daemon EXCEPT ![d].at = "booting"]
  BY DEF SpawnDaemon, Spawns
<1>4. \A e \in Daemons : Up(e)' \/ Booting(e)' => e = d /\ Booting(d)'
  BY <1>2, <1>3 DEF StartsAfresh, Up, Alive, Booting, Shapes, DaemonRecord
<1>5. LockStands'
  BY <1>1 DEF StartsAfresh, LockStands, Holders
<1>. QED  BY <1>1, <1>4, <1>5 DEF BootWatched, BootsAlone, UpIsTracked

LEMMA DaemonStepKeepsOne ==
  ASSUME Shapes, \A d \in Daemons : Fit(d), NEW d \in Daemons, DaemonStep(d), Trusted', Trusted,
         LockStands, BootWatched, BootsAlone, UpIsTracked
  PROVE  LockStands' /\ BootWatched' /\ BootsAlone' /\ UpIsTracked'
<1>1. command' = command /\ lock' = lock
  BY DEF DaemonStep, BootStep, DrainStep, WritePidFile, RegisterHandlers, Binds, BindFails,
         WritePortFile, StartHttp,
      ServerClosed, Exits, SkipHttp, GivesUp, Crashes
<1>2. /\ \A e \in Daemons : Up(e)' => Up(e)
      /\ \A e \in Daemons : Booting(e)' => Booting(e) /\ e # d
      /\ \A e \in Daemons \ {d} : Up(e)' /\ ~Booting(e)' => ~Booting(e)
  BY DaemonStepsAlone, NobodyIsNoDaemon DEF Up, Alive, Booting
<1>3. LockStands' /\ BootWatched' /\ BootsAlone'
  BY <1>1, <1>2 DEF LockStands, Holders, BootWatched, BootsAlone
<1>4. ASSUME NEW e \in Daemons, Up(e)', ~Booting(e)' PROVE pidFile' = e
  <2>1. CASE Booting(d)
    <3>1. e = d
      BY <1>2, <1>4, <2>1 DEF BootsAlone
    <3>2. WritePidFile(d) \/ Crashes(d)
      BY <2>1, NobodyIsNoDaemon
      DEF Booting, DaemonStep, BootStep, DrainStep, WritePidFile, RegisterHandlers, Binds, BindFails,
          WritePortFile, StartHttp, ServerClosed, Exits, SkipHttp, GivesUp, Crashes, Steps, Fit
    <3>3. ~Crashes(d)
      BY <1>4, <3>1 DEF Crashes, Up, Alive, Dead, Shapes
    <3>. QED  BY <3>1, <3>2, <3>3 DEF WritePidFile, PidFileSetBy
  <2>2. CASE ~Booting(d)
    <3>1. Up(e) /\ ~Booting(e) /\ pidFile = e
      BY <1>2, <1>4, <2>2 DEF UpIsTracked
    <3>2. CASE pidFile' = pidFile
      BY <3>1, <3>2
    <3>3. CASE \E to \in {d, Nobody} : PidFileSetBy(d, to)
      <4>1. e = d
        BY <3>1, <3>3 DEF PidFileSetBy, Noted, Trusted, Up
      <4>2. ~Exits(d) /\ ~GivesUp(d)
        BY <1>4, <4>1 DEF Exits, GivesUp, Up, Alive, Dead, Shapes
      <4>. QED
        BY <2>2, <3>1, <4>1, <4>2
        DEF DaemonStep, BootStep, DrainStep, WritePidFile, RegisterHandlers, Binds, BindFails,
            WritePortFile, StartHttp, ServerClosed, SkipHttp, Crashes, PidFileSetBy, files
    <3>. QED
      BY <3>2, <3>3
      DEF DaemonStep, BootStep, DrainStep, WritePidFile, RegisterHandlers, Binds, BindFails,
          WritePortFile, StartHttp, ServerClosed, Exits, SkipHttp, GivesUp, Crashes, files
  <2>. QED  BY <2>1, <2>2
<1>. QED  BY <1>3, <1>4 DEF UpIsTracked

LEMMA StopStepKeepsOne ==
  ASSUME Shapes, \A d \in Daemons : Fit(d), NEW c \in Commands, StopStep(c), Trusted,
         LockStands, BootWatched, BootsAlone, UpIsTracked
  PROVE  LockStands' /\ BootWatched' /\ BootsAlone' /\ UpIsTracked'
<1>1. lock' = lock /\ (\A x \in Commands \ {c} : command'[x] = command[x])
      /\ command[c].at \notin {"spawn", "await"} /\ command'[c].at \notin {"spawn", "await"}
  BY DEF StopStep, StopDaemon, ReapZombies, SkipReaper, SweepGhost, Returns, Idle, Shapes
<1>2. /\ \A e \in Daemons : Up(e)' => daemon'[e] = daemon[e]
      /\ \A e \in Daemons : Booting(e)' => daemon'[e] = daemon[e]
      /\ pidFile' = pidFile \/ \A e \in Daemons : Up(e)' => e # pidFile
  <2>1. ASSUME NEW D \in SUBSET Daemons, Signal(D)
        PROVE  \A e \in Daemons : /\ Up(e)' => daemon'[e] = daemon[e] /\ e \notin D
                                  /\ Booting(e)' => daemon'[e] = daemon[e]
    BY <2>1, SignalEnds DEF Booting
  <2>2. CASE StopDaemon(c)
    <3>1. CASE TrackedRuns
      <4>1. {pidFile} \in SUBSET Daemons /\ Signal({pidFile})
        BY <2>2, <3>1 DEF StopDaemon, TrackedRuns, Alive, Shapes
      <4>. QED  BY <2>1, <4>1
    <3>2. CASE ~TrackedRuns
      <4>1. Signal({})
        BY <2>2, <3>2 DEF StopDaemon
      <4>2. \A e \in Daemons : daemon'[e] = daemon[e]
        BY <4>1, SignalEnds
      <4>. QED  BY <3>2, <4>2, NobodyIsNoDaemon DEF Up, Alive, TrackedRuns, Booting
    <3>. QED  BY <3>1, <3>2
  <2>3. CASE ReapZombies(c)
    BY <2>1, <2>3 DEF ReapZombies, Living, files
  <2>4. CASE SkipReaper(c)
    BY <2>4 DEF SkipReaper, files
  <2>5. CASE SweepGhost(c)
    <3>1. pidFile' = pidFile
      BY <2>5 DEF SweepGhost, files
    <3>2. daemon' = daemon \/ (portOwner \in Daemons /\ daemon' = [daemon EXCEPT ![portOwner] = Dead])
      BY <2>5 DEF SweepGhost, Shapes, CommandRecord
    <3>3. ASSUME NEW e \in Daemons PROVE daemon'[e] = daemon[e] \/ daemon'[e] = Dead
      BY <3>2 DEF Shapes
    <3>. QED  BY <3>1, <3>3 DEF Up, Alive, Dead, Booting
  <2>. QED  BY <2>2, <2>3, <2>4, <2>5 DEF StopStep
<1>3. \A e \in Daemons : (Up(e)' => Up(e) /\ (Booting(e)' <=> Booting(e))) /\ (Booting(e)' => Booting(e))
  BY <1>2 DEF Up, Alive, Booting
<1>4. LockStands' /\ BootWatched'
  BY <1>1, <1>3 DEF LockStands, Holders, BootWatched
<1>5. BootsAlone'
  BY <1>3 DEF BootsAlone
<1>6. UpIsTracked'
  BY <1>2, <1>3 DEF UpIsTracked
<1>. QED  BY <1>4, <1>5, <1>6

LEMMA StartStepKeepsOne ==
  ASSUME Shapes, \A d \in Daemons : Fit(d), NEW c \in Commands, StartStep(c), Trusted', Trusted,
         LockStands, BootWatched, BootsAlone, UpIsTracked
  PROVE  LockStands' /\ BootWatched' /\ BootsAlone' /\ UpIsTracked'
<1>. DEFINE at == command[c].at
<1>. DEFINE at2 == command'[c].at
<1>1. /\ \A x \in Commands \ {c} : command'[x] = command[x]
      /\ at2 = "spawn" => (TryAcquireLockFile(c) \/ RetryLock(c)) /\ Acquire(c)
      /\ at2 = "await" => SpawnDaemon(c)
      /\ at = "spawn" => SpawnDaemon(c) \/ FoundUnderLock(c) \/ StarterDies(c)
      /\ at = "await" => at2 = "idle"
  <2>1. ASSUME NEW to, Goes(c, to)
        PROVE  at2 = to /\ \A x \in Commands \ {c} : command'[x] = command[x]
    BY <2>1 DEF Goes, Shapes, CommandRecord
  <2>2. ASSUME Returns(c)
        PROVE  at2 = "idle" /\ \A x \in Commands \ {c} : command'[x] = command[x]
    BY <2>2 DEF Returns, Idle, Shapes
  <2>3. CASE EnsureDaemon(c) \/ StartForced(c)
    BY <2>1, <2>3 DEF EnsureDaemon, StartForced
  <2>4. CASE PortIsFree(c) \/ PortIsHeld(c)
    BY <2>1, <2>2, <2>4 DEF PortIsFree, PortIsHeld
  <2>5. CASE TryAcquireLockFile(c)
    BY <2>1, <2>5 DEF TryAcquireLockFile
  <2>6. CASE RepairLock(c) \/ RetryLock(c)
    BY <2>1, <2>6 DEF RepairLock, RetryLock
  <2>7. CASE SpawnDaemon(c)
    BY <2>1, <2>7 DEF SpawnDaemon
  <2>8. CASE FoundUnderLock(c)
    BY <2>2, <2>8 DEF FoundUnderLock
  <2>9. CASE WaitForDaemonPid(c) \/ WaitTimesOut(c)
    BY <2>2, <2>9 DEF WaitForDaemonPid, WaitTimesOut
  <2>10. CASE StarterDies(c)
    BY <2>2, <2>10 DEF StarterDies
  <2>. QED  BY <2>3, <2>4, <2>5, <2>6, <2>7, <2>8, <2>9, <2>10 DEF StartStep
<1>2. c \in Holders => Holders = {c}
  BY DEF LockStands, Holders
<1>3. (\E d \in Daemons : Booting(d)) => \E h \in Holders : command[h].at = "await"
  BY DEF BootWatched, Holders
<1>4. CASE SpawnDaemon(c)
  <2>1. at = "spawn" /\ ~TrackedRuns
    BY <1>4 DEF SpawnDaemon
  <2>2. Holders = {c} /\ lock.by = {c} /\ ~(\E d \in Daemons : Booting(d))
    BY <1>2, <1>3, <2>1 DEF Holders, LockStands
  <2>3. StartsAfresh(c)
    BY <2>1, <2>2 DEF StartsAfresh, UpIsTracked, Up, TrackedRuns
  <2>. QED  BY <1>4, <2>3, FreshStart
<1>5. CASE ~SpawnDaemon(c)
  <2>1. daemon' = daemon
    BY <1>5
    DEF StartStep, EnsureDaemon, StartForced, PortIsFree, PortIsHeld, TryAcquireLockFile,
        RepairLock, RetryLock,
        FoundUnderLock, WaitForDaemonPid, WaitTimesOut, StarterDies
  <2>2. pidFile' = pidFile \/ (~TrackedRuns /\ pidFile' = Nobody)
    BY <1>5
    DEF StartStep, EnsureDaemon, StartForced, PortIsFree, PortIsHeld, TryAcquireLockFile,
        RepairLock, RetryLock,
        FoundUnderLock, WaitForDaemonPid, WaitTimesOut, StarterDies, StatusRead, files
  <2>3. BootsAlone' /\ UpIsTracked'
    BY <2>1, <2>2, NobodyIsNoDaemon DEF BootsAlone, UpIsTracked, Up, Alive, Booting, TrackedRuns
  <2>4. at = "await" => ~(\E d \in Daemons : Booting(d))
    BY <1>5
    DEF StartStep, EnsureDaemon, StartForced, PortIsFree, PortIsHeld, TryAcquireLockFile,
        RepairLock, RetryLock,
        FoundUnderLock, WaitForDaemonPid, WaitTimesOut, StarterDies, Noted, Trusted, Booting
  <2>5. BootWatched'
    BY <1>1, <2>1, <2>4 DEF BootWatched, Booting
  <2>6. LockStands'
    <3>1. CASE at2 = "spawn"
      <4>1. lock'.by = {c}
        BY <1>1, <3>1 DEF Acquire
      <4>2. Holders = {}
        BY <1>1, <3>1 DEF Acquire, NoLock, LockStands
      <4>. QED  BY <1>1, <4>1, <4>2 DEF LockStands, Holders
    <3>2. CASE at2 # "spawn"
      <4>1. at2 # "await"
        BY <1>1, <1>5
      <4>2. CASE RepairLock(c)
        <5>1. Holders = {}
          BY <4>2 DEF RepairLock, Noted, Trusted, LockStands
        <5>. QED  BY <1>1, <3>2, <4>1, <5>1 DEF LockStands, Holders
      <4>3. CASE c \in Holders
        BY <1>1, <1>2, <3>2, <4>1, <4>3 DEF LockStands, Holders
      <4>4. CASE c \notin Holders /\ ~RepairLock(c)
        <5>1. lock' = lock
          BY <1>5, <3>2, <4>4
          DEF StartStep, EnsureDaemon, StartForced, PortIsFree, PortIsHeld, TryAcquireLockFile,
              RetryLock, FoundUnderLock, WaitForDaemonPid, WaitTimesOut, StarterDies, Holders, Goes,
              Shapes, CommandRecord
        <5>. QED  BY <1>1, <3>2, <4>1, <5>1 DEF LockStands, Holders
      <4>. QED  BY <4>2, <4>3, <4>4
    <3>. QED  BY <3>1, <3>2
  <2>. QED  BY <2>3, <2>5, <2>6
<1>. QED  BY <1>4, <1>5

LEMMA OneKept == TypeOK /\ OneInv /\ [Next]_launchVars => OneInv'
<1>. SUFFICES ASSUME TypeOK, OneInv, [Next]_launchVars, Trusted'
              PROVE  LockStands' /\ BootWatched' /\ BootsAlone' /\ UpIsTracked'
  BY DEF OneInv
<1>a. Shapes /\ \A d \in Daemons : Fit(d)
  BY TypeOKParts
<1>b. CASE \E c \in Commands : SpawnDaemon(c) /\ StartsAfresh(c)
  BY <1>a, <1>b, FreshStart
<1>c. SUFFICES ASSUME Trusted PROVE LockStands' /\ BootWatched' /\ BootsAlone' /\ UpIsTracked'
  BY <1>b, TrustIsLost
<1>1. /\ Trusted /\ LockStands /\ BootWatched /\ BootsAlone /\ UpIsTracked
      /\ Shapes /\ \A d \in Daemons : Fit(d)
  BY <1>a, <1>c DEF OneInv
<1>2. CASE LockAges
  <2>1. lock'.by = lock.by
    BY <1>1, <1>2 DEF LockAges, Shapes
  <2>. QED
    BY <1>1, <1>2, <2>1
    DEF LockAges, files, LockStands, Holders, BootWatched, BootsAlone, UpIsTracked, Up, Alive,
        Booting
<1>3. CASE UNCHANGED launchVars
  BY <1>1, <1>3
  DEF launchVars, LockStands, Holders, BootWatched, BootsAlone, UpIsTracked, Up, Alive, Booting
<1>. QED
  BY <1>1, <1>2, <1>3, StartStepKeepsOne, StopStepKeepsOne, DaemonStepKeepsOne DEF Next, DaemonStep

(* Racing starters leave one daemon up, while lock and pid file stand for  *)
(* the live: the holder of the lock is the one that spawns, a booting      *)
(* daemon is up alone, and any other that is up is in the pid file.        *)
THEOREM OneDaemonAtATime == LaunchSpec => []OneDaemon
<1>1. Init => OneInv
  BY DEF Init, OneInv, LockStands, Holders, Idle, BootWatched, BootsAlone, UpIsTracked, Up, Alive,
      Booting, Dead
<1>. QED  BY <1>1, OneKept, OneInvImplies, LaunchTypeCorrect, PTL DEF LaunchSpec

=============================================================================
