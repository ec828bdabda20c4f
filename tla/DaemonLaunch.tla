----------------------------- MODULE DaemonLaunch -----------------------------
(***************************************************************************)
(* Starting and stopping the daemon of a profile: the commands that do it  *)
(* (cli/daemon.ts) and the daemon's own boot and drain (daemon.ts), which  *)
(* share a start lock, a pid file, a port file and the port.               *)
(*                                                                         *)
(* A step is a stretch up to the next await, or to a call that takes time: *)
(* a process scan, a port probe; the lock is read in one and removed in    *)
(* another.  A process is taken for alive when it is, and a pid file that  *)
(* names none for none.  Signals are those of POSIX.                       *)
(***************************************************************************)
EXTENDS Naturals, FiniteSets

CONSTANTS
  Commands,    \* processes that start or stop the daemon
  MaxDaemons,  \* bound on daemons at once
  MaxFaults    \* bound on crashes, failed boots, timeouts and incomplete scans

ASSUME LaunchBoundsAssumption == {MaxDaemons, MaxFaults} \subseteq Nat

Daemons == 1..MaxDaemons
Nobody == 0

VARIABLES
  daemon,     \* the daemons: how far they are, draining, closing their server
  pidFile,    \* daemon.pid: the daemon it names
  portFile,   \* whether daemon.port is there
  portOwner,  \* the daemon that listens on the port
  lock,       \* daemon.pid.lock: the command that holds it, and whether it looks stale
  command,    \* the commands
  faults,     \* things that went wrong so far
  hist        \* "misled": the lock or the pid file stopped standing for a live
              \* daemon or starter, until the lock's one holder starts a daemon
              \* and none is up; "delisted": the port file of a daemon that
              \* serves was removed, until one is written

launchVars == <<daemon, pidFile, portFile, portOwner, lock, command, faults, hist>>
files == <<pidFile, portFile>>

Dead == [at |-> "dead", draining |-> FALSE, closing |-> FALSE]
NoLock == [by |-> {}, stale |-> FALSE]
Idle == [at |-> "idle", pids |-> {}]

Alive(d) == d # Nobody /\ daemon[d].at # "dead"
Living == {d \in Daemons : Alive(d)}
Up(d) == Alive(d) /\ ~daemon[d].draining
HasServer == {"listed", "serving"}
Serving(d) == Up(d) /\ daemon[d].at \in HasServer /\ portOwner = d

Faulty == faults < MaxFaults /\ faults' = faults + 1
Sound == UNCHANGED faults
Noted(what, when) == hist' = IF when THEN hist \cup {what} ELSE hist

Init ==
  /\ daemon = [d \in Daemons |-> Dead]
  /\ pidFile = Nobody /\ portFile = FALSE /\ portOwner = Nobody
  /\ lock = NoLock
  /\ command = [c \in Commands |-> Idle]
  /\ faults = 0 /\ hist = {}

-----------------------------------------------------------------------------
(* What the commands conclude from the files *)

(* getDaemonStatus; it removes the pid file of a process that is gone.  The *)
(* port is the one in the port file; it is not given by the environment.   *)
TrackedRuns == Alive(pidFile)
StatusRead == pidFile' = IF TrackedRuns THEN pidFile ELSE Nobody

PortUnknown == FALSE
PortOwnershipLiveness == portFile /\ portOwner # Nobody
IsDaemonRunning == TrackedRuns \/ PortOwnershipLiveness

LockIsStale == lock.stale
Holders == {c \in Commands : command[c].at \in {"spawn", "await"}}

Goes(c, at) == command' = [command EXCEPT ![c].at = at]
Returns(c) == command' = [command EXCEPT ![c] = Idle]

-----------------------------------------------------------------------------
(* startDaemon: asked for by whoever finds none running, or by the command *)
(* that forces it.                                                         *)
EnsureDaemon(c) ==
  /\ command[c].at = "idle" /\ ~IsDaemonRunning
  /\ StatusRead
  /\ Goes(c, "port")
  /\ UNCHANGED <<daemon, portFile, portOwner, lock, faults, hist>>
StartForced(c) ==
  /\ command[c].at = "idle" /\ ~TrackedRuns
  /\ StatusRead
  /\ Goes(c, "port")
  /\ UNCHANGED <<daemon, portFile, portOwner, lock, faults, hist>>

(* assertDaemonPortFree waits for a daemon that drains, then refuses. *)
PortIsFree(c) ==
  /\ command[c].at = "port" /\ portOwner = Nobody
  /\ Goes(c, "lock")
  /\ UNCHANGED <<daemon, files, portOwner, lock, faults, hist>>
PortIsHeld(c) ==
  /\ command[c].at = "port" /\ portOwner # Nobody
  /\ Returns(c)
  /\ UNCHANGED <<daemon, files, portOwner, lock, faults, hist>>

Acquire(c) == lock = NoLock /\ lock' = [by |-> {c}, stale |-> FALSE]
TryAcquireLockFile(c) ==
  /\ command[c].at = "lock"
  /\ \/ Acquire(c) /\ Goes(c, "spawn")
     \/ lock # NoLock /\ UNCHANGED lock /\ Goes(c, IF LockIsStale THEN "repair" ELSE "wait")
  /\ UNCHANGED <<daemon, files, portOwner, faults, hist>>

(* The lock that looked stale is unlinked, whichever it is by then; who    *)
(* loses the one retry to another starter waits for its daemon.            *)
RepairLock(c) ==
  /\ command[c].at = "repair"
  /\ lock' = NoLock /\ Noted("misled", lock.by \cap Holders # {})
  /\ Goes(c, "retry")
  /\ UNCHANGED <<daemon, files, portOwner, faults>>
RetryLock(c) ==
  /\ command[c].at = "retry"
  /\ \/ Acquire(c) /\ Goes(c, "spawn")
     \/ lock # NoLock /\ UNCHANGED lock /\ Goes(c, "wait")
  /\ UNCHANGED <<daemon, files, portOwner, faults, hist>>

Release(c) == lock' = NoLock

(* The status is read again under the lock.                                *)
Spare == {d \in Daemons : daemon[d].at = "dead" /\ \A c \in Commands : d \notin command[c].pids}
Spawns(d) ==
  /\ d \in Spare /\ \A e \in Spare : d <= e
  /\ daemon' = [daemon EXCEPT ![d].at = "booting"]
SpawnUnchecked(c) ==
  /\ command[c].at = "spawn"
  /\ \E d \in Daemons : Spawns(d)
  /\ Goes(c, "await")
  /\ UNCHANGED <<files, portOwner, lock, faults, hist>>
StartsAfresh(c) == lock.by = {c} /\ Holders = {c} /\ ~\E d \in Daemons : Up(d)
SpawnDaemon(c) ==
  /\ command[c].at = "spawn" /\ ~TrackedRuns
  /\ StatusRead
  /\ \E d \in Daemons : Spawns(d)
  /\ hist' = IF StartsAfresh(c) THEN hist \ {"misled"} ELSE hist
  /\ Goes(c, "await")
  /\ UNCHANGED <<portFile, portOwner, lock, faults>>
FoundUnderLock(c) ==
  /\ command[c].at = "spawn" /\ TrackedRuns
  /\ Release(c) /\ Returns(c)
  /\ UNCHANGED <<daemon, files, portOwner, faults, hist>>

(* Any live process the pid file names will do, not just the one spawned.  *)
WaitForDaemonPid(c) ==
  /\ TrackedRuns
  /\ \/ /\ command[c].at = "await" /\ Release(c)
        /\ Noted("misled", \E d \in Daemons : daemon[d].at = "booting")
     \/ command[c].at = "wait" /\ UNCHANGED <<lock, hist>>
  /\ Returns(c)
  /\ UNCHANGED <<daemon, files, portOwner, faults>>
WaitTimesOut(c) ==
  /\ ~TrackedRuns /\ StatusRead /\ Faulty
  /\ \/ command[c].at = "await" /\ Release(c) /\ Noted("misled", TRUE)
     \/ command[c].at = "wait" /\ UNCHANGED <<lock, hist>>
  /\ Returns(c)
  /\ UNCHANGED <<daemon, portFile, portOwner>>

(* A starter dies and leaves its lock; a lock turns thirty seconds old.    *)
StarterDies(c) ==
  /\ command[c].at \in {"spawn", "await"} /\ Faulty
  /\ lock' = [lock EXCEPT !.stale = @ \/ lock.by = {c}]
  /\ Noted("misled", command[c].at = "await")
  /\ Returns(c)
  /\ UNCHANGED <<daemon, files, portOwner>>
LockAges ==
  /\ lock # NoLock /\ ~lock.stale /\ Faulty
  /\ lock' = [lock EXCEPT !.stale = TRUE]
  /\ UNCHANGED <<daemon, files, portOwner, command, hist>>

-----------------------------------------------------------------------------
(* stopDaemon *)

(* SIGTERM ends a daemon that has no handler yet; the handler drains, and   *)
(* closes the server when it is up.                                         *)
Terminated(d) ==
  IF daemon[d].at \in {"booting", "starting"} THEN Dead
  ELSE IF daemon[d].draining \/ ~Alive(d) THEN daemon[d]
  ELSE [at |-> daemon[d].at, draining |-> TRUE, closing |-> daemon[d].at \in HasServer]
Signal(D) ==
  /\ daemon' = [d \in Daemons |-> IF d \in D THEN Terminated(d) ELSE daemon[d]]
  /\ portOwner' = IF portOwner \in D /\ daemon[portOwner].at \in HasServer THEN Nobody ELSE portOwner

StopDaemon(c) ==
  /\ command[c].at = "idle"
  /\ LET tracked == IF TrackedRuns THEN {pidFile} ELSE {} IN
       /\ Signal(tracked)
       /\ command' = [command EXCEPT ![c] = [at |-> "scan", pids |-> tracked]]
  /\ pidFile' = Nobody
  /\ UNCHANGED <<portFile, lock, faults, hist>>

(* The reaper signals what a scan shows; what one missed stays.  It is     *)
(* skipped when the other profile may be running.                          *)
ReapZombies(c) ==
  /\ command[c].at = "scan"
  /\ LET untracked == Living \ command[c].pids IN
       \E zombies \in SUBSET untracked :
         /\ IF zombies = untracked THEN Sound ELSE Faulty
         /\ Signal(zombies)
  /\ Returns(c)
  /\ UNCHANGED <<files, lock, hist>>
SkipReaper(c) ==
  /\ command[c].at = "scan"
  /\ command' = [command EXCEPT ![c] = [at |-> "sweep", pids |-> Living \ @.pids]]
  /\ UNCHANGED <<daemon, files, portOwner, lock, faults, hist>>
(* A daemon that holds the port and was not signalled is killed.           *)
SweepGhost(c) ==
  /\ command[c].at = "sweep"
  /\ IF portOwner \in command[c].pids
     THEN daemon' = [daemon EXCEPT ![portOwner] = Dead] /\ portOwner' = Nobody
     ELSE UNCHANGED <<daemon, portOwner>>
  /\ Returns(c)
  /\ UNCHANGED <<files, lock, faults, hist>>

-----------------------------------------------------------------------------
(* The daemon *)

Moves(d, at) == daemon' = [daemon EXCEPT ![d].at = at]
Steps(d, from, to) == daemon[d].at = from /\ Moves(d, to)
PidFileSetBy(d, to) ==
  pidFile' = to /\ Noted("misled", Alive(pidFile) /\ pidFile # d)
PortReleasedBy(d) == portOwner' = IF portOwner = d THEN Nobody ELSE portOwner

WritePidFile(d) ==
  /\ Steps(d, "booting", "starting") /\ PidFileSetBy(d, d)
  /\ UNCHANGED <<portFile, portOwner, lock, command, faults>>
RegisterHandlers(d) ==
  /\ Steps(d, "starting", "ready")
  /\ UNCHANGED <<files, portOwner, lock, command, faults, hist>>
SkipHttp(d) ==
  /\ Steps(d, "ready", "deaf") /\ Faulty
  /\ UNCHANGED <<files, portOwner, lock, command, hist>>

(* The boot binds even while it drains; the retry loop does not.           *)
Binds(d) ==
  /\ \/ daemon[d].at = "ready"
     \/ daemon[d].at = "retrying" /\ ~daemon[d].draining
  /\ portOwner = Nobody /\ portOwner' = d
  /\ Moves(d, "bound")
  /\ UNCHANGED <<files, lock, command, faults, hist>>
BindGivesUp(d) ==
  /\ portOwner # Nobody /\ Steps(d, "ready", "unbound")
  /\ UNCHANGED <<files, portOwner, lock, command, faults, hist>>
BindFails(d) ==
  /\ portOwner # Nobody /\ Steps(d, "ready", "retrying")
  /\ UNCHANGED <<files, portOwner, lock, command, faults, hist>>
(* It owns the port, so it writes both files, one after the other; a drain *)
(* that began before it had a server to close is made up for.              *)
WritePortFile(d) ==
  /\ Steps(d, "bound", "listed")
  /\ portFile' = TRUE /\ hist' = hist \ {"delisted"}
  /\ UNCHANGED <<pidFile, portOwner, lock, command, faults>>
StartHttp(d) ==
  /\ daemon[d].at = "listed"
  /\ daemon' = [daemon EXCEPT ![d] =
       [at |-> "serving", draining |-> @.draining, closing |-> @.draining]]
  /\ PidFileSetBy(d, d)
  /\ IF daemon[d].draining THEN PortReleasedBy(d) ELSE UNCHANGED portOwner
  /\ UNCHANGED <<portFile, lock, command, faults>>

(* The sockets of a closing server are gone: its port file goes.           *)
ServerClosed(d) ==
  /\ daemon[d].closing
  /\ daemon' = [daemon EXCEPT ![d].closing = FALSE]
  /\ portFile' = FALSE /\ Noted("delisted", \E e \in Daemons \ {d} : Serving(e))
  /\ UNCHANGED <<pidFile, portOwner, lock, command, faults>>
(* The workers have drained, or had their fifteen seconds.                 *)
Exits(d) ==
  /\ daemon[d].draining
  /\ daemon' = [daemon EXCEPT ![d] = Dead]
  /\ PidFileSetBy(d, Nobody) /\ PortReleasedBy(d)
  /\ UNCHANGED <<portFile, lock, command, faults>>
(* The preflight, the startup or the workers failed; these run beside a    *)
(* bind that is retried.                                                   *)
GivesUp(d) ==
  /\ daemon[d].at \in {"starting", "ready", "deaf", "retrying", "bound", "listed", "serving"}
  /\ Faulty
  /\ daemon' = [daemon EXCEPT ![d] = Dead]
  /\ PidFileSetBy(d, Nobody) /\ PortReleasedBy(d)
  /\ UNCHANGED <<portFile, lock, command>>
Crashes(d) ==
  /\ Alive(d) /\ Faulty
  /\ daemon' = [daemon EXCEPT ![d] = Dead]
  /\ PortReleasedBy(d)
  /\ UNCHANGED <<files, lock, command, hist>>

-----------------------------------------------------------------------------
StartStep(c) ==
  \/ EnsureDaemon(c) \/ StartForced(c) \/ PortIsFree(c) \/ PortIsHeld(c)
  \/ TryAcquireLockFile(c) \/ RepairLock(c) \/ RetryLock(c)
  \/ SpawnDaemon(c) \/ FoundUnderLock(c) \/ WaitForDaemonPid(c)
  \/ WaitTimesOut(c) \/ StarterDies(c)
StopStep(c) ==
  StopDaemon(c) \/ ReapZombies(c) \/ SkipReaper(c) \/ SweepGhost(c)
BootStep(d) ==
  \/ WritePidFile(d) \/ RegisterHandlers(d) \/ Binds(d) \/ BindFails(d)
  \/ WritePortFile(d) \/ StartHttp(d)
DrainStep(d) == ServerClosed(d) \/ Exits(d)

Next ==
  \/ \E c \in Commands : StartStep(c) \/ StopStep(c)
  \/ LockAges
  \/ \E d \in Daemons : BootStep(d) \/ DrainStep(d) \/ SkipHttp(d) \/ GivesUp(d) \/ Crashes(d)

(* A boot under way and a bind being retried go on.                        *)
LaunchSpec == Init /\ [][Next]_launchVars /\ \A d \in Daemons : WF_launchVars(BootStep(d))

-----------------------------------------------------------------------------
DaemonPoints ==
  {"booting", "starting", "ready", "deaf", "retrying", "unbound",
   "bound", "listed", "serving", "dead"}
CommandPoints ==
  {"idle", "port", "lock", "repair", "retry", "spawn", "await", "wait",
   "scan", "sweep"}

(* The shape of the state: only what drains and has a server closes, and   *)
(* the port is held by a daemon that got that far.                         *)
TypeOK ==
  /\ daemon \in [Daemons -> [at : DaemonPoints, draining : BOOLEAN, closing : BOOLEAN]]
  /\ {pidFile, portOwner} \subseteq Daemons \cup {Nobody} /\ portFile \in BOOLEAN
  /\ lock \in [by : SUBSET Commands, stale : BOOLEAN]
  /\ command \in [Commands -> [at : CommandPoints, pids : SUBSET Daemons]]
  /\ faults \in 0..MaxFaults
  /\ hist \subseteq {"misled", "delisted"}
  /\ \A d \in Daemons :
       /\ daemon[d].closing => daemon[d].draining /\ daemon[d].at \in HasServer
       /\ daemon[d].draining => daemon[d].at \notin {"dead", "booting", "starting"}
       /\ portOwner = d => daemon[d].at \in {"bound"} \cup HasServer

(* Starters that race do not start two daemons (startDaemon's lock, and    *)
(* the status read again under it), unless one took a live starter's lock  *)
(* for stale, gave a booting daemon up, died on it or took another for it, *)
(* or the pid file of a live daemon was changed by another daemon, and the *)
(* daemon has not been started afresh since.                               *)
OneDaemon ==
  "misled" \notin hist
    => \A d, e \in Daemons : Up(d) /\ Up(e) => d = e

(* A daemon that serves is found by whoever asks before starting another   *)
(* (isDaemonRunning), its pid file gone or not, unless another daemon      *)
(* removed its port file.                                                  *)
FoundByPort ==
  "delisted" \notin hist => \A d \in Daemons : Serving(d) => IsDaemonRunning

(* As long as a daemon with a Temporal client is up, someone gets to hold  *)
(* the port: a bind that failed is tried again (runHttpBindRetryLoop).     *)
ServesInTheEnd ==
  \A d \in Daemons :
    Up(d) /\ daemon[d].at # "deaf" ~> portOwner # Nobody \/ ~Up(d) \/ daemon[d].at = "deaf"

(* docs/troubleshooting.md: a missing pid file does not strand a live      *)
(* daemon; one that serves is always found.                                *)
ServingIsFound == \A d \in Daemons : Serving(d) => IsDaemonRunning
=============================================================================
