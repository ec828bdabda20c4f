# Verification of agent-tempo

TLA+ models of the coordination core of agent-tempo, checked with TLC on small
instances, with theorems about all nine detailed modules proved by TLAPS for every
value of their constants. Paths such as `src/workflows/session.ts` are relative to
the repository root; `PROJECT.json` names the source lines of every definition.

Contents: 1 the system and its parts, 2 the modules and how they correspond to
the code, 3 what the runs show, 4 fairness, 5 what is proved, 6 differences from
the documents, 7 what is not modelled, 8 the plan.

## 1. The system

agent-tempo lets coding agents on several machines work together. Each agent is
a *player* and is represented by a Temporal workflow; an *adapter*, a process
next to the agent, attaches to that workflow, takes the player's messages from
it and feeds them to the agent. The players of one *ensemble* share a conductor
(a player with extra state), a maestro workflow (chat hub), and a scheduler.
One daemon per machine runs the Temporal worker and an HTTP server that streams
the state of ensembles to the TUI and the web dashboard.

| part | where | state | operations |
|---|---|---|---|
| session workflow | `src/workflows/session.ts` | phase, attachment lease, in-flight messages, clocks, outbox, gates | claim, heartbeat, processing start/end, request/force detach, adapter exit, destroy, submit; a main loop that reaps deadlines and dispatches |
| conductor state | same file, `if (isConductor)` | reports, stages, quality gates, worktrees | seven signals; carried over continueAsNew |
| outbox activities | `src/activities/outbox.ts`, `resolve.ts` | none; at-least-once | deliver cue, report, broadcast, recruit, restart, migrate, destroy |
| hard terminate | `src/activities/hard-terminate.ts` | OS processes | kill by player name |
| scheduler workflow | `src/workflows/scheduler.ts` | entries by next fire, pause flag | add, remove, rename target, pause; a loop that sleeps, fires and reschedules |
| maestro workflow | `src/workflows/maestro.ts` | chat, Q&A, ensemble flags | append, ask, answer, pause |
| adapters | `src/adapters/` | attachment token, heartbeat and watcher timers, reconnect loop | claim, renew, detach, reconnect with backoff |
| Pi extension | `src/pi/` | pump, last injected cue, phase driver | fetch, inject, acknowledge, escalate, reset |
| aggregate and bus | `src/http/aggregate.ts`, `event-bus.ts`, `ring-buffer.ts` | tracks (what was told), rings, rate windows | poll, diff, emit, compress, tear down |
| SSE handler and client | `src/http/sse-handler.ts`, `src/client/subscribe.ts` | subscriptions, cursors | snapshot, replay, gap, reconnect |
| orphan reconciliation | `src/reconcile/orphans.ts` | none | confirm and destroy abandoned sessions |
| upgrade engine | `src/upgrade/phase-engine.ts` | snapshot file with a phase | preflight, pause, drain, freeze, snapshot, destroy, resume |
| daemon launch | `src/cli/daemon.ts`, `src/daemon.ts` | start lock, pid file, port file, port | start, stop, status, boot, drain |
| tools, CLI, TUI, dashboard | `src/tools/`, `src/cli/`, `src/tui/`, `dashboard/` | user input | submit outbox entries and signals |

How they interact. Tools and adapters talk to a session by signals and updates.
A session talks to others only through its outbox: the main loop runs one
activity per entry and the activity signals the target. Activities time out and
are retried. `continueAsNew` ends a run and starts the next with an explicit
input; signals in between are buffered. The daemon never hears of a change: it
polls, compares with what it last told, and emits the difference.

What is hard:

- *Awaits in handlers.* A workflow is single threaded, but a handler that awaits
  an activity goes on in a state others have changed (`forceDetach`, `destroy`,
  the drain reap).
- *One loop, many deadlines.* The main loop sleeps on the earliest deadline it
  knew of; handlers that bring one forward must wake it.
- *continueAsNew.* What is not carried, or carried by accident, is lost or comes
  back.
- *Order of signals.* A run drains buffered signals in the order its handlers
  are registered, not the order of arrival.
- *Objects shared with a batch.* The scheduler fires a batch of entries while
  signals replace and remove them.
- *Polling and retries.* A poll may hang, fail or be overtaken; a client
  may come back after the ring has turned over or the daemon was restarted.
- *Timed-out attempts.* An activity that is given up goes on, or its signal lands
  later; the next attempt meets what it did.
- *Answers that come late.* An adapter's heartbeat, query or claim is answered
  after a stop, a rebind or a reconnect has changed whom the answer is about.
- *Files as locks.* Starters and daemons that crash, stall or drain share a lock,
  a pid file and a port file that nobody cleans up for them.

What makes each part correct. *Session:* one adapter holds it at a time; phase,
lease and work agree; deadlines are kept; destroy is final and completes; what
must bypass a shut gate does. *Conductor:* a stage ends exactly when its players
are done, is announced once, and no report is lost to ordering. *Scheduler:*
due schedules are served on time and within their count. *Event stream:* a
client misses nothing without being told, nothing is told twice, and an end is
told. *Adapter:* while it is live its loops and its poller go on, once it ended
it falls silent, and it does not outlive its lease. *Delivery:* each cue reaches
the agent at least once and in order, and the newest reset is honoured.
*Restart:* an attachment has at most one process, and in the end one. *Upgrade:*
nothing is torn down before a durable snapshot, and a cutover that wrote one is
finished. *Daemon:* there is one, and it is found. *Orphans* (not modelled):
nothing alive is destroyed.

## 2. Modules

| module | models | kind |
|---|---|---|
| `AttachmentLease` | what a session promises about its lease | abstract specification |
| `SessionWorkflow` | attachment life cycle, outbox, main loop of a session | detailed; implements `AttachmentLease` |
| `SessionWorkflowProofs` | types, life cycle, sleep, refinement, action properties | theorems |
| `ConductorStages` | reports, stages, gates, worktrees, signal delivery | detailed |
| `Scheduler` | scheduler workflow and its clients | detailed |
| `EventStream` | poll loop, bus, SSE handler, subscriber of one ensemble | composition of four parts |
| `AdapterLifecycle` | base adapter, poller, and the session they attach to | composition of adapters and session; implements `AttachmentLease` |
| `CueDelivery` | outbox activity, inbox, cue pump, agent | composition of four parts |
| `RestartDelivery` | restart activities, session, spawn dispatch, processes | composition of four parts |
| `UpgradeEngine` | the cutover, its snapshot file, the cluster it works on | composition |
| `DaemonLaunch` | start and stop commands, daemons, their files and port | composition |
| `ConductorStagesProofs`, `AdapterLifecycleProofs`, `CueDeliveryProofs`, `RestartDeliveryProofs`, `UpgradeEngineProofs`, `DaemonLaunchProofs` | invariants of the module named | theorems |
| `SchedulerStreamProofs` | invariants of `Scheduler` and of `EventStream`, which share nothing but the module | theorems |
| `MCConductorStages`, `MCUpgradeEngine` | values for TLC | instances |

**SessionWorkflow.** The variables have the names of the code's. `currentAttachment`
keeps the id, the time left and the lease length; ids are numbered in the order
they are minted. Timestamps are durations: the time left on a lease counts down,
`processingSince` and `drainingSince` count up, and `Tick` moves them together.
`outbox` holds what is pending, `entry` what is being delivered, `shut` which of
`paused` and `outboxLocked` are set. `pc` is the place of the main loop. Code
between two awaits is atomic, so an action may run a whole handler, and handlers
run only while the loop is at an await (`HandlersRun`). `forceDetach` and
`destroy` are cut at their kill into Begin and End; the drain reap into
`CheckDraining` and `ReapDrained`. `CarriedInput` is the `...input` spread of
`continueAsNew`: `input` remembers what this run was started with. One heartbeat,
one renewal and one processing call stand for those of any adapter with the
current id; those with another id are refused and change nothing. (The code lets
a processing call that names no attachment through, for callers of an older
protocol; none is left in the repository.) `wakeEpoch`
says whether the counter moved since the loop went to sleep. A timer of zero
length sleeps for the least the loop sleeps.

**ConductorStages.** `board` is the conductor's state; a signal is applied by one
operator per handler (`Apply`). In a running workflow it is applied on arrival;
before the first task of a run it goes to `buffer`, and `DrainNext` takes out the
first signal in registration order. `inOrder` is the board had the same signals been
handled in the order they came in (`HandledInOrder`), for comparison. Notices to the
conductor are counted, not written. Ages of reports stop at one more than the window.

**Scheduler.** Entries are objects in `objects`; `entries` and `due` hold their
numbers, as the code's array and batch share references. `pc` has the awaits
(`grace`, `sleep`, `firing`, `cron`) and the points between. Time is left-over
time; `Never` stands for an absent until, count or next cron fire. Clients that
find no scheduler are split between their failed signal and their `start`.

**EventStream.** `world` is what Temporal would answer; `track` the daemon's
`EnsembleTrack` together with its bus: failures in a row, the flags last seen,
the messages seen, the next sequence number, the two rate windows, the quiet
after a throttled, the drop count and its timer. Of the flags the model keeps one
bit. A tick is cut at its awaits into list, read and apply. `ticks.current` is
the tick that holds `inFlight`; the watchdog moves it to `late`, from where it
may still apply. The ring is the last `RingCapacity` numbers. `client` follows
the handler's branches: replay, gap, or snapshot; `due` is the number the client
must see next, computed from what it received, and is what `NothingSkipped`
compares with. The model is of the local cost profile. `upsets` counts what is
bounded together: changes of the flags, failing reads and lists, restarts.

**AdapterLifecycle.** `adapter[a]` has the fields of `BaseAttachment`: `token` and
`pinned` are the attachment and the run its handle is pinned to; `timers` counts
pending timers of a loop and `tracked` says whether `heartbeatTimer` or
`phaseWatcherTimer` still names one; `ticks` holds the ticks whose call is out;
`reconnect` is the place in `runReconnectLoop` with the last answer; `poller` the
run the interactive adapter polls. A call and its effect at the session are one
step, the answer another, so stop, rebind and reconnect come in between. A run
that has ended answers queries from where it stopped, and its end looks the same
whether it continued as new or not: `FindCanSuccessorRunId` asks the history.
The session is the one its callers see; only there does a lease age.

**CueDelivery.** An item is an entry of a sender's outbox; `call` is the attempt
under way, `wire` the signals of attempts that may still land, `inbox` the messages
and the reset slot at the receiver, with the reset in the input of its run, which
`continueAsNew` carries on when the slot is empty (`CarriedReset`). A reset that is
acknowledged counts as performed, a repeated one too. `pump` is the tick of the cue
pump, cut where it calls the session or the agent; `last` is the cue it tracks for
escalation. `agent` is dormant when a wake did not take. `hist` is what arrived, was
shown and was performed.

**RestartDelivery.** `attempt[r][k]` is the k-th attempt of restart r, and goes on
when it was given up (`heard` is whether anyone listens). `queue` and `loop` are
the session's spawn entries and the main loop that dispatches them, `procs` the
agent processes, each with the attachment it was spawned for. A kill goes through
the processes one by one (`KillsOne`) and may end before the last. `ills` collects the
kinds of faults that happened, so that a property can except one.

**UpgradeEngine.** `engine` is one run of the command, with the lists its loops
still have to work through; a crash empties it and `disk` is what the next run
resumes from. Sessions go on submitting, dispatching and being recruited. A scan
is one step that may fall short; the terminations of an ensemble's scheduler and
maestro are one step as well, as nothing here depends on what is between them.

**DaemonLaunch.** A step of a command or a daemon reaches up to its next await or
system call that takes time. `lock.stale` is the age of the lock as others judge
it. A stale lock is unlinked in one step and taken in another (`RetryLock`), so that
the retry may be lost; a daemon that has bound the port writes the port file and then
the pid file. `hist` marks the two ways in which the files stop telling the truth:
"misled" (the lock or the pid file no longer stands for a live starter or daemon)
until the one holder of the lock starts a daemon when none is up (`StartsAfresh`),
and "delisted" (a daemon's port file was removed by another) until one is written
again. The port is found by the port file, as it is unless the environment pins it.

## 3. Runs

| run | bounds | shows |
|---|---|---|
| `session_life_cycle` | 2 attachments, leases of 1 and 3, drains of 0 and 1, fallback 2, 3 workflow runs | `LiveHasLease`, `WorkMatchesPhase`, `NoOversleep`, `DestroyIsFinal`, refinement of `AttachmentLease` |
| `session_progress` | 2 outbox entries (stops or spawns), both gates, 2 attachments, 1 run, no messages | `RevokesOnlyItsTarget`, `DeadlinesAreMet`, `StopBypassesGates`, `DestroyCompletes` |
| `stages` | 2 players, 1 stage, gate and worktree, 4 signals, 2 runs, window 1 | `VerdictFits`, `NoReportLost`, `OrderlyDrain` |
| `scheduler` | 2 names, 2 entries created, all types, a count of zero or none, an until | `TypeOK`, `NeverOversleeps`, `DueIsServed` |
| `events` | 2 messages, caps of 1, ring of 2, one upset | `EveryMessageAccounted`, `NothingSkipped`, `DropsAnnounced`, `DestroyedIsTold` |
| `adapter` | 1 reconnecting adapter, 1 tick per loop, 2 attempts, 2 runs, 2 grants, 1 fault | `NeverOrphaned`, `PollerFollowsLease`, `FallsSilent`, `PollerRevived`, `LosersLeave` |
| `delivery` | 2 items, cues or resets, 3 attempts, 3 runs, 2 faults | `NothingLost`, `ShownInOrder`, `NewestResetHonoured`, `DeliveredIsShown`, `MissedWakeRouses` |
| `restart` | 2 restarts, one forced, 2 attempts each, 2 spawns, 1 kind of fault | `OneAgentPerLease`, `Revived`, `NobodyHoldsForever` |
| `upgrade` | 2 ensembles, 3 sessions, 1 entry, 2 faults | `CaptureBeforeDestroy`, `CapturedTornDown`, `SnapshotIsKept`, `ConductorLast`, `CutoverFinishes` |
| `daemon` | 2 commands, 2 daemons at once, 1 fault | `OneDaemon`, `FoundByPort`, `ServesInTheEnd` |
| `adapter_false_destroy` | as `adapter`, 1 grant, no fault | violates `DestroyOnlyWhenOver` |
| `daemon_stranded` | as `daemon`, no fault | violates `ServingIsFound` |

Why the bounds are enough. *Two attachments* give every race between an old and a
new holder; a third would only repeat it, as nothing compares ids but for equality.
*Three runs* let a lease be carried, given up and carried again, which takes two
boundaries; a reset that is carried, performed and carried again takes as many. *Two
entries* put another before a stop, held back by both gates. The progress run does
without *messages*: processing neither wakes the loop nor keeps it from a reap, and
the life-cycle run has it. A *fallback* shorter than the longest lease makes the
loop wake before a deadline, the other way round for the shorter one. *Four signals*
hold every producer-consumer pair together with reports before and after it. *Two
schedule objects* let one replace the other under its batch, or share the batch with
it. Caps of *one* and a ring of *two* let two messages reach the cap, fill the ring
and overflow it; one upset is a change of the flags, a restart, a failing list or a
failing read, and one of each together was checked for the invariants while the
model was written. *One tick per loop* already lets an answer outlive the timer it
came with, *two attempts* a second round of reconnecting before the budget is spent,
and *one grant more* than the adapter takes is the rival; that two and more
adapters, ticks and faults add nothing to the invariants is what section 5 proves.
*Three attempts* let an item be retried after one attempt timed out and one failed;
*two items* are what can be out of order. *Two restarts* with two attempts each let
an attempt that was given up meet its own retry and another restart; eight claims
are never used up. A *crash* and one more fault let a cutover die, resume and fall
short. *Two daemons* are one that drains and one that replaces it; three were
checked without faults.

Counters that grow without limit in the code are cut by the `Max` constants in
guards: claims, entries, runs, destroys, signals, schedules, messages, lives,
upsets, grants, items, attempts, spawns, daemons and faults. `Slack` is how far
past a deadline a clock is still told apart. `CHECK_DEADLOCK FALSE` appears where
a system may rightly stop: bounded signals or items used up (`Stages`,
`Delivery`), an adapter that ended (`Adapter`, `AdapterDestroy`), restarts and
cutovers that are over (`Restart`, `Upgrade`), no daemons left to start
(`Daemon`, `DaemonStranded`).

## 4. Fairness

- *Session.* Weak fairness of the main loop: a worker runs the workflow. Strong
  fairness of `Exit` and `ContinueAsNew`: they wait in
  `condition(allHandlersFinished)`, which is evaluated again after every activation,
  so a moment without handlers is not missed; handlers are assumed not to overlap for
  ever. Weak fairness of each `ForceDetachEnd` and of `DestroyEnd`: the activities
  have timeouts and bounded attempts. Strong fairness of `Tick`: time passes. Nothing
  is assumed of adapters and clients.
- The deadlines of a session are kept only if its dispatch loop returns
  (`LoopReturns`): an outbox that is refilled as fast as it empties keeps the main
  loop from reaping. `DeadlinesAreMet` has this as premise. In `session_progress`
  there is one workflow run, as continueAsNew would otherwise be a way to go on
  without end.
- *Scheduler.* Weak fairness of the loop, strong of `Tick`.
- *Event stream.* The timers of the poll loop, the watchdog and the compression fire.
  A read ends unless another tick already hangs: at most one hangs at a time, and
  that one may hang for ever. Nothing is assumed of the ensemble, of failures or of
  the client.
- *Adapter.* Its timers fire and its calls return, each in the end, with any outcome:
  every call of `base.ts` has a deadline of the Temporal client. The session owes it
  nothing, nor does a rival.
- *Delivery.* Weak fairness of a step of dispatch, landing or pump (`Tick`): the
  worker retries activities and the pump polls on an interval. Faults are bounded, as
  the attempts that answer them are.
- *Restart.* Weak fairness of the main loop, of each attempt, of each process that
  comes up, and of the lease of an attachment nobody serves running out.
- *Upgrade.* Weak fairness of the engine as a whole, which includes the operator
  running a command that died again.
- *Daemon.* Weak fairness of each daemon's boot. Nothing is assumed of commands.

## 5. What is proved

Each theorem holds for every value of the constants that satisfies the named
assumptions (bounds natural numbers, some of them positive, subsets where the
name says so).

| module | theorem | says |
|---|---|---|
| `SessionWorkflow` | `TypeCorrect` | `Spec => []TypeOK` |
| | `LivePhasesHaveLease` | `Spec => []LiveHasLease` |
| | `StrayLeaseIsInherited` | `Spec => []HeldOnlyInherited`: a detached session holds only a lease its run was started with |
| | `WorkAlwaysMatchesPhase` | `Spec => []WorkMatchesPhase` |
| | `SessionImplementsLease` | `Spec => ImplementsLease`, the refinement |
| | `LeaseRevokedOnlyByItsTarget` | `Spec => RevokesOnlyItsTarget` |
| | `LoopNeverOversleeps` | `Spec => []NoOversleep`: the loop sleeps past no deadline it has to meet |
| | `DestroyedStaysGone` | `Spec => DestroyIsFinal`: after a destroy no reap or delivery begins and the session stays gone, but for a drain's reap that was under way |
| `ConductorStages` | `StagesTypeCorrect` | `Spec => []TypeOK` |
| | `VerdictsFitEntries` | `Spec => []VerdictFits` |
| | `NoReportIsLost` | `NoRepetition => (Spec => []NoReportLost)` |
| | `DrainsInOrder` | `NoRepetition => (Spec => []OrderlyDrain)` |
| `Scheduler` | `SchedulerTypeCorrect` | `Spec => []TypeOK` |
| | `SchedulerNeverOversleeps` | `Spec => []NeverOversleeps` |
| | `NothingDueTwice` | `Spec => [](DueOnce /\ CountsLeft)`: a batch has no entry twice, no count falls below zero |
| `EventStream` | `StreamTypeCorrect` | `StreamSpec => []StreamTypeOK` |
| | `MessagesAccounted` | `StreamSpec => []EveryMessageAccounted` |
| | `StreamSkipsNothing` | `StreamSpec => NothingSkipped` |
| `AdapterLifecycle` | `AdapterTypeCorrect` | `Spec => []TypeOK` |
| | `LoopsNeverOrphaned` | `Spec => []NeverOrphaned` |
| | `PollerBesideTheLease` | `Spec => []PollerFollowsLease` |
| | `AdaptersEndForGood` | `Spec => EndsForGood`: what ended stays ended, and once silent stays silent |
| | `SeenSessionImplementsLease` | `Spec => ImplementsLease`: the session as adapters see it |
| `CueDelivery` | `DeliveryTypeCorrect` | `Spec => []TypeOK` |
| | `NothingIsLost` | `Spec => []NothingLost` |
| | `NewestResetIsHonoured` | `Spec => []NewestResetHonoured` |
| | `ShowsInOrder` | `Spec => []ShownInOrder` |
| `RestartDelivery` | `RestartTypeCorrect` | `Spec => []TypeOK` |
| | `OneAgentAtATime` | `Spec => []OneAgentPerLease` |
| | `RestartsKeepTheLease` | `Spec => KeepsLease`: each step is one of `AttachmentLease` |
| `UpgradeEngine` | `UpgradeTypeCorrect` | `Spec => []TypeOK` |
| | `CapturesBeforeDestroying` | `Spec => []CaptureBeforeDestroy` |
| | `CapturedAreTornDown` | `Spec => []CapturedTornDown` |
| | `KeepsTheSnapshot` | `Spec => SnapshotIsKept` |
| | `ConductorGoesLast` | `Spec => ConductorLast` |
| `DaemonLaunch` | `LaunchTypeCorrect` | `LaunchSpec => []TypeOK` |
| | `ServingIsFoundByPort` | `LaunchSpec => []FoundByPort` |
| | `OneDaemonAtATime` | `LaunchSpec => []OneDaemon` |

The arguments. Hardly any of the invariants is inductive as it stands.

*Session.* `LifeCycleInv` joins the three invariants with facts about the loop:
`DrainClockRuns` (in phase draining the drain clock runs: it is what
`continueAsNew` relies on when it carries the clock), `ReapHasTarget` (at
`drainKill` the loop remembers an attachment) and `BootingUnclaimed` (in phase
booting nothing was ever claimed, so the input carries nothing). The proof has
one lemma for the handlers, one for the main loop and one for time, each with a
step per action; the five detach sites share `DetachRestores`. The refinement
takes as holder the attachment of a live phase, as expired what its clock says,
as granted the count of claims. A step keeps the holder, with the clock moving or
renewed (a stutter, `Renew` or `Expire`), loses it (`Revoke`), or is a `Grant`;
`KeepingImplements` and `LosingImplements` say so once for all actions.
`NoOversleep` is inductive once the timer is known to be at most the fallback
(`SleepInv`): when the loop goes to sleep the timer meets every deadline there is
(`WaitTimeMeetsDeadlines`); a handler that brings one forward wakes the loop, and
all others move deadlines away or drop them; a tick brings timer and deadlines
down together. For `DestroyIsFinal`, `DestroyInv` says that once a destroy is requested
the loop is at no point from which a reap begins, that a delivery under way finds the
session gone and unheld, and that when a gone session holds an attachment (one
`continueAsNew` brought back) no forced detach is pending.

*Conductor.* `VerdictFits` is inductive with the types. `NoReportLost` needs
`BoardReports`: reports are ordered by age, the entries of a stage name different
players, and an active stage waits for a player only if no report of theirs that
counts is still within the window. The premise `NoRepetition` (no roster names a
player twice) is needed: see difference 10 below.

`OrderlyDrain` compares two orders of the same signals. `DrainInv` says that what
is left of an orderly buffer stays orderly, and that handling it as it came would
still end in a board like `inOrder`. A step of the drain takes a signal from
behind others: `Commute` shows for every pair of kinds that may change places in
an orderly buffer that the order does not matter, and `MoveFirst` carries this
over any number of signals. Boards are compared by `Alike`, which forgets the
entries of a stage that ended: two reports that end it one way round or the other
leave different entries, the same status and the same notices. `NoRepetition` is
needed here too, since a stage created after the reports counts both entries of a
player named twice, a report after it only the first.

*Scheduler.* `SchedulerInv` has the two properties and how the batch and the entries
share objects: none is due twice (`DueOnce`), the entry a client starts a scheduler
with is its own (`SeedsApart`), no count falls below zero (`CountsLeft`), and a batch
that is being fired is not used up (`BatchInv`). `NeverOversleeps` has two halves:
the timer is at most the first entry's, and the first entry is the earliest, as every
handler sorts. That the sort and the filter keep entries in order and lose none is
shown by counting (the rank of an entry is the number of those before it), as
induction over sequences is out of reach.

*Event stream.* Two arguments. For `EveryMessageAccounted` each of a tick's
messages is in exactly one of sent, counted as dropped, or announced, and the
rate windows stay within their caps; `EmitChats` goes through the new messages of
a snapshot one by one, and so does the proof. For
`NothingSkipped`, `Attached` says that the queue of a connection runs up to the
bus's last event without a hole, and `DueFits` that what the client must see next
is the first of that queue, or the bus's next event when it is empty; each
branch of the handler (replay, gap, snapshot) establishes both for its own reason.

*Adapter.* `LifeInv` says of each adapter (`Fits`) that tracked timers exist, that
its poller and its loops go on as the two properties say, that an attachment which
was granted names a run, and that before its claim is granted it has no timers,
ticks or poller. Each operator on an adapter has a lemma that says which of this it
keeps, starting from one lemma per field; a step of `Next` then takes a line or two.
The point of the proof is that whoever ends a tick without arming the loop again has
seen the adapter end or start to reconnect, and that every way out of reconnecting
arms both loops or ends the adapter. The session this module assumes is one the
session workflow may be: both implement `AttachmentLease`; of this module it is
proved only, and no run repeats it. Here a step keeps the holder (`Keeps`), loses it
(`Loses`) or admits another over no one or a lease that ran out
(`AdmittingImplements`). `EndsForGood` is the safety half of `FallsSilent`: every
operator on an adapter keeps it over when it was, and one that is over and silent
has no step left (`SilentAdapterRests`).

*Delivery.* `DeliveryInv` adds to the two properties that what the pump marked
done was shown and that the reset it acknowledges was performed. For the order,
`PrefixInv` says that what the pump took in and what the agent saw are prefixes
of what arrived, and `OrderInv` that an outbox sends in turn: an item is
dispatched when all before it are recorded, and one recorded as delivered has arrived.

*Restart.* `OneInv` treats an attachment id as a ticket: unless a spawn timed out, it
is in at most one of the spawn entries, the processes and the attempts that may still
use it, and only ids that were minted are (`Apart`). A claim mints a fresh ticket;
every later step moves it on. The third module with a session in it, this one also
keeps to `AttachmentLease` (`KeepsLease`); as its session may be held when the model
begins, the promise is one about steps. No run checks it or `EndsForGood`: they were
checked once with the bounds of `restart` and `adapter`.

*Upgrade.* `UpgradeInv` fits the engine's place to the phase on disk (`PhasesFit`,
`LoopsFit`), keeps every captured player running or destroyed (`CapturedKnown`),
and follows the teardown: of ensembles passed, and of sessions scanned, nothing is
left but what failed (`PassedTornDown`, `FinishedTornDown`, `ScannedOrFailed`).

*Daemon.* `FoundInv`: unless a port file was removed by another daemon, one that
serves has it. `OneInv`: as long as lock and pid file can be trusted
(`TrustIsLost`), the lock stands for the one who took it, a booting daemon is
watched by its starter, who holds the lock, nobody else is up beside it, and one
that is up is in the pid file (`LockStands`, `BootWatched`, `BootsAlone`,
`UpIsTracked`). A daemon started afresh establishes all of it anew (`FreshStart`).

Model-checked only: the liveness properties, which the prover does not do
(`DeadlinesAreMet`, `StopBypassesGates`, `DestroyCompletes`, `DueIsServed`,
`DropsAnnounced`, `DestroyedIsTold`, `FallsSilent`, `PollerRevived`,
`LosersLeave`, `DeliveredIsShown`, `MissedWakeRouses`, `Revived`,
`NobodyHoldsForever`, `CutoverFinishes`, `ServesInTheEnd`). Every invariant and
every action property of a passing run is proved. Where an argument runs along a
sequence or a number of any size, it uses that a set of naturals which is not empty has
a least element (`LeastOfNaturals`, `InductiveSet`), as the induction theorems
of the library cannot be used.
Properties are excepted where their comment says so; the type invariants of
modules with such a theorem are not repeated in the runs.

## 6. Differences from the documents

Found while the code was translated. Two have a run:

- *A living session is taken for destroyed* (`adapter_false_destroy`). A tick
  that met the end of a run asks for the history of the run the adapter is pinned
  to by then. When the other loop has rebound it in between, that history has no
  successor, and the adapter ends with `destroy` (`base.ts:807`). The comments at
  `base.ts:789` and `:796` read the absence of a successor as the end of the
  session.
- *A daemon that serves is found by nobody* (`daemon_stranded`). A daemon that
  drains goes on serving; one that is started meanwhile writes its pid and port
  files, and the old one removes both when it exits (`daemon.ts:1488`,
  `server.ts:339`). `docs/troubleshooting.md:81` and the comment at
  `daemon.ts:1411` say that a missing pid file does not strand a live daemon.

Seen in the models, without a run of their own:

1. *The terminal phase is left.* The drain reap awaits a kill and then sets
   `detached` (`session.ts:1842`) whatever happened meanwhile; `types.ts:50` says
   "`gone` — terminal". The same lines clear an attachment claimed during the
   await, which `forceDetach` has guarded against since #798
   (`session.ts:1050`). `DestroyIsFinal` excepts this reap and no other;
   `RevokesOnlyItsTarget` counts the drain as a reason.
2. *A lease comes back.* `continueAsNew` spreads the run's input and overrides
   the attachment only when one is held (`session.ts:2149`, `:2170`): one that
   was carried in and then given up is carried on. `session.ts:328`: "Current
   attachment lease, or null when detached." The next run refuses claims until
   that lease expires; `DestroyIsFinal` names this case. The spread has the same effect
   on a reset that was acknowledged (`:2155`; in `CueDelivery`, where the pump meets it
   again) and on player state that was cleared (`:2178`; not modelled).
3. *A replacement is removed.* An entry that ends is dropped by name after an
   await (`scheduler.ts:176`), which also drops an entry that replaced it.
   `docs/WIRE-PROTOCOL.md:139`: "If a schedule with the same name already exists
   it is replaced."
4. *A live ensemble is told destroyed.* An error of the list inside
   `buildEnsembleSnapshot` counts as an empty list (`snapshot.ts:207`).
   `docs/SSE-PROTOCOL.md:447`: a fan-out that "fails transiently" is "carried
   forward".
5. *A change of flags is never told.* The track records flags
   (`aggregate.ts:381`) whose event the bus then drops (`event-bus.ts:359`).
   `docs/SSE-PROTOCOL.md:291`: "suppress if both bools equal previous emitted
   state".
6. Draining ends only by `drainingDeadline` or the adapter's exit; the outbox
   plays no part (`session.ts:1803`). `docs/WIRE-PROTOCOL.md:41`: "reaps to
   `'detached'` when the outbox is drained OR after `drainingDeadline`".
7. The outbox of a detached session is dispatched (`session.ts:1692`).
   `types.ts:49`: "outbox dispatch paused (stop/destroy bypass)".
8. `cancelStage` before its `setStage` does nothing (`session.ts:1655`), so the
   pair relies on registration order and not on commuting, which
   `tests/conformance/registration-order-fence.test.ts:38` names as the goal:
   "A compliant pair tolerates BOTH orders".
9. A stage counts reports of the last five minutes, so a second stage of the
   same players may be complete when it is created (`session.ts:1593`, against
   `docs/orchestration.md:38`: "notified when all players have reported").
10. A roster that names a player twice never completes: a report counts for the
    first entry only (`session.ts:1362`), and `stage` does not look for
    repetition. `docs/orchestration.md:53`: "When all players have reported, the
    conductor is notified that the stage is complete".
11. A schedule removed while its batch is fired is fired all the same
    (`scheduler.ts:136`). `tools/unschedule.ts:13`: "The schedule stops firing
    immediately."
12. `until` is looked at after a fire only (`scheduler.ts:172`), so one delivery
    comes after it. `tools/schedule.ts:29`: "stop recurring after this time".
13. When two clients start the scheduler together, or the signal fails for
    another reason, `USE_EXISTING` drops the second's entry
    (`tools/schedule.ts:155`), and the tool answers "created" (`:168`).
14. A scheduler started while the ensemble is paused runs unpaused
    (`tools/schedule.ts:153` passes no flag). `docs/WIRE-PROTOCOL.md:162`:
    "sessions and the scheduler sync from this".
15. The watchdog lets a second fetch start while the first hangs
    (`aggregate.ts:841`). `docs/SSE-PROTOCOL.md:446`: "The daemon NEVER has more
    than one in-flight aggregate fetch."
16. The id of a gap or snapshot on an empty bus is that of the bus's first event
    (`sse-handler.ts:330`), against the comment at `:316`: "the daemon will
    never reuse this id". A bus built anew by one daemon reuses all ids, as the
    epoch is the daemon's (`aggregate.ts:722`). `NothingSkipped` excepts these
    two cases and no others.

*Adapter.*

17. A stop during the first claim leaves the lease with a stopped adapter until it
    runs out: `stopV2Lifecycle` has no token to give back yet. When a terminal was
    fired first, stop returns early and `adapterExited` is never sent.
18. When the answer to a claim of the reconnect loop is lost, the adapter meets
    its own attachment as a rival's and ends `superseded`.
19. A tick that survives a rebind arms its loop again beside the one the rebind
    armed: the timer chain is doubled, and the name tracks one of the two only.
20. A stop in the middle of a reconnect round ends `reconnect-exhausted`;
    `base.ts:1133` says the loop exits silently.

*Delivery.*

21. A cue may wake the agent twice: `injectedAt` is stamped after `ackDelivered`
    has answered (`cue-pump.ts:460`). When that answer is lost and the wake did
    not take, the cue is never escalated: `MissedWakeRouses` excepts it.
22. A reset is performed again when its acknowledgement was lost, or when an
    attempt of `deliverReset` landed late; the notice meant to be "once per
    resetId" repeats then. Cues injected into a context whose wipe failed are
    wiped with it at the next tick.
23. An outbox entry recorded as failed may still land. `markDelivered` names
    messages, not the attachment that shows them.

*Restart and restore.*

24. A restart without force asks for a detach, which takes up to its deadline,
    and looks again at once: on an attached session it is always refused, and yet
    the session drains and its adapter is killed (`outbox.ts:1057`).
    `docs/tui.md:54`: "pass `--no-force` to refuse if a lease is held". Such a
    restart can turn out the agent another restart has just brought up, as
    `requestDetach` names no attachment; `Revived` excepts failed restarts.
25. A retry of `deliverRestart` after its own claim meets its own attachment:
    without force it is refused and drains it; with force it claims and spawns
    again. A spawn that timed out is tried again beside the first process;
    `OneAgentPerLease` excepts it. A spawn entry is dispatched even when its
    attachment is no longer current.
26. `session.ts:1050` says of a kill that hits the new adapter's process that it
    "self-heals via the phase watcher": a killed process claims nothing, and nothing
    spawns another. Kills go to `metadata.hostname`, which lags behind a migrate.
27. A daemon that restores on boot sends such unforced restarts to every live
    session of its host, as its liveness check answers false; `orphans.ts:22` and
    `docs/concepts.md:88` speak of sessions whose adapter is gone.

*Upgrade.*

28. The teardown scans again and destroys what it finds (`phase-engine.ts:731`),
    a session started after the capture included; the comment at `:11` says
    "never destruction without capture". `CaptureBeforeDestroy` holds of
    ensembles, not of sessions.
29. `done` is stamped although a destroy failed or a scan fell short, and an
    enumeration that fails counts as an empty one. A session recruited after the
    freeze is not frozen; one that does not answer counts as drained; a cutover
    stopped at the drain leaves schedulers and maestros paused.

*Daemon.*

30. A starter takes any live pid in the pid file for its daemon's. When a draining
    daemon has put its own back, the starter lets go of the lock while the
    new one boots, and a second starter starts another. The repair of a stale
    lock, taken by two at once, and a boot slower than the starter waits have the
    same end. `OneDaemon` excepts these as "misled", until a daemon is started under the
    lock with no other starter and none up.
31. `start` reports a draining daemon as running, and a daemon that boots binds
    even when it is already draining; its late bind overwrites the files of the
    one that replaced it.

## 7. What is not modelled

- Of sessions: renames, player state, metadata, search attributes and counters;
  they share no state with the life cycle. The inbox and the reset slot are in
  `CueDelivery`. Retries inside an activity are modelled in `CueDelivery` and
  `RestartDelivery`; in `SessionWorkflow` an activity ends well or badly.
- Of the conductor: texts, command history, and the size of what continueAsNew
  carries.
- Of the scheduler: messages and targets, time zones and cron syntax (the next
  fire is any of a set), more than one fire per tick.
- Of the event stream: players and schedules (the same diff, in events that are
  never dropped), answers, host profiles, topics, heartbeats (they take numbers
  but no place in the ring), the memory of chat ids (1024 in the code, all in
  the model), the cap on connections, the cloud profile, windows that slide (a
  window empties at once), the contents of snapshots, and errors of the route's
  own list.
- Of adapters: host and metadata updates, backoff times, and the turn loops of the
  SDK adapters, which neither reconnect nor poll. Those of them that wait in
  `shouldStop` for a token that nothing clears are outside the model.
- Of delivery: reports and broadcasts, which share the activity's pattern;
  operator notices; the phase driver and the inner loop of the Pi extension.
- Of restarts: sessions destroyed meanwhile, machines other than one, and how a
  process is looked up: hard terminate looks for `claude` processes and misses
  other headless adapters.
- Of the upgrade: the lineup made of a snapshot, player state slots, play, and a
  session started under the name of one that was destroyed: nothing of it was captured.
- Of the daemon: Windows kills (as a crash they are covered), log rotation,
  profile advertising, a port pinned by the environment (`cli/daemon.ts:169`; a
  missing port file does not matter then), a foreign owner of the port, and reading
  status files while they change.
- Orphan filters, maestro, Q&A and client core: see the plan. HTTP validation,
  authentication, spawning, lineups, CLI, TUI and dashboard: sequential code or
  input and output, left to tests. They are more than half of the source, which is
  why the models, though they cover the coordination core, map a small share of it.

## 8. Plan

| order | module | composes | what for |
|---|---|---|---|
| done | `AttachmentLease`, `SessionWorkflow` | | core: who holds a session, deadlines, destroy |
| done | `ConductorStages` | | signal order, stage verdicts |
| done | `Scheduler` | | batches against signals, timers |
| done | `EventStream` | poll loop, bus, handler, client | streams without gaps |
| done | `AdapterLifecycle` | adapters and the session they see | loops that never die or outlive their adapter |
| done | `CueDelivery` | outbox activity, inbox, pump, agent | at-least-once, in order |
| done | `RestartDelivery` | `deliverRestart`, session, processes | overlapping and half-done restarts |
| done | `UpgradeEngine` | snapshot file, cluster | snapshot before destroy, resume in every phase |
| done | `DaemonLaunch` | commands, daemons, files | one daemon, found |
| 1 | `Maestro` | ensemble flags, sessions, scheduler | pause and play over sessions that come and go; questions answered once |
| 2 | `OrphanReconcile` | listing that lags, sessions | nothing alive is destroyed |
| 3 | `ClientCore` | `EventStream`'s client | retries of writes |

Theorems worth proving next: the safety that `Revived` rests on (which kills may
reach the process of a later attachment), and the invariants of the modules of the
plan as they come. No module declares a recursive operator.
