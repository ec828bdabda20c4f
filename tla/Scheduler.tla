------------------------------- MODULE Scheduler -------------------------------
(***************************************************************************)
(* The scheduler of an ensemble (workflows/scheduler.ts,                   *)
(* agentSchedulerWorkflow), the clients that create and remove schedules   *)
(* (tools/schedule.ts, tools/unschedule.ts) and pause it.                  *)
(*                                                                         *)
(* Schedule entries are objects: the list of entries and the batch that is *)
(* due share them, and a client that replaces or removes an entry changes  *)
(* the list under a batch that is being fired.  Signals are handled while  *)
(* the main loop waits.  All times are relative and count down; messages   *)
(* and targets are left out.                                               *)
(***************************************************************************)
EXTENDS Integers, Sequences, FiniteSets, SequencesExt

CONSTANTS
  Names,        \* schedule names
  Types,        \* kinds of schedule in use: once, interval, cron
  Delays,       \* times to the first fire a client may ask for
  Untils,       \* times to the until of a schedule, Never among them
  Counts,       \* remainingCount values in use, Never among them
  Interval,     \* the interval of interval schedules, in ticks
  CronGaps,     \* times to the next fire of cron schedules, Never for none
  Grace,        \* gracePeriodMs, in ticks
  Clients,      \* clients creating schedules
  MaxCreates    \* bound on schedules created

Never == 99

ASSUME SchedulerTimesAssumption ==
  /\ Delays \cup Untils \cup Counts \cup CronGaps \subseteq 0..Never
  /\ {Interval, Grace, MaxCreates} \subseteq Nat \ {0}
ASSUME TypesAssumption == Types \subseteq {"once", "interval", "cron"}

VARIABLES
  objects,          \* every schedule entry ever created
  created,          \* how many that is
  entries,          \* the entries of the scheduler, in firing order
  due,              \* what is left of the batch being fired
  dirty,            \* a signal arrived since the loop went to sleep
  schedulerPaused,  \* the scheduler's pause flag
  pc,               \* where the workflow is; none before it was started
  wakeIn,           \* time left on the loop's condition() timer
  starting          \* per client: the entry it starts the workflow with

schedulerVars == <<objects, created, entries, due, dirty, schedulerPaused, pc, wakeIn, starting>>

Awaiting == {"grace", "sleep", "firing", "cron"}
Closed == {"none", "completed", "failed"}
Running == pc \notin Closed
HandlersRun == pc \in Awaiting

NoSchedule == [name |-> "none", type |-> "once", fireIn |-> 0, untilIn |-> Never,
               remaining |-> Never]

NameOf(id) == objects[id].name
Listed == Range(entries)

(* The entries at the ranked positions, each in the place of its rank. *)
Placed(ids, rank) ==
  [i \in 1..Cardinality(DOMAIN rank) |-> ids[CHOOSE p \in DOMAIN rank : rank[p] = i]]
Filtered(ids, keep) ==
  LET kept == {p \in DOMAIN ids : ids[p] \in keep}
  IN  Placed(ids, [p \in kept |-> Cardinality({q \in kept : q <= p})])
Without(name) == Filtered(entries, {id \in Listed : NameOf(id) # name})
CountDown(time) == IF time \in {0, Never} THEN time ELSE time - 1

-----------------------------------------------------------------------------
(* Clients *)

(* addSchedule replaces the entry of that name or appends; AddedAgain, a   *)
(* variant, always appends.                                                *)
AddedAgain(id, name) == Append(entries, id)
Added(id, name) ==
  IF \E other \in Listed : NameOf(other) = name
    THEN [i \in DOMAIN entries |-> IF NameOf(entries[i]) = name THEN id ELSE entries[i]]
    ELSE Append(entries, id)

(* Every signal handler sets dirty; a handler that forgot to would leave   *)
(* the loop asleep.                                                        *)
LeavesSchedulerAsleep == UNCHANGED dirty
WakesScheduler == dirty' = TRUE

NewObject(name, type, delay, until, count) ==
  /\ created < MaxCreates
  /\ created' = created + 1
  /\ objects' = [objects EXCEPT ![created'] =
                   [name |-> name, type |-> type, fireIn |-> delay,
                    untilIn |-> until, remaining |-> count]]

(* The schedule tool: signal the scheduler, or go on to start one. *)
CreateBySignal(name, type, delay, until, count) ==
  /\ HandlersRun
  /\ NewObject(name, type, delay, until, count)
  /\ entries' = Added(created', name)
  /\ WakesScheduler
  /\ UNCHANGED <<due, schedulerPaused, pc, wakeIn, starting>>

(* Any error of describe or signal counts as: no scheduler is running.     *)
CreateFallsBack(c, name, type, delay, until, count) ==
  /\ starting[c] = 0
  /\ NewObject(name, type, delay, until, count)
  /\ starting' = [starting EXCEPT ![c] = created']
  /\ UNCHANGED <<entries, due, dirty, schedulerPaused, pc, wakeIn>>

(* workflow.start with USE_EXISTING: a scheduler that runs by now is       *)
(* taken as it is, and the entry meant as its seed is dropped.             *)
StartSeeds(c) ==
  /\ starting[c] # 0
  /\ ~Running
  /\ entries' = <<starting[c]>>
  /\ due' = <<>>
  /\ dirty' = FALSE
  /\ schedulerPaused' = FALSE
  /\ pc' = "top"
  /\ wakeIn' = 0
  /\ starting' = [starting EXCEPT ![c] = 0]
  /\ UNCHANGED <<objects, created>>

StartUsesExisting(c) ==
  /\ starting[c] # 0
  /\ Running
  /\ starting' = [starting EXCEPT ![c] = 0]
  /\ UNCHANGED <<objects, created, entries, due, dirty, schedulerPaused, pc, wakeIn>>

RemoveSchedule(name) ==
  /\ HandlersRun
  /\ entries' = Without(name)
  /\ WakesScheduler
  /\ UNCHANGED <<objects, created, due, schedulerPaused, pc, wakeIn,
                 starting>>

(* A rename rewrites targets, which are left out, and wakes the loop.      *)
UpdateScheduleTarget ==
  /\ HandlersRun
  /\ WakesScheduler
  /\ UNCHANGED <<objects, created, entries, due, schedulerPaused, pc,
                 wakeIn, starting>>

(* pauseMaestroAndScheduler and its counterpart; a scheduler that is not   *)
(* running misses the signal, and starts unpaused.                         *)
SchedulerSetPaused(value) ==
  /\ HandlersRun
  /\ schedulerPaused' = value
  /\ WakesScheduler
  /\ UNCHANGED <<objects, created, entries, due, pc, wakeIn, starting>>

-----------------------------------------------------------------------------
(* Main loop *)

(* entries.sort by the next fire; entries of the same time keep their order. *)
FiresBefore(p, q) ==
  LET time(i) == objects[entries[i]].fireIn
  IN  time(p) < time(q) \/ (time(p) = time(q) /\ p <= q)
Sorted ==
  Placed(entries, [p \in DOMAIN entries |->
                     Cardinality({q \in DOMAIN entries : FiresBefore(q, p)})])
FirstDue == objects[Sorted[1]].fireIn

LoopTop ==
  /\ pc = "top"
  /\ entries = <<>>
  /\ pc' = "grace"
  /\ dirty' = FALSE
  /\ wakeIn' = Grace
  /\ UNCHANGED <<objects, created, entries, due, schedulerPaused,
                 starting>>

(* An empty list ends the scheduler, also when a signal woke it.           *)
GraceOver ==
  /\ pc = "grace"
  /\ dirty \/ wakeIn = 0
  /\ pc' = IF entries = <<>> THEN "completed" ELSE "top"
  /\ UNCHANGED <<objects, created, entries, due, dirty, schedulerPaused, wakeIn, starting>>

GoToSleep ==
  /\ pc = "top"
  /\ entries # <<>>
  /\ FirstDue > 0
  /\ entries' = Sorted
  /\ pc' = "sleep"
  /\ dirty' = FALSE
  /\ wakeIn' = FirstDue
  /\ UNCHANGED <<objects, created, due, schedulerPaused, starting>>

WakeEarly ==
  /\ pc = "sleep"
  /\ dirty
  /\ pc' = "top"
  /\ UNCHANGED <<objects, created, entries, due, dirty, schedulerPaused, wakeIn, starting>>

(* The batch is everything due when the loop comes to fire. *)
CollectDue ==
  /\ \/ pc = "top" /\ entries # <<>> /\ FirstDue = 0 /\ entries' = Sorted
     \/ pc = "sleep" /\ ~dirty /\ wakeIn = 0 /\ UNCHANGED entries
  /\ due' = Filtered(entries', {id \in 1..created : objects[id].fireIn = 0})
  /\ pc' = "fire"
  /\ UNCHANGED <<objects, created, dirty, schedulerPaused, wakeIn,
                 starting>>

BeginFire ==
  /\ pc = "fire"
  /\ due # <<>>
  /\ pc' = IF schedulerPaused THEN "settle" ELSE "firing"
  /\ UNCHANGED <<objects, created, entries, due, dirty, schedulerPaused, wakeIn, starting>>

(* fireSchedule ended; a failed delivery is logged and lost. *)
EndFire ==
  /\ pc = "firing"
  /\ pc' = "settle"
  /\ UNCHANGED <<objects, created, entries, due, dirty, schedulerPaused, wakeIn, starting>>

(* After the fire: count it, then drop or reschedule the entry.  Dropping  *)
(* takes out whatever entry has the name by now.  firedCount is for        *)
(* display and left out.                                                   *)
Counted(object) ==
  [object EXCEPT !.remaining = IF @ = Never THEN Never ELSE @ - 1]
Exhausted(object) == object.remaining <= 0
Finished(object) == object.type = "once" \/ object.untilIn = 0 \/ Exhausted(object)

(* Out of the list, or (a variant) only out of the batch. *)
DroppedFromBatch(name) == entries
Dropped(name) == Without(name)

Settle ==
  /\ pc = "settle"
  /\ LET id == Head(due)
         object == Counted(objects[id])
     IN  IF Finished(object)
           THEN /\ entries' = Dropped(object.name)
                /\ objects' = [objects EXCEPT ![id] = object]
                /\ due' = Tail(due) /\ pc' = "fire"
         ELSE IF object.type = "interval"
           THEN /\ objects' = [objects EXCEPT ![id] = [object EXCEPT !.fireIn = Interval]]
                /\ UNCHANGED entries
                /\ due' = Tail(due) /\ pc' = "fire"
         ELSE   /\ objects' = [objects EXCEPT ![id] = object]
                /\ UNCHANGED <<entries, due>>
                /\ pc' = "cron"
  /\ UNCHANGED <<created, dirty, schedulerPaused, wakeIn, starting>>

NextCronFire(gap) ==
  /\ pc = "cron"
  /\ IF gap = Never
       THEN entries' = Dropped(NameOf(Head(due))) /\ UNCHANGED objects
       ELSE objects' = [objects EXCEPT ![Head(due)].fireIn = gap] /\ UNCHANGED entries
  /\ due' = Tail(due)
  /\ pc' = "fire"
  /\ UNCHANGED <<created, dirty, schedulerPaused, wakeIn, starting>>

(* computeNextCronFire is awaited outside any try: when its retries are    *)
(* exhausted the workflow fails.                                           *)
CronFails ==
  /\ pc = "cron"
  /\ pc' = "failed"
  /\ UNCHANGED <<objects, created, entries, due, dirty, schedulerPaused, wakeIn, starting>>

(* End of a pass, with or without a continueAsNew, which carries entries   *)
(* and the pause flag, has nothing to wait for and so changes nothing.     *)
FinishBatch ==
  /\ pc = "fire"
  /\ due = <<>>
  /\ pc' = "top"
  /\ UNCHANGED <<objects, created, entries, due, dirty, schedulerPaused, wakeIn, starting>>

MainLoop == \/ LoopTop \/ GraceOver \/ GoToSleep \/ WakeEarly \/ CollectDue
            \/ BeginFire \/ EndFire \/ Settle
            \/ (\E gap \in CronGaps : NextCronFire(gap)) \/ CronFails \/ FinishBatch

-----------------------------------------------------------------------------
Tick ==
  /\ ~Running \/ HandlersRun
  /\ objects' = [id \in DOMAIN objects |->
                   IF id \in Listed \cup Range(due) \cup Range(starting)
                     THEN [objects[id] EXCEPT !.fireIn = CountDown(@), !.untilIn = CountDown(@)]
                     ELSE objects[id]]
  /\ wakeIn' = CountDown(wakeIn)
  /\ UNCHANGED <<created, entries, due, dirty, schedulerPaused, pc,
                 starting>>

Create ==
  \E name \in Names, type \in Types, delay \in Delays, until \in Untils,
     count \in Counts :
    \/ CreateBySignal(name, type, delay, until, count)
    \/ \E c \in Clients : CreateFallsBack(c, name, type, delay, until, count)

Init ==
  /\ objects = [id \in 1..MaxCreates |-> NoSchedule]
  /\ created = 0
  /\ entries = <<>> /\ due = <<>>
  /\ dirty = FALSE
  /\ schedulerPaused = FALSE
  /\ pc = "none"
  /\ wakeIn = 0
  /\ starting = [c \in Clients |-> 0]

Next ==
  \/ Create
  \/ \E c \in Clients : StartSeeds(c) \/ StartUsesExisting(c)
  \/ \E name \in Names : RemoveSchedule(name)
  \/ UpdateScheduleTarget
  \/ \E value \in BOOLEAN : SchedulerSetPaused(value)
  \/ MainLoop
  \/ Tick

Spec == Init /\ [][Next]_schedulerVars

(* The worker runs the workflow, activities end, and time passes. *)
Fairness == WF_schedulerVars(MainLoop) /\ SF_schedulerVars(Tick)
FairSpec == Spec /\ Fairness

-----------------------------------------------------------------------------
(* Properties *)

Objects == [name : Names \cup {"none"}, type : {"once", "interval", "cron"},
            fireIn : Nat, untilIn : Nat, remaining : Nat \cup {-1}]

(* Type invariant; schedule names are unique, and no entry is counted once *)
(* its count is exhausted: one that starts at 0 ends at -1, never lower.   *)
TypeOK ==
  /\ objects \in [1..MaxCreates -> Objects]
  /\ created \in 0..MaxCreates
  /\ {entries, due} \subseteq Seq(1..created)
  /\ \A i, j \in DOMAIN entries : i # j => NameOf(entries[i]) # NameOf(entries[j])
  /\ {dirty, schedulerPaused} \subseteq BOOLEAN
  /\ pc \in Awaiting \cup Closed \cup {"top", "fire", "settle"}
  /\ wakeIn \in Nat
  /\ starting \in [Clients -> 0..created]

(* The timer the loop sleeps on never ends after a schedule falls due,     *)
(* whatever was added, replaced or removed while it slept.                 *)
NeverOversleeps ==
  pc = "sleep" /\ ~dirty => \A id \in Listed : wakeIn <= objects[id].fireIn

(* A due schedule is dealt with: fired, rescheduled, skipped or dropped,   *)
(* unless the workflow fails.                                              *)
DueIsServed ==
  \A id \in 1..MaxCreates :
    (Running /\ id \in Listed /\ objects[id].fireIn = 0)
      ~> (id \notin Listed \/ objects[id].fireIn > 0 \/ ~Running)
=============================================================================
