--------------------------- MODULE SessionWorkflow ---------------------------
(***************************************************************************)
(* The attachment life cycle of a session workflow                         *)
(* (workflows/session.ts, agentSessionWorkflow): the signal and update     *)
(* handlers that claim, renew, drain and revoke the attachment lease, the  *)
(* main loop that reaps deadlines and dispatches the outbox, and           *)
(* continueAsNew.                                                          *)
(*                                                                         *)
(* A workflow is single threaded: a handler or a stretch of the main loop  *)
(* runs without interruption up to its next await, so handlers run only    *)
(* while the main loop is at one of the awaits in Awaiting.  An async      *)
(* handler is split at its await into a Begin and an End action.           *)
(*                                                                         *)
(* Time is relative.  The time left on a lease counts down, the time spent *)
(* processing or draining counts up, and Tick moves them all; a timer that *)
(* is not running has the value Off.                                       *)
(***************************************************************************)
EXTENDS Integers, Sequences, FiniteSets, SequencesExt

CONSTANTS
  Messages,            \* message ids an adapter may report as in flight
  LeaseTerms,          \* lease lengths (leaseMs) callers ask for, in ticks
  DrainWindows,        \* grace windows (deadlineMs) given to requestDetach
  ProcessingDeadline,  \* PROCESSING_DEADLINE_MS, in ticks
  Fallback,            \* the five minute cap on every main-loop wait
  EntryTypes,          \* outbox entry types in use: cue, stop, spawn
  Gates,               \* outbox gates in use: paused, locked
  Slack,               \* bound: how far past a deadline the timers count
  MaxClaims,           \* bound on fresh claims
  MaxOutbox,           \* bound on the outbox length
  MaxRuns,             \* bound on workflow runs
  MaxDestroys          \* bound on concurrent destroy updates

ASSUME LeaseTermsAssumption == LeaseTerms \subseteq Nat \ {0}
ASSUME DrainWindowsAssumption == DrainWindows \subseteq Nat
ASSUME DeadlinesAssumption == /\ ProcessingDeadline \in Nat
                              /\ Fallback \in Nat \ {0}
                              /\ Slack \in Nat
ASSUME EntryTypesAssumption == EntryTypes \subseteq {"cue", "stop", "spawn"}
ASSUME GatesAssumption == Gates \subseteq {"paused", "locked"}
ASSUME BoundsAssumption == {MaxClaims, MaxOutbox, MaxRuns, MaxDestroys} \subseteq Nat

VARIABLES
  phase,               \* AttachmentPhase
  currentAttachment,   \* the lease: attachmentId, time left, leaseMs
  inFlightMessages,    \* message ids an adapter is working on
  processingSince,     \* how long inFlightMessages has been non-empty
  drainingSince,       \* how long the session has been draining
  drainingDeadlineMs,  \* the grace window of that drain
  destroyRequested,    \* set by destroy, ends the main loop
  wakeEpoch,           \* wakeEpoch differs from the loop's epochAtWait
  outbox,              \* entries whose status is pending
  entry,               \* the entry whose status is processing
  shut,                \* the gates that hold the outbox back
  pendingForce,        \* attachments a forceDetach is killing
  pendingDestroy,      \* destroy updates waiting for their kill
  pc,                  \* where the main loop is
  wakeIn,              \* time left on the main loop's condition() timer
  reaped,              \* attachment the draining reap set out to kill
  input,               \* the optional fields of this run's SessionInput
  claims,              \* attachments minted so far
  runs                 \* runs so far

attachmentVars == <<currentAttachment, inFlightMessages, processingSince,
                    drainingSince, drainingDeadlineMs>>
outboxVars == <<outbox, entry, shut>>
handlerVars == <<pendingForce, pendingDestroy>>
loopVars == <<pc, wakeIn, reaped>>
runVars == <<input, claims, runs>>
vars == <<phase, attachmentVars, destroyRequested, wakeEpoch, outboxVars,
          handlerVars, loopVars, runVars>>

Off == -1
NoAttachment == [id |-> 0, left |-> 0, lease |-> 0]
NoEntry == [type |-> "none", attachmentId |-> 0]

Held == currentAttachment.id # 0
Expired(a) == a.left <= 0
LivePhases == {"attached", "processing", "awaiting", "draining"}
Phases == LivePhases \cup {"booting", "detached", "gone"}

(* Points of the main loop.  At those in Awaiting the loop waits for a     *)
(* condition, an activity or its handlers, and handlers may run.           *)
Awaiting == {"wait", "drainKill", "delivering", "continue", "exit"}
Points == Awaiting \cup {"top", "lease", "processing", "draining", "outbox",
                         "completed"}
HandlersRun == pc \in Awaiting
NoHandlers == pendingForce = {} /\ pendingDestroy = 0

-----------------------------------------------------------------------------
(* Timers *)

AtLeast(a, b) == IF a >= b THEN a ELSE b
AtMost(a, b) == IF a <= b THEN a ELSE b

CountUp(age, deadline) == IF age = Off THEN Off ELSE AtMost(age + 1, deadline + 1 + Slack)
Aged(a) == IF a.id = 0 THEN a ELSE [a EXCEPT !.left = AtLeast(@ - 1, -Slack)]

(* nextDeadlineMs, capped by the fallback.  A timer of zero sleeps for the *)
(* shortest time there is.                                                 *)
LeaseDue == IF Held THEN currentAttachment.left ELSE Fallback
ProcessingDue == IF processingSince = Off THEN Fallback
                 ELSE ProcessingDeadline - processingSince
DrainDue == IF phase = "draining" /\ drainingSince # Off
              THEN drainingDeadlineMs - drainingSince ELSE Fallback
EarliestDeadline == AtMost(AtMost(LeaseDue, ProcessingDue), AtMost(DrainDue, Fallback))
WaitTime == AtLeast(1, EarliestDeadline)

-----------------------------------------------------------------------------
(* Outbox predicates *)

HasPendingOutbox == outbox # <<>>
HasPendingStop == \E i \in DOMAIN outbox : outbox[i].type = "stop"
CanDispatch == shut = {} /\ HasPendingOutbox
OutboxIdle == outbox = <<>> /\ entry = NoEntry
(* The first pending entry, or the first pending stop behind a shut gate;  *)
(* before it, a form that looks at the first entry only.                   *)
IsNextAtHead(i) == i = 1 /\ (CanDispatch \/ outbox[i].type = "stop")
IsNext(i) == /\ CanDispatch \/ outbox[i].type = "stop"
             /\ \A j \in 1..(i - 1) : ~CanDispatch /\ outbox[j].type # "stop"

-----------------------------------------------------------------------------
(* Handlers *)

(* The block every detach site repeats; before it, a form of it that       *)
(* forgets the in-flight work.                                             *)
DetachKeepingWork == /\ currentAttachment' = NoAttachment
                     /\ UNCHANGED <<inFlightMessages, processingSince>>
                     /\ drainingSince' = Off
                     /\ drainingDeadlineMs' = Off
                     /\ phase' = "detached"
Detach == /\ currentAttachment' = NoAttachment
          /\ inFlightMessages' = {}
          /\ processingSince' = Off
          /\ drainingSince' = Off
          /\ drainingDeadlineMs' = Off
          /\ phase' = "detached"

(* wakeEpoch++ *)
LeavesLoopAsleep == UNCHANGED wakeEpoch
WakesLoop == wakeEpoch' = TRUE

(* claimAttachment with the id of the unexpired current attachment. *)
ClaimRenews(term) ==
  /\ HandlersRun
  /\ phase # "gone"
  /\ Held /\ ~Expired(currentAttachment)
  /\ currentAttachment' = [id |-> currentAttachment.id, left |-> term, lease |-> term]
  /\ UNCHANGED <<phase, inFlightMessages, processingSince, drainingSince,
                 drainingDeadlineMs, destroyRequested, wakeEpoch, outboxVars,
                 handlerVars, loopVars, runVars>>

(* claimAttachment on a free or expired session; any other claim is        *)
(* refused with AttachmentConflict and changes nothing.                    *)
ClaimableAnytime == TRUE
Claimable == ~Held \/ Expired(currentAttachment)
ClaimFresh(term) ==
  /\ HandlersRun
  /\ phase # "gone"
  /\ Claimable
  /\ claims < MaxClaims
  /\ claims' = claims + 1
  /\ currentAttachment' = [id |-> claims', left |-> term, lease |-> term]
  /\ inFlightMessages' = {}
  /\ processingSince' = Off
  /\ drainingSince' = Off
  /\ drainingDeadlineMs' = Off
  /\ phase' = "attached"
  /\ UNCHANGED <<destroyRequested, wakeEpoch, outboxVars, handlerVars,
                 loopVars, input, runs>>

(* heartbeat for the current attachment; any other is ignored. *)
Heartbeat ==
  /\ HandlersRun
  /\ Held
  /\ currentAttachment' = [currentAttachment EXCEPT !.left = currentAttachment.lease]
  /\ UNCHANGED <<phase, inFlightMessages, processingSince, drainingSince,
                 drainingDeadlineMs, destroyRequested, wakeEpoch, outboxVars,
                 handlerVars, loopVars, runVars>>

(* processingStart by the current attachment's adapter; every adapter      *)
(* names its attachment, and a mismatch is refused.  The code also lets a  *)
(* caller that names none through; no caller in the repository does that.  *)
ProcessingStart(m) ==
  /\ HandlersRun
  /\ phase # "gone"
  /\ Held
  /\ inFlightMessages' = inFlightMessages \cup {m}
  /\ IF inFlightMessages = {}
       THEN /\ processingSince' = 0
            /\ phase' = IF phase \in {"attached", "awaiting"} THEN "processing" ELSE phase
       ELSE UNCHANGED <<processingSince, phase>>
  /\ UNCHANGED <<currentAttachment, drainingSince, drainingDeadlineMs,
                 destroyRequested, wakeEpoch, outboxVars, handlerVars, loopVars,
                 runVars>>

ProcessingEnd(m) ==
  /\ HandlersRun
  /\ Held
  /\ inFlightMessages' = inFlightMessages \ {m}
  /\ IF inFlightMessages' = {}
       THEN /\ processingSince' = Off
            /\ phase' = IF phase # "processing" THEN phase
                        ELSE IF OutboxIdle THEN "awaiting" ELSE "attached"
       ELSE UNCHANGED <<processingSince, phase>>
  /\ UNCHANGED <<currentAttachment, drainingSince, drainingDeadlineMs,
                 destroyRequested, wakeEpoch, outboxVars, handlerVars, loopVars,
                 runVars>>

RequestDetach(window) ==
  /\ HandlersRun
  /\ Held
  /\ phase \notin {"gone", "draining", "detached"}
  /\ drainingSince' = 0
  /\ drainingDeadlineMs' = window
  /\ phase' = "draining"
  /\ WakesLoop
  /\ UNCHANGED <<currentAttachment, inFlightMessages, processingSince,
                 destroyRequested, outboxVars, handlerVars, loopVars, runVars>>

AdapterExited ==
  /\ HandlersRun
  /\ phase \notin {"detached", "gone"}
  /\ Held
  /\ Detach
  /\ WakesLoop
  /\ UNCHANGED <<destroyRequested, outboxVars, handlerVars, loopVars, runVars>>

(* forceDetach up to its hardTerminate await.  Two calls that name the     *)
(* same attachment count as one: the second finds it gone and does nothing.*)
ForceDetachBegin ==
  /\ HandlersRun
  /\ phase # "gone"
  /\ Held
  /\ pendingForce' = pendingForce \cup {currentAttachment.id}
  /\ UNCHANGED <<phase, attachmentVars, destroyRequested, wakeEpoch, outboxVars,
                 pendingDestroy, loopVars, runVars>>

(* The kill succeeded and the attachment is still the one it was for. *)
StillHeld(id) == Held
StillCurrent(id) == currentAttachment.id = id
ForceDetachReaps(id) ==
  /\ HandlersRun
  /\ id \in pendingForce
  /\ StillCurrent(id)
  /\ Detach
  /\ WakesLoop
  /\ pendingForce' = pendingForce \ {id}
  /\ UNCHANGED <<destroyRequested, outboxVars, pendingDestroy, loopVars, runVars>>

(* The kill failed (HardTerminateFailed) or the attachment has changed. *)
ForceDetachGivesUp(id) ==
  /\ HandlersRun
  /\ id \in pendingForce
  /\ pendingForce' = pendingForce \ {id}
  /\ UNCHANGED <<phase, attachmentVars, destroyRequested, wakeEpoch, outboxVars,
                 pendingDestroy, loopVars, runVars>>

ForceDetachEnd(id) == ForceDetachReaps(id) \/ ForceDetachGivesUp(id)

DestroyBegin ==
  /\ HandlersRun
  /\ phase # "gone"
  /\ pendingDestroy < MaxDestroys
  /\ pendingDestroy' = pendingDestroy + 1
  /\ UNCHANGED <<phase, attachmentVars, destroyRequested, wakeEpoch, outboxVars,
                 pendingForce, loopVars, runVars>>

(* The kill ended, well or badly: it is best effort here. *)
DestroyEnd ==
  /\ HandlersRun
  /\ pendingDestroy > 0
  /\ pendingDestroy' = pendingDestroy - 1
  /\ destroyRequested' = TRUE
  /\ currentAttachment' = NoAttachment
  /\ phase' = "gone"
  /\ UNCHANGED <<inFlightMessages, processingSince, drainingSince,
                 drainingDeadlineMs, wakeEpoch, outboxVars, pendingForce,
                 loopVars, runVars>>

(* submitOutbox, and enqueueSpawn with the attachment its caller claimed. *)
Submit(type, id) ==
  /\ HandlersRun
  /\ Len(outbox) < MaxOutbox
  /\ outbox' = Append(outbox, [type |-> type, attachmentId |-> id])
  /\ UNCHANGED <<phase, attachmentVars, destroyRequested, wakeEpoch, entry, shut,
                 handlerVars, loopVars, runVars>>

SubmitOutbox == \E type \in EntryTypes \ {"spawn"} : Submit(type, 0)
EnqueueSpawn == "spawn" \in EntryTypes /\ \E id \in 1..claims : Submit("spawn", id)

SetGates(gates) ==
  /\ HandlersRun
  /\ shut' = gates
  /\ UNCHANGED <<phase, attachmentVars, destroyRequested, wakeEpoch, outbox, entry,
                 handlerVars, loopVars, runVars>>

(* setPaused(true), setPaused(false) and releaseHeld. *)
SetPaused == "paused" \in Gates /\ (SetGates(shut \cup {"paused"}) \/ SetGates(shut \ {"paused"}))
ReleaseHeld == "locked" \in shut /\ SetGates(shut \ {"locked"})

Handlers ==
  \/ \E term \in LeaseTerms : ClaimRenews(term) \/ ClaimFresh(term)
  \/ Heartbeat
  \/ \E m \in Messages : ProcessingStart(m) \/ ProcessingEnd(m)
  \/ \E window \in DrainWindows : RequestDetach(window)
  \/ AdapterExited
  \/ ForceDetachBegin \/ \E id \in pendingForce : ForceDetachEnd(id)
  \/ DestroyBegin \/ DestroyEnd
  \/ SubmitOutbox \/ EnqueueSpawn \/ SetPaused \/ ReleaseHeld

-----------------------------------------------------------------------------
(* Main loop *)

LoopTop ==
  /\ pc = "top"
  /\ IF destroyRequested
       THEN pc' = "exit" /\ UNCHANGED <<wakeEpoch, wakeIn>>
       ELSE pc' = "wait" /\ wakeEpoch' = FALSE /\ wakeIn' = WaitTime
  /\ UNCHANGED <<phase, attachmentVars, destroyRequested, outboxVars,
                 handlerVars, reaped, runVars>>

(* The predicate of the loop's condition(), or its timer. *)
UntimedWakeCondition == \/ destroyRequested
                        \/ CanDispatch
                        \/ HasPendingStop
                        \/ phase = "gone"
                        \/ wakeEpoch
WakeCondition == \/ destroyRequested
                 \/ CanDispatch
                 \/ HasPendingStop
                 \/ phase = "gone"
                 \/ wakeEpoch
                 \/ wakeIn = 0

Wake ==
  /\ pc = "wait"
  /\ WakeCondition
  /\ pc' = IF destroyRequested THEN "exit" ELSE "lease"
  /\ UNCHANGED <<phase, attachmentVars, destroyRequested, wakeEpoch, outboxVars,
                 handlerVars, wakeIn, reaped, runVars>>

(* 9.5.a *)
LeaseOver == Held /\ Expired(currentAttachment)
ReapExpiredLease ==
  /\ pc = "lease"
  /\ IF LeaseOver THEN Detach ELSE UNCHANGED <<phase, attachmentVars>>
  /\ pc' = "processing"
  /\ UNCHANGED <<destroyRequested, wakeEpoch, outboxVars, handlerVars, wakeIn,
                 reaped, runVars>>

(* 9.5.b *)
EjectProcessing ==
  /\ pc = "processing"
  /\ IF processingSince > ProcessingDeadline
       THEN /\ inFlightMessages' = {}
            /\ processingSince' = Off
            /\ phase' = IF phase = "processing" THEN "attached" ELSE phase
       ELSE UNCHANGED <<inFlightMessages, processingSince, phase>>
  /\ pc' = "draining"
  /\ UNCHANGED <<currentAttachment, drainingSince, drainingDeadlineMs,
                 destroyRequested, wakeEpoch, outboxVars, handlerVars, wakeIn,
                 reaped, runVars>>

(* 9.5.c up to the hardTerminate await. *)
DrainOver == /\ phase = "draining"
             /\ drainingSince # Off
             /\ drainingSince > drainingDeadlineMs
CheckDraining ==
  /\ pc = "draining"
  /\ IF DrainOver
       THEN reaped' = currentAttachment.id /\ pc' = "drainKill"
       ELSE pc' = "outbox" /\ UNCHANGED reaped
  /\ UNCHANGED <<phase, attachmentVars, destroyRequested, wakeEpoch, outboxVars,
                 handlerVars, wakeIn, runVars>>

(* The kill ended, well or badly; whatever is attached now is detached. *)
ReapDrained ==
  /\ pc = "drainKill"
  /\ Detach
  /\ pc' = "outbox"
  /\ reaped' = 0
  /\ UNCHANGED <<destroyRequested, wakeEpoch, outboxVars, handlerVars, wakeIn,
                 runVars>>

MayDispatch == ~destroyRequested
Dispatch ==
  /\ pc = "outbox"
  /\ MayDispatch
  /\ \E i \in DOMAIN outbox :
        /\ IsNext(i)
        /\ entry' = outbox[i]
        /\ outbox' = RemoveAt(outbox, i)
  /\ pc' = "delivering"
  /\ UNCHANGED <<phase, attachmentVars, destroyRequested, wakeEpoch, shut,
                 handlerVars, wakeIn, reaped, runVars>>

Delivered ==
  /\ pc = "delivering"
  /\ entry' = NoEntry
  /\ pc' = "outbox"
  /\ UNCHANGED <<phase, attachmentVars, destroyRequested, wakeEpoch, outbox, shut,
                 handlerVars, wakeIn, reaped, runVars>>

(* A failed spawn gives up the attachment that was claimed for it. *)
RollsBack == entry.type = "spawn" /\ currentAttachment.id = entry.attachmentId
DeliveryFailed ==
  /\ pc = "delivering"
  /\ IF RollsBack THEN Detach ELSE UNCHANGED <<phase, attachmentVars>>
  /\ entry' = NoEntry
  /\ pc' = "outbox"
  /\ UNCHANGED <<destroyRequested, wakeEpoch, outbox, shut, handlerVars, wakeIn,
                 reaped, runVars>>

(* Nothing left to dispatch: attached refines to awaiting, and the server  *)
(* may suggest continueAsNew.                                              *)
FinishPass ==
  /\ pc = "outbox"
  /\ ~MayDispatch \/ ~\E i \in DOMAIN outbox : IsNext(i)
  /\ phase' = IF phase = "attached" /\ inFlightMessages = {} /\ OutboxIdle
                THEN "awaiting" ELSE phase
  /\ pc' \in {"top"} \cup (IF runs < MaxRuns THEN {"continue"} ELSE {})
  /\ UNCHANGED <<attachmentVars, destroyRequested, wakeEpoch, outboxVars,
                 handlerVars, wakeIn, reaped, runVars>>

(* The SessionInput of the next run: this run's, overridden by the state   *)
(* that is set.                                                            *)
Extended(a) == [a EXCEPT !.left = a.lease]
CarriedIfUnexpired == IF Held /\ ~Expired(currentAttachment)
                        THEN Extended(currentAttachment) ELSE NoAttachment
CarriedAttachment == IF Held THEN Extended(currentAttachment) ELSE input.currentAttachment
CarriedInput ==
  [currentAttachment |-> CarriedAttachment,
   drainingSince |-> IF drainingSince # Off THEN drainingSince ELSE input.drainingSince,
   drainingDeadlineMs |-> IF drainingDeadlineMs # Off THEN drainingDeadlineMs
                          ELSE input.drainingDeadlineMs]

(* Handlers under way have to end first, or they would be cut off. *)
ContinuesAtOnce == TRUE
MayContinue == NoHandlers
ContinueAsNew ==
  /\ pc = "continue"
  /\ MayContinue
  /\ input' = CarriedInput
  /\ currentAttachment' = input'.currentAttachment
  /\ drainingSince' = input'.drainingSince
  /\ drainingDeadlineMs' = input'.drainingDeadlineMs
  /\ wakeEpoch' = FALSE
  /\ runs' = runs + 1
  /\ pc' = "top"
  /\ UNCHANGED <<phase, inFlightMessages, processingSince, destroyRequested,
                 outboxVars, handlerVars, wakeIn, reaped, claims>>

(* The wait for handlers before the workflow completes; an earlier version *)
(* also waited for the outbox to drain.                                    *)
OutboxDrained == NoHandlers /\ OutboxIdle
MayComplete == NoHandlers
Exit ==
  /\ pc = "exit"
  /\ MayComplete
  /\ pc' = "completed"
  /\ UNCHANGED <<phase, attachmentVars, destroyRequested, wakeEpoch, outboxVars,
                 handlerVars, wakeIn, reaped, runVars>>

MainLoop == \/ LoopTop \/ Wake \/ ReapExpiredLease \/ EjectProcessing
            \/ CheckDraining \/ ReapDrained \/ Dispatch \/ Delivered
            \/ DeliveryFailed \/ FinishPass \/ ContinueAsNew \/ Exit

-----------------------------------------------------------------------------
(* Time passes between workflow tasks, never within one. *)
Tick ==
  /\ HandlersRun
  /\ currentAttachment' = Aged(currentAttachment)
  /\ processingSince' = CountUp(processingSince, ProcessingDeadline)
  /\ drainingSince' = CountUp(drainingSince, drainingDeadlineMs)
  /\ wakeIn' = AtLeast(wakeIn - 1, 0)
  /\ input' = [input EXCEPT !.currentAttachment = Aged(@),
                            !.drainingSince = CountUp(@, input.drainingDeadlineMs)]
  /\ UNCHANGED <<phase, inFlightMessages, drainingDeadlineMs, destroyRequested,
                 wakeEpoch, outboxVars, handlerVars, pc, reaped, claims, runs>>

Terminated == pc = "completed" /\ UNCHANGED vars

Init ==
  /\ phase = "booting"
  /\ currentAttachment = NoAttachment
  /\ inFlightMessages = {}
  /\ processingSince = Off
  /\ drainingSince = Off
  /\ drainingDeadlineMs = Off
  /\ destroyRequested = FALSE
  /\ wakeEpoch = FALSE
  /\ outbox = <<>>
  /\ entry = NoEntry
  /\ shut \in SUBSET (Gates \cap {"locked"})
  /\ pendingForce = {}
  /\ pendingDestroy = 0
  /\ pc = "top"
  /\ wakeIn = 0
  /\ reaped = 0
  /\ input = [currentAttachment |-> NoAttachment, drainingSince |-> Off,
              drainingDeadlineMs |-> Off]
  /\ claims = 0
  /\ runs = 1

Next == Handlers \/ MainLoop \/ Tick \/ Terminated

Spec == Init /\ [][Next]_vars

(* Activities end (all have timeouts and bounded retries), the worker runs *)
(* the workflow, and time passes.  condition(allHandlersFinished) is       *)
(* evaluated after every activation, so the loop does not miss a moment in *)
(* which no handler runs; handlers are assumed not to overlap for ever.    *)
Fairness == /\ WF_vars(MainLoop)
            /\ SF_vars(Exit) /\ SF_vars(ContinueAsNew)
            /\ \A id \in 1..MaxClaims : WF_vars(ForceDetachEnd(id))
            /\ WF_vars(DestroyEnd)
            /\ SF_vars(Tick)

FairSpec == Spec /\ Fairness

-----------------------------------------------------------------------------
(* Properties *)

Attachments == [id : Nat, left : Int, lease : Nat]
Entries == [type : {"none", "cue", "stop", "spawn"}, attachmentId : Nat]
Ages == Nat \cup {Off}

(* Type invariant of the workflow's state. *)
TypeOK ==
  /\ phase \in Phases
  /\ currentAttachment \in Attachments
  /\ inFlightMessages \subseteq Messages
  /\ {processingSince, drainingSince, drainingDeadlineMs} \subseteq Ages
  /\ {destroyRequested, wakeEpoch} \subseteq BOOLEAN
  /\ outbox \in Seq(Entries) /\ entry \in Entries /\ shut \subseteq Gates
  /\ pendingForce \subseteq Nat /\ pendingDestroy \in Nat
  /\ pc \in Points /\ {wakeIn, reaped, claims, runs} \subseteq Nat
  /\ input \in [currentAttachment : Attachments, drainingSince : Ages,
                drainingDeadlineMs : Ages]

(* The session is attached, processing, awaiting or draining only while an *)
(* attachment is held: every path that gives the attachment up, the reaps, *)
(* the failed spawn and continueAsNew included, also leaves those phases.  *)
LiveHasLease == phase \in LivePhases => Held

(* An attachment held in any other phase is one the run inherited from the *)
(* SessionInput of an earlier continueAsNew, not one it gave out.          *)
HeldOnlyInherited ==
  Held /\ phase \notin LivePhases => currentAttachment.id = input.currentAttachment.id

(* Phase, in-flight set and processing clock agree whatever order claims,  *)
(* drains, ejections and late processingEnd calls arrive in, so a session  *)
(* is never stuck in processing with nothing to eject, nor left with work  *)
(* of an adapter that is gone.                                             *)
WorkMatchesPhase ==
  /\ inFlightMessages = {} <=> processingSince = Off
  /\ phase = "processing" => inFlightMessages # {}
  /\ phase \in {"booting", "attached", "awaiting"} => inFlightMessages = {}
  /\ ~Held /\ phase # "gone" => inFlightMessages = {}

(* The main loop's timer never sleeps past a drain's deadline, which       *)
(* requestDetach must wake the loop for, nor more than the fallback past   *)
(* the deadlines whose handlers do not wake it.                            *)
NoOversleep ==
  pc = "wait" =>
    /\ phase = "draining" /\ ~wakeEpoch =>
          wakeIn <= AtLeast(1, drainingDeadlineMs - drainingSince)
    /\ Held => wakeIn <= AtLeast(1, currentAttachment.left + Fallback)
    /\ processingSince # Off =>
          wakeIn <= AtLeast(1, ProcessingDeadline - processingSince + Fallback)

(* An unexpired lease is taken away by a forceDetach only if it is the one *)
(* that call was for, and by the main loop only after a drain or when the  *)
(* spawn it was claimed for fails.                                         *)
RevokesOnlyItsTarget ==
  [][Held /\ ~Expired(currentAttachment) /\ ~Held' =>
       /\ pendingForce' # pendingForce =>
             pendingForce \ pendingForce' = {currentAttachment.id}
       /\ pc' # pc => \/ reaped # 0
                      \/ /\ entry.type = "spawn"
                         /\ entry.attachmentId = currentAttachment.id]_vars

(* A destroy ends the session.  The main loop begins no other reap and no  *)
(* delivery after it, and the session stays gone, with no attachment but   *)
(* one that continueAsNew brings back from the SessionInput; all but for   *)
(* a drain's reap that was waiting for its kill when the destroy ended,    *)
(* which leaves a detached session that can be claimed until it completes. *)
DestroyIsFinal ==
  [][destroyRequested =>
       /\ pc' # pc => pc' \notin {"lease", "drainKill", "delivering"}
       /\ phase = "gone" /\ phase' # "gone" => pc = "drainKill"
       /\ phase = "gone" /\ ~Held /\ Held' => pc = "continue"]_vars

(* The session implements the abstract lease: one holder, replaced only    *)
(* when it expired or was revoked, under a fresh identity.                 *)
Lease == INSTANCE AttachmentLease WITH
           holder <- IF phase \in LivePhases THEN currentAttachment.id ELSE 0,
           expired <- phase \in LivePhases /\ Expired(currentAttachment),
           granted <- claims
ImplementsLease == Lease!LeaseSpec

(* The dispatch loop empties the outbox again and again.  A stream of      *)
(* submissions that never lets it run dry keeps it from the deadlines.     *)
LoopReturns == []<>(pc \in {"wait", "completed"})

(* An expired lease is eventually reaped or renewed, although no handler   *)
(* wakes the loop for it, and a drain ends, whether or not the adapter     *)
(* ever reports its exit.                                                  *)
DeadlinesAreMet ==
  LoopReturns =>
    /\ LeaseOver ~> (~LeaseOver \/ pc = "completed")
    /\ phase = "draining" ~> (phase # "draining" \/ pc = "completed")

(* While a stop entry is pending, stop entries go out, although the gates  *)
(* are shut and whatever entries stand before it; they go out in turn.     *)
StopBypassesGates == HasPendingStop ~> (entry.type = "stop" \/ destroyRequested)

(* A destroyed workflow completes, whatever its handlers are waiting for. *)
DestroyCompletes == destroyRequested ~> pc = "completed"
=============================================================================
