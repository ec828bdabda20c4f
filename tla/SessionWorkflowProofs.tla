------------------------ MODULE SessionWorkflowProofs ------------------------
(***************************************************************************)
(* Theorems about SessionWorkflow for every value of its constants.        *)
(*                                                                         *)
(* LifeCycleInv is the inductive invariant the safety theorems rest on:    *)
(* beside the invariants the runs check, the facts that a draining session *)
(* has its drain clock running and that a drain reap knows its target.     *)
(* SleepInv adds that the main loop's timer is never above the fallback.   *)
(* The last part shows, step by step, that the session implements the      *)
(* lease of AttachmentLease.                                               *)
(***************************************************************************)
EXTENDS SessionWorkflow, TLAPS

(* Removing an entry from the outbox leaves a sequence of entries. *)
LEMMA RemoveAtType ==
  ASSUME NEW S, NEW s \in Seq(S), NEW i \in DOMAIN s
  PROVE  RemoveAt(s, i) \in Seq(S)
<1>1. i \in 1..Len(s)
  OBVIOUS
<1>2. SubSeq(s, 1, i - 1) \in Seq(S) /\ SubSeq(s, i + 1, Len(s)) \in Seq(S)
  BY <1>1
<1>. QED  BY <1>2 DEF RemoveAt

(* What is left after a removal was there before. *)
LEMMA RemoveAtKeeps ==
  ASSUME NEW S, NEW s \in Seq(S), NEW i \in DOMAIN s
  PROVE  \A j \in DOMAIN RemoveAt(s, i) : \E k \in DOMAIN s : RemoveAt(s, i)[j] = s[k]
<1>1. i \in 1..Len(s)
  OBVIOUS
<1>2. RemoveAt(s, i) = SubSeq(s, 1, i - 1) \o SubSeq(s, i + 1, Len(s))
  BY DEF RemoveAt
<1>3. ASSUME NEW j \in DOMAIN RemoveAt(s, i)
      PROVE  RemoveAt(s, i)[j] = IF j < i THEN s[j] ELSE s[j + 1]
  BY <1>1, <1>2, <1>3
<1>4. Len(RemoveAt(s, i)) = Len(s) - 1
  BY <1>1, <1>2
<1>5. DOMAIN RemoveAt(s, i) = 1..(Len(s) - 1)
  BY <1>1, <1>2, <1>4
<1>. QED  BY <1>1, <1>3, <1>5

(* The main loop always sleeps for some time. *)
LEMMA WaitTimeType == TypeOK => WaitTime \in Nat /\ EarliestDeadline \in Int
<1>. SUFFICES ASSUME TypeOK PROVE WaitTime \in Nat /\ EarliestDeadline \in Int
  OBVIOUS
<1>1. LeaseDue \in Int
  BY DeadlinesAssumption DEF TypeOK, LeaseDue, Attachments
<1>2. ProcessingDue \in Int
  BY DeadlinesAssumption DEF TypeOK, ProcessingDue, Ages, Off
<1>3. DrainDue \in Int
  BY DeadlinesAssumption DEF TypeOK, DrainDue, Ages, Off
<1>4. EarliestDeadline \in Int
  BY <1>1, <1>2, <1>3, DeadlinesAssumption DEF EarliestDeadline, AtMost
<1>. QED  BY <1>4 DEF WaitTime, AtLeast

-----------------------------------------------------------------------------
(* Type correctness *)

LEMMA DetachType == TypeOK /\ Detach =>
    /\ phase' \in Phases
    /\ currentAttachment' \in Attachments
    /\ inFlightMessages' \subseteq Messages
    /\ {processingSince', drainingSince', drainingDeadlineMs'} \subseteq Ages
  BY DEF Detach, NoAttachment, Attachments, Ages, Off, Phases

LEMMA HandlersType == TypeOK /\ Handlers => TypeOK'
<1>. SUFFICES ASSUME TypeOK, Handlers PROVE TypeOK'
  OBVIOUS
<1>. USE DEF TypeOK, vars, attachmentVars, outboxVars, handlerVars, loopVars, runVars
<1>1. ASSUME NEW term \in LeaseTerms, ClaimRenews(term) PROVE TypeOK'
  <2>1. currentAttachment' \in Attachments
    BY <1>1, LeaseTermsAssumption DEF ClaimRenews, Attachments
  <2>. QED  BY <1>1, <2>1 DEF ClaimRenews
<1>2. ASSUME NEW term \in LeaseTerms, ClaimFresh(term) PROVE TypeOK'
  <2>1. claims' \in Nat /\ currentAttachment' \in Attachments
    BY <1>2, LeaseTermsAssumption DEF ClaimFresh, Attachments
  <2>. QED  BY <1>2, <2>1 DEF ClaimFresh, Ages, Phases, LivePhases
<1>3. CASE Heartbeat
  <2>1. currentAttachment' \in Attachments
    BY <1>3 DEF Heartbeat, Attachments
  <2>. QED  BY <1>3, <2>1 DEF Heartbeat
<1>4. ASSUME NEW m \in Messages, ProcessingStart(m) PROVE TypeOK'
  BY <1>4 DEF ProcessingStart, Ages, Phases, LivePhases
<1>5. ASSUME NEW m \in Messages, ProcessingEnd(m) PROVE TypeOK'
  BY <1>5 DEF ProcessingEnd, Ages, Off, Phases, LivePhases
<1>6. ASSUME NEW window \in DrainWindows, RequestDetach(window) PROVE TypeOK'
  BY <1>6, DrainWindowsAssumption DEF RequestDetach, WakesLoop, Ages, Phases, LivePhases
<1>7. CASE AdapterExited
  BY <1>7, DetachType DEF AdapterExited, WakesLoop
<1>8. CASE ForceDetachBegin
  BY <1>8 DEF ForceDetachBegin, Attachments
<1>9. ASSUME NEW id \in pendingForce, ForceDetachEnd(id) PROVE TypeOK'
  BY <1>9, DetachType DEF ForceDetachEnd, ForceDetachReaps, ForceDetachGivesUp, WakesLoop
<1>10. CASE DestroyBegin
  BY <1>10 DEF DestroyBegin
<1>11. CASE DestroyEnd
  BY <1>11 DEF DestroyEnd, NoAttachment, Attachments, Phases
<1>12. ASSUME NEW type \in EntryTypes, NEW id \in Nat, Submit(type, id) PROVE TypeOK'
  <2>1. [type |-> type, attachmentId |-> id] \in Entries
    BY EntryTypesAssumption DEF Entries
  <2>. QED  BY <1>12, <2>1 DEF Submit
<1>13. ASSUME NEW gates \in SUBSET Gates, SetGates(gates) PROVE TypeOK'
  BY <1>13 DEF SetGates
<1>14. CASE SubmitOutbox
  BY <1>14, <1>12 DEF SubmitOutbox
<1>15. CASE EnqueueSpawn
  BY <1>15, <1>12 DEF EnqueueSpawn
<1>16. CASE SetPaused
  <2>1. shut \cup {"paused"} \in SUBSET Gates /\ shut \ {"paused"} \in SUBSET Gates
    BY <1>16 DEF SetPaused
  <2>. QED  BY <1>16, <1>13, <2>1 DEF SetPaused
<1>17. CASE ReleaseHeld
  <2>1. shut \ {"locked"} \in SUBSET Gates
    OBVIOUS
  <2>. QED  BY <1>17, <1>13, <2>1 DEF ReleaseHeld
<1>. QED
  BY <1>1, <1>2, <1>3, <1>4, <1>5, <1>6, <1>7, <1>8, <1>9, <1>10, <1>11, <1>14,
     <1>15, <1>16, <1>17 DEF Handlers

LEMMA MainLoopType == TypeOK /\ MainLoop => TypeOK'
<1>. SUFFICES ASSUME TypeOK, MainLoop PROVE TypeOK'
  OBVIOUS
<1>. USE DEF TypeOK, vars, attachmentVars, outboxVars, handlerVars, loopVars, runVars
<1>1. CASE LoopTop
  BY <1>1, WaitTimeType DEF LoopTop, Points, Awaiting
<1>2. CASE Wake
  BY <1>2 DEF Wake, Points, Awaiting
<1>3. CASE ReapExpiredLease
  BY <1>3, DetachType DEF ReapExpiredLease, Points
<1>4. CASE EjectProcessing
  BY <1>4 DEF EjectProcessing, Points, Ages, Off, Phases, LivePhases
<1>5. CASE CheckDraining
  BY <1>5 DEF CheckDraining, Points, Awaiting, Attachments
<1>6. CASE ReapDrained
  BY <1>6, DetachType DEF ReapDrained, Points
<1>7. CASE Dispatch
  <2>1. PICK i \in DOMAIN outbox : entry' = outbox[i] /\ outbox' = RemoveAt(outbox, i)
    BY <1>7 DEF Dispatch
  <2>2. outbox' \in Seq(Entries) /\ entry' \in Entries
    BY <2>1, RemoveAtType
  <2>. QED  BY <1>7, <2>2 DEF Dispatch, Points, Awaiting
<1>8. CASE Delivered
  BY <1>8 DEF Delivered, NoEntry, Entries, Points
<1>9. CASE DeliveryFailed
  BY <1>9, DetachType DEF DeliveryFailed, NoEntry, Entries, Points
<1>10. CASE FinishPass
  BY <1>10 DEF FinishPass, Points, Awaiting, Phases, LivePhases
<1>11. CASE ContinueAsNew
  <2>1. CarriedInput \in [currentAttachment : Attachments, drainingSince : Ages,
                          drainingDeadlineMs : Ages]
    BY DEF CarriedInput, CarriedAttachment, Extended, Attachments
  <2>2. /\ input' \in [currentAttachment : Attachments, drainingSince : Ages,
                       drainingDeadlineMs : Ages]
        /\ currentAttachment' \in Attachments
        /\ drainingSince' \in Ages /\ drainingDeadlineMs' \in Ages
    BY <1>11, <2>1 DEF ContinueAsNew
  <2>3. runs' \in Nat /\ pc' \in Points
    BY <1>11 DEF ContinueAsNew, Points
  <2>. QED  BY <1>11, <2>2, <2>3 DEF ContinueAsNew
<1>12. CASE Exit
  BY <1>12 DEF Exit, Points
<1>. QED
  BY <1>1, <1>2, <1>3, <1>4, <1>5, <1>6, <1>7, <1>8, <1>9, <1>10, <1>11, <1>12
     DEF MainLoop

LEMMA AgedType == \A a \in Attachments : Aged(a) \in Attachments
  BY DeadlinesAssumption DEF Aged, Attachments, AtLeast

LEMMA CountUpType == \A age \in Ages, deadline \in Ages : CountUp(age, deadline) \in Ages
  BY DeadlinesAssumption DEF CountUp, Ages, Off, AtMost

LEMMA TickType == TypeOK /\ Tick => TypeOK'
<1>. SUFFICES ASSUME TypeOK, Tick PROVE TypeOK'
  OBVIOUS
<1>. USE DEF TypeOK
<1>1. currentAttachment' \in Attachments
  BY AgedType DEF Tick
<1>2. processingSince' \in Ages /\ drainingSince' \in Ages
  BY CountUpType, DeadlinesAssumption DEF Tick, Ages
<1>3. wakeIn' \in Nat
  BY DEF Tick, AtLeast
<1>4. input' \in [currentAttachment : Attachments, drainingSince : Ages,
                  drainingDeadlineMs : Ages]
  BY AgedType, CountUpType DEF Tick
<1>. QED
  BY <1>1, <1>2, <1>3, <1>4 DEF Tick, outboxVars, handlerVars

(* Type correctness of the session workflow. *)
THEOREM TypeCorrect == Spec => []TypeOK
<1>1. Init => TypeOK
  <2>. SUFFICES ASSUME Init PROVE TypeOK
    OBVIOUS
  <2>1. phase \in Phases /\ pc \in Points
    BY DEF Init, Phases, LivePhases, Points
  <2>2. currentAttachment \in Attachments /\ entry \in Entries
    BY DEF Init, NoAttachment, Attachments, NoEntry, Entries
  <2>3. input \in [currentAttachment : Attachments, drainingSince : Ages,
                   drainingDeadlineMs : Ages]
    BY DEF Init, NoAttachment, Attachments, Ages
  <2>4. outbox \in Seq(Entries) /\ shut \subseteq Gates
    BY DEF Init
  <2>5. {processingSince, drainingSince, drainingDeadlineMs} \subseteq Ages
    BY DEF Init, Ages
  <2>6. {wakeIn, reaped, claims, runs} \subseteq Nat /\ pendingForce \subseteq Nat
    BY DEF Init
  <2>7. {destroyRequested, wakeEpoch} \subseteq BOOLEAN
    BY DEF Init
  <2>8. inFlightMessages \subseteq Messages /\ pendingDestroy \in Nat
    BY DEF Init
  <2>. QED  BY <2>1, <2>2, <2>3, <2>4, <2>5, <2>6, <2>7, <2>8 DEF TypeOK
<1>2. TypeOK /\ [Next]_vars => TypeOK'
  <2>1. CASE UNCHANGED vars
    BY <2>1 DEF vars, attachmentVars, outboxVars, handlerVars, loopVars, runVars, TypeOK
  <2>. QED  BY <2>1, HandlersType, MainLoopType, TickType DEF Next, Terminated
<1>. QED  BY <1>1, <1>2, PTL DEF Spec

-----------------------------------------------------------------------------
(* The life cycle *)

DrainClockRuns == phase = "draining" => drainingSince # Off /\ drainingDeadlineMs # Off
ReapHasTarget == pc = "drainKill" => reaped # 0

(* A session that has yet to be claimed has nothing to inherit either. *)
BootingUnclaimed == phase = "booting" => ~Held /\ input.currentAttachment.id = 0

LifeCycleInv == /\ LiveHasLease
                /\ HeldOnlyInherited
                /\ WorkMatchesPhase
                /\ DrainClockRuns
                /\ ReapHasTarget
                /\ BootingUnclaimed

(* Giving the attachment up restores the invariant wherever it is done. *)
LEMMA DetachRestores ==
  Detach => /\ LiveHasLease' /\ HeldOnlyInherited' /\ WorkMatchesPhase'
            /\ DrainClockRuns' /\ BootingUnclaimed'
  BY DEF Detach, LiveHasLease, HeldOnlyInherited, WorkMatchesPhase, DrainClockRuns,
         BootingUnclaimed, Held, NoAttachment, LivePhases

LEMMA HandlersLifeCycle == TypeOK /\ LifeCycleInv /\ Handlers => LifeCycleInv'
<1>. SUFFICES ASSUME TypeOK, LifeCycleInv, Handlers PROVE LifeCycleInv'
  OBVIOUS
<1>. USE DEF LifeCycleInv, LiveHasLease, HeldOnlyInherited, WorkMatchesPhase,
             DrainClockRuns, ReapHasTarget, BootingUnclaimed, attachmentVars,
             outboxVars, handlerVars, loopVars, runVars, Held, LivePhases
<1>1. ASSUME NEW term \in LeaseTerms, ClaimRenews(term) PROVE LifeCycleInv'
  BY <1>1 DEF ClaimRenews
<1>2. ASSUME NEW term \in LeaseTerms, ClaimFresh(term) PROVE LifeCycleInv'
  <2>1. currentAttachment'.id # 0
    BY <1>2 DEF ClaimFresh, TypeOK
  <2>. QED  BY <1>2, <2>1 DEF ClaimFresh
<1>3. CASE Heartbeat
  <2>1. currentAttachment'.id = currentAttachment.id
    BY <1>3 DEF Heartbeat, TypeOK, Attachments
  <2>. QED  BY <1>3, <2>1 DEF Heartbeat
<1>4. ASSUME NEW m \in Messages, ProcessingStart(m) PROVE LifeCycleInv'
  BY <1>4 DEF ProcessingStart, Off
<1>5. ASSUME NEW m \in Messages, ProcessingEnd(m) PROVE LifeCycleInv'
  BY <1>5 DEF ProcessingEnd
<1>6. ASSUME NEW window \in DrainWindows, RequestDetach(window) PROVE LifeCycleInv'
  BY <1>6, DrainWindowsAssumption DEF RequestDetach, WakesLoop, Off
<1>7. CASE AdapterExited
  BY <1>7, DetachRestores DEF AdapterExited
<1>8. CASE ForceDetachBegin
  BY <1>8 DEF ForceDetachBegin
<1>9. ASSUME NEW id \in pendingForce, ForceDetachReaps(id) PROVE LifeCycleInv'
  BY <1>9, DetachRestores DEF ForceDetachReaps
<1>10. ASSUME NEW id \in pendingForce, ForceDetachGivesUp(id) PROVE LifeCycleInv'
  BY <1>10 DEF ForceDetachGivesUp
<1>11. CASE DestroyBegin
  BY <1>11 DEF DestroyBegin
<1>12. CASE DestroyEnd
  BY <1>12 DEF DestroyEnd, NoAttachment
<1>13. ASSUME NEW type, NEW id, Submit(type, id) PROVE LifeCycleInv'
  BY <1>13 DEF Submit
<1>14. ASSUME NEW gates, SetGates(gates) PROVE LifeCycleInv'
  BY <1>14 DEF SetGates
<1>. QED
  BY <1>1, <1>2, <1>3, <1>4, <1>5, <1>6, <1>7, <1>8, <1>9, <1>10, <1>11, <1>12,
     <1>13, <1>14 DEF Handlers, ForceDetachEnd, SubmitOutbox, EnqueueSpawn, SetPaused,
                      ReleaseHeld

LEMMA MainLoopLifeCycle == TypeOK /\ LifeCycleInv /\ MainLoop => LifeCycleInv'
<1>. SUFFICES ASSUME TypeOK, LifeCycleInv, MainLoop PROVE LifeCycleInv'
  OBVIOUS
<1>. USE DEF LifeCycleInv, LiveHasLease, HeldOnlyInherited, WorkMatchesPhase,
             DrainClockRuns, ReapHasTarget, BootingUnclaimed, attachmentVars,
             outboxVars, handlerVars, loopVars, runVars, Held, LivePhases
<1>1. CASE LoopTop
  BY <1>1 DEF LoopTop
<1>2. CASE Wake
  BY <1>2 DEF Wake
<1>3. CASE ReapExpiredLease
  BY <1>3, DetachRestores DEF ReapExpiredLease
<1>4. CASE EjectProcessing
  BY <1>4 DEF EjectProcessing
<1>5. CASE CheckDraining
  BY <1>5 DEF CheckDraining, DrainOver
<1>6. CASE ReapDrained
  BY <1>6, DetachRestores DEF ReapDrained
<1>7. CASE Dispatch
  BY <1>7 DEF Dispatch
<1>8. CASE Delivered
  BY <1>8 DEF Delivered
<1>9. CASE DeliveryFailed
  BY <1>9, DetachRestores DEF DeliveryFailed
<1>10. CASE FinishPass
  BY <1>10 DEF FinishPass
<1>11. CASE ContinueAsNew
  <2>1. currentAttachment' = input'.currentAttachment
    BY <1>11 DEF ContinueAsNew
  <2>2. Held => currentAttachment'.id = currentAttachment.id
    BY <1>11 DEF ContinueAsNew, CarriedInput, CarriedAttachment, Extended, TypeOK,
                 Attachments
  <2>3. drainingSince # Off => drainingSince' = drainingSince
    BY <1>11 DEF ContinueAsNew, CarriedInput
  <2>4. drainingDeadlineMs # Off => drainingDeadlineMs' = drainingDeadlineMs
    BY <1>11 DEF ContinueAsNew, CarriedInput
  <2>5. ~Held => currentAttachment' = input.currentAttachment
    BY <1>11 DEF ContinueAsNew, CarriedInput, CarriedAttachment
  <2>. QED  BY <1>11, <2>1, <2>2, <2>3, <2>4, <2>5 DEF ContinueAsNew
<1>12. CASE Exit
  BY <1>12 DEF Exit
<1>. QED
  BY <1>1, <1>2, <1>3, <1>4, <1>5, <1>6, <1>7, <1>8, <1>9, <1>10, <1>11, <1>12
     DEF MainLoop

(* Time never changes whose attachment it is, and starts or stops no clock. *)
LEMMA TickKeepsShape ==
  TypeOK /\ Tick => /\ currentAttachment'.id = currentAttachment.id
                    /\ input'.currentAttachment.id = input.currentAttachment.id
                    /\ processingSince' = Off <=> processingSince = Off
                    /\ drainingSince' = Off <=> drainingSince = Off
<1>. SUFFICES ASSUME TypeOK, Tick
     PROVE  /\ currentAttachment'.id = currentAttachment.id
            /\ input'.currentAttachment.id = input.currentAttachment.id
            /\ processingSince' = Off <=> processingSince = Off
            /\ drainingSince' = Off <=> drainingSince = Off
  OBVIOUS
<1>1. \A a \in Attachments : Aged(a).id = a.id
  BY DEF Aged, Attachments
<1>2. \A age \in Ages, deadline \in Ages : CountUp(age, deadline) = Off <=> age = Off
  BY DeadlinesAssumption DEF CountUp, Ages, Off, AtMost
<1>3. input'.currentAttachment = Aged(input.currentAttachment)
  BY DEF Tick, TypeOK
<1>. QED  BY <1>1, <1>2, <1>3, DeadlinesAssumption DEF Tick, TypeOK, Ages

LEMMA TickLifeCycle == TypeOK /\ LifeCycleInv /\ Tick => LifeCycleInv'
  BY TickKeepsShape
  DEF LifeCycleInv, LiveHasLease, HeldOnlyInherited, WorkMatchesPhase, DrainClockRuns,
      ReapHasTarget, BootingUnclaimed, Tick, Held

LEMMA LifeCycleInvariant == Spec => [](TypeOK /\ LifeCycleInv)
<1>1. Init => LifeCycleInv
  BY DEF Init, LifeCycleInv, LiveHasLease, HeldOnlyInherited, WorkMatchesPhase,
         DrainClockRuns, ReapHasTarget, BootingUnclaimed, Held, NoAttachment, LivePhases
<1>2. TypeOK /\ LifeCycleInv /\ [Next]_vars => LifeCycleInv'
  <2>1. CASE UNCHANGED vars
    BY <2>1 DEF vars, attachmentVars, outboxVars, handlerVars, loopVars, runVars,
        LifeCycleInv, LiveHasLease, HeldOnlyInherited, WorkMatchesPhase, DrainClockRuns,
        ReapHasTarget, BootingUnclaimed, Held
  <2>. QED
    BY <2>1, HandlersLifeCycle, MainLoopLifeCycle, TickLifeCycle DEF Next, Terminated
<1>. QED  BY <1>1, <1>2, TypeCorrect, PTL DEF Spec

(* Every path that leaves an attachment behind also leaves the live phases, *)
(* continueAsNew included.                                                  *)
THEOREM LivePhasesHaveLease == Spec => []LiveHasLease
  BY LifeCycleInvariant, PTL DEF LifeCycleInv

(* A lease outside the live phases was inherited from an earlier run. *)
THEOREM StrayLeaseIsInherited == Spec => []HeldOnlyInherited
  BY LifeCycleInvariant, PTL DEF LifeCycleInv

(* Phase, in-flight set and processing clock always agree. *)
THEOREM WorkAlwaysMatchesPhase == Spec => []WorkMatchesPhase
  BY LifeCycleInvariant, PTL DEF LifeCycleInv

-----------------------------------------------------------------------------
(* The sleep of the main loop *)

(* What the loop's timer never exceeds while the loop waits: the fallback, *)
(* and the deadlines it was computed from or that came up since.           *)
SleepInv == NoOversleep /\ (pc = "wait" => wakeIn <= Fallback)

(* The timer is computed from every deadline there is. *)
LEMMA WaitTimeMeetsDeadlines ==
  ASSUME TypeOK, DrainClockRuns
  PROVE  /\ WaitTime \in Nat /\ WaitTime <= Fallback
         /\ phase = "draining" => WaitTime <= AtLeast(1, drainingDeadlineMs - drainingSince)
         /\ Held => WaitTime <= AtLeast(1, currentAttachment.left + Fallback)
         /\ processingSince # Off =>
              WaitTime <= AtLeast(1, ProcessingDeadline - processingSince + Fallback)
<1>. USE DeadlinesAssumption
<1>1. /\ LeaseDue \in Int /\ ProcessingDue \in Int /\ DrainDue \in Int
      /\ Held => LeaseDue = currentAttachment.left
      /\ processingSince # Off => ProcessingDue = ProcessingDeadline - processingSince
      /\ phase = "draining" => DrainDue = drainingDeadlineMs - drainingSince
  BY DEF TypeOK, LeaseDue, ProcessingDue, DrainDue, DrainClockRuns, Attachments, Ages, Off
<1>2. /\ WaitTime \in Nat /\ WaitTime <= Fallback
      /\ \A due \in {LeaseDue, ProcessingDue, DrainDue} : WaitTime <= AtLeast(1, due)
  <2>. HIDE DEF LeaseDue, ProcessingDue, DrainDue
  <2>. QED  BY <1>1 DEF WaitTime, EarliestDeadline, AtLeast, AtMost
<1>3. ASSUME Held PROVE WaitTime <= AtLeast(1, currentAttachment.left + Fallback)
  <2>1. currentAttachment.left \in Int /\ WaitTime <= AtLeast(1, currentAttachment.left)
    BY <1>1, <1>2, <1>3
  <2>. QED  BY <1>2, <2>1 DEF AtLeast
<1>4. ASSUME processingSince # Off
      PROVE  WaitTime <= AtLeast(1, ProcessingDeadline - processingSince + Fallback)
  <2>1. ProcessingDeadline - processingSince \in Int
        /\ WaitTime <= AtLeast(1, ProcessingDeadline - processingSince)
    BY <1>1, <1>2, <1>4
  <2>. QED  BY <1>2, <2>1 DEF AtLeast
<1>. QED  BY <1>1, <1>2, <1>3, <1>4

(* A handler that leaves the deadlines alone, or moves them away, does not *)
(* make the loop oversleep.                                                *)
LEMMA HandlersSleep == TypeOK /\ LifeCycleInv /\ SleepInv /\ Handlers => SleepInv'
<1>. SUFFICES ASSUME TypeOK, LifeCycleInv, SleepInv, Handlers, pc' = "wait" PROVE SleepInv'
  BY DEF SleepInv, NoOversleep
<1>. USE DeadlinesAssumption DEF SleepInv, NoOversleep, Held, attachmentVars, outboxVars,
         handlerVars, loopVars, runVars
<1>a. wakeIn' = wakeIn /\ pc = "wait" /\ wakeIn \in Nat /\ wakeIn <= Fallback
  BY DEF Handlers, ClaimRenews, ClaimFresh, Heartbeat, ProcessingStart, ProcessingEnd,
         RequestDetach, AdapterExited, ForceDetachBegin, ForceDetachEnd, ForceDetachReaps,
         ForceDetachGivesUp, DestroyBegin, DestroyEnd, SubmitOutbox, EnqueueSpawn, Submit,
         SetPaused, ReleaseHeld, SetGates, TypeOK
<1>b. ASSUME currentAttachment'.left \in Nat
      PROVE  wakeIn <= AtLeast(1, currentAttachment'.left + Fallback)
  BY <1>a, <1>b DEF AtLeast
<1>c. ASSUME Detach PROVE SleepInv'
  BY <1>c, <1>a DEF Detach, NoAttachment
<1>1. ASSUME NEW term \in LeaseTerms, ClaimRenews(term) PROVE SleepInv'
  BY <1>1, <1>a, <1>b, LeaseTermsAssumption DEF ClaimRenews
<1>2. ASSUME NEW term \in LeaseTerms, ClaimFresh(term) PROVE SleepInv'
  BY <1>2, <1>a, <1>b, LeaseTermsAssumption DEF ClaimFresh
<1>3. CASE Heartbeat
  <2>1. currentAttachment'.left \in Nat
    BY <1>3 DEF Heartbeat, TypeOK, Attachments
  <2>. QED  BY <1>3, <1>a, <1>b, <2>1 DEF Heartbeat
<1>4. ASSUME NEW m \in Messages, ProcessingStart(m) PROVE SleepInv'
  <2>1. phase' = "draining" => phase = "draining"
    BY <1>4 DEF ProcessingStart
  <2>2. CASE inFlightMessages = {}
    <3>1. processingSince' = 0 /\ wakeIn <= AtLeast(1, ProcessingDeadline - 0 + Fallback)
      BY <1>4, <1>a, <2>2 DEF ProcessingStart, AtLeast
    <3>. QED  BY <1>4, <1>a, <2>1, <3>1 DEF ProcessingStart
  <2>3. CASE inFlightMessages # {}
    BY <1>4, <1>a, <2>3 DEF ProcessingStart
  <2>. QED  BY <2>2, <2>3
<1>5. ASSUME NEW m \in Messages, ProcessingEnd(m) PROVE SleepInv'
  BY <1>5, <1>a DEF ProcessingEnd
<1>6. ASSUME NEW window \in DrainWindows, RequestDetach(window) PROVE SleepInv'
  BY <1>6, <1>a DEF RequestDetach, WakesLoop
<1>7. CASE AdapterExited
  BY <1>7, <1>c DEF AdapterExited
<1>8. CASE ForceDetachBegin
  BY <1>8, <1>a DEF ForceDetachBegin
<1>9. ASSUME NEW id \in pendingForce, ForceDetachReaps(id) PROVE SleepInv'
  BY <1>9, <1>c DEF ForceDetachReaps
<1>10. ASSUME NEW id \in pendingForce, ForceDetachGivesUp(id) PROVE SleepInv'
  BY <1>10, <1>a DEF ForceDetachGivesUp
<1>11. CASE DestroyBegin
  BY <1>11, <1>a DEF DestroyBegin
<1>12. CASE DestroyEnd
  BY <1>12, <1>a DEF DestroyEnd, NoAttachment
<1>13. ASSUME NEW type, NEW id, Submit(type, id) PROVE SleepInv'
  BY <1>13, <1>a DEF Submit
<1>14. ASSUME NEW gates, SetGates(gates) PROVE SleepInv'
  BY <1>14, <1>a DEF SetGates
<1>. QED
  BY <1>1, <1>2, <1>3, <1>4, <1>5, <1>6, <1>7, <1>8, <1>9, <1>10, <1>11, <1>12,
     <1>13, <1>14 DEF Handlers, ForceDetachEnd, SubmitOutbox, EnqueueSpawn, SetPaused,
                      ReleaseHeld

(* A timer that met a deadline still meets it a tick later, when the        *)
(* deadline has come nearer by a tick at most.                              *)
LEMMA RunDownTogether ==
  \A timer \in Nat, due, next \in Int :
    timer <= AtLeast(1, due) /\ next >= due - 1
      => AtLeast(timer - 1, 0) <= AtLeast(1, next)
  BY DEF AtLeast

LEMMA CountUpBounded ==
  \A age \in Nat, deadline \in Ages :
    CountUp(age, deadline) \in Nat /\ CountUp(age, deadline) <= age + 1
  BY DeadlinesAssumption DEF CountUp, AtMost, Ages, Off

(* A lease that is held comes nearer its end by a tick at most. *)
LEMMA AgedLeft ==
  ASSUME NEW a \in Attachments, a.id # 0
  PROVE  a.left \in Int /\ Aged(a).left \in Int /\ Aged(a).left >= a.left - 1
<1>. DEFINE left == AtLeast(a.left - 1, -Slack)
<1>1. a.left \in Int /\ a = [id |-> a.id, left |-> a.left, lease |-> a.lease]
  BY DEF Attachments
<1>2. left \in Int /\ left >= a.left - 1
  BY <1>1, DeadlinesAssumption DEF AtLeast
<1>3. Aged(a) = [a EXCEPT !.left = left]
  BY DEF Aged
<1>. HIDE DEF left
<1>4. Aged(a).left = left
  BY <1>1, <1>3
<1>. QED  BY <1>1, <1>2, <1>4

LEMMA TickSleep == TypeOK /\ LifeCycleInv /\ SleepInv /\ Tick => SleepInv'
<1>. SUFFICES ASSUME TypeOK, LifeCycleInv, SleepInv, Tick, pc = "wait" PROVE SleepInv'
  BY DEF SleepInv, NoOversleep, Tick
<1>. DEFINE older == CountUp(drainingSince, drainingDeadlineMs)
            later == CountUp(processingSince, ProcessingDeadline)
            aged == Aged(currentAttachment)
            timer == AtLeast(wakeIn - 1, 0)
<1>1. /\ wakeIn \in Nat /\ wakeIn <= Fallback
      /\ drainingSince' = older /\ processingSince' = later /\ currentAttachment' = aged
      /\ wakeIn' = timer /\ UNCHANGED <<phase, wakeEpoch, drainingDeadlineMs, pc>>
  BY DEF Tick, TypeOK, SleepInv
<1>2. timer <= Fallback
  BY <1>1, DeadlinesAssumption DEF AtLeast
<1>3. ASSUME phase = "draining", ~wakeEpoch
      PROVE  timer <= AtLeast(1, drainingDeadlineMs - older)
  <2>1. drainingSince \in Nat /\ drainingDeadlineMs \in Nat
    BY <1>3 DEF TypeOK, LifeCycleInv, DrainClockRuns, Ages
  <2>2. older \in Nat /\ older <= drainingSince + 1
    BY <2>1, CountUpBounded DEF Ages
  <2>3. wakeIn <= AtLeast(1, drainingDeadlineMs - drainingSince)
    BY <1>3 DEF SleepInv, NoOversleep
  <2>. HIDE DEF older, timer
  <2>4. /\ drainingDeadlineMs - drainingSince \in Int /\ drainingDeadlineMs - older \in Int
        /\ drainingDeadlineMs - older >= (drainingDeadlineMs - drainingSince) - 1
    BY <2>1, <2>2
  <2>. QED  BY <1>1, <2>3, <2>4, RunDownTogether DEF timer
<1>4. ASSUME Held PROVE timer <= AtLeast(1, aged.left + Fallback)
  <2>1. /\ currentAttachment.left \in Int /\ aged.left \in Int
        /\ aged.left >= currentAttachment.left - 1
    BY <1>4, AgedLeft DEF Held, TypeOK
  <2>2. wakeIn <= AtLeast(1, currentAttachment.left + Fallback)
    BY <1>4 DEF SleepInv, NoOversleep
  <2>. HIDE DEF aged
  <2>3. /\ currentAttachment.left + Fallback \in Int /\ aged.left + Fallback \in Int
        /\ aged.left + Fallback >= (currentAttachment.left + Fallback) - 1
    BY <2>1, DeadlinesAssumption
  <2>. QED  BY <1>1, <2>2, <2>3, RunDownTogether
<1>5. ASSUME processingSince # Off
      PROVE  timer <= AtLeast(1, ProcessingDeadline - later + Fallback)
  <2>1. processingSince \in Nat
    BY <1>5 DEF TypeOK, Ages
  <2>2. later \in Nat /\ later <= processingSince + 1
    BY <2>1, CountUpBounded, DeadlinesAssumption DEF Ages
  <2>3. wakeIn <= AtLeast(1, ProcessingDeadline - processingSince + Fallback)
    BY <1>5 DEF SleepInv, NoOversleep
  <2>. HIDE DEF later, timer
  <2>4. /\ ProcessingDeadline - processingSince + Fallback \in Int
        /\ ProcessingDeadline - later + Fallback \in Int
        /\ ProcessingDeadline - later + Fallback
             >= (ProcessingDeadline - processingSince + Fallback) - 1
    BY <2>1, <2>2, DeadlinesAssumption
  <2>. QED  BY <1>1, <2>3, <2>4, RunDownTogether DEF timer
<1>6. (Held' <=> Held) /\ (processingSince' = Off <=> processingSince = Off)
  BY TickKeepsShape DEF Held
<1>. HIDE DEF older, later, aged, timer
<1>. QED  BY <1>1, <1>2, <1>3, <1>4, <1>5, <1>6 DEF SleepInv, NoOversleep

(* The main loop never sleeps past a drain's deadline, nor more than the   *)
(* fallback past a lease's or a job's, whatever the handlers do meanwhile. *)
THEOREM LoopNeverOversleeps == Spec => []NoOversleep
<1>1. Init => SleepInv
  BY DEF Init, SleepInv, NoOversleep
<1>2. TypeOK /\ LifeCycleInv /\ SleepInv /\ [Next]_vars => SleepInv'
  <2>. SUFFICES ASSUME TypeOK, LifeCycleInv, SleepInv, [Next]_vars PROVE SleepInv'
    OBVIOUS
  <2>1. CASE LoopTop
    BY <2>1, WaitTimeMeetsDeadlines
    DEF LoopTop, SleepInv, NoOversleep, Held, LifeCycleInv, attachmentVars
  <2>2. CASE MainLoop /\ ~LoopTop
    <3>1. pc' # "wait"
      BY <2>2 DEF MainLoop, Wake, ReapExpiredLease, EjectProcessing, CheckDraining,
          ReapDrained, Dispatch, Delivered, DeliveryFailed, FinishPass, ContinueAsNew, Exit
    <3>. QED  BY <3>1 DEF SleepInv, NoOversleep
  <2>3. CASE Terminated \/ UNCHANGED vars
    BY <2>3 DEF Terminated, vars, attachmentVars, outboxVars, handlerVars, loopVars, runVars,
        SleepInv, NoOversleep, Held
  <2>. QED  BY <2>1, <2>2, <2>3, HandlersSleep, TickSleep DEF Next, MainLoop
<1>. QED  BY <1>1, <1>2, LifeCycleInvariant, PTL DEF Spec, SleepInv

-----------------------------------------------------------------------------
(* The abstract lease, and what takes a lease away.  The bars are the       *)
(* abstract holder and its expiry.                                          *)

holderBar == IF phase \in LivePhases THEN currentAttachment.id ELSE 0
expiredBar == phase \in LivePhases /\ Expired(currentAttachment)

(* One way to state each kind of step of the abstract lease: the holder    *)
(* stays (its lease renewed, run out or as it was), leaves, or is admitted.*)
KeepsHolder == holderBar' = holderBar /\ claims' = claims
LosesHolder == holderBar' = 0 /\ ~expiredBar' /\ claims' = claims

LEMMA BarsTyped == expiredBar \in BOOLEAN /\ expiredBar' \in BOOLEAN
  BY DEF expiredBar

LEMMA KeepingImplements ==
  KeepsHolder /\ LiveHasLease /\ LiveHasLease' => [Lease!LeaseNext]_(Lease!leaseVars)
<1>. SUFFICES ASSUME KeepsHolder, LiveHasLease, LiveHasLease'
              PROVE [Lease!LeaseNext]_(Lease!leaseVars)
  OBVIOUS
<1>1. CASE expiredBar' = expiredBar
  BY <1>1 DEF KeepsHolder, Lease!leaseVars, holderBar, expiredBar
<1>2. CASE expiredBar' /\ ~expiredBar
  BY <1>2 DEF KeepsHolder, Lease!LeaseNext, Lease!Expire, holderBar, expiredBar,
              LiveHasLease, Held
<1>3. CASE expiredBar /\ ~expiredBar'
  BY <1>3 DEF KeepsHolder, Lease!LeaseNext, Lease!Renew, holderBar, expiredBar,
              LiveHasLease, Held
<1>. QED  BY <1>1, <1>2, <1>3, BarsTyped

LEMMA LosingImplements ==
  LosesHolder /\ LiveHasLease => [Lease!LeaseNext]_(Lease!leaseVars)
<1>. SUFFICES ASSUME LosesHolder, LiveHasLease
              PROVE [Lease!LeaseNext]_(Lease!leaseVars)
  OBVIOUS
<1>1. CASE phase \in LivePhases
  BY <1>1 DEF LosesHolder, Lease!LeaseNext, Lease!Revoke, holderBar, expiredBar,
              LiveHasLease, Held
<1>2. CASE phase \notin LivePhases
  BY <1>2 DEF LosesHolder, Lease!leaseVars, holderBar, expiredBar
<1>. QED  BY <1>1, <1>2

LEMMA DetachLoses == Detach /\ claims' = claims => LosesHolder
  BY DEF Detach, LosesHolder, holderBar, expiredBar, LivePhases

LEMMA HandlersImplement ==
  TypeOK /\ LifeCycleInv /\ LifeCycleInv' /\ Handlers
    => [Lease!LeaseNext]_(Lease!leaseVars)
<1>. SUFFICES ASSUME TypeOK, LifeCycleInv, LifeCycleInv', Handlers
              PROVE [Lease!LeaseNext]_(Lease!leaseVars)
  OBVIOUS
<1>a. LiveHasLease /\ LiveHasLease'
  BY DEF LifeCycleInv
<1>. USE DEF KeepsHolder, holderBar, attachmentVars, runVars, LivePhases
<1>1. ASSUME NEW term \in LeaseTerms, ClaimRenews(term)
      PROVE [Lease!LeaseNext]_(Lease!leaseVars)
  <2>1. KeepsHolder
    BY <1>1 DEF ClaimRenews
  <2>. QED  BY <2>1, <1>a, KeepingImplements
<1>2. ASSUME NEW term \in LeaseTerms, ClaimFresh(term)
      PROVE [Lease!LeaseNext]_(Lease!leaseVars)
  <2>1. holderBar = 0 \/ expiredBar
    BY <1>2, <1>a DEF ClaimFresh, Claimable, LiveHasLease, Held, expiredBar
  <2>2. claims' = claims + 1 /\ holderBar' = claims'
    BY <1>2 DEF ClaimFresh
  <2>3. ~expiredBar'
    BY <1>2, LeaseTermsAssumption DEF ClaimFresh, expiredBar, Expired
  <2>. QED
    BY <2>1, <2>2, <2>3 DEF Lease!LeaseNext, Lease!Grant, holderBar, expiredBar
<1>3. CASE Heartbeat
  <2>1. KeepsHolder
    BY <1>3 DEF Heartbeat, TypeOK, Attachments
  <2>. QED  BY <2>1, <1>a, KeepingImplements
<1>4. ASSUME NEW m \in Messages, ProcessingStart(m)
      PROVE [Lease!LeaseNext]_(Lease!leaseVars)
  <2>1. KeepsHolder
    BY <1>4 DEF ProcessingStart
  <2>. QED  BY <2>1, <1>a, KeepingImplements
<1>5. ASSUME NEW m \in Messages, ProcessingEnd(m)
      PROVE [Lease!LeaseNext]_(Lease!leaseVars)
  <2>1. KeepsHolder
    BY <1>5 DEF ProcessingEnd
  <2>. QED  BY <2>1, <1>a, KeepingImplements
<1>6. ASSUME NEW window \in DrainWindows, RequestDetach(window)
      PROVE [Lease!LeaseNext]_(Lease!leaseVars)
  <2>1. phase \in LivePhases
    BY <1>6 DEF RequestDetach, LifeCycleInv, BootingUnclaimed, TypeOK, Phases
  <2>2. KeepsHolder
    BY <1>6, <2>1 DEF RequestDetach
  <2>. QED  BY <2>2, <1>a, KeepingImplements
<1>7. CASE AdapterExited
  BY <1>7, <1>a, DetachLoses, LosingImplements DEF AdapterExited
<1>8. CASE ForceDetachBegin
  <2>1. KeepsHolder
    BY <1>8 DEF ForceDetachBegin
  <2>. QED  BY <2>1, <1>a, KeepingImplements
<1>9. ASSUME NEW id \in pendingForce, ForceDetachReaps(id)
      PROVE [Lease!LeaseNext]_(Lease!leaseVars)
  BY <1>9, <1>a, DetachLoses, LosingImplements DEF ForceDetachReaps
<1>10. ASSUME NEW id \in pendingForce, ForceDetachGivesUp(id)
       PROVE [Lease!LeaseNext]_(Lease!leaseVars)
  <2>1. KeepsHolder
    BY <1>10 DEF ForceDetachGivesUp
  <2>. QED  BY <2>1, <1>a, KeepingImplements
<1>11. CASE DestroyBegin
  <2>1. KeepsHolder
    BY <1>11 DEF DestroyBegin
  <2>. QED  BY <2>1, <1>a, KeepingImplements
<1>12. CASE DestroyEnd
  <2>1. LosesHolder
    BY <1>12 DEF DestroyEnd, LosesHolder, expiredBar
  <2>. QED  BY <2>1, <1>a, LosingImplements
<1>13. ASSUME NEW type, NEW id, Submit(type, id)
       PROVE [Lease!LeaseNext]_(Lease!leaseVars)
  <2>1. KeepsHolder
    BY <1>13 DEF Submit
  <2>. QED  BY <2>1, <1>a, KeepingImplements
<1>14. ASSUME NEW gates, SetGates(gates)
       PROVE [Lease!LeaseNext]_(Lease!leaseVars)
  <2>1. KeepsHolder
    BY <1>14 DEF SetGates
  <2>. QED  BY <2>1, <1>a, KeepingImplements
<1>. QED
  BY <1>1, <1>2, <1>3, <1>4, <1>5, <1>6, <1>7, <1>8, <1>9, <1>10, <1>11, <1>12,
     <1>13, <1>14 DEF Handlers, ForceDetachEnd, SubmitOutbox, EnqueueSpawn, SetPaused,
                      ReleaseHeld

LEMMA MainLoopImplements ==
  TypeOK /\ LifeCycleInv /\ LifeCycleInv' /\ MainLoop
    => [Lease!LeaseNext]_(Lease!leaseVars)
<1>. SUFFICES ASSUME TypeOK, LifeCycleInv, LifeCycleInv', MainLoop
              PROVE [Lease!LeaseNext]_(Lease!leaseVars)
  OBVIOUS
<1>a. LiveHasLease /\ LiveHasLease'
  BY DEF LifeCycleInv
<1>b. SUFFICES KeepsHolder \/ LosesHolder
  BY <1>a, KeepingImplements, LosingImplements
<1>. USE DEF KeepsHolder, holderBar, attachmentVars, runVars, LivePhases
<1>1. CASE LoopTop
  BY <1>1 DEF LoopTop
<1>2. CASE Wake
  BY <1>2 DEF Wake
<1>3. CASE ReapExpiredLease
  BY <1>3, DetachLoses DEF ReapExpiredLease
<1>4. CASE EjectProcessing
  BY <1>4 DEF EjectProcessing
<1>5. CASE CheckDraining
  BY <1>5 DEF CheckDraining
<1>6. CASE ReapDrained
  BY <1>6, DetachLoses DEF ReapDrained
<1>7. CASE Dispatch
  BY <1>7 DEF Dispatch
<1>8. CASE Delivered
  BY <1>8 DEF Delivered
<1>9. CASE DeliveryFailed
  BY <1>9, DetachLoses DEF DeliveryFailed
<1>10. CASE FinishPass
  BY <1>10 DEF FinishPass
<1>11. CASE ContinueAsNew
  <2>1. phase' = phase /\ claims' = claims
    BY <1>11 DEF ContinueAsNew
  <2>2. Held => currentAttachment'.id = currentAttachment.id
    BY <1>11 DEF ContinueAsNew, CarriedInput, CarriedAttachment, Extended, TypeOK,
                 Attachments
  <2>. QED  BY <1>a, <2>1, <2>2 DEF LiveHasLease
<1>12. CASE Exit
  BY <1>12 DEF Exit
<1>. QED
  BY <1>1, <1>2, <1>3, <1>4, <1>5, <1>6, <1>7, <1>8, <1>9, <1>10, <1>11, <1>12
     DEF MainLoop

(* The session is an attachment lease: whatever the interleaving, a new    *)
(* adapter is admitted only when none holds the session or the holder's    *)
(* lease ran out, and under an identity never used before.                 *)
THEOREM SessionImplementsLease == Spec => ImplementsLease
<1>1. Init => Lease!LeaseInit
  BY DEF Init, Lease!LeaseInit, LivePhases
<1>2. TypeOK /\ LifeCycleInv /\ LifeCycleInv' /\ [Next]_vars
        => [Lease!LeaseNext]_(Lease!leaseVars)
  <2>. SUFFICES ASSUME TypeOK, LifeCycleInv, LifeCycleInv', [Next]_vars
                PROVE [Lease!LeaseNext]_(Lease!leaseVars)
    OBVIOUS
  <2>a. LiveHasLease /\ LiveHasLease'
    BY DEF LifeCycleInv
  <2>1. CASE Tick
    <3>1. KeepsHolder
      BY <2>1, TickKeepsShape DEF KeepsHolder, holderBar, Tick
    <3>. QED  BY <3>1, <2>a, KeepingImplements
  <2>2. CASE Terminated \/ UNCHANGED vars
    <3>1. KeepsHolder
      BY <2>2 DEF KeepsHolder, holderBar, Terminated, vars, attachmentVars, runVars
    <3>. QED  BY <3>1, <2>a, KeepingImplements
  <2>. QED  BY <2>1, <2>2, HandlersImplement, MainLoopImplements DEF Next
<1>. QED
  BY <1>1, <1>2, LifeCycleInvariant, PTL DEF Spec, ImplementsLease, Lease!LeaseSpec

(* An unexpired lease goes only to a forceDetach that named it, to a drain *)
(* or to the failed spawn it was claimed for.                              *)
THEOREM LeaseRevokedOnlyByItsTarget == Spec => RevokesOnlyItsTarget
<1>. DEFINE Fair == \/ ~(Held /\ ~Expired(currentAttachment) /\ ~Held')
                   \/ /\ pendingForce' # pendingForce =>
                            pendingForce \ pendingForce' = {currentAttachment.id}
                      /\ pc' # pc => \/ reaped # 0
                                     \/ /\ entry.type = "spawn"
                                        /\ entry.attachmentId = currentAttachment.id
<1>1. TypeOK /\ LifeCycleInv /\ [Next]_vars => Fair
  <2>. SUFFICES ASSUME TypeOK, LifeCycleInv, [Next]_vars PROVE Fair
    OBVIOUS
  <2>. USE DEF attachmentVars, outboxVars, handlerVars, loopVars, runVars, Held
  <2>1. CASE Handlers
    <3>1. ASSUME NEW id \in pendingForce, ForceDetachReaps(id) PROVE Fair
      BY <3>1 DEF ForceDetachReaps, StillCurrent
    <3>2. ASSUME NEW id \in pendingForce, ForceDetachGivesUp(id) PROVE Fair
      BY <3>2 DEF ForceDetachGivesUp
    <3>3. CASE ForceDetachBegin
      BY <3>3 DEF ForceDetachBegin
    <3>4. CASE pendingForce' = pendingForce /\ pc' = pc
      BY <3>4
    <3>. QED
      BY <2>1, <3>1, <3>2, <3>3, <3>4
      DEF Handlers, ClaimRenews, ClaimFresh, Heartbeat, ProcessingStart,
          ProcessingEnd, RequestDetach, AdapterExited, ForceDetachEnd, DestroyBegin,
          DestroyEnd, SubmitOutbox, EnqueueSpawn, Submit, SetPaused, ReleaseHeld,
          SetGates
  <2>2. CASE MainLoop
    <3>1. CASE ReapExpiredLease
      BY <3>1 DEF ReapExpiredLease, LeaseOver
    <3>2. CASE ReapDrained
      BY <3>2 DEF ReapDrained, LifeCycleInv, ReapHasTarget
    <3>3. CASE DeliveryFailed
      BY <3>3 DEF DeliveryFailed, RollsBack
    <3>4. CASE ContinueAsNew
      <4>1. Held => currentAttachment'.id = currentAttachment.id
        BY <3>4 DEF ContinueAsNew, CarriedInput, CarriedAttachment, Extended, TypeOK,
                    Attachments
      <4>. QED  BY <4>1
    <3>5. CASE currentAttachment' = currentAttachment
      BY <3>5
    <3>. QED
      BY <2>2, <3>1, <3>2, <3>3, <3>4, <3>5
      DEF MainLoop, LoopTop, Wake, EjectProcessing, CheckDraining, Dispatch, Delivered,
          FinishPass, Exit
  <2>3. CASE Tick
    BY <2>3, TickKeepsShape
  <2>4. CASE Terminated \/ UNCHANGED vars
    BY <2>4 DEF Terminated, vars
  <2>. QED  BY <2>1, <2>2, <2>3, <2>4 DEF Next
<1>. QED  BY <1>1, LifeCycleInvariant, PTL DEF Spec, RevokesOnlyItsTarget

-----------------------------------------------------------------------------
(* Destroy *)

SpawnNamed(e) == e.type = "spawn" => e.attachmentId # 0

(* The loop is never in the middle of a pass when a destroy ends, so what  *)
(* is left of the pass finds the session gone and nothing held; and a      *)
(* lease that continueAsNew brings back to a session that is gone is one   *)
(* that no forceDetach is waiting to kill.                                 *)
DestroyInv ==
  /\ destroyRequested => pc \notin {"lease", "processing", "draining"}
  /\ destroyRequested /\ pc = "delivering" => phase = "gone" /\ ~Held
  /\ phase = "gone" /\ Held => pendingForce = {}
  /\ 0 \notin pendingForce
  /\ SpawnNamed(entry) /\ \A i \in DOMAIN outbox : SpawnNamed(outbox[i])

(* What DestroyIsFinal says of a step. *)
KeepsDestroyed ==
  /\ pc' # pc => pc' \notin {"lease", "drainKill", "delivering"}
  /\ phase = "gone" /\ phase' # "gone" => pc = "drainKill"
  /\ phase = "gone" /\ ~Held /\ Held' => pc = "continue"

LEMMA HandlersDestroyed ==
  TypeOK /\ DestroyInv /\ Handlers => DestroyInv' /\ (destroyRequested => KeepsDestroyed)
<1>. SUFFICES ASSUME TypeOK, DestroyInv, Handlers
              PROVE  DestroyInv' /\ KeepsDestroyed
  OBVIOUS
<1>. USE DEF DestroyInv, KeepsDestroyed, attachmentVars, outboxVars, handlerVars, loopVars,
             runVars, Held, HandlersRun, Awaiting
<1>1. ASSUME NEW term \in LeaseTerms, ClaimRenews(term) \/ ClaimFresh(term)
      PROVE  DestroyInv' /\ KeepsDestroyed
  BY <1>1 DEF ClaimRenews, ClaimFresh
<1>2. CASE Heartbeat
  <2>1. currentAttachment'.id = currentAttachment.id
    BY <1>2 DEF Heartbeat, TypeOK, Attachments
  <2>. QED  BY <1>2, <2>1 DEF Heartbeat
<1>3. ASSUME NEW m \in Messages, ProcessingStart(m) \/ ProcessingEnd(m)
      PROVE  DestroyInv' /\ KeepsDestroyed
  BY <1>3 DEF ProcessingStart, ProcessingEnd
<1>4. CASE (\E window \in DrainWindows : RequestDetach(window)) \/ AdapterExited
  BY <1>4 DEF RequestDetach, AdapterExited, Detach, NoAttachment
<1>5. CASE ForceDetachBegin
  BY <1>5 DEF ForceDetachBegin, TypeOK
<1>6. ASSUME NEW id \in pendingForce, ForceDetachEnd(id) PROVE DestroyInv' /\ KeepsDestroyed
  BY <1>6 DEF ForceDetachEnd, ForceDetachReaps, ForceDetachGivesUp, StillCurrent, Detach,
              NoAttachment
<1>7. CASE DestroyBegin \/ DestroyEnd
  BY <1>7 DEF DestroyBegin, DestroyEnd, NoAttachment
<1>8. ASSUME NEW type, NEW id, Submit(type, id), type = "spawn" => id # 0
      PROVE  DestroyInv' /\ KeepsDestroyed
  <2>1. \A i \in DOMAIN outbox' : SpawnNamed(outbox'[i])
    BY <1>8 DEF Submit, SpawnNamed, TypeOK
  <2>. QED  BY <1>8, <2>1 DEF Submit
<1>9. ASSUME NEW gates, SetGates(gates) PROVE DestroyInv' /\ KeepsDestroyed
  BY <1>9 DEF SetGates
<1>. QED
  BY <1>1, <1>2, <1>3, <1>4, <1>5, <1>6, <1>7, <1>8, <1>9
     DEF Handlers, SubmitOutbox, EnqueueSpawn, SetPaused, ReleaseHeld

LEMMA MainLoopDestroyed ==
  TypeOK /\ DestroyInv /\ MainLoop => DestroyInv' /\ (destroyRequested => KeepsDestroyed)
<1>. SUFFICES ASSUME TypeOK, DestroyInv, MainLoop
              PROVE  DestroyInv' /\ (destroyRequested => KeepsDestroyed)
  OBVIOUS
<1>. USE DEF DestroyInv, KeepsDestroyed, attachmentVars, outboxVars, handlerVars, loopVars,
             runVars, Held
<1>1. CASE LoopTop \/ Wake
  BY <1>1 DEF LoopTop, Wake
<1>2. CASE ReapExpiredLease
  BY <1>2 DEF ReapExpiredLease, Detach, NoAttachment
<1>3. CASE EjectProcessing
  BY <1>3 DEF EjectProcessing
<1>4. CASE CheckDraining
  BY <1>4 DEF CheckDraining
<1>5. CASE ReapDrained
  BY <1>5 DEF ReapDrained, Detach, NoAttachment
<1>6. CASE Dispatch
  <2>1. PICK i \in DOMAIN outbox : entry' = outbox[i] /\ outbox' = RemoveAt(outbox, i)
    BY <1>6 DEF Dispatch
  <2>2. \A j \in DOMAIN outbox' : \E k \in DOMAIN outbox : outbox'[j] = outbox[k]
    BY <2>1, RemoveAtKeeps DEF TypeOK
  <2>3. SpawnNamed(entry') /\ \A j \in DOMAIN outbox' : SpawnNamed(outbox'[j])
    BY <2>1, <2>2
  <2>. QED  BY <1>6, <2>3 DEF Dispatch, MayDispatch
<1>7. CASE Delivered
  BY <1>7 DEF Delivered, NoEntry, SpawnNamed
<1>8. CASE DeliveryFailed
  BY <1>8 DEF DeliveryFailed, RollsBack, NoEntry, SpawnNamed, Detach, NoAttachment
<1>9. CASE FinishPass
  BY <1>9 DEF FinishPass
<1>10. CASE ContinueAsNew
  <2>1. pendingForce = {} /\ pendingForce' = {}
    BY <1>10 DEF ContinueAsNew, MayContinue, NoHandlers
  <2>. QED  BY <1>10, <2>1 DEF ContinueAsNew
<1>11. CASE Exit
  BY <1>11 DEF Exit
<1>. QED
  BY <1>1, <1>2, <1>3, <1>4, <1>5, <1>6, <1>7, <1>8, <1>9, <1>10, <1>11 DEF MainLoop

(* A session that is destroyed stays so, but for the one reap that was     *)
(* waiting for its kill: the loop takes up no reap and no delivery, no     *)
(* failed spawn and no forceDetach that ends late detaches it, and no      *)
(* claim gets in while it is gone.                                         *)
THEOREM DestroyedStaysGone == Spec => DestroyIsFinal
<1>1. Init => DestroyInv
  BY DEF Init, DestroyInv, SpawnNamed, NoEntry, NoAttachment, Held
<1>2. TypeOK /\ DestroyInv /\ [Next]_vars
        => DestroyInv' /\ (destroyRequested => KeepsDestroyed)
  <2>1. CASE Tick
    BY <2>1, TickKeepsShape DEF DestroyInv, KeepsDestroyed, Held, Tick, outboxVars, handlerVars
  <2>2. CASE Terminated \/ UNCHANGED vars
    BY <2>2 DEF Terminated, vars, attachmentVars, outboxVars, handlerVars, loopVars, runVars,
        DestroyInv, KeepsDestroyed, Held
  <2>. QED  BY <2>1, <2>2, HandlersDestroyed, MainLoopDestroyed DEF Next
<1>. QED
  BY <1>1, <1>2, TypeCorrect, PTL DEF Spec, DestroyIsFinal, KeepsDestroyed
=============================================================================
