--------------------------- MODULE AdapterLifecycle ---------------------------
(***************************************************************************)
(* The life of an adapter against one session: BaseAttachment              *)
(* (adapters/base.ts) with its heartbeat loop, phase watcher, rebind to a  *)
(* continued-as-new run and reconnect loop, and the message poller the     *)
(* interactive adapter (adapters/claude-code/adapter.ts) hangs on it.      *)
(*                                                                         *)
(* An adapter is a single-threaded process whose loops interleave at their *)
(* awaits.  A call and what it does at the session are one step, the       *)
(* answer another: in between, everything else may happen.  The session is *)
(* the abstract one of its callers: runs, a phase, a holder and a lease.   *)
(***************************************************************************)
EXTENDS Naturals, FiniteSets

CONSTANTS
  Adapters,      \* adapter processes that want the session
  Reconnecters,  \* those whose shouldReconnect answers true
  MaxTicks,      \* bound on ticks of one loop in flight at once
  MaxAttempts,   \* attempts the reconnect budget allows for
  MaxRuns,       \* bound on runs of the session
  MaxGrants,     \* bound on attachments granted; past it claims fail
  MaxFaults      \* bound on calls that fail or answer amiss

ASSUME AdaptersAssumption == Reconnecters \subseteq Adapters
ASSUME AdapterBoundsAssumption ==
  /\ {MaxTicks, MaxAttempts, MaxRuns} \subseteq Nat \ {0}
  /\ {MaxGrants, MaxFaults} \subseteq Nat

VARIABLES
  session,   \* run, whether it is up, lease freshness, grants, info of each run
  adapter,   \* the state of each adapter
  faults     \* calls that went wrong so far

adapterVars == <<session, adapter, faults>>

Loops == {"heartbeat", "phaseWatcher"}
Slots == 1..MaxTicks
NoTick == [at |-> "idle", got |-> "none", phase |-> "none", holder |-> 0, next |-> 0]
NoReconnect == [at |-> "off", got |-> "none", phase |-> "none", holder |-> 0, run |-> 0,
                attempts |-> 0]
NewAdapter == [stage |-> "new", token |-> 0, pinned |-> 0, stopped |-> FALSE,
               terminal |-> "none", poller |-> 0, reconnect |-> NoReconnect,
               timers |-> [l \in Loops |-> 0], tracked |-> [l \in Loops |-> FALSE],
               ticks |-> [l \in Loops |-> [i \in Slots |-> NoTick]]]

Info(phase, holder) == [phase |-> phase, holder |-> holder]
Current == session.info[session.run]
(* Without a holder there is no lease that could be fresh.                 *)
SetInfo(phase, holder) == [session EXCEPT !.info[session.run] = Info(phase, holder),
                                          !.fresh = @ /\ holder # 0]
Open(r) == session.up /\ r = session.run

Over(d) == d.stopped \/ d.terminal # "none"
Live(d) == d.stage = "on" /\ ~Over(d)
Reconnecting(d) == d.reconnect.at # "off"

-----------------------------------------------------------------------------
(* What the adapter does to itself.  heartbeatTimer and phaseWatcherTimer  *)
(* name the last timer set; an earlier one still pending is untracked.     *)

Schedule(d, l) == [d EXCEPT !.timers[l] = @ + 1, !.tracked[l] = TRUE]
ScheduleBoth(d) == Schedule(Schedule(d, "heartbeat"), "phaseWatcher")
ClearTimer(d, l) ==
  IF d.tracked[l] THEN [d EXCEPT !.timers[l] = @ - 1, !.tracked[l] = FALSE] ELSE d
ClearTimers(d) == ClearTimer(ClearTimer(d, "heartbeat"), "phaseWatcher")

AbortSleepers(d) == IF d.reconnect.at = "sleep" THEN [d EXCEPT !.reconnect = NoReconnect] ELSE d

(* The terminal listener of the interactive adapter stops its poller.      *)
FireTerminal(d, reason) ==
  IF d.terminal # "none" THEN d
  ELSE AbortSleepers([ClearTimers(d) EXCEPT !.terminal = reason, !.stopped = TRUE,
                                            !.poller = 0])

(* onReconnectStart, then the handle of the successor, then onReconnected. *)
RebindUnscheduled(d, run) == [ClearTimers(d) EXCEPT !.pinned = run, !.poller = run]
CanRebind(d, run) == ScheduleBoth([ClearTimers(d) EXCEPT !.pinned = run, !.poller = run])

LoopWhilePolling(d) ==
  [ClearTimers(d) EXCEPT !.reconnect = [NoReconnect EXCEPT !.at = "sleep", !.attempts = 1]]
StartReconnectLoop(d) ==
  [ClearTimers(d) EXCEPT !.poller = 0,
                         !.reconnect = [NoReconnect EXCEPT !.at = "sleep", !.attempts = 1]]

MayActStopped(d) == ~Reconnecting(d)
MayAct(d) == ~Over(d) /\ ~Reconnecting(d)
FireTerminalOrReconnect(a, d, reason, run) ==
  IF ~MayAct(d) THEN d
  ELSE IF a \notin Reconnecters THEN FireTerminal(d, reason)
  ELSE IF reason = "continued-as-new" THEN CanRebind(d, run)
  ELSE StartReconnectLoop(d)

(* The finally of a tick. *)
RearmWatcher(d, l) == IF MayAct(d) /\ l = "phaseWatcher" THEN Schedule(d, l) ELSE d
Rearm(d, l) == IF MayAct(d) THEN Schedule(d, l) ELSE d

-----------------------------------------------------------------------------
(* Calls.  A step that calls names the outcomes the call can have; an      *)
(* outcome the network or the server made amiss counts as a fault.  A      *)
(* transient error is an answer that tells nothing: the backoff it sets is *)
(* left out.                                                               *)

Becomes(a, d) == adapter' = [adapter EXCEPT ![a] = d]
Faulty == faults < MaxFaults /\ faults' = faults + 1
Sound == UNCHANGED faults

Refreshed(d) == IF Open(d.pinned) /\ Current.holder = d.token
                  THEN [session EXCEPT !.fresh = TRUE] ELSE session

(* claimAttachment: fresh, with no holder or one whose lease ran out. *)
Grantable == /\ session.up /\ Current.phase # "gone"
             /\ Current.holder = 0 \/ ~session.fresh
             /\ session.granted < MaxGrants
Granted == [session EXCEPT !.granted = @ + 1, !.fresh = TRUE,
                           !.info[session.run] = Info("attached", session.granted + 1)]

(* The answers a claim can have; that of a claim that was granted may be   *)
(* lost.  The adapter keeps the answer in reconnect until it goes on.      *)
Answer(got, holder, run) == [got |-> got, holder |-> holder, run |-> run]
Refused == Answer(IF session.up /\ Current.phase # "gone" THEN "refused" ELSE "gone", 0, 0)
Claims(d, a) ==
  \E c \in {Answer("granted", session.granted + 1, session.run), Refused} :
    /\ IF Grantable THEN session' = Granted ELSE c = Refused /\ UNCHANGED session
    /\ IF Grantable /\ c = Refused THEN Faulty ELSE Sound
    /\ Becomes(a, [d EXCEPT !.reconnect.got = c.got, !.reconnect.holder = c.holder,
                            !.reconnect.run = c.run])

-----------------------------------------------------------------------------
(* startV2Lifecycle and stopV2Lifecycle *)

Start(a) ==
  /\ adapter[a].stage = "new"
  /\ Claims([adapter[a] EXCEPT !.stage = "claiming"], a)

(* What both claims do with their token.  onReconnected, like startV2,     *)
(* leaves the poller of a stopped adapter alone.                           *)
Holding(d) == [d EXCEPT !.stage = "on", !.reconnect = NoReconnect,
                        !.token = d.reconnect.holder, !.pinned = d.reconnect.run,
                        !.poller = IF Over(d) THEN 0 ELSE d.reconnect.run]

(* The loops are scheduled whether or not stop came first. *)
Started(a) ==
  /\ adapter[a].stage = "claiming"
  /\ Becomes(a, IF adapter[a].reconnect.got = "granted" THEN ScheduleBoth(Holding(adapter[a]))
                ELSE [adapter[a] EXCEPT !.stage = "refused", !.reconnect = NoReconnect])
  /\ UNCHANGED <<session, faults>>

(* stop: adapterExited names the token held, and is best effort. *)
Exited(d) == IF d.token # 0 /\ Open(d.pinned) /\ Current.holder = d.token
               THEN SetInfo("detached", 0) ELSE session
Stop(a) ==
  LET d == adapter[a]
  IN  /\ d.stage \in {"claiming", "on"}
      /\ ~Over(d)
      /\ Becomes(a, AbortSleepers([ClearTimers(d) EXCEPT !.stopped = TRUE, !.poller = 0]))
      /\ \/ session' = Exited(d) /\ Sound
         \/ UNCHANGED session /\ Faulty

-----------------------------------------------------------------------------
(* tickHeartbeat and tickPhaseWatcher *)

Fired(d, l) ==
  {[d EXCEPT !.timers[l] = @ - 1, !.tracked[l] = still] :
     still \in IF d.tracked[l] /\ d.timers[l] > 1 THEN BOOLEAN ELSE {FALSE}}

IsFree(d, l, i) == d.ticks[l][i] = NoTick /\ \A j \in 1..(i - 1) : d.ticks[l][j] # NoTick
Called(d, l, got, info) ==
  {[d EXCEPT !.ticks[l][i] = [at |-> "called", got |-> got, phase |-> info.phase,
                              holder |-> info.holder, next |-> 0]] :
     i \in {i \in Slots : IsFree(d, l, i)}}
NoInfo == Info("none", 0)

(* The timer fires and the guards trip: the tick is dropped, and not armed *)
(* again.                                                                  *)
Trips(d) == ~MayAct(d)
TickTrips(a, l) ==
  /\ adapter[a].timers[l] > 0
  /\ Trips(adapter[a])
  /\ \E d \in Fired(adapter[a], l) : Becomes(a, d)
  /\ UNCHANGED <<session, faults>>

(* The heartbeat signal.  A closed run ends it with an error that does not *)
(* tell continueAsNew from the end; that error can also be a blip.         *)
TickHeartbeat(a) ==
  LET d == adapter[a]
  IN  /\ d.timers["heartbeat"] > 0
      /\ ~Trips(d)
      /\ \E fired \in Fired(d, "heartbeat"), got \in {"answer", "ended"} :
           /\ \E called \in Called(fired, "heartbeat", got, NoInfo) : Becomes(a, called)
           /\ \/ got = "answer" /\ Open(d.pinned) /\ session' = Refreshed(d) /\ Sound
              \/ got = "ended" /\ ~Open(d.pinned) /\ UNCHANGED session /\ Sound
              \/ UNCHANGED session /\ Faulty

(* The attachmentInfo query.  A closed run still answers from where it     *)
(* stopped, as long as its history is kept.                                *)
TickPhaseWatcher(a) ==
  LET d == adapter[a]
      Calls(got, info) ==
        \E fired \in Fired(d, "phaseWatcher") :
          \E called \in Called(fired, "phaseWatcher", got, info) : Becomes(a, called)
  IN  /\ d.timers["phaseWatcher"] > 0
      /\ ~Trips(d)
      /\ \/ Calls("answer", session.info[d.pinned]) /\ Sound
         \/ Calls("ended", NoInfo) /\ ~Open(d.pinned) /\ Sound
         \/ \E got \in {"answer", "ended"} : Calls(got, NoInfo) /\ Faulty
      /\ UNCHANGED session

Free(d, l, i) == [d EXCEPT !.ticks[l][i] = NoTick]

(* The answer of the query, held against the token there is by now. *)
JudgeDetached(a, d, tick) ==
  IF tick.phase = "detached" /\ tick.holder = 0
    THEN FireTerminalOrReconnect(a, d, "heartbeat-timeout", 0)
  ELSE IF tick.phase = "gone" THEN FireTerminal(d, "destroy")
  ELSE d
Judge(a, d, tick) ==
  IF tick.holder # 0 /\ tick.holder # d.token
    THEN FireTerminalOrReconnect(a, d, "superseded", 0)
  ELSE IF tick.phase = "detached" /\ tick.holder = 0
    THEN FireTerminalOrReconnect(a, d, "heartbeat-timeout", 0)
  ELSE IF tick.phase = "gone" THEN FireTerminal(d, "destroy")
  ELSE d

TickReturns(a, l, i) ==
  LET tick == adapter[a].ticks[l][i]
      d == Free(adapter[a], l, i)
  IN  /\ tick.at = "called"
      /\ tick.got # "ended"
      /\ Becomes(a, Rearm(IF l = "phaseWatcher" THEN Judge(a, d, tick) ELSE d, l))
      /\ UNCHANGED <<session, faults>>

(* handleRunEndError asks for the history of the run the adapter is pinned *)
(* to by then; a failure counts as no successor.                           *)
SuccessorOf(r) == IF r < session.run THEN r + 1 ELSE 0
FindCanSuccessorRunId(a, l, i) ==
  /\ adapter[a].ticks[l][i].at = "called"
  /\ adapter[a].ticks[l][i].got = "ended"
  /\ \E next \in {0, SuccessorOf(adapter[a].pinned)} :
       /\ Becomes(a, [adapter[a] EXCEPT !.ticks[l][i] = [@ EXCEPT !.at = "asked", !.next = next]])
       /\ IF next = SuccessorOf(adapter[a].pinned) THEN Sound ELSE Faulty
  /\ UNCHANGED session

(* The tick ends here: what follows arms the loops, or nothing does. *)
HandleRunEndError(a, l, i) ==
  LET tick == adapter[a].ticks[l][i]
      d == Free(adapter[a], l, i)
  IN  /\ tick.at = "asked"
      /\ Becomes(a, IF tick.next # 0
                      THEN FireTerminalOrReconnect(a, d, "continued-as-new", tick.next)
                      ELSE FireTerminal(d, "destroy"))
      /\ UNCHANGED <<session, faults>>

(* The poller's query or its markDelivered meets the end of its run. *)
PollerMeetsEnd(a) ==
  /\ adapter[a].poller # 0
  /\ ~Open(adapter[a].poller)
  /\ Becomes(a, [adapter[a] EXCEPT !.poller = 0])
  /\ UNCHANGED <<session, faults>>

-----------------------------------------------------------------------------
(* runReconnectLoop *)

Done(d) == [d EXCEPT !.reconnect = NoReconnect]

(* The head of the loop.  A stop that comes in the middle of a round ends  *)
(* it like the end of the budget.                                          *)
Exhausted(d) == FireTerminal(Done(d), "reconnect-exhausted")
NextRounds(d) == {Exhausted(d)} \cup
                 (IF d.stopped \/ d.reconnect.attempts = MaxAttempts THEN {}
                  ELSE {[d EXCEPT !.reconnect = [NoReconnect EXCEPT
                           !.at = "sleep", !.attempts = d.reconnect.attempts + 1]]})

(* The sleep is over: the query, on whichever run is current. *)
ReconnectAsks(a) ==
  LET d == adapter[a]
      Calls(got, info) == Becomes(a, [d EXCEPT !.reconnect = [@ EXCEPT
        !.at = "asked", !.got = got, !.phase = info.phase, !.holder = info.holder]])
  IN  /\ d.reconnect.at = "sleep"
      /\ \/ Calls("answer", Current) /\ Sound
         \/ Calls("ended", NoInfo) /\ ~session.up /\ Sound
         \/ \E got \in {"answer", "ended"} : Calls(got, NoInfo) /\ Faulty
      /\ UNCHANGED session

(* A terminal error alone does not count (#258): describe decides, and if  *)
(* that fails too, the workflow is taken for gone.                         *)
ConfirmWorkflowTerminal(a) ==
  LET d == adapter[a]
  IN  /\ d.reconnect.at = "asked"
      /\ d.reconnect.got = "ended"
      /\ \E over \in BOOLEAN :
           /\ over \/ session.up
           /\ IF over /\ session.up THEN Faulty ELSE Sound
           /\ IF over THEN Becomes(a, FireTerminal(Done(d), "destroy"))
              ELSE \E next \in NextRounds(d) : Becomes(a, next)
      /\ UNCHANGED session

OtherHolds(d) == d.reconnect.holder \notin {0, d.token}
ReconnectDecides(a) ==
  LET d == adapter[a]
  IN  /\ d.reconnect.at = "asked"
      /\ \/ /\ d.reconnect.phase = "gone"
            /\ Becomes(a, FireTerminal(Done(d), "destroy"))
         \/ /\ OtherHolds(d)
            /\ Becomes(a, FireTerminal(Done(d), "superseded"))
         \/ /\ d.reconnect.phase = "draining" \/ (d.reconnect.got = "answer" /\ d.reconnect.phase = "none")
            /\ ~OtherHolds(d)
            /\ \E next \in NextRounds(d) : Becomes(a, next)
      /\ UNCHANGED <<session, faults>>

ReconnectClaims(a) ==
  LET d == adapter[a]
  IN  /\ d.reconnect.at = "asked"
      /\ d.reconnect.phase \in {"detached", "attached"}
      /\ ~OtherHolds(d)
      /\ Claims([d EXCEPT !.reconnect = [@ EXCEPT !.at = "claiming", !.phase = "none"]], a)

Reconnected(a) ==
  LET d == adapter[a]
  IN  /\ d.reconnect.at = "claiming"
      /\ \/ /\ d.reconnect.got = "granted"
            /\ Becomes(a, IF d.stopped THEN Holding(d) ELSE ScheduleBoth(Holding(d)))
         \/ /\ d.reconnect.got = "gone"
            /\ Becomes(a, FireTerminal(Done(d), "destroy"))
         \/ /\ d.reconnect.got = "refused"
            /\ \E next \in NextRounds(d) : Becomes(a, next)
      /\ UNCHANGED <<session, faults>>

-----------------------------------------------------------------------------
(* The session, and the calls of others on it *)

Moves(to) == session' = to /\ UNCHANGED <<adapter, faults>>
Present == session.up /\ Current.phase # "gone"

LeaseAges == Present /\ session.fresh /\ Moves([session EXCEPT !.fresh = FALSE])
ReapLease == Present /\ Current.holder # 0 /\ ~session.fresh /\ Moves(SetInfo("detached", 0))
RequestDetach == Present /\ Current.phase = "attached" /\ Moves(SetInfo("draining", Current.holder))
DrainEnds == Present /\ Current.phase = "draining" /\ Moves(SetInfo("detached", 0))
ForceDetach == Present /\ Current.holder # 0 /\ Moves(SetInfo("detached", 0))
RivalClaims == Grantable /\ Moves(Granted)
Destroy == Present /\ Moves(SetInfo("gone", 0))
(* The destroyed workflow completes, or a workflow is terminated. *)
Completes == session.up /\ Moves([session EXCEPT !.up = FALSE, !.fresh = FALSE])
ContinueAsNew ==
  /\ Present
  /\ session.run < MaxRuns
  /\ Moves([session EXCEPT !.run = @ + 1, !.fresh = (Current.holder # 0),
                           !.info[session.run + 1] = Current])

Session == LeaseAges \/ ReapLease \/ RequestDetach \/ DrainEnds \/ ForceDetach \/ RivalClaims
           \/ Destroy \/ Completes \/ ContinueAsNew

Init ==
  /\ session = [run |-> 1, up |-> TRUE, fresh |-> FALSE, granted |-> 0,
                info |-> [r \in 1..MaxRuns |-> Info("detached", 0)]]
  /\ adapter = [a \in Adapters |-> NewAdapter]
  /\ faults = 0

Tick(a, l) == \/ TickTrips(a, l)
              \/ l = "heartbeat" /\ TickHeartbeat(a)
              \/ l = "phaseWatcher" /\ TickPhaseWatcher(a)
Resume(a, l, i) == \/ TickReturns(a, l, i) \/ FindCanSuccessorRunId(a, l, i)
                   \/ HandleRunEndError(a, l, i)
Reconnect(a) == \/ ReconnectAsks(a) \/ ConfirmWorkflowTerminal(a) \/ ReconnectDecides(a)
                \/ ReconnectClaims(a) \/ Reconnected(a)

Next ==
  \/ Session
  \/ \E a \in Adapters :
       \/ Start(a) \/ Started(a) \/ Stop(a) \/ PollerMeetsEnd(a) \/ Reconnect(a)
       \/ \E l \in Loops : Tick(a, l) \/ \E i \in Slots : Resume(a, l, i)

Spec == Init /\ [][Next]_adapterVars

(* An adapter's timers fire and its calls return, each in the end; the     *)
(* session owes it nothing.                                                *)
Fairness ==
  \A a \in Adapters :
    /\ WF_adapterVars(Started(a)) /\ WF_adapterVars(Reconnect(a))
    /\ \A l \in Loops :
         /\ WF_adapterVars(Tick(a, l))
         /\ \A i \in Slots : WF_adapterVars(Resume(a, l, i))
FairSpec == Spec /\ Fairness

-----------------------------------------------------------------------------
(* Properties *)

Phases == {"detached", "attached", "draining", "gone"}
Sessions == [run : 1..MaxRuns, up : BOOLEAN, fresh : BOOLEAN, granted : 0..MaxGrants,
             info : [1..MaxRuns -> [phase : Phases, holder : 0..MaxGrants]]]
TickStates == [at : {"idle", "called", "asked"}, got : {"none", "answer", "ended"},
               phase : Phases \cup {"none"}, holder : 0..MaxGrants, next : 0..MaxRuns]
ReconnectStates == [at : {"off", "sleep", "asked", "claiming"},
                    got : {"none", "answer", "ended", "granted", "refused", "gone"},
                    phase : Phases \cup {"none"}, holder : 0..MaxGrants, run : 0..MaxRuns,
                    attempts : 0..MaxAttempts]
Reasons == {"none", "heartbeat-timeout", "continued-as-new", "superseded", "destroy",
            "reconnect-exhausted"}
AdapterStates == [stage : {"new", "claiming", "on", "refused"}, token : 0..MaxGrants,
                  pinned : 0..MaxRuns, stopped : BOOLEAN, terminal : Reasons,
                  poller : 0..MaxRuns, reconnect : ReconnectStates,
                  timers : [Loops -> Nat], tracked : [Loops -> BOOLEAN],
                  ticks : [Loops -> [Slots -> TickStates]]]

(* Type invariant; a timer that is tracked is there to be cleared. *)
TypeOK ==
  /\ session \in Sessions
  /\ faults \in 0..MaxFaults
  /\ adapter \in [Adapters -> AdapterStates]
  /\ \A a \in Adapters, l \in Loops : adapter[a].tracked[l] => adapter[a].timers[l] > 0

(* The heartbeat loop and the phase watcher of an adapter that is neither  *)
(* stopped nor reconnecting always have a timer or a tick to go on (#249). *)
GoesOn(d, l) == d.timers[l] > 0 \/ \E i \in Slots : d.ticks[l][i] # NoTick
NeverOrphaned ==
  \A a \in Adapters : Live(adapter[a]) /\ ~Reconnecting(adapter[a])
                        => \A l \in Loops : GoesOn(adapter[a], l)

(* A poller runs only for an adapter that is live and not reconnecting,    *)
(* and on the run the heartbeats go to.                                    *)
PollerFollowsLease ==
  \A a \in Adapters : adapter[a].poller # 0 =>
    /\ Live(adapter[a]) /\ ~Reconnecting(adapter[a])
    /\ adapter[a].poller = adapter[a].pinned

(* An adapter that stopped, or gave up, falls silent. *)
Silent(d) == /\ d.stage # "claiming" /\ ~Reconnecting(d) /\ d.poller = 0
             /\ \A l \in Loops : ~GoesOn(d, l)
FallsSilent == \A a \in Adapters : Over(adapter[a]) ~> [](Silent(adapter[a]))

(* What ended does not live again, whatever was still under way, and what  *)
(* has fallen silent stays so.                                             *)
EndsForGood ==
  [][\A a \in Adapters : Over(adapter[a]) =>
       Over(adapter'[a]) /\ (Silent(adapter[a]) => Silent(adapter'[a]))]_adapterVars

(* A poller that met the end of its run runs again, or the adapter has     *)
(* ended.                                                                  *)
PollerRevived ==
  \A a \in Adapters : Live(adapter[a]) /\ adapter[a].poller = 0
                        ~> adapter[a].poller # 0 \/ Over(adapter[a])

(* An adapter that lost the session to another ends, or gets it back.      *)
HasLease(d) == Current.holder = d.token
LosersLeave ==
  \A a \in Adapters : Live(adapter[a]) /\ ~HasLease(adapter[a])
                        ~> HasLease(adapter[a]) \/ Over(adapter[a])

(* The session its callers see keeps the promise of AttachmentLease; on a  *)
(* session that is over the last lease runs out and no other is granted.   *)
Lease == INSTANCE AttachmentLease WITH
           holder <- Current.holder,
           expired <- Current.holder # 0 /\ ~session.fresh,
           granted <- session.granted
ImplementsLease == Lease!LeaseSpec

(* base.ts:792: no successor in the history means the session is over. *)
DestroyOnlyWhenOver ==
  \A a \in Adapters : adapter[a].terminal = "destroy" => ~Present
=============================================================================
