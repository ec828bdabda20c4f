----------------------- MODULE AdapterLifecycleProofs -----------------------
(***************************************************************************)
(* What holds of AdapterLifecycle for any adapters and bounds: the types,  *)
(* that the loops of a running adapter always have a timer or a tick to go *)
(* on, that a poller runs only beside them, that what ended does not live  *)
(* again, and that the session they see implements AttachmentLease.        *)
(*                                                                         *)
(* Most lemmas say what an operator on the state of one adapter does to    *)
(* it.  An update of several fields is the updates of its fields one after *)
(* another: the Put lemmas are what those do.                              *)
(***************************************************************************)
EXTENDS AdapterLifecycle, TLAPS

LEMMA LoopsAre ==
  /\ "heartbeat" \in Loops /\ "phaseWatcher" \in Loops /\ "heartbeat" # "phaseWatcher"
  /\ \A l \in Loops : l = "heartbeat" \/ l = "phaseWatcher"
  BY DEF Loops

LEMMA Bounds ==
  /\ MaxTicks \in Nat /\ MaxTicks > 0 /\ MaxAttempts \in Nat /\ MaxAttempts > 0
  /\ MaxRuns \in Nat /\ MaxRuns > 0 /\ MaxGrants \in Nat /\ MaxFaults \in Nat
  BY AdapterBoundsAssumption

-----------------------------------------------------------------------------
(* One field of the state of an adapter *)

LEMMA PutStage ==
  ASSUME NEW d \in AdapterStates, NEW v \in {"new", "claiming", "on", "refused"}
  PROVE  LET e == [d EXCEPT !.stage = v] IN
         /\ e \in AdapterStates /\ e.stage = v
         /\ e.token = d.token /\ e.pinned = d.pinned /\ e.stopped = d.stopped
         /\ e.terminal = d.terminal /\ e.poller = d.poller /\ e.reconnect = d.reconnect
         /\ e.timers = d.timers /\ e.tracked = d.tracked /\ e.ticks = d.ticks
  BY DEF AdapterStates

LEMMA PutToken ==
  ASSUME NEW d \in AdapterStates, NEW v \in 0..MaxGrants
  PROVE  LET e == [d EXCEPT !.token = v] IN
         /\ e \in AdapterStates /\ e.token = v
         /\ e.stage = d.stage /\ e.pinned = d.pinned /\ e.stopped = d.stopped
         /\ e.terminal = d.terminal /\ e.poller = d.poller /\ e.reconnect = d.reconnect
         /\ e.timers = d.timers /\ e.tracked = d.tracked /\ e.ticks = d.ticks
  BY DEF AdapterStates

LEMMA PutPinned ==
  ASSUME NEW d \in AdapterStates, NEW v \in 0..MaxRuns
  PROVE  LET e == [d EXCEPT !.pinned = v] IN
         /\ e \in AdapterStates /\ e.pinned = v
         /\ e.stage = d.stage /\ e.token = d.token /\ e.stopped = d.stopped
         /\ e.terminal = d.terminal /\ e.poller = d.poller /\ e.reconnect = d.reconnect
         /\ e.timers = d.timers /\ e.tracked = d.tracked /\ e.ticks = d.ticks
  BY DEF AdapterStates

LEMMA PutStopped ==
  ASSUME NEW d \in AdapterStates, NEW v \in BOOLEAN
  PROVE  LET e == [d EXCEPT !.stopped = v] IN
         /\ e \in AdapterStates /\ e.stopped = v
         /\ e.stage = d.stage /\ e.token = d.token /\ e.pinned = d.pinned
         /\ e.terminal = d.terminal /\ e.poller = d.poller /\ e.reconnect = d.reconnect
         /\ e.timers = d.timers /\ e.tracked = d.tracked /\ e.ticks = d.ticks
  BY DEF AdapterStates

LEMMA PutTerminal ==
  ASSUME NEW d \in AdapterStates, NEW v \in Reasons
  PROVE  LET e == [d EXCEPT !.terminal = v] IN
         /\ e \in AdapterStates /\ e.terminal = v
         /\ e.stage = d.stage /\ e.token = d.token /\ e.pinned = d.pinned
         /\ e.stopped = d.stopped /\ e.poller = d.poller /\ e.reconnect = d.reconnect
         /\ e.timers = d.timers /\ e.tracked = d.tracked /\ e.ticks = d.ticks
  BY DEF AdapterStates

LEMMA PutPoller ==
  ASSUME NEW d \in AdapterStates, NEW v \in 0..MaxRuns
  PROVE  LET e == [d EXCEPT !.poller = v] IN
         /\ e \in AdapterStates /\ e.poller = v
         /\ e.stage = d.stage /\ e.token = d.token /\ e.pinned = d.pinned
         /\ e.stopped = d.stopped /\ e.terminal = d.terminal /\ e.reconnect = d.reconnect
         /\ e.timers = d.timers /\ e.tracked = d.tracked /\ e.ticks = d.ticks
  BY DEF AdapterStates

LEMMA PutReconnect ==
  ASSUME NEW d \in AdapterStates, NEW v \in ReconnectStates
  PROVE  LET e == [d EXCEPT !.reconnect = v] IN
         /\ e \in AdapterStates /\ e.reconnect = v
         /\ e.stage = d.stage /\ e.token = d.token /\ e.pinned = d.pinned
         /\ e.stopped = d.stopped /\ e.terminal = d.terminal /\ e.poller = d.poller
         /\ e.timers = d.timers /\ e.tracked = d.tracked /\ e.ticks = d.ticks
  BY DEF AdapterStates

LEMMA PutTimers ==
  ASSUME NEW d \in AdapterStates, NEW v \in [Loops -> Nat]
  PROVE  LET e == [d EXCEPT !.timers = v] IN
         /\ e \in AdapterStates /\ e.timers = v
         /\ e.stage = d.stage /\ e.token = d.token /\ e.pinned = d.pinned
         /\ e.stopped = d.stopped /\ e.terminal = d.terminal /\ e.poller = d.poller
         /\ e.reconnect = d.reconnect /\ e.tracked = d.tracked /\ e.ticks = d.ticks
  BY DEF AdapterStates

LEMMA PutTracked ==
  ASSUME NEW d \in AdapterStates, NEW v \in [Loops -> BOOLEAN]
  PROVE  LET e == [d EXCEPT !.tracked = v] IN
         /\ e \in AdapterStates /\ e.tracked = v
         /\ e.stage = d.stage /\ e.token = d.token /\ e.pinned = d.pinned
         /\ e.stopped = d.stopped /\ e.terminal = d.terminal /\ e.poller = d.poller
         /\ e.reconnect = d.reconnect /\ e.timers = d.timers /\ e.ticks = d.ticks
  BY DEF AdapterStates

LEMMA PutTicks ==
  ASSUME NEW d \in AdapterStates, NEW v \in [Loops -> [Slots -> TickStates]]
  PROVE  LET e == [d EXCEPT !.ticks = v] IN
         /\ e \in AdapterStates /\ e.ticks = v
         /\ e.stage = d.stage /\ e.token = d.token /\ e.pinned = d.pinned
         /\ e.stopped = d.stopped /\ e.terminal = d.terminal /\ e.poller = d.poller
         /\ e.reconnect = d.reconnect /\ e.timers = d.timers /\ e.tracked = d.tracked
  BY DEF AdapterStates
-----------------------------------------------------------------------------
(* What holds of one adapter *)

Tidy(d) == d \in AdapterStates /\ \A l \in Loops : d.tracked[l] => d.timers[l] > 0
Granting(d) == d.reconnect.got = "granted" => d.reconnect.run # 0
PollsRightly(d) ==
  d.poller # 0 => Live(d) /\ ~Reconnecting(d) /\ d.poller = d.pinned
LoopsGoOn(d) == Live(d) /\ ~Reconnecting(d) => \A l \in Loops : GoesOn(d, l)

(* Before its claim is granted an adapter has no loops.                    *)
Loopless(d) == /\ d.poller = 0 /\ d.reconnect.at = "off"
               /\ \A l \in Loops : d.timers[l] = 0
               /\ \A l \in Loops, i \in Slots : d.ticks[l][i] = NoTick

(* An adapter that got as far as running, with or without its loops.       *)
Runs(d) == /\ Tidy(d) /\ Granting(d) /\ PollsRightly(d)
           /\ d.stage = "on" /\ d.pinned # 0

Fits(d) == /\ Tidy(d) /\ Granting(d) /\ PollsRightly(d) /\ LoopsGoOn(d)
           /\ d.stage = "on" => d.pinned # 0
           /\ d.stage # "on" => Loopless(d)
           /\ d.stage = "new" => ~Over(d)

LifeInv ==
  /\ session \in Sessions /\ faults \in 0..MaxFaults
  /\ adapter \in [Adapters -> AdapterStates] /\ \A a \in Adapters : Fits(adapter[a])

(* e is d but for its timers.                                              *)
Beside(d, e) ==
  /\ e.stage = d.stage /\ e.token = d.token /\ e.pinned = d.pinned /\ e.stopped = d.stopped
  /\ e.terminal = d.terminal /\ e.poller = d.poller /\ e.reconnect = d.reconnect
  /\ e.ticks = d.ticks

LEMMA RunsFits ==
  ASSUME NEW d, Runs(d), LoopsGoOn(d)
  PROVE  Fits(d) /\ d.stage = "on"
  BY DEF Runs, Fits

LEMMA FitsRuns == ASSUME NEW d, Fits(d), d.stage = "on" PROVE Runs(d) /\ LoopsGoOn(d)
  BY DEF Runs, Fits

LEMMA StillFits ==
  ASSUME NEW d, Runs(d), ~MayAct(d)
  PROVE  Fits(d) /\ d.stage = "on"
  BY RunsFits DEF LoopsGoOn, Live, MayAct

LEMMA BesideRuns == ASSUME NEW d, NEW e, Runs(d), Tidy(e), Beside(d, e) PROVE Runs(e)
  BY DEF Runs, Beside, Granting, PollsRightly, Live, Over, Reconnecting

-----------------------------------------------------------------------------
(* The timers *)

LEMMA ScheduleTidy ==
  ASSUME NEW d, Tidy(d), NEW l \in Loops
  PROVE  LET e == Schedule(d, l) IN
         /\ Tidy(e) /\ Beside(d, e) /\ e.timers[l] > 0
         /\ \A k \in Loops \ {l} : e.timers[k] = d.timers[k]
<1>. DEFINE timers == [d.timers EXCEPT ![l] = @ + 1]
            tracked == [d.tracked EXCEPT ![l] = TRUE]
            timed == [d EXCEPT !.timers = timers]
            e == [timed EXCEPT !.tracked = tracked]
<1>1. d \in AdapterStates /\ d.timers \in [Loops -> Nat] /\ d.tracked \in [Loops -> BOOLEAN]
  BY DEF Tidy, AdapterStates
<1>2. timers \in [Loops -> Nat] /\ tracked \in [Loops -> BOOLEAN] /\ timers[l] > 0
      /\ \A k \in Loops \ {l} : timers[k] = d.timers[k] /\ tracked[k] = d.tracked[k]
  BY <1>1
<1>3. Schedule(d, l) = e
  BY <1>1 DEF Schedule, AdapterStates
<1>. HIDE DEF timers, tracked
<1>4. timed \in AdapterStates /\ timed.timers = timers /\ Beside(d, timed)
  BY <1>1, <1>2, PutTimers DEF Beside
<1>. HIDE DEF timed
<1>5. e \in AdapterStates /\ e.tracked = tracked /\ e.timers = timers /\ Beside(timed, e)
  BY <1>2, <1>4, PutTracked DEF Beside
<1>. HIDE DEF e
<1>6. Beside(d, e)
  BY <1>4, <1>5 DEF Beside
<1>7. \A k \in Loops : e.tracked[k] => e.timers[k] > 0
  BY <1>2, <1>5 DEF Tidy
<1>. QED  BY <1>2, <1>3, <1>5, <1>6, <1>7 DEF Tidy

LEMMA ScheduleBothTidy ==
  ASSUME NEW d, Tidy(d)
  PROVE  LET e == ScheduleBoth(d) IN
         Tidy(e) /\ Beside(d, e) /\ \A l \in Loops : e.timers[l] > 0
<1>. DEFINE h == Schedule(d, "heartbeat")
            e == Schedule(h, "phaseWatcher")
<1>1. Tidy(h) /\ h.timers["heartbeat"] > 0 /\ Beside(d, h)
  BY LoopsAre, ScheduleTidy
<1>. HIDE DEF h
<1>2. /\ Tidy(e) /\ e.timers["phaseWatcher"] > 0 /\ e.timers["heartbeat"] = h.timers["heartbeat"]
      /\ Beside(h, e)
  BY <1>1, LoopsAre, ScheduleTidy
<1>. HIDE DEF e
<1>3. e = ScheduleBoth(d)
  BY DEF ScheduleBoth, e, h
<1>4. Beside(d, e)
  BY <1>1, <1>2 DEF Beside
<1>. QED  BY <1>1, <1>2, <1>3, <1>4, LoopsAre

LEMMA ClearTimerTidy ==
  ASSUME NEW d, Tidy(d), NEW l \in Loops
  PROVE  LET e == ClearTimer(d, l) IN
         Tidy(e) /\ Beside(d, e) /\ \A k \in Loops : d.timers[k] = 0 => e.timers[k] = 0
<1>1. CASE ~d.tracked[l]
  BY <1>1 DEF ClearTimer, Beside
<1>2. CASE d.tracked[l]
  <2>. DEFINE timers == [d.timers EXCEPT ![l] = @ - 1]
              tracked == [d.tracked EXCEPT ![l] = FALSE]
              timed == [d EXCEPT !.timers = timers]
              e == [timed EXCEPT !.tracked = tracked]
  <2>1. d \in AdapterStates /\ d.timers \in [Loops -> Nat] /\ d.tracked \in [Loops -> BOOLEAN]
        /\ d.timers[l] > 0
    BY <1>2 DEF Tidy, AdapterStates
  <2>2. timers \in [Loops -> Nat] /\ tracked \in [Loops -> BOOLEAN]
        /\ ~tracked[l] /\ \A k \in Loops \ {l} : timers[k] = d.timers[k] /\ tracked[k] = d.tracked[k]
    BY <2>1
  <2>3. ClearTimer(d, l) = e
    BY <1>2, <2>1 DEF ClearTimer, AdapterStates
  <2>. HIDE DEF timers, tracked
  <2>4. timed \in AdapterStates /\ timed.timers = timers /\ Beside(d, timed)
    BY <2>1, <2>2, PutTimers DEF Beside
  <2>. HIDE DEF timed
  <2>5. e \in AdapterStates /\ e.tracked = tracked /\ e.timers = timers /\ Beside(timed, e)
    BY <2>2, <2>4, PutTracked DEF Beside
  <2>. HIDE DEF e
  <2>6. Beside(d, e)
    BY <2>4, <2>5 DEF Beside
  <2>7. \A k \in Loops : e.tracked[k] => e.timers[k] > 0
    BY <2>2, <2>5 DEF Tidy
  <2>8. \A k \in Loops : d.timers[k] = 0 => e.timers[k] = 0
    BY <2>1, <2>2, <2>5
  <2>. QED  BY <2>3, <2>5, <2>6, <2>7, <2>8 DEF Tidy
<1>. QED  BY <1>1, <1>2

LEMMA ClearTimersTidy ==
  ASSUME NEW d, Tidy(d)
  PROVE  LET e == ClearTimers(d) IN
         Tidy(e) /\ Beside(d, e) /\ \A k \in Loops : d.timers[k] = 0 => e.timers[k] = 0
<1>. DEFINE h == ClearTimer(d, "heartbeat")
            e == ClearTimer(h, "phaseWatcher")
<1>1. Tidy(h) /\ Beside(d, h) /\ \A k \in Loops : d.timers[k] = 0 => h.timers[k] = 0
  BY LoopsAre, ClearTimerTidy
<1>. HIDE DEF h
<1>2. Tidy(e) /\ Beside(h, e) /\ \A k \in Loops : h.timers[k] = 0 => e.timers[k] = 0
  BY <1>1, LoopsAre, ClearTimerTidy
<1>. HIDE DEF e
<1>3. e = ClearTimers(d)
  BY DEF ClearTimers, e, h
<1>4. Beside(d, e)
  BY <1>1, <1>2 DEF Beside
<1>. QED  BY <1>1, <1>2, <1>3, <1>4

-----------------------------------------------------------------------------
(* The reconnect state *)

LEMMA NoReconnectTyped ==
  NoReconnect \in ReconnectStates /\ NoReconnect.got = "none" /\ NoReconnect.at = "off"
  BY Bounds DEF NoReconnect, ReconnectStates

LEMMA Asleep ==
  ASSUME NEW n \in 0..MaxAttempts
  PROVE  LET r == [NoReconnect EXCEPT !.at = "sleep", !.attempts = n]
         IN  r \in ReconnectStates /\ r.at = "sleep" /\ r.got = "none"
<1>. DEFINE r == [at |-> "sleep", got |-> "none", phase |-> "none", holder |-> 0, run |-> 0,
                  attempts |-> n]
            h == [at |-> "sleep", got |-> "none", phase |-> "none", holder |-> 0, run |-> 0,
                  attempts |-> 0]
<1>1. [NoReconnect EXCEPT !.at = "sleep", !.attempts = n] = r
  <2>1. [NoReconnect EXCEPT !.at = "sleep"] = h
    BY DEF NoReconnect
  <2>2. [h EXCEPT !.attempts = n] = r
    OBVIOUS
  <2>3. [NoReconnect EXCEPT !.at = "sleep", !.attempts = n]
          = [[NoReconnect EXCEPT !.at = "sleep"] EXCEPT !.attempts = n]
    BY DEF NoReconnect
  <2>. QED  BY <2>1, <2>2, <2>3
<1>2. r \in ReconnectStates
  BY Bounds DEF ReconnectStates
<1>. QED  BY <1>1, <1>2

(* A reconnect state put in place of another.                              *)
LEMMA ReconnectPut ==
  ASSUME NEW d, Tidy(d), NEW r \in ReconnectStates, r.got = "granted" => r.run # 0
  PROVE  LET e == [d EXCEPT !.reconnect = r] IN
         /\ Tidy(e) /\ Granting(e) /\ e.reconnect = r
         /\ e.stage = d.stage /\ e.pinned = d.pinned /\ e.stopped = d.stopped /\ e.token = d.token
         /\ e.terminal = d.terminal /\ e.poller = d.poller /\ e.timers = d.timers
         /\ e.ticks = d.ticks
  BY PutReconnect DEF Tidy, Granting

LEMMA AbortSleepersTidy ==
  ASSUME NEW d, Tidy(d), Granting(d)
  PROVE  LET e == AbortSleepers(d) IN
         /\ Tidy(e) /\ Granting(e) /\ (Reconnecting(e) => Reconnecting(d))
         /\ e.stage = d.stage /\ e.pinned = d.pinned /\ e.stopped = d.stopped
         /\ e.terminal = d.terminal /\ e.poller = d.poller /\ e.timers = d.timers
         /\ e.ticks = d.ticks
<1>1. CASE d.reconnect.at = "sleep"
  <2>. DEFINE e == [d EXCEPT !.reconnect = NoReconnect]
  <2>1. /\ Tidy(e) /\ Granting(e) /\ e.reconnect = NoReconnect
        /\ e.stage = d.stage /\ e.pinned = d.pinned /\ e.stopped = d.stopped
        /\ e.terminal = d.terminal /\ e.poller = d.poller /\ e.timers = d.timers
        /\ e.ticks = d.ticks
    BY NoReconnectTyped, ReconnectPut
  <2>2. AbortSleepers(d) = e
    BY <1>1 DEF AbortSleepers
  <2>. HIDE DEF e
  <2>. QED  BY <2>1, <2>2, NoReconnectTyped DEF Reconnecting
<1>2. CASE d.reconnect.at # "sleep"
  BY <1>2 DEF AbortSleepers
<1>. QED  BY <1>1, <1>2

(* Asleep, with the loops ended, an adapter fits. *)
LEMMA SleepingFits ==
  ASSUME NEW d, Runs(d), d.poller = 0, NEW n \in 0..MaxAttempts
  PROVE  LET e == [d EXCEPT !.reconnect = [NoReconnect EXCEPT !.at = "sleep", !.attempts = n]]
         IN  Fits(e) /\ e.stage = "on" /\ (Over(d) => Over(e))
<1>. DEFINE r == [NoReconnect EXCEPT !.at = "sleep", !.attempts = n]
            e == [d EXCEPT !.reconnect = r]
<1>1. r \in ReconnectStates /\ r.at = "sleep" /\ r.got = "none"
  BY Asleep
<1>. HIDE DEF r
<1>2. /\ Tidy(e) /\ Granting(e) /\ e.reconnect = r
      /\ e.stage = d.stage /\ e.pinned = d.pinned /\ e.poller = 0
      /\ e.stopped = d.stopped /\ e.terminal = d.terminal
  BY <1>1, ReconnectPut DEF Runs
<1>. HIDE DEF e
<1>3. Runs(e) /\ Reconnecting(e) /\ (Over(d) => Over(e))
  BY <1>1, <1>2 DEF Runs, PollsRightly, Reconnecting, Over
<1>4. Fits(e) /\ e.stage = "on" /\ (Over(d) => Over(e))
  BY <1>3, RunsFits DEF LoopsGoOn
<1>. QED  BY <1>4 DEF e, r

-----------------------------------------------------------------------------
(* What the adapter does to itself *)

LEMMA FireTerminalFits ==
  ASSUME NEW d, Runs(d), NEW reason \in Reasons \ {"none"}
  PROVE  LET e == FireTerminal(d, reason) IN Fits(e) /\ e.stage = "on" /\ Over(e)
<1>1. CASE d.terminal # "none"
  BY <1>1, StillFits DEF FireTerminal, Over, MayAct
<1>2. CASE d.terminal = "none"
  <2>. DEFINE c == ClearTimers(d)
              t == [c EXCEPT !.terminal = reason]
              s == [t EXCEPT !.stopped = TRUE]
              p == [s EXCEPT !.poller = 0]
              e == AbortSleepers(p)
  <2>1. Tidy(c) /\ Beside(d, c)
    BY ClearTimersTidy DEF Runs
  <2>2. c \in AdapterStates
    BY <2>1 DEF Tidy
  <2>3. FireTerminal(d, reason) = e
    BY <1>2, <2>2 DEF FireTerminal, AdapterStates
  <2>. HIDE DEF c
  <2>4. /\ t \in AdapterStates /\ t.terminal = reason /\ t.stage = c.stage /\ t.pinned = c.pinned
        /\ t.reconnect = c.reconnect /\ t.timers = c.timers /\ t.tracked = c.tracked
    BY <2>2, PutTerminal
  <2>. HIDE DEF t
  <2>5. /\ s \in AdapterStates /\ s.stopped /\ s.terminal = reason /\ s.stage = c.stage
        /\ s.pinned = c.pinned
        /\ s.reconnect = c.reconnect /\ s.timers = c.timers /\ s.tracked = c.tracked
    BY <2>4, PutStopped
  <2>. HIDE DEF s
  <2>6. /\ p \in AdapterStates /\ p.poller = 0 /\ p.stopped /\ p.stage = c.stage
        /\ p.pinned = c.pinned
        /\ p.reconnect = c.reconnect /\ p.timers = c.timers /\ p.tracked = c.tracked
    BY <2>5, Bounds, PutPoller
  <2>. HIDE DEF p
  <2>7. Tidy(p) /\ Granting(p)
    BY <2>1, <2>6 DEF Tidy, Runs, Granting, Beside
  <2>8. Tidy(e) /\ Granting(e) /\ e.stage = p.stage /\ e.pinned = p.pinned /\ e.stopped
        /\ e.poller = 0
    BY <2>6, <2>7, AbortSleepersTidy
  <2>. HIDE DEF e
  <2>9. Runs(e) /\ Over(e)
    BY <2>1, <2>6, <2>8 DEF Runs, PollsRightly, Over, Beside
  <2>. QED  BY <2>3, <2>9, StillFits DEF MayAct
<1>. QED  BY <1>1, <1>2

LEMMA CanRebindFits ==
  ASSUME NEW d, Runs(d), MayAct(d), NEW run \in 1..MaxRuns
  PROVE  Fits(CanRebind(d, run)) /\ CanRebind(d, run).stage = "on"
<1>. DEFINE c == ClearTimers(d)
            q == [c EXCEPT !.pinned = run]
            p == [q EXCEPT !.poller = run]
            e == ScheduleBoth(p)
<1>1. Tidy(c) /\ Beside(d, c)
  BY ClearTimersTidy DEF Runs
<1>2. c \in AdapterStates /\ run \in 0..MaxRuns /\ run # 0
  BY <1>1, Bounds DEF Tidy
<1>3. CanRebind(d, run) = e
  BY <1>2 DEF CanRebind, AdapterStates
<1>. HIDE DEF c
<1>4. /\ q \in AdapterStates /\ q.pinned = run /\ q.stage = c.stage
      /\ q.stopped = c.stopped /\ q.terminal = c.terminal
      /\ q.reconnect = c.reconnect /\ q.timers = c.timers /\ q.tracked = c.tracked
  BY <1>2, PutPinned
<1>. HIDE DEF q
<1>5. /\ p \in AdapterStates /\ p.poller = run /\ p.pinned = run /\ p.stage = c.stage
      /\ p.stopped = c.stopped /\ p.terminal = c.terminal
      /\ p.reconnect = c.reconnect /\ p.timers = c.timers /\ p.tracked = c.tracked
  BY <1>2, <1>4, PutPoller
<1>. HIDE DEF p
<1>6. Runs(p)
  BY <1>1, <1>2, <1>5
     DEF Runs, Tidy, Granting, PollsRightly, Beside, Live, Over, MayAct, Reconnecting
<1>7. Tidy(e) /\ Beside(p, e) /\ \A l \in Loops : e.timers[l] > 0
  BY <1>6, ScheduleBothTidy DEF Runs
<1>. HIDE DEF e
<1>8. Runs(e) /\ LoopsGoOn(e)
  BY <1>6, <1>7, BesideRuns DEF LoopsGoOn, GoesOn
<1>. QED  BY <1>3, <1>8, RunsFits

LEMMA StartReconnectLoopFits ==
  ASSUME NEW d, Runs(d)
  PROVE  Fits(StartReconnectLoop(d)) /\ StartReconnectLoop(d).stage = "on"
<1>. DEFINE c == ClearTimers(d)
            p == [c EXCEPT !.poller = 0]
            e == [p EXCEPT !.reconnect = [NoReconnect EXCEPT !.at = "sleep", !.attempts = 1]]
<1>1. Tidy(c) /\ Beside(d, c)
  BY ClearTimersTidy DEF Runs
<1>2. c \in AdapterStates
  BY <1>1 DEF Tidy
<1>3. StartReconnectLoop(d) = e
  BY <1>2 DEF StartReconnectLoop, AdapterStates
<1>. HIDE DEF c
<1>4. /\ p \in AdapterStates /\ p.poller = 0 /\ p.pinned = c.pinned /\ p.stage = c.stage
      /\ p.reconnect = c.reconnect /\ p.timers = c.timers /\ p.tracked = c.tracked
  BY <1>2, Bounds, PutPoller
<1>. HIDE DEF p
<1>5. Runs(p)
  BY <1>1, <1>4 DEF Runs, Tidy, Granting, PollsRightly, Beside
<1>6. 1 \in 0..MaxAttempts
  BY Bounds
<1>7. Fits(e) /\ e.stage = "on"
  BY <1>4, <1>5, <1>6, SleepingFits
<1>. HIDE DEF e
<1>. QED  BY <1>3, <1>7

LEMMA FireTerminalOrReconnectFits ==
  ASSUME NEW a, NEW d, Runs(d), NEW reason \in Reasons \ {"none"}, NEW run,
         reason = "continued-as-new" => run \in 1..MaxRuns
  PROVE  LET e == FireTerminalOrReconnect(a, d, reason, run) IN Fits(e) /\ e.stage = "on"
<1>1. CASE ~MayAct(d)
  BY <1>1, StillFits DEF FireTerminalOrReconnect
<1>2. CASE MayAct(d)
  BY <1>2, FireTerminalFits, CanRebindFits, StartReconnectLoopFits DEF FireTerminalOrReconnect
<1>. QED  BY <1>1, <1>2

LEMMA RearmFits ==
  ASSUME NEW d, Runs(d), NEW l \in Loops,
         MayAct(d) => \A k \in Loops \ {l} : GoesOn(d, k)
  PROVE  Fits(Rearm(d, l))
<1>1. CASE ~MayAct(d)
  BY <1>1, StillFits DEF Rearm
<1>2. CASE MayAct(d)
  <2>. DEFINE e == Schedule(d, l)
  <2>1. /\ Tidy(e) /\ Beside(d, e) /\ e.timers[l] > 0
        /\ \A k \in Loops \ {l} : e.timers[k] = d.timers[k]
    BY ScheduleTidy DEF Runs
  <2>. HIDE DEF e
  <2>2. Runs(e)
    BY <2>1, BesideRuns
  <2>3. \A k \in Loops : GoesOn(e, k)
    BY <1>2, <2>1 DEF GoesOn, Beside
  <2>4. Fits(e)
    BY <2>2, <2>3, RunsFits DEF LoopsGoOn
  <2>. QED  BY <1>2, <2>4 DEF Rearm, e
<1>. QED  BY <1>1, <1>2

LEMMA JudgeFits ==
  ASSUME NEW a, NEW d, Runs(d), NEW tick
  PROVE  LET e == Judge(a, d, tick) IN e = d \/ (Fits(e) /\ e.stage = "on")
<1>1. {"superseded", "heartbeat-timeout", "destroy"} \subseteq Reasons \ {"none", "continued-as-new"}
  BY DEF Reasons
<1>. QED  BY <1>1, FireTerminalOrReconnectFits, FireTerminalFits DEF Judge

LEMMA DoneRuns ==
  ASSUME NEW d, Runs(d), d.poller = 0
  PROVE  Runs(Done(d))
<1>. DEFINE e == [d EXCEPT !.reconnect = NoReconnect]
<1>1. /\ Tidy(e) /\ Granting(e) /\ e.poller = 0
      /\ e.stage = d.stage /\ e.pinned = d.pinned
  BY NoReconnectTyped, ReconnectPut DEF Runs
<1>. HIDE DEF e
<1>2. Runs(e)
  BY <1>1 DEF Runs, PollsRightly
<1>. QED  BY <1>2 DEF Done, e

LEMMA NextRoundsFit ==
  ASSUME NEW d, Runs(d), d.poller = 0, NEW e \in NextRounds(d)
  PROVE  Fits(e) /\ (Over(d) => Over(e))
<1>1. CASE e = Exhausted(d)
  BY <1>1, DoneRuns, FireTerminalFits DEF Exhausted, Reasons
<1>2. CASE e # Exhausted(d)
  <2>1. d.reconnect.attempts \in 0..MaxAttempts /\ d.reconnect.attempts # MaxAttempts
    BY <1>2 DEF NextRounds, Runs, Tidy, AdapterStates, ReconnectStates
  <2>2. d.reconnect.attempts + 1 \in 0..MaxAttempts
    BY <2>1, Bounds
  <2>3. e = [d EXCEPT !.reconnect = [NoReconnect EXCEPT
                        !.at = "sleep", !.attempts = d.reconnect.attempts + 1]]
    BY <1>2 DEF NextRounds
  <2>. QED  BY <2>2, <2>3, SleepingFits
<1>. QED  BY <1>1, <1>2

-----------------------------------------------------------------------------
(* Calls and ticks *)

LEMMA HoldingRuns ==
  ASSUME NEW d, Tidy(d), Granting(d), d.reconnect.got = "granted"
  PROVE  /\ Runs(Holding(d)) /\ Holding(d).stopped = d.stopped
         /\ Holding(d).terminal = d.terminal
<1>. DEFINE new == IF Over(d) THEN 0 ELSE d.reconnect.run
            s == [d EXCEPT !.stage = "on"]
            r == [s EXCEPT !.reconnect = NoReconnect]
            t == [r EXCEPT !.token = d.reconnect.holder]
            q == [t EXCEPT !.pinned = d.reconnect.run]
            e == [q EXCEPT !.poller = new]
<1>1. /\ d \in AdapterStates /\ d.reconnect.run \in 0..MaxRuns /\ d.reconnect.run # 0
      /\ d.reconnect.holder \in 0..MaxGrants /\ new \in 0..MaxRuns
  BY Bounds DEF Tidy, Granting, AdapterStates, ReconnectStates
<1>2. Holding(d) = e
  BY <1>1 DEF Holding, AdapterStates
<1>. HIDE DEF new
<1>3. /\ s \in AdapterStates /\ s.stage = "on" /\ s.stopped = d.stopped /\ s.terminal = d.terminal
      /\ s.timers = d.timers /\ s.tracked = d.tracked
  BY <1>1, PutStage
<1>. HIDE DEF s
<1>4. /\ r \in AdapterStates /\ r.reconnect = NoReconnect
      /\ r.stage = "on" /\ r.stopped = d.stopped /\ r.terminal = d.terminal
      /\ r.timers = d.timers /\ r.tracked = d.tracked
  BY <1>3, NoReconnectTyped, PutReconnect
<1>. HIDE DEF r
<1>5. /\ t \in AdapterStates /\ t.reconnect = NoReconnect
      /\ t.stage = "on" /\ t.stopped = d.stopped /\ t.terminal = d.terminal
      /\ t.timers = d.timers /\ t.tracked = d.tracked
  BY <1>1, <1>4, PutToken
<1>. HIDE DEF t
<1>6. /\ q \in AdapterStates /\ q.reconnect = NoReconnect /\ q.pinned = d.reconnect.run
      /\ q.stage = "on" /\ q.stopped = d.stopped /\ q.terminal = d.terminal
      /\ q.timers = d.timers /\ q.tracked = d.tracked
  BY <1>1, <1>5, PutPinned
<1>. HIDE DEF q
<1>7. /\ e \in AdapterStates /\ e.reconnect = NoReconnect /\ e.pinned = d.reconnect.run
      /\ e.poller = new
      /\ e.stage = "on" /\ e.stopped = d.stopped /\ e.terminal = d.terminal
      /\ e.timers = d.timers /\ e.tracked = d.tracked
  BY <1>1, <1>6, PutPoller
<1>. HIDE DEF e
<1>8. PollsRightly(e)
  BY <1>7, NoReconnectTyped DEF PollsRightly, Live, Over, Reconnecting, new
<1>9. Tidy(e) /\ Granting(e)
  BY <1>7, NoReconnectTyped DEF Tidy, Granting
<1>. QED  BY <1>1, <1>2, <1>7, <1>8, <1>9 DEF Runs

LEMMA ScheduledFits ==
  ASSUME NEW d, Runs(d)
  PROVE  Fits(ScheduleBoth(d))
<1>. DEFINE e == ScheduleBoth(d)
<1>1. Tidy(e) /\ Beside(d, e) /\ \A l \in Loops : e.timers[l] > 0
  BY ScheduleBothTidy DEF Runs
<1>. HIDE DEF e
<1>2. Fits(e)
  BY <1>1, BesideRuns, RunsFits DEF LoopsGoOn, GoesOn
<1>. QED  BY <1>2 DEF e

LEMMA FiredTidy ==
  ASSUME NEW d, Tidy(d), NEW l \in Loops, d.timers[l] > 0, NEW e \in Fired(d, l)
  PROVE  Tidy(e) /\ Beside(d, e) /\ \A k \in Loops \ {l} : e.timers[k] = d.timers[k]
<1>1. PICK still \in (IF d.tracked[l] /\ d.timers[l] > 1 THEN BOOLEAN ELSE {FALSE}) :
        e = [d EXCEPT !.timers[l] = @ - 1, !.tracked[l] = still]
  BY DEF Fired
<1>. DEFINE timers == [d.timers EXCEPT ![l] = @ - 1]
            tracked == [d.tracked EXCEPT ![l] = still]
            timed == [d EXCEPT !.timers = timers]
            f == [timed EXCEPT !.tracked = tracked]
<1>2. d \in AdapterStates /\ d.timers \in [Loops -> Nat] /\ d.tracked \in [Loops -> BOOLEAN]
  BY DEF Tidy, AdapterStates
<1>3. still \in BOOLEAN /\ (still => d.timers[l] > 1)
  BY <1>1
<1>4. timers \in [Loops -> Nat] /\ tracked \in [Loops -> BOOLEAN] /\ timers[l] = d.timers[l] - 1
      /\ tracked[l] = still
      /\ \A k \in Loops \ {l} : timers[k] = d.timers[k] /\ tracked[k] = d.tracked[k]
  BY <1>2, <1>3
<1>5. e = f
  BY <1>1, <1>2 DEF AdapterStates
<1>. HIDE DEF timers, tracked
<1>6. timed \in AdapterStates /\ timed.timers = timers /\ Beside(d, timed)
  BY <1>2, <1>4, PutTimers DEF Beside
<1>. HIDE DEF timed
<1>7. f \in AdapterStates /\ f.tracked = tracked /\ f.timers = timers /\ Beside(timed, f)
  BY <1>4, <1>6, PutTracked DEF Beside
<1>. HIDE DEF f
<1>8. \A k \in Loops : tracked[k] => timers[k] > 0
  BY <1>2, <1>3, <1>4 DEF Tidy
<1>9. Tidy(f) /\ Beside(d, f)
  BY <1>6, <1>7, <1>8 DEF Tidy, Beside
<1>. QED  BY <1>4, <1>5, <1>7, <1>9

(* A tick put in place of another leaves the rest of the adapter alone. *)
LEMMA TickPut ==
  ASSUME NEW d, Runs(d), NEW l \in Loops, NEW i \in Slots, NEW tick \in TickStates
  PROVE  LET e == [d EXCEPT !.ticks[l][i] = tick] IN
         /\ Runs(e) /\ e.ticks[l][i] = tick /\ e.timers = d.timers
         /\ \A k \in Loops \ {l} : e.ticks[k] = d.ticks[k]
         /\ (MayAct(e) <=> MayAct(d)) /\ (Over(e) <=> Over(d))
<1>. DEFINE row == [d.ticks[l] EXCEPT ![i] = tick]
            ticks == [d.ticks EXCEPT ![l] = row]
            e == [d EXCEPT !.ticks = ticks]
<1>1. d \in AdapterStates /\ d.ticks \in [Loops -> [Slots -> TickStates]]
  BY DEF Runs, Tidy, AdapterStates
<1>2. [d EXCEPT !.ticks[l][i] = tick] = e
  BY <1>1 DEF AdapterStates
<1>3. row \in [Slots -> TickStates] /\ row[i] = tick
  BY <1>1
<1>. HIDE DEF row
<1>4. ticks \in [Loops -> [Slots -> TickStates]] /\ ticks[l] = row
      /\ \A k \in Loops \ {l} : ticks[k] = d.ticks[k]
  BY <1>1, <1>3
<1>. HIDE DEF ticks
<1>5. /\ e \in AdapterStates /\ e.ticks = ticks
      /\ e.stage = d.stage /\ e.pinned = d.pinned /\ e.stopped = d.stopped
      /\ e.terminal = d.terminal /\ e.poller = d.poller /\ e.reconnect = d.reconnect
      /\ e.timers = d.timers /\ e.tracked = d.tracked
  BY <1>1, <1>4, PutTicks
<1>. HIDE DEF e
<1>6. Runs(e)
  BY <1>5 DEF Runs, Tidy, Granting, PollsRightly, Live, Over, Reconnecting
<1>7. (MayAct(e) <=> MayAct(d)) /\ (Over(e) <=> Over(d))
  BY <1>5 DEF MayAct, Over, Reconnecting
<1>. QED  BY <1>2, <1>3, <1>4, <1>5, <1>6, <1>7

LEMMA NoTickTyped == NoTick \in TickStates
  BY Bounds DEF NoTick, TickStates

(* A tick whose call goes out keeps its loop going. *)
LEMMA CalledFits ==
  ASSUME NEW d, Fits(d), d.stage = "on", MayAct(d), NEW l \in Loops, d.timers[l] > 0,
         NEW fired \in Fired(d, l), NEW got \in {"answer", "ended"},
         NEW info, info.phase \in Phases \cup {"none"}, info.holder \in 0..MaxGrants,
         NEW e \in Called(fired, l, got, info)
  PROVE  Fits(e)
<1>. DEFINE tick == [at |-> "called", got |-> got, phase |-> info.phase,
                     holder |-> info.holder, next |-> 0]
<1>1. PICK i \in Slots : e = [fired EXCEPT !.ticks[l][i] = tick]
  BY DEF Called
<1>2. tick \in TickStates /\ tick # NoTick
  BY Bounds DEF TickStates, NoTick
<1>. HIDE DEF tick
<1>3. Runs(d) /\ LoopsGoOn(d)
  BY FitsRuns
<1>4. Tidy(fired) /\ Beside(d, fired) /\ \A k \in Loops \ {l} : fired.timers[k] = d.timers[k]
  BY <1>3, FiredTidy DEF Runs
<1>5. Runs(fired)
  BY <1>3, <1>4, BesideRuns
<1>6. /\ Runs(e) /\ e.ticks[l][i] = tick /\ e.timers = fired.timers
      /\ \A k \in Loops \ {l} : e.ticks[k] = fired.ticks[k]
  BY <1>1, <1>2, <1>5, TickPut
<1>7. \A k \in Loops \ {l} : GoesOn(d, k)
  BY <1>3 DEF LoopsGoOn, Live, MayAct, Runs
<1>8. \A k \in Loops : GoesOn(e, k)
  <2>1. GoesOn(e, l)
    BY <1>2, <1>6 DEF GoesOn
  <2>2. \A k \in Loops \ {l} : GoesOn(e, k)
    BY <1>4, <1>6, <1>7 DEF GoesOn, Beside
  <2>. QED  BY <2>1, <2>2
<1>. QED  BY <1>6, <1>8, RunsFits DEF LoopsGoOn

(* The slot of a tick that ends becomes free. *)
LEMMA FreeRuns ==
  ASSUME NEW d, Fits(d), d.stage = "on", NEW l \in Loops, NEW i \in Slots
  PROVE  LET e == Free(d, l, i) IN
         /\ Runs(e) /\ (Over(e) <=> Over(d))
         /\ MayAct(e) => \A k \in Loops \ {l} : GoesOn(e, k)
<1>. DEFINE e == [d EXCEPT !.ticks[l][i] = NoTick]
<1>1. Runs(d) /\ LoopsGoOn(d)
  BY FitsRuns
<1>2. /\ Runs(e) /\ e.timers = d.timers
      /\ (MayAct(e) <=> MayAct(d)) /\ (Over(e) <=> Over(d))
      /\ \A k \in Loops \ {l} : e.ticks[k] = d.ticks[k]
  BY <1>1, NoTickTyped, TickPut
<1>. HIDE DEF e
<1>3. MayAct(d) => \A k \in Loops : GoesOn(d, k)
  BY <1>1 DEF LoopsGoOn, Live, MayAct, Runs
<1>4. MayAct(e) => \A k \in Loops \ {l} : GoesOn(e, k)
  BY <1>2, <1>3 DEF GoesOn
<1>. QED  BY <1>2, <1>4 DEF Free, e

-----------------------------------------------------------------------------
(* The session *)

LEMMA SessionFields ==
  ASSUME NEW s \in Sessions
  PROVE  /\ s.run \in 1..MaxRuns /\ s.up \in BOOLEAN /\ s.fresh \in BOOLEAN
         /\ s.granted \in 0..MaxGrants
         /\ s.info \in [1..MaxRuns -> [phase : Phases, holder : 0..MaxGrants]]
  BY DEF Sessions

LEMMA InfoSet ==
  ASSUME NEW s \in Sessions, NEW r \in 1..MaxRuns, NEW phase \in Phases,
         NEW holder \in 0..MaxGrants
  PROVE  [s EXCEPT !.info[r] = Info(phase, holder)] \in Sessions
<1>. DEFINE info == [s.info EXCEPT ![r] = Info(phase, holder)]
<1>1. info \in [1..MaxRuns -> [phase : Phases, holder : 0..MaxGrants]]
  BY SessionFields DEF Info
<1>2. [s EXCEPT !.info[r] = Info(phase, holder)] = [s EXCEPT !.info = info]
  BY DEF Sessions
<1>. HIDE DEF info
<1>. QED  BY <1>1, <1>2 DEF Sessions

LEMMA GrantedTyped ==
  ASSUME session \in Sessions, session.granted < MaxGrants
  PROVE  Granted \in Sessions
<1>. DEFINE n == session.granted + 1
            g == [session EXCEPT !.granted = n]
            f == [g EXCEPT !.fresh = TRUE]
            e == [f EXCEPT !.info[session.run] = Info("attached", n)]
<1>1. session.granted \in 0..MaxGrants /\ n \in 0..MaxGrants
  BY Bounds, SessionFields
<1>2. Granted = e
  BY DEF Granted, Sessions
<1>. HIDE DEF n
<1>3. g \in Sessions
  BY <1>1 DEF Sessions
<1>. HIDE DEF g
<1>4. f \in Sessions
  BY <1>3 DEF Sessions
<1>. HIDE DEF f
<1>5. e \in Sessions
  BY <1>1, <1>4, InfoSet, SessionFields DEF Phases
<1>. QED  BY <1>2, <1>5

LEMMA SetInfoTyped ==
  ASSUME session \in Sessions, NEW phase \in Phases, NEW holder \in 0..MaxGrants
  PROVE  SetInfo(phase, holder) \in Sessions
<1>. DEFINE s == [session EXCEPT !.info[session.run] = Info(phase, holder)]
            fresh == session.fresh /\ holder # 0
<1>1. SetInfo(phase, holder) = [s EXCEPT !.fresh = fresh]
  BY DEF SetInfo, Sessions
<1>2. s \in Sessions /\ fresh \in BOOLEAN
  BY InfoSet, SessionFields
<1>. HIDE DEF s, fresh
<1>. QED  BY <1>1, <1>2 DEF Sessions

LEMMA CurrentTyped ==
  ASSUME session \in Sessions
  PROVE  Current.phase \in Phases /\ Current.holder \in 0..MaxGrants
  BY SessionFields DEF Current

-----------------------------------------------------------------------------
(* Steps *)

LEMMA BecomesFits ==
  ASSUME LifeInv, NEW a \in Adapters, NEW d, Fits(d), Becomes(a, d),
         session' \in Sessions, faults' \in 0..MaxFaults
  PROVE  LifeInv'
<1>1. d \in AdapterStates
  BY DEF Fits, Tidy
<1>2. adapter' = [adapter EXCEPT ![a] = d]
  BY DEF Becomes
<1>3. adapter' \in [Adapters -> AdapterStates]
  BY <1>1, <1>2 DEF LifeInv
<1>4. \A b \in Adapters : adapter'[b] = IF b = a THEN d ELSE adapter[b]
  BY <1>2 DEF LifeInv
<1>5. \A b \in Adapters : Fits(adapter'[b])
  BY <1>4 DEF LifeInv
<1>. QED  BY <1>3, <1>5 DEF LifeInv

LEMMA FaultsTyped ==
  ASSUME LifeInv, Faulty \/ Sound
  PROVE  faults' \in 0..MaxFaults
  BY Bounds DEF LifeInv, Faulty, Sound

LEMMA OneOf == ASSUME LifeInv, NEW a \in Adapters PROVE Fits(adapter[a])
  BY DEF LifeInv

(* The answer of a claim, kept in the reconnect state.                     *)
Answered(d, c) == [d EXCEPT !.reconnect.got = c.got, !.reconnect.holder = c.holder,
                            !.reconnect.run = c.run]

LEMMA AnswerKept ==
  ASSUME NEW d, Tidy(d), NEW c, c.got \in {"granted", "refused", "gone"},
         c.holder \in 0..MaxGrants, c.run \in 0..MaxRuns, c.got = "granted" => c.run # 0,
         NEW e, e = Answered(d, c)
  PROVE  /\ Tidy(e) /\ Granting(e) /\ e.reconnect.at = d.reconnect.at
         /\ e.stage = d.stage /\ e.pinned = d.pinned /\ e.stopped = d.stopped
         /\ e.terminal = d.terminal /\ e.poller = d.poller /\ e.timers = d.timers
         /\ e.ticks = d.ticks
<1>. DEFINE g == [d.reconnect EXCEPT !.got = c.got]
            h == [g EXCEPT !.holder = c.holder]
            r == [h EXCEPT !.run = c.run]
<1>1. d \in AdapterStates /\ d.reconnect \in ReconnectStates
  BY DEF Tidy, AdapterStates
<1>2. e = [d EXCEPT !.reconnect = r]
  BY <1>1 DEF AdapterStates, ReconnectStates, Answered
<1>3. g \in ReconnectStates /\ g.got = c.got /\ g.at = d.reconnect.at
  BY <1>1 DEF ReconnectStates
<1>. HIDE DEF g
<1>4. h \in ReconnectStates /\ h.got = c.got /\ h.at = d.reconnect.at
  BY <1>3 DEF ReconnectStates
<1>. HIDE DEF h
<1>5. r \in ReconnectStates /\ r.got = c.got /\ r.at = d.reconnect.at /\ r.run = c.run
  BY <1>4 DEF ReconnectStates
<1>. HIDE DEF r
<1>6. r.got = "granted" => r.run # 0
  BY <1>5
<1>. DEFINE f == [d EXCEPT !.reconnect = r]
<1>7. /\ Tidy(f) /\ Granting(f) /\ f.reconnect = r
      /\ f.stage = d.stage /\ f.pinned = d.pinned /\ f.stopped = d.stopped
      /\ f.terminal = d.terminal /\ f.poller = d.poller /\ f.timers = d.timers
      /\ f.ticks = d.ticks
  BY <1>5, <1>6, ReconnectPut
<1>8. e = f
  BY <1>2
<1>. HIDE DEF f
<1>. QED  BY <1>5, <1>7, <1>8

LEMMA ClaimsFit ==
  ASSUME LifeInv, NEW a \in Adapters, NEW d, Tidy(d), Claims(d, a),
         \A e : /\ Tidy(e) /\ Granting(e) /\ e.reconnect.at = d.reconnect.at
                /\ e.stage = d.stage /\ e.pinned = d.pinned /\ e.stopped = d.stopped
                /\ e.terminal = d.terminal /\ e.poller = d.poller /\ e.timers = d.timers
                /\ e.ticks = d.ticks
                => Fits(e)
  PROVE  LifeInv'
<1>1. PICK c \in {Answer("granted", session.granted + 1, session.run), Refused} :
        /\ IF Grantable THEN session' = Granted ELSE c = Refused /\ UNCHANGED session
        /\ IF Grantable /\ c = Refused THEN Faulty ELSE Sound
        /\ Becomes(a, [d EXCEPT !.reconnect.got = c.got, !.reconnect.holder = c.holder,
                                !.reconnect.run = c.run])
  BY DEF Claims
<1>2. session \in Sessions /\ session.run \in 1..MaxRuns /\ session.granted \in 0..MaxGrants
  BY SessionFields DEF LifeInv
<1>3. session' \in Sessions
  BY <1>1, <1>2, GrantedTyped DEF Grantable
<1>4. faults' \in 0..MaxFaults
  BY <1>1, FaultsTyped
<1>5. /\ c.got \in {"granted", "refused", "gone"} /\ c.holder \in 0..MaxGrants
      /\ c.run \in 0..MaxRuns /\ (c.got = "granted" => c.run # 0)
  <2>1. CASE c = Refused
    BY <2>1, Bounds DEF Refused, Answer
  <2>2. CASE c # Refused
    <3>1. session.granted < MaxGrants
      BY <1>1, <2>2 DEF Grantable
    <3>2. c = Answer("granted", session.granted + 1, session.run)
      BY <1>1, <2>2
    <3>. QED  BY <1>2, <3>1, <3>2, Bounds DEF Answer
  <2>. QED  BY <2>1, <2>2
<1>6. PICK e : e = Answered(d, c)
  OBVIOUS
<1>7. /\ Tidy(e) /\ Granting(e) /\ e.reconnect.at = d.reconnect.at
      /\ e.stage = d.stage /\ e.pinned = d.pinned /\ e.stopped = d.stopped
      /\ e.terminal = d.terminal /\ e.poller = d.poller /\ e.timers = d.timers
      /\ e.ticks = d.ticks
  BY <1>5, <1>6, AnswerKept
<1>8. Fits(e)
  BY <1>7
<1>9. Becomes(a, e)
  BY <1>1, <1>6 DEF Answered
<1>. QED  BY <1>3, <1>4, <1>8, <1>9, BecomesFits

(* Whatever shows loops, a poller or a reconnect has got as far as running. *)
LEMMA OnAlready ==
  ASSUME LifeInv, NEW a \in Adapters,
         \/ Reconnecting(adapter[a]) \/ adapter[a].poller # 0
         \/ \E l \in Loops : adapter[a].timers[l] > 0
         \/ \E l \in Loops, i \in Slots : adapter[a].ticks[l][i] # NoTick
  PROVE  /\ Fits(adapter[a]) /\ adapter[a].stage = "on"
         /\ Runs(adapter[a]) /\ LoopsGoOn(adapter[a])
<1>1. Fits(adapter[a])
  BY OneOf
<1>2. adapter[a].stage = "on"
  BY <1>1 DEF Fits, Loopless, Reconnecting
<1>. QED  BY <1>1, <1>2, FitsRuns

LEMMA SameSession ==
  ASSUME LifeInv, UNCHANGED session
  PROVE  session' \in Sessions
  BY DEF LifeInv

LEMMA StartFits ==
  ASSUME LifeInv, NEW a \in Adapters, Start(a)
  PROVE  LifeInv'
<1>. DEFINE d == [adapter[a] EXCEPT !.stage = "claiming"]
<1>1. Fits(adapter[a]) /\ adapter[a].stage = "new" /\ Claims(d, a)
  BY OneOf DEF Start
<1>2. adapter[a] \in AdapterStates /\ Loopless(adapter[a])
  BY <1>1 DEF Fits, Tidy
<1>3. /\ d \in AdapterStates /\ d.stage = "claiming"
      /\ d.poller = adapter[a].poller /\ d.reconnect = adapter[a].reconnect
      /\ d.timers = adapter[a].timers /\ d.tracked = adapter[a].tracked
      /\ d.ticks = adapter[a].ticks
  BY <1>2, PutStage
<1>. HIDE DEF d
<1>4. Tidy(d) /\ Loopless(d)
  BY <1>1, <1>2, <1>3 DEF Tidy, Loopless, Fits
<1>5. ASSUME NEW e, Tidy(e), Granting(e), e.reconnect.at = d.reconnect.at,
             e.stage = d.stage, e.poller = d.poller, e.timers = d.timers, e.ticks = d.ticks
      PROVE  Fits(e)
  BY <1>3, <1>4, <1>5 DEF Fits, Loopless, PollsRightly, LoopsGoOn, Live
<1>. QED  BY <1>1, <1>4, <1>5, ClaimsFit

LEMMA StartedFits ==
  ASSUME LifeInv, NEW a \in Adapters, Started(a)
  PROVE  LifeInv'
<1>1. Fits(adapter[a]) /\ adapter[a].stage = "claiming"
  BY OneOf DEF Started
<1>2. session' \in Sessions /\ faults' \in 0..MaxFaults
  BY DEF Started, LifeInv
<1>3. CASE adapter[a].reconnect.got = "granted"
  <2>1. Fits(ScheduleBoth(Holding(adapter[a])))
    BY <1>1, <1>3, HoldingRuns, ScheduledFits DEF Fits
  <2>2. Becomes(a, ScheduleBoth(Holding(adapter[a])))
    BY <1>3 DEF Started
  <2>. QED  BY <1>2, <2>1, <2>2, BecomesFits
<1>4. CASE adapter[a].reconnect.got # "granted"
  <2>. DEFINE s == [adapter[a] EXCEPT !.stage = "refused"]
              e == [s EXCEPT !.reconnect = NoReconnect]
  <2>1. adapter[a] \in AdapterStates
    BY <1>1 DEF Fits, Tidy
  <2>2. Becomes(a, e)
    BY <1>4, <2>1 DEF Started, AdapterStates
  <2>3. /\ s \in AdapterStates /\ s.stage = "refused" /\ s.poller = adapter[a].poller
        /\ s.timers = adapter[a].timers /\ s.tracked = adapter[a].tracked
        /\ s.ticks = adapter[a].ticks
    BY <2>1, PutStage
  <2>. HIDE DEF s
  <2>4. Tidy(s)
    BY <1>1, <2>3 DEF Tidy, Fits
  <2>5. /\ Tidy(e) /\ Granting(e) /\ e.reconnect = NoReconnect /\ e.stage = "refused"
        /\ e.poller = s.poller /\ e.timers = s.timers /\ e.ticks = s.ticks
    BY <2>3, <2>4, NoReconnectTyped, ReconnectPut
  <2>. HIDE DEF e
  <2>6. Fits(e)
    BY <1>1, <2>3, <2>5, NoReconnectTyped
       DEF Fits, Loopless, PollsRightly, LoopsGoOn, Live
  <2>. QED  BY <1>2, <2>2, <2>6, BecomesFits
<1>. QED  BY <1>3, <1>4

LEMMA StopFits ==
  ASSUME LifeInv, NEW a \in Adapters, Stop(a)
  PROVE  LifeInv'
<1>. DEFINE c == ClearTimers(adapter[a])
            s == [c EXCEPT !.stopped = TRUE]
            p == [s EXCEPT !.poller = 0]
            e == AbortSleepers(p)
<1>1. Fits(adapter[a])
  BY OneOf
<1>2. /\ Tidy(c) /\ Beside(adapter[a], c)
      /\ \A l \in Loops : adapter[a].timers[l] = 0 => c.timers[l] = 0
  BY <1>1, ClearTimersTidy DEF Fits
<1>3. c \in AdapterStates
  BY <1>2 DEF Tidy
<1>4. Becomes(a, e)
  BY <1>3 DEF Stop, AdapterStates
<1>5. session' \in Sessions
  <2>1. Exited(adapter[a]) \in Sessions
    BY SetInfoTyped, Bounds DEF Exited, LifeInv, Phases
  <2>. QED  BY <2>1 DEF Stop, LifeInv
<1>6. faults' \in 0..MaxFaults
  BY FaultsTyped DEF Stop
<1>. HIDE DEF c
<1>7. /\ s \in AdapterStates /\ s.stopped /\ s.stage = c.stage /\ s.pinned = c.pinned
      /\ s.reconnect = c.reconnect
      /\ s.timers = c.timers /\ s.tracked = c.tracked /\ s.ticks = c.ticks
  BY <1>3, PutStopped
<1>. HIDE DEF s
<1>8. /\ p \in AdapterStates /\ p.poller = 0 /\ p.stopped /\ p.stage = c.stage
      /\ p.pinned = c.pinned /\ p.reconnect = c.reconnect
      /\ p.timers = c.timers /\ p.tracked = c.tracked /\ p.ticks = c.ticks
  BY <1>7, Bounds, PutPoller
<1>. HIDE DEF p
<1>9. Tidy(p) /\ Granting(p)
  BY <1>1, <1>2, <1>8 DEF Tidy, Granting, Beside, Fits
<1>10. /\ Tidy(e) /\ Granting(e) /\ (Reconnecting(e) => Reconnecting(p))
       /\ e.stage = p.stage /\ e.pinned = p.pinned /\ e.stopped
       /\ e.poller = 0 /\ e.timers = p.timers /\ e.ticks = p.ticks
  BY <1>8, <1>9, AbortSleepersTidy
<1>. HIDE DEF e
<1>11. PollsRightly(e) /\ LoopsGoOn(e) /\ (e.stage = "on" => e.pinned # 0)
  BY <1>1, <1>2, <1>8, <1>10 DEF PollsRightly, LoopsGoOn, Live, Over, Beside, Fits
<1>12. ASSUME e.stage # "on" PROVE Loopless(e)
  <2>1. Loopless(adapter[a])
    BY <1>1, <1>2, <1>8, <1>10, <1>12 DEF Fits, Beside
  <2>. QED  BY <1>2, <1>8, <1>10, <2>1 DEF Loopless, Reconnecting, Beside
<1>13. e.stage # "new"
  BY <1>2, <1>7, <1>8, <1>10 DEF Stop, Beside
<1>14. Fits(e)
  BY <1>10, <1>11, <1>12, <1>13 DEF Fits
<1>. QED  BY <1>4, <1>5, <1>6, <1>14, BecomesFits

LEMMA PollerMeetsEndFits ==
  ASSUME LifeInv, NEW a \in Adapters, PollerMeetsEnd(a)
  PROVE  LifeInv'
<1>. DEFINE d == adapter[a]
            e == [d EXCEPT !.poller = 0]
<1>1. Runs(d) /\ LoopsGoOn(d)
  BY OnAlready DEF PollerMeetsEnd
<1>2. Becomes(a, e) /\ session' \in Sessions /\ faults' \in 0..MaxFaults
  BY DEF PollerMeetsEnd, LifeInv
<1>. HIDE DEF d
<1>3. /\ e \in AdapterStates /\ e.poller = 0
      /\ e.stage = d.stage /\ e.pinned = d.pinned /\ e.stopped = d.stopped
      /\ e.terminal = d.terminal /\ e.reconnect = d.reconnect
      /\ e.timers = d.timers /\ e.tracked = d.tracked /\ e.ticks = d.ticks
  BY <1>1, Bounds, PutPoller DEF Runs, Tidy
<1>. HIDE DEF e
<1>4. Runs(e)
  BY <1>1, <1>3 DEF Runs, Tidy, Granting, PollsRightly
<1>5. LoopsGoOn(e)
  BY <1>1, <1>3 DEF LoopsGoOn, GoesOn, Live, Over, Reconnecting
<1>. QED  BY <1>2, <1>4, <1>5, RunsFits, BecomesFits

LEMMA TickTripsFits ==
  ASSUME LifeInv, NEW a \in Adapters, NEW l \in Loops, TickTrips(a, l)
  PROVE  LifeInv'
<1>. DEFINE d == adapter[a]
<1>1. Runs(d) /\ d.timers[l] > 0 /\ ~MayAct(d)
  BY OnAlready DEF TickTrips, Trips
<1>2. PICK e \in Fired(d, l) : Becomes(a, e)
  BY DEF TickTrips
<1>3. session' \in Sessions /\ faults' \in 0..MaxFaults
  BY DEF TickTrips, LifeInv
<1>. HIDE DEF d
<1>4. Tidy(e) /\ Beside(d, e)
  BY <1>1, FiredTidy DEF Runs
<1>5. Runs(e) /\ ~MayAct(e)
  BY <1>1, <1>4, BesideRuns DEF Beside, MayAct, Over, Reconnecting
<1>. QED  BY <1>2, <1>3, <1>5, StillFits, BecomesFits

LEMMA RefreshedTyped ==
  ASSUME session \in Sessions, NEW d
  PROVE  Refreshed(d) \in Sessions
  BY DEF Refreshed, Sessions

LEMMA TickHeartbeatFits ==
  ASSUME LifeInv, NEW a \in Adapters, TickHeartbeat(a)
  PROVE  LifeInv'
<1>. DEFINE d == adapter[a]
<1>1. Fits(d) /\ d.stage = "on" /\ d.timers["heartbeat"] > 0 /\ MayAct(d)
  BY OnAlready, LoopsAre DEF TickHeartbeat, Trips
<1>2. PICK fired \in Fired(d, "heartbeat"), got \in {"answer", "ended"} :
        /\ \E called \in Called(fired, "heartbeat", got, NoInfo) : Becomes(a, called)
        /\ \/ got = "answer" /\ Open(d.pinned) /\ session' = Refreshed(d) /\ Sound
           \/ got = "ended" /\ ~Open(d.pinned) /\ UNCHANGED session /\ Sound
           \/ UNCHANGED session /\ Faulty
  BY DEF TickHeartbeat
<1>3. PICK e \in Called(fired, "heartbeat", got, NoInfo) : Becomes(a, e)
  BY <1>2
<1>4. session' \in Sessions
  BY <1>2, RefreshedTyped DEF LifeInv
<1>5. faults' \in 0..MaxFaults
  BY <1>2, FaultsTyped
<1>6. NoInfo.phase \in Phases \cup {"none"} /\ NoInfo.holder \in 0..MaxGrants
  BY Bounds DEF NoInfo, Info
<1>. HIDE DEF d
<1>7. Fits(e)
  BY <1>1, <1>3, <1>6, LoopsAre, CalledFits
<1>. QED  BY <1>3, <1>4, <1>5, <1>7, BecomesFits

LEMMA TickPhaseWatcherFits ==
  ASSUME LifeInv, NEW a \in Adapters, TickPhaseWatcher(a)
  PROVE  LifeInv'
<1>. DEFINE d == adapter[a]
<1>1. /\ Fits(d) /\ d.stage = "on" /\ d.timers["phaseWatcher"] > 0 /\ MayAct(d)
      /\ d.pinned # 0 /\ d \in AdapterStates
  BY OnAlready, LoopsAre DEF TickPhaseWatcher, Trips, Runs, Tidy
<1>2. PICK got \in {"answer", "ended"}, info \in {session.info[d.pinned], NoInfo},
           fired \in Fired(d, "phaseWatcher") :
        /\ \E called \in Called(fired, "phaseWatcher", got, info) : Becomes(a, called)
        /\ Sound \/ Faulty
  BY DEF TickPhaseWatcher
<1>3. PICK e \in Called(fired, "phaseWatcher", got, info) : Becomes(a, e)
  BY <1>2
<1>4. session' \in Sessions
  BY SameSession DEF TickPhaseWatcher
<1>5. faults' \in 0..MaxFaults
  BY <1>2, FaultsTyped
<1>6. info.phase \in Phases \cup {"none"} /\ info.holder \in 0..MaxGrants
  <2>1. CASE info = NoInfo
    BY <2>1, Bounds DEF NoInfo, Info
  <2>2. CASE info = session.info[d.pinned]
    <3>1. d.pinned \in 1..MaxRuns
      BY <1>1, Bounds DEF AdapterStates
    <3>2. session \in Sessions
      BY DEF LifeInv
    <3>. QED  BY <2>2, <3>1, <3>2, SessionFields
  <2>. QED  BY <2>1, <2>2
<1>. HIDE DEF d
<1>7. Fits(e)
  BY <1>1, <1>3, <1>6, LoopsAre, CalledFits
<1>. QED  BY <1>3, <1>4, <1>5, <1>7, BecomesFits

LEMMA TickReturnsFits ==
  ASSUME LifeInv, NEW a \in Adapters, NEW l \in Loops, NEW i \in Slots, TickReturns(a, l, i)
  PROVE  LifeInv'
<1>. DEFINE tick == adapter[a].ticks[l][i]
            d == Free(adapter[a], l, i)
            j == IF l = "phaseWatcher" THEN Judge(a, d, tick) ELSE d
<1>1. Fits(adapter[a]) /\ adapter[a].stage = "on"
  BY OnAlready DEF TickReturns, NoTick
<1>2. Runs(d) /\ (MayAct(d) => \A k \in Loops \ {l} : GoesOn(d, k))
  BY <1>1, FreeRuns
<1>3. /\ Becomes(a, Rearm(j, l)) /\ session' \in Sessions /\ faults' \in 0..MaxFaults
  BY DEF TickReturns, LifeInv
<1>. HIDE DEF d, tick
<1>4. j = d \/ (Fits(j) /\ j.stage = "on")
  BY <1>2, JudgeFits
<1>. HIDE DEF j
<1>5. CASE j = d
  BY <1>2, <1>3, <1>5, RearmFits, BecomesFits
<1>6. CASE j # d
  <2>1. Fits(j) /\ j.stage = "on"
    BY <1>4, <1>6
  <2>2. CASE MayAct(j)
    <3>1. Runs(j) /\ \A k \in Loops : GoesOn(j, k)
      BY <2>1, <2>2, FitsRuns DEF LoopsGoOn, Live, MayAct
    <3>. QED  BY <1>3, <3>1, RearmFits, BecomesFits
  <2>3. CASE ~MayAct(j)
    BY <1>3, <2>1, <2>3, BecomesFits DEF Rearm
  <2>. QED  BY <2>2, <2>3
<1>. QED  BY <1>5, <1>6

LEMMA FindCanSuccessorRunIdFits ==
  ASSUME LifeInv, NEW a \in Adapters, NEW l \in Loops, NEW i \in Slots,
         FindCanSuccessorRunId(a, l, i)
  PROVE  LifeInv'
<1>. DEFINE d == adapter[a]
<1>1. Runs(d) /\ LoopsGoOn(d)
  BY OnAlready DEF FindCanSuccessorRunId, NoTick
<1>2. d \in AdapterStates /\ d.ticks[l][i] \in TickStates
  BY <1>1 DEF Runs, Tidy, AdapterStates
<1>3. PICK next \in {0, SuccessorOf(d.pinned)} :
        /\ Becomes(a, [d EXCEPT !.ticks[l][i] = [@ EXCEPT !.at = "asked", !.next = next]])
        /\ Sound \/ Faulty
  BY DEF FindCanSuccessorRunId
<1>4. session' \in Sessions
  BY SameSession DEF FindCanSuccessorRunId
<1>5. faults' \in 0..MaxFaults
  BY <1>3, FaultsTyped
<1>6. next \in 0..MaxRuns
  <2>1. session.run \in 1..MaxRuns /\ d.pinned \in 0..MaxRuns
    BY <1>2, SessionFields DEF LifeInv, AdapterStates
  <2>. QED  BY <2>1, Bounds DEF SuccessorOf
<1>. HIDE DEF d
<1>. DEFINE asked == [d.ticks[l][i] EXCEPT !.at = "asked"]
            tick == [asked EXCEPT !.next = next]
            e == [d EXCEPT !.ticks[l][i] = tick]
<1>7. [d.ticks[l][i] EXCEPT !.at = "asked", !.next = next] = tick
  BY <1>2 DEF TickStates
<1>8. tick \in TickStates /\ tick.at = "asked"
  <2>1. asked \in TickStates /\ asked.at = "asked"
    BY <1>2 DEF TickStates
  <2>. HIDE DEF asked
  <2>. QED  BY <1>6, <2>1 DEF TickStates
<1>9. tick # NoTick
  BY <1>8 DEF NoTick
<1>. HIDE DEF tick
<1>10. /\ Runs(e) /\ e.ticks[l][i] = tick /\ e.timers = d.timers
       /\ \A k \in Loops \ {l} : e.ticks[k] = d.ticks[k]
       /\ (MayAct(e) <=> MayAct(d))
  BY <1>1, <1>8, TickPut
<1>11. Becomes(a, e)
  <2>1. [d EXCEPT !.ticks[l][i] = [@ EXCEPT !.at = "asked", !.next = next]] = e
    BY <1>2, <1>7 DEF AdapterStates
  <2>. QED  BY <1>3, <2>1
<1>. HIDE DEF e
<1>12. MayAct(e) => \A k \in Loops : GoesOn(e, k)
  <2>1. GoesOn(e, l)
    BY <1>9, <1>10 DEF GoesOn
  <2>2. MayAct(d) => \A k \in Loops : GoesOn(d, k)
    BY <1>1 DEF LoopsGoOn, Live, MayAct, Runs
  <2>. QED  BY <1>10, <2>1, <2>2 DEF GoesOn
<1>13. Fits(e)
  BY <1>10, <1>12, RunsFits DEF LoopsGoOn, Live, MayAct
<1>. QED  BY <1>4, <1>5, <1>11, <1>13, BecomesFits

LEMMA HandleRunEndErrorFits ==
  ASSUME LifeInv, NEW a \in Adapters, NEW l \in Loops, NEW i \in Slots,
         HandleRunEndError(a, l, i)
  PROVE  LifeInv'
<1>. DEFINE tick == adapter[a].ticks[l][i]
            d == Free(adapter[a], l, i)
            e == IF tick.next # 0
                   THEN FireTerminalOrReconnect(a, d, "continued-as-new", tick.next)
                   ELSE FireTerminal(d, "destroy")
<1>1. Runs(adapter[a]) /\ Fits(adapter[a]) /\ adapter[a].stage = "on"
  BY OnAlready DEF HandleRunEndError, NoTick
<1>2. tick.next \in 0..MaxRuns
  BY <1>1 DEF Runs, Tidy, AdapterStates, TickStates
<1>3. Runs(d)
  BY <1>1, FreeRuns
<1>4. Becomes(a, e) /\ session' \in Sessions /\ faults' \in 0..MaxFaults
  BY DEF HandleRunEndError, LifeInv
<1>. HIDE DEF d, tick
<1>5. tick.next # 0 => tick.next \in 1..MaxRuns
  BY <1>2, Bounds
<1>6. Fits(e)
  BY <1>3, <1>5, FireTerminalOrReconnectFits, FireTerminalFits DEF Reasons
<1>. QED  BY <1>4, <1>6, BecomesFits

(* Rounds of the reconnect loop *)

LEMMA Round ==
  ASSUME LifeInv, NEW a \in Adapters, adapter[a].reconnect.at \in {"sleep", "asked", "claiming"}
  PROVE  Runs(adapter[a]) /\ adapter[a].poller = 0
<1>1. Reconnecting(adapter[a])
  BY DEF Reconnecting
<1>. QED  BY <1>1, OnAlready DEF Runs, PollsRightly

(* A round ends: for good, or with the next one.                           *)
LEMMA RoundEnds ==
  ASSUME LifeInv, NEW a \in Adapters, adapter[a].reconnect.at \in {"sleep", "asked", "claiming"},
         NEW e, Becomes(a, e),
         \/ e = FireTerminal(Done(adapter[a]), "destroy")
         \/ e = FireTerminal(Done(adapter[a]), "superseded")
         \/ e \in NextRounds(adapter[a]),
         UNCHANGED session, faults' \in 0..MaxFaults
  PROVE  LifeInv'
<1>1. Runs(adapter[a]) /\ adapter[a].poller = 0
  BY Round
<1>2. Fits(e)
  <2>1. CASE e \in NextRounds(adapter[a])
    BY <1>1, <2>1, NextRoundsFit
  <2>2. CASE \/ e = FireTerminal(Done(adapter[a]), "destroy")
             \/ e = FireTerminal(Done(adapter[a]), "superseded")
    BY <1>1, <2>2, DoneRuns, FireTerminalFits DEF Reasons
  <2>. QED  BY <2>1, <2>2
<1>. QED  BY <1>2, SameSession, BecomesFits

LEMMA ReconnectAsksFits ==
  ASSUME LifeInv, NEW a \in Adapters, ReconnectAsks(a)
  PROVE  LifeInv'
<1>. DEFINE d == adapter[a]
            old == d.reconnect
<1>1. Runs(d) /\ d.poller = 0
  BY Round DEF ReconnectAsks
<1>2. PICK got \in {"answer", "ended"}, info \in {Current, NoInfo} :
        /\ Becomes(a, [d EXCEPT !.reconnect = [@ EXCEPT
             !.at = "asked", !.got = got, !.phase = info.phase, !.holder = info.holder]])
        /\ Sound \/ Faulty
  BY DEF ReconnectAsks
<1>3. session' \in Sessions
  BY SameSession DEF ReconnectAsks
<1>4. faults' \in 0..MaxFaults
  BY <1>2, FaultsTyped
<1>5. info.phase \in Phases \cup {"none"} /\ info.holder \in 0..MaxGrants
  BY CurrentTyped, Bounds DEF LifeInv, NoInfo, Info
<1>6. d \in AdapterStates /\ old \in ReconnectStates
  BY <1>1 DEF Runs, Tidy, AdapterStates
<1>. HIDE DEF d
<1>. DEFINE at == [old EXCEPT !.at = "asked"]
            g == [at EXCEPT !.got = got]
            p == [g EXCEPT !.phase = info.phase]
            r == [p EXCEPT !.holder = info.holder]
            e == [d EXCEPT !.reconnect = r]
<1>7. [old EXCEPT !.at = "asked", !.got = got, !.phase = info.phase, !.holder = info.holder] = r
  BY <1>6 DEF ReconnectStates
<1>8. Becomes(a, e)
  <2>1. [d EXCEPT !.reconnect = [@ EXCEPT !.at = "asked", !.got = got,
                                          !.phase = info.phase, !.holder = info.holder]] = e
    BY <1>6, <1>7 DEF AdapterStates
  <2>. QED  BY <1>2, <2>1
<1>9. at \in ReconnectStates /\ at.at = "asked"
  BY <1>6 DEF ReconnectStates
<1>. HIDE DEF at
<1>10. g \in ReconnectStates /\ g.at = "asked" /\ g.got = got
  BY <1>9 DEF ReconnectStates
<1>. HIDE DEF g
<1>11. p \in ReconnectStates /\ p.at = "asked" /\ p.got = got
  BY <1>5, <1>10 DEF ReconnectStates
<1>. HIDE DEF p
<1>12. r \in ReconnectStates /\ r.at = "asked" /\ r.got = got /\ r.got # "granted"
  BY <1>5, <1>11 DEF ReconnectStates
<1>. HIDE DEF r
<1>13. /\ Tidy(e) /\ Granting(e) /\ e.reconnect = r
       /\ e.stage = d.stage /\ e.pinned = d.pinned /\ e.poller = 0
  BY <1>1, <1>12, ReconnectPut DEF Runs
<1>. HIDE DEF e
<1>14. Runs(e) /\ LoopsGoOn(e)
  BY <1>1, <1>12, <1>13 DEF Runs, PollsRightly, LoopsGoOn, Reconnecting
<1>. QED  BY <1>3, <1>4, <1>8, <1>14, RunsFits, BecomesFits

LEMMA ConfirmWorkflowTerminalFits ==
  ASSUME LifeInv, NEW a \in Adapters, ConfirmWorkflowTerminal(a)
  PROVE  LifeInv'
<1>1. adapter[a].reconnect.at = "asked" /\ UNCHANGED session
  BY DEF ConfirmWorkflowTerminal
<1>2. faults' \in 0..MaxFaults
  BY FaultsTyped DEF ConfirmWorkflowTerminal
<1>3. PICK e : /\ Becomes(a, e)
               /\ \/ e = FireTerminal(Done(adapter[a]), "destroy")
                  \/ e \in NextRounds(adapter[a])
  BY DEF ConfirmWorkflowTerminal
<1>. QED  BY <1>1, <1>2, <1>3, RoundEnds

LEMMA ReconnectDecidesFits ==
  ASSUME LifeInv, NEW a \in Adapters, ReconnectDecides(a)
  PROVE  LifeInv'
<1>1. /\ adapter[a].reconnect.at = "asked" /\ UNCHANGED session
      /\ faults' \in 0..MaxFaults
  BY DEF ReconnectDecides, LifeInv
<1>2. PICK e : /\ Becomes(a, e)
               /\ \/ e = FireTerminal(Done(adapter[a]), "destroy")
                  \/ e = FireTerminal(Done(adapter[a]), "superseded")
                  \/ e \in NextRounds(adapter[a])
  BY DEF ReconnectDecides
<1>. QED  BY <1>1, <1>2, RoundEnds

LEMMA ReconnectClaimsFits ==
  ASSUME LifeInv, NEW a \in Adapters, ReconnectClaims(a)
  PROVE  LifeInv'
<1>. DEFINE s == adapter[a]
            d == [s EXCEPT !.reconnect = [@ EXCEPT !.at = "claiming", !.phase = "none"]]
            at == [s.reconnect EXCEPT !.at = "claiming"]
            r == [at EXCEPT !.phase = "none"]
            e == [s EXCEPT !.reconnect = r]
<1>1. Runs(s) /\ s.poller = 0
  BY Round DEF ReconnectClaims
<1>2. Claims(d, a)
  BY DEF ReconnectClaims
<1>3. s \in AdapterStates /\ s.reconnect \in ReconnectStates
  BY <1>1 DEF Runs, Tidy, AdapterStates
<1>. HIDE DEF s
<1>4. d = e
  BY <1>3 DEF AdapterStates, ReconnectStates
<1>. HIDE DEF d
<1>5. at \in ReconnectStates /\ at.at = "claiming" /\ at.got = s.reconnect.got
      /\ at.run = s.reconnect.run
  BY <1>3 DEF ReconnectStates
<1>. HIDE DEF at
<1>6. r \in ReconnectStates /\ r.at = "claiming" /\ r.got = s.reconnect.got
      /\ r.run = s.reconnect.run
  BY <1>5 DEF ReconnectStates
<1>. HIDE DEF r
<1>7. r.got = "granted" => r.run # 0
  BY <1>1, <1>6 DEF Runs, Granting
<1>8. /\ Tidy(e) /\ e.reconnect = r /\ e.stage = s.stage /\ e.pinned = s.pinned /\ e.poller = 0
  BY <1>1, <1>6, <1>7, ReconnectPut DEF Runs
<1>. HIDE DEF e
<1>9. ASSUME NEW f, Tidy(f), Granting(f), f.reconnect.at = d.reconnect.at,
             f.stage = d.stage, f.pinned = d.pinned, f.poller = d.poller
      PROVE  Fits(f)
  <2>1. Runs(f) /\ Reconnecting(f)
    BY <1>1, <1>4, <1>6, <1>8, <1>9 DEF Runs, PollsRightly, Reconnecting
  <2>. QED  BY <2>1, RunsFits DEF LoopsGoOn
<1>. QED  BY <1>2, <1>4, <1>8, <1>9, ClaimsFit

LEMMA ReconnectedFits ==
  ASSUME LifeInv, NEW a \in Adapters, Reconnected(a)
  PROVE  LifeInv'
<1>. DEFINE d == adapter[a]
<1>1. Runs(d) /\ d.poller = 0 /\ d.reconnect.at = "claiming"
  BY Round DEF Reconnected
<1>2. UNCHANGED session /\ session' \in Sessions /\ faults' \in 0..MaxFaults
  BY DEF Reconnected, LifeInv
<1>3. CASE /\ d.reconnect.got = "granted"
           /\ Becomes(a, IF d.stopped THEN Holding(d) ELSE ScheduleBoth(Holding(d)))
  <2>. HIDE DEF d
  <2>1. Runs(Holding(d)) /\ Holding(d).stopped = d.stopped
    BY <1>1, <1>3, HoldingRuns DEF Runs
  <2>2. CASE d.stopped
    <3>1. ~MayAct(Holding(d))
      BY <2>1, <2>2 DEF MayAct, Over
    <3>. QED  BY <1>2, <1>3, <2>1, <2>2, <3>1, StillFits, BecomesFits
  <2>3. CASE ~d.stopped
    BY <1>2, <1>3, <2>1, <2>3, ScheduledFits, BecomesFits
  <2>. QED  BY <2>2, <2>3
<1>4. CASE Becomes(a, FireTerminal(Done(d), "destroy"))
  BY <1>1, <1>2, <1>4, RoundEnds
<1>5. CASE \E next \in NextRounds(d) : Becomes(a, next)
  BY <1>1, <1>2, <1>5, RoundEnds
<1>. QED  BY <1>3, <1>4, <1>5 DEF Reconnected

-----------------------------------------------------------------------------
(* Everything *)

LEMMA SessionFits ==
  ASSUME LifeInv, Session
  PROVE  LifeInv'
<1>1. session \in Sessions
  BY DEF LifeInv
<1>2. UNCHANGED <<adapter, faults>>
  BY DEF Session, Moves, LeaseAges, ReapLease, RequestDetach, DrainEnds, ForceDetach, RivalClaims,
         Destroy, Completes, ContinueAsNew
<1>. SUFFICES session' \in Sessions
  BY <1>2 DEF LifeInv
<1>3. Current.phase \in Phases /\ Current.holder \in 0..MaxGrants
  BY <1>1, CurrentTyped
<1>4. CASE LeaseAges \/ Completes
  BY <1>1, <1>4 DEF LeaseAges, Completes, Moves, Sessions
<1>5. CASE ReapLease \/ RequestDetach \/ DrainEnds \/ ForceDetach \/ Destroy
  <2>1. PICK phase \in {"detached", "draining", "gone"}, holder \in {0, Current.holder} :
          session' = SetInfo(phase, holder)
    BY <1>5 DEF ReapLease, RequestDetach, DrainEnds, ForceDetach, Destroy, Moves
  <2>. QED  BY <1>1, <1>3, <2>1, SetInfoTyped, Bounds DEF Phases
<1>6. CASE RivalClaims
  BY <1>1, <1>6, GrantedTyped DEF RivalClaims, Moves, Grantable
<1>7. CASE ContinueAsNew
  <2>. DEFINE s == [session EXCEPT !.run = @ + 1]
              f == [s EXCEPT !.fresh = (Current.holder # 0)]
              next == session.run + 1
              e == [f EXCEPT !.info[next] = Info(Current.phase, Current.holder)]
  <2>1. session.run \in 1..MaxRuns /\ session.run < MaxRuns /\ next \in 1..MaxRuns
    BY <1>1, <1>7, SessionFields, Bounds DEF ContinueAsNew
  <2>2. Current = Info(Current.phase, Current.holder)
    BY <1>1, <2>1, SessionFields DEF Current, Info
  <2>3. session' = e
    BY <1>1, <1>7, <2>2 DEF ContinueAsNew, Moves, Sessions
  <2>4. s \in Sessions
    BY <1>1, <2>1 DEF Sessions
  <2>. HIDE DEF s
  <2>5. f \in Sessions
    BY <2>4 DEF Sessions
  <2>. HIDE DEF f, next
  <2>6. e \in Sessions
    BY <1>3, <2>1, <2>5, InfoSet
  <2>. QED  BY <2>3, <2>6
<1>. QED  BY <1>4, <1>5, <1>6, <1>7 DEF Session

LEMMA LifeInit == Init => LifeInv
<1>. SUFFICES ASSUME Init PROVE LifeInv
  OBVIOUS
<1>1. session \in Sessions /\ faults \in 0..MaxFaults
  BY Bounds DEF Init, Sessions, Info, Phases
<1>2. NewAdapter \in AdapterStates
  BY Bounds, NoReconnectTyped, NoTickTyped DEF NewAdapter, AdapterStates, Reasons
<1>3. Fits(NewAdapter)
  BY <1>2, NoReconnectTyped
     DEF Fits, Tidy, Granting, PollsRightly, LoopsGoOn, Loopless, Live, Over, NewAdapter
<1>. QED  BY <1>1, <1>2, <1>3 DEF Init, LifeInv

LEMMA LifeStep == LifeInv /\ [Next]_adapterVars => LifeInv'
<1>. SUFFICES ASSUME LifeInv, [Next]_adapterVars PROVE LifeInv'
  OBVIOUS
<1>1. CASE Session
  BY <1>1, SessionFits
<1>2. ASSUME NEW a \in Adapters, Start(a) \/ Started(a) \/ Stop(a) \/ PollerMeetsEnd(a)
      PROVE  LifeInv'
  BY <1>2, StartFits, StartedFits, StopFits, PollerMeetsEndFits
<1>3. ASSUME NEW a \in Adapters, Reconnect(a) PROVE LifeInv'
  BY <1>3, ReconnectAsksFits, ConfirmWorkflowTerminalFits, ReconnectDecidesFits,
     ReconnectClaimsFits, ReconnectedFits DEF Reconnect
<1>4. ASSUME NEW a \in Adapters, NEW l \in Loops, Tick(a, l) PROVE LifeInv'
  BY <1>4, TickTripsFits, TickHeartbeatFits, TickPhaseWatcherFits DEF Tick
<1>5. ASSUME NEW a \in Adapters, NEW l \in Loops, NEW i \in Slots, Resume(a, l, i)
      PROVE  LifeInv'
  BY <1>5, TickReturnsFits, FindCanSuccessorRunIdFits, HandleRunEndErrorFits DEF Resume
<1>6. CASE UNCHANGED adapterVars
  BY <1>6 DEF adapterVars, LifeInv
<1>. QED  BY <1>1, <1>2, <1>3, <1>4, <1>5, <1>6 DEF Next

LEMMA LifeAlways == Spec => []LifeInv
  BY LifeInit, LifeStep, PTL DEF Spec

(* Every reachable state of adapters and session is type correct, and a    *)
(* timer an adapter keeps track of is there to be cleared.                 *)
THEOREM AdapterTypeCorrect == Spec => []TypeOK
<1>1. LifeInv => TypeOK
  BY DEF LifeInv, TypeOK, Fits, Tidy
<1>. QED  BY <1>1, LifeAlways, PTL

(* However calls fail, answer late or race with stop, rebind and           *)
(* reconnect, the heartbeat loop and the phase watcher of an adapter that  *)
(* is neither stopped nor reconnecting have a timer or a tick to go on.    *)
THEOREM LoopsNeverOrphaned == Spec => []NeverOrphaned
<1>1. LifeInv => NeverOrphaned
  BY DEF LifeInv, NeverOrphaned, Fits, LoopsGoOn
<1>. QED  BY <1>1, LifeAlways, PTL

(* A poller runs only for an adapter that is live and not reconnecting,    *)
(* and on the run its heartbeats go to.                                    *)
THEOREM PollerBesideTheLease == Spec => []PollerFollowsLease
<1>1. LifeInv => PollerFollowsLease
  BY DEF LifeInv, PollerFollowsLease, Fits, PollsRightly
<1>. QED  BY <1>1, LifeAlways, PTL

-----------------------------------------------------------------------------
(* An adapter that ended *)

(* What becomes of the adapter of a step, as far as its end goes.          *)
KeepsEnd(a) == \E e : Becomes(a, e) /\ (Over(adapter[a]) => Over(e))

LEMMA EndKept ==
  ASSUME LifeInv, NEW a \in Adapters, KeepsEnd(a), NEW b \in Adapters, Over(adapter[b])
  PROVE  Over(adapter'[b])
<1>1. PICK e : adapter' = [adapter EXCEPT ![a] = e] /\ (Over(adapter[a]) => Over(e))
  BY DEF KeepsEnd, Becomes
<1>2. adapter'[b] = IF b = a THEN e ELSE adapter[b]
  BY <1>1 DEF LifeInv
<1>. QED  BY <1>1, <1>2

LEMMA ClaimsKeepEnd ==
  ASSUME session \in Sessions, NEW a \in Adapters, NEW d, Tidy(d), Claims(d, a),
         d.stopped = adapter[a].stopped, d.terminal = adapter[a].terminal
  PROVE  KeepsEnd(a)
<1>1. PICK c \in {Answer("granted", session.granted + 1, session.run), Refused} :
        /\ IF Grantable THEN session' = Granted ELSE c = Refused /\ UNCHANGED session
        /\ Becomes(a, Answered(d, c))
  BY DEF Claims, Answered
<1>2. session.run \in 1..MaxRuns /\ session.granted \in 0..MaxGrants
  BY SessionFields
<1>3. /\ c.got \in {"granted", "refused", "gone"} /\ c.holder \in 0..MaxGrants
      /\ c.run \in 0..MaxRuns /\ (c.got = "granted" => c.run # 0)
  <2>1. CASE c = Refused
    BY <2>1, Bounds DEF Refused, Answer
  <2>2. CASE c # Refused
    <3>1. session.granted < MaxGrants
      BY <1>1, <2>2 DEF Grantable
    <3>. QED  BY <1>1, <1>2, <2>2, <3>1, Bounds DEF Answer
  <2>. QED  BY <2>1, <2>2
<1>4. PICK e : e = Answered(d, c)
  OBVIOUS
<1>5. e.stopped = d.stopped /\ e.terminal = d.terminal
  BY <1>3, <1>4, AnswerKept
<1>. QED  BY <1>1, <1>4, <1>5 DEF KeepsEnd, Over

LEMMA StartsKeepEnd ==
  ASSUME LifeInv, NEW a \in Adapters, Start(a) \/ Started(a) \/ Stop(a) \/ PollerMeetsEnd(a)
  PROVE  KeepsEnd(a)
<1>. DEFINE d == adapter[a]
<1>1. Fits(d) /\ d \in AdapterStates
  BY OneOf DEF Fits, Tidy
<1>2. CASE Start(a)
  <2>. DEFINE e == [d EXCEPT !.stage = "claiming"]
  <2>1. Claims(e, a) /\ session \in Sessions
    BY <1>2 DEF Start, LifeInv
  <2>2. /\ e \in AdapterStates /\ e.stopped = d.stopped /\ e.terminal = d.terminal
        /\ e.timers = d.timers /\ e.tracked = d.tracked
    BY <1>1, PutStage
  <2>3. Tidy(e)
    BY <1>1, <2>2 DEF Tidy, Fits
  <2>. HIDE DEF e
  <2>. QED  BY <2>1, <2>2, <2>3, ClaimsKeepEnd
<1>3. CASE Started(a)
  <2>1. CASE d.reconnect.got = "granted"
    <3>. DEFINE h == Holding(d)
                e == ScheduleBoth(h)
    <3>1. Runs(h) /\ h.stopped = d.stopped /\ h.terminal = d.terminal
      BY <1>1, <2>1, HoldingRuns DEF Fits
    <3>2. Becomes(a, e)
      BY <1>3, <2>1 DEF Started
    <3>. HIDE DEF h
    <3>3. Beside(h, e)
      BY <3>1, ScheduleBothTidy DEF Runs
    <3>. HIDE DEF e
    <3>. QED  BY <3>1, <3>2, <3>3 DEF Beside, Over, KeepsEnd
  <2>2. CASE d.reconnect.got # "granted"
    <3>. DEFINE s == [d EXCEPT !.stage = "refused"]
                e == [s EXCEPT !.reconnect = NoReconnect]
    <3>1. Becomes(a, e)
      BY <1>1, <1>3, <2>2 DEF Started, AdapterStates
    <3>2. s \in AdapterStates /\ s.stopped = d.stopped /\ s.terminal = d.terminal
      BY <1>1, PutStage
    <3>. HIDE DEF s
    <3>3. e.stopped = s.stopped /\ e.terminal = s.terminal
      BY <3>2, NoReconnectTyped, PutReconnect
    <3>. HIDE DEF e
    <3>. QED  BY <3>1, <3>2, <3>3 DEF Over, KeepsEnd
  <2>. QED  BY <2>1, <2>2
<1>4. CASE Stop(a)
  <2>1. \E e : Becomes(a, e)
    BY <1>4 DEF Stop
  <2>. QED  BY <1>4, <2>1 DEF Stop, KeepsEnd
<1>5. CASE PollerMeetsEnd(a)
  <2>. DEFINE e == [d EXCEPT !.poller = 0]
  <2>1. Becomes(a, e)
    BY <1>5 DEF PollerMeetsEnd
  <2>2. e.stopped = d.stopped /\ e.terminal = d.terminal
    BY <1>1, Bounds, PutPoller
  <2>. HIDE DEF e
  <2>. QED  BY <2>1, <2>2 DEF Over, KeepsEnd
<1>. QED  BY <1>2, <1>3, <1>4, <1>5

(* What a loop does that may not act comes to nothing. *)
LEMMA TicksKeepEnd ==
  ASSUME LifeInv, NEW a \in Adapters, NEW l \in Loops, Tick(a, l)
  PROVE  KeepsEnd(a)
<1>. DEFINE d == adapter[a]
<1>1. CASE TickTrips(a, l)
  <2>1. PICK e \in Fired(d, l) : Becomes(a, e)
    BY <1>1 DEF TickTrips
  <2>2. Runs(d) /\ d.timers[l] > 0
    BY <1>1, OnAlready DEF TickTrips
  <2>3. Beside(d, e)
    BY <2>2, FiredTidy DEF Runs
  <2>. QED  BY <2>1, <2>3 DEF Beside, Over, KeepsEnd
<1>2. CASE TickHeartbeat(a) \/ TickPhaseWatcher(a)
  <2>1. ~Over(d)
    BY <1>2 DEF TickHeartbeat, TickPhaseWatcher, Trips, MayAct
  <2>2. \E e : Becomes(a, e)
    BY <1>2 DEF TickHeartbeat, TickPhaseWatcher
  <2>. QED  BY <2>1, <2>2 DEF KeepsEnd
<1>. QED  BY <1>1, <1>2 DEF Tick

LEMMA ResumesKeepEnd ==
  ASSUME LifeInv, NEW a \in Adapters, NEW l \in Loops, NEW i \in Slots, Resume(a, l, i)
  PROVE  KeepsEnd(a)
<1>. DEFINE tick == adapter[a].ticks[l][i]
            d == Free(adapter[a], l, i)
<1>0. Fits(adapter[a]) /\ adapter[a].stage = "on" /\ Runs(adapter[a])
  BY OnAlready DEF Resume, TickReturns, FindCanSuccessorRunId, HandleRunEndError, NoTick
<1>1. Runs(d) /\ (Over(d) <=> Over(adapter[a]))
  BY <1>0, FreeRuns
<1>2. CASE TickReturns(a, l, i)
  <2>. DEFINE j == IF l = "phaseWatcher" THEN Judge(a, d, tick) ELSE d
  <2>1. Becomes(a, Rearm(j, l))
    BY <1>2 DEF TickReturns
  <2>. HIDE DEF d, tick
  <2>2. Over(d) => Over(j)
    <3>1. Over(d) => FireTerminalOrReconnect(a, d, "superseded", 0) = d
                     /\ FireTerminalOrReconnect(a, d, "heartbeat-timeout", 0) = d
      BY DEF FireTerminalOrReconnect, MayAct
    <3>2. Over(FireTerminal(d, "destroy"))
      BY <1>1, FireTerminalFits DEF Reasons
    <3>. QED  BY <3>1, <3>2 DEF Judge
  <2>. HIDE DEF j
  <2>3. Over(j) => Rearm(j, l) = j
    BY DEF Rearm, MayAct
  <2>. QED  BY <1>1, <2>1, <2>2, <2>3 DEF KeepsEnd
<1>3. CASE HandleRunEndError(a, l, i)
  <2>1. Becomes(a, IF tick.next # 0
                     THEN FireTerminalOrReconnect(a, d, "continued-as-new", tick.next)
                     ELSE FireTerminal(d, "destroy"))
    BY <1>3 DEF HandleRunEndError
  <2>. HIDE DEF d, tick
  <2>2. Over(d) => FireTerminalOrReconnect(a, d, "continued-as-new", tick.next) = d
    BY DEF FireTerminalOrReconnect, MayAct
  <2>3. Over(FireTerminal(d, "destroy"))
    BY <1>1, FireTerminalFits DEF Reasons
  <2>. QED  BY <1>1, <2>1, <2>2, <2>3 DEF KeepsEnd
<1>4. CASE FindCanSuccessorRunId(a, l, i)
  <2>. DEFINE s == adapter[a]
  <2>1. s \in AdapterStates /\ s.ticks[l][i] \in TickStates
    BY <1>0 DEF Runs, Tidy, AdapterStates
  <2>2. PICK next : Becomes(a, [s EXCEPT !.ticks[l][i] = [@ EXCEPT !.at = "asked", !.next = next]])
    BY <1>4 DEF FindCanSuccessorRunId
  <2>3. PICK ticks : Becomes(a, [s EXCEPT !.ticks = ticks])
    <3>1. [s EXCEPT !.ticks[l][i] = [@ EXCEPT !.at = "asked", !.next = next]]
            = [s EXCEPT !.ticks = [s.ticks EXCEPT ![l] =
                [s.ticks[l] EXCEPT ![i] = [s.ticks[l][i] EXCEPT !.at = "asked", !.next = next]]]]
      BY <2>1 DEF AdapterStates
    <3>. QED  BY <2>2, <3>1
  <2>. DEFINE e == [s EXCEPT !.ticks = ticks]
  <2>4. e.stopped = s.stopped /\ e.terminal = s.terminal
    BY <2>1 DEF AdapterStates
  <2>. HIDE DEF e
  <2>. QED  BY <2>3, <2>4 DEF Over, KeepsEnd, e
<1>. QED  BY <1>2, <1>3, <1>4 DEF Resume

(* A reconnect loop that was stopped ends what it is about. *)
LEMMA ReconnectsKeepEnd ==
  ASSUME LifeInv, NEW a \in Adapters, Reconnect(a)
  PROVE  KeepsEnd(a)
<1>. DEFINE d == adapter[a]
<1>1. Runs(d) /\ d.poller = 0
  BY Round DEF Reconnect, ReconnectAsks, ConfirmWorkflowTerminal, ReconnectDecides,
     ReconnectClaims, Reconnected
<1>2. d \in AdapterStates /\ d.reconnect \in ReconnectStates
  BY <1>1 DEF Runs, Tidy, AdapterStates
<1>3. ASSUME NEW reason \in {"destroy", "superseded"}, Becomes(a, FireTerminal(Done(d), reason))
      PROVE  KeepsEnd(a)
  <2>1. Over(FireTerminal(Done(d), reason))
    BY <1>1, DoneRuns, FireTerminalFits DEF Reasons
  <2>. QED  BY <1>3, <2>1 DEF KeepsEnd
<1>4. ASSUME NEW e \in NextRounds(d), Becomes(a, e) PROVE KeepsEnd(a)
  BY <1>1, <1>4, NextRoundsFit DEF KeepsEnd
<1>5. CASE ReconnectAsks(a)
  <2>1. PICK got, info : Becomes(a, [d EXCEPT !.reconnect = [@ EXCEPT
          !.at = "asked", !.got = got, !.phase = info.phase, !.holder = info.holder]])
    BY <1>5 DEF ReconnectAsks
  <2>2. PICK r : Becomes(a, [d EXCEPT !.reconnect = r])
    BY <1>2, <2>1 DEF AdapterStates
  <2>. DEFINE e == [d EXCEPT !.reconnect = r]
  <2>3. e.stopped = d.stopped /\ e.terminal = d.terminal
    BY <1>2 DEF AdapterStates
  <2>. HIDE DEF e
  <2>. QED  BY <2>2, <2>3 DEF Over, KeepsEnd, e
<1>6. CASE ConfirmWorkflowTerminal(a) \/ ReconnectDecides(a)
  BY <1>3, <1>4, <1>6 DEF ConfirmWorkflowTerminal, ReconnectDecides
<1>7. CASE ReconnectClaims(a)
  <2>. DEFINE at == [d.reconnect EXCEPT !.at = "claiming"]
              r == [at EXCEPT !.phase = "none"]
              e == [d EXCEPT !.reconnect = r]
  <2>1. Claims(e, a) /\ session \in Sessions
    <3>1. Claims([d EXCEPT !.reconnect = [@ EXCEPT !.at = "claiming", !.phase = "none"]], a)
      BY <1>7 DEF ReconnectClaims
    <3>2. [d EXCEPT !.reconnect = [@ EXCEPT !.at = "claiming", !.phase = "none"]] = e
      BY <1>2 DEF AdapterStates, ReconnectStates
    <3>. QED  BY <3>1, <3>2 DEF LifeInv
  <2>2. at \in ReconnectStates /\ at.got = d.reconnect.got /\ at.run = d.reconnect.run
    BY <1>2 DEF ReconnectStates
  <2>. HIDE DEF at
  <2>3. r \in ReconnectStates /\ r.got = d.reconnect.got /\ r.run = d.reconnect.run
    BY <2>2 DEF ReconnectStates
  <2>. HIDE DEF r
  <2>4. Tidy(e) /\ e.stopped = d.stopped /\ e.terminal = d.terminal
    BY <1>1, <2>3, ReconnectPut DEF Runs, Granting
  <2>. HIDE DEF e
  <2>. QED  BY <2>1, <2>4, ClaimsKeepEnd
<1>8. CASE Reconnected(a)
  <2>1. CASE /\ d.reconnect.got = "granted"
             /\ Becomes(a, IF d.stopped THEN Holding(d) ELSE ScheduleBoth(Holding(d)))
    <3>. DEFINE h == Holding(d)
    <3>1. Runs(h) /\ h.stopped = d.stopped /\ h.terminal = d.terminal
      BY <1>1, <2>1, HoldingRuns DEF Runs
    <3>. HIDE DEF h
    <3>2. Beside(h, ScheduleBoth(h))
      BY <3>1, ScheduleBothTidy DEF Runs
    <3>3. Over(d) => Over(h) /\ Over(ScheduleBoth(h))
      BY <3>1, <3>2 DEF Beside, Over
    <3>. QED  BY <2>1, <3>3 DEF KeepsEnd, h
  <2>. QED  BY <1>3, <1>4, <1>8, <2>1 DEF Reconnected
<1>. QED  BY <1>5, <1>6, <1>7, <1>8 DEF Reconnect

(* An adapter that ended and fell silent has no step left. *)
LEMMA SilentAdapterRests ==
  ASSUME LifeInv, [Next]_adapterVars, NEW b \in Adapters, Over(adapter[b]), Silent(adapter[b])
  PROVE  adapter'[b] = adapter[b]
<1>. DEFINE d == adapter[b]
<1>1. Fits(d)
  BY OneOf
<1>2. /\ d.stage \notin {"new", "claiming"} /\ Over(d) /\ d.reconnect.at = "off" /\ d.poller = 0
      /\ \A l \in Loops : ~(d.timers[l] > 0) /\ \A i \in Slots : d.ticks[l][i] = NoTick
  BY <1>1 DEF Fits, Silent, Reconnecting, GoesOn
<1>3. ASSUME NEW a \in Adapters, a # b, NEW e, Becomes(a, e) PROVE adapter'[b] = adapter[b]
  BY <1>3 DEF Becomes, LifeInv
<1>4. CASE Session \/ UNCHANGED adapterVars
  BY <1>4 DEF Session, Moves, LeaseAges, ReapLease, RequestDetach, DrainEnds, ForceDetach,
     RivalClaims, Destroy, Completes, ContinueAsNew, adapterVars
<1>5. ASSUME NEW a \in Adapters, Start(a) \/ Started(a) \/ Stop(a) \/ PollerMeetsEnd(a)
      PROVE  adapter'[b] = adapter[b]
  <2>1. a # b
    BY <1>2, <1>5 DEF Start, Started, Stop, PollerMeetsEnd
  <2>2. KeepsEnd(a)
    BY <1>5, StartsKeepEnd
  <2>. QED  BY <1>3, <2>1, <2>2 DEF KeepsEnd
<1>6. ASSUME NEW a \in Adapters, Reconnect(a) PROVE adapter'[b] = adapter[b]
  <2>1. a # b
    BY <1>2, <1>6 DEF Reconnect, ReconnectAsks, ConfirmWorkflowTerminal, ReconnectDecides,
       ReconnectClaims, Reconnected
  <2>. QED  BY <1>3, <1>6, <2>1, ReconnectsKeepEnd DEF KeepsEnd
<1>7. ASSUME NEW a \in Adapters, NEW l \in Loops, Tick(a, l) PROVE adapter'[b] = adapter[b]
  <2>1. a # b
    BY <1>2, <1>7, LoopsAre DEF Tick, TickTrips, TickHeartbeat, TickPhaseWatcher
  <2>. QED  BY <1>3, <1>7, <2>1, TicksKeepEnd DEF KeepsEnd
<1>8. ASSUME NEW a \in Adapters, NEW l \in Loops, NEW i \in Slots, Resume(a, l, i)
      PROVE  adapter'[b] = adapter[b]
  <2>1. a # b
    BY <1>2, <1>8 DEF Resume, TickReturns, FindCanSuccessorRunId, HandleRunEndError, NoTick
  <2>. QED  BY <1>3, <1>8, <2>1, ResumesKeepEnd DEF KeepsEnd
<1>. QED  BY <1>4, <1>5, <1>6, <1>7, <1>8 DEF Next

LEMMA EndKeptByStep ==
  ASSUME LifeInv, [Next]_adapterVars, NEW b \in Adapters, Over(adapter[b])
  PROVE  Over(adapter'[b])
<1>1. CASE Session \/ UNCHANGED adapterVars
  BY <1>1 DEF Session, Moves, LeaseAges, ReapLease, RequestDetach, DrainEnds, ForceDetach,
     RivalClaims, Destroy, Completes, ContinueAsNew, adapterVars
<1>2. ASSUME NEW a \in Adapters,
             \/ Start(a) \/ Started(a) \/ Stop(a) \/ PollerMeetsEnd(a) \/ Reconnect(a)
             \/ \E l \in Loops : Tick(a, l) \/ \E i \in Slots : Resume(a, l, i)
      PROVE  Over(adapter'[b])
  BY <1>2, EndKept, StartsKeepEnd, ReconnectsKeepEnd, TicksKeepEnd, ResumesKeepEnd
<1>. QED  BY <1>1, <1>2 DEF Next

(* The safety of FallsSilent: an adapter that was stopped or fired its     *)
(* terminal never goes on as if it had not, whichever answers come back,   *)
(* and once nothing of it is under way nothing starts it again.            *)
THEOREM AdaptersEndForGood == Spec => EndsForGood
<1>1. LifeInv /\ [Next]_adapterVars =>
        [\A a \in Adapters : Over(adapter[a]) =>
           Over(adapter'[a]) /\ (Silent(adapter[a]) => Silent(adapter'[a]))]_adapterVars
  BY EndKeptByStep, SilentAdapterRests
<1>. QED  BY <1>1, LifeAlways, PTL DEF Spec, EndsForGood

-----------------------------------------------------------------------------
(* The abstract lease.  A step of the session keeps its holder, whose      *)
(* lease may be renewed or run out, loses it, or admits another.           *)

Holder(s) == s.info[s.run].holder
Keeps(s, t) == Holder(t) = Holder(s) /\ t.granted = s.granted
Loses(s, t) == Holder(t) = 0 /\ t.granted = s.granted

LEMMA HolderIsHeld == Holder(session) = Current.holder /\ Holder(session') = Current'.holder
  BY DEF Holder, Current

LEMMA KeepingImplements ==
  ASSUME session \in Sessions, session' \in Sessions, Keeps(session, session')
  PROVE  [Lease!LeaseNext]_(Lease!leaseVars)
<1>. DEFINE held == Current.holder
<1>1. Current'.holder = held /\ session'.granted = session.granted
  BY HolderIsHeld DEF Keeps
<1>2. session.fresh \in BOOLEAN /\ session'.fresh \in BOOLEAN
  BY DEF Sessions
<1>3. CASE held = 0 \/ session'.fresh = session.fresh
  BY <1>1, <1>2, <1>3 DEF Lease!leaseVars
<1>4. CASE held # 0 /\ session'.fresh /\ ~session.fresh
  <2>1. Lease!Renew
    BY <1>1, <1>4 DEF Lease!Renew
  <2>. QED  BY <2>1 DEF Lease!LeaseNext
<1>5. CASE held # 0 /\ ~session'.fresh /\ session.fresh
  <2>1. Lease!Expire
    BY <1>1, <1>5 DEF Lease!Expire
  <2>. QED  BY <2>1 DEF Lease!LeaseNext
<1>. QED  BY <1>2, <1>3, <1>4, <1>5

LEMMA LosingImplements ==
  ASSUME session \in Sessions, session' \in Sessions, Loses(session, session')
  PROVE  [Lease!LeaseNext]_(Lease!leaseVars)
<1>1. Current'.holder = 0 /\ session'.granted = session.granted
  BY HolderIsHeld DEF Loses
<1>2. CASE Current.holder = 0
  BY <1>1, <1>2 DEF Lease!leaseVars
<1>3. CASE Current.holder # 0
  <2>1. Lease!Revoke
    BY <1>1, <1>3 DEF Lease!Revoke
  <2>. QED  BY <2>1 DEF Lease!LeaseNext
<1>. QED  BY <1>2, <1>3

LEMMA AdmittingImplements ==
  ASSUME session \in Sessions, Grantable, session' = Granted
  PROVE  [Lease!LeaseNext]_(Lease!leaseVars)
<1>. DEFINE n == session.granted + 1
<1>1. session.run \in 1..MaxRuns
      /\ session.info \in [1..MaxRuns -> [phase : Phases, holder : 0..MaxGrants]]
  BY SessionFields
<1>2. /\ session'.granted = n /\ session'.fresh = TRUE /\ session'.run = session.run
      /\ session'.info = [session.info EXCEPT ![session.run] = Info("attached", n)]
  <2>. DEFINE g == [session EXCEPT !.granted = n]
              f == [g EXCEPT !.fresh = TRUE]
              info == [session.info EXCEPT ![session.run] = Info("attached", n)]
              e == [f EXCEPT !.info = info]
  <2>1. session' = e
    BY DEF Granted, Sessions
  <2>. HIDE DEF n, info
  <2>2. /\ g.run = session.run /\ g.up = session.up /\ g.granted = n
        /\ g = [run |-> g.run, up |-> g.up, fresh |-> g.fresh, granted |-> g.granted,
                info |-> g.info]
    BY DEF Sessions
  <2>. HIDE DEF g
  <2>3. e.run = session.run /\ e.granted = n /\ e.fresh = TRUE /\ e.info = info
    BY <2>2
  <2>. HIDE DEF e
  <2>. QED  BY <2>1, <2>3 DEF info
<1>. HIDE DEF n
<1>3. Current'.holder = n
  <2>1. session'.info[session'.run] = Info("attached", n)
    BY <1>1, <1>2
  <2>. QED  BY <2>1 DEF Current, Info
<1>4. Lease!Grant
  BY <1>2, <1>3 DEF Lease!Grant, Grantable, n
<1>. QED  BY <1>4 DEF Lease!LeaseNext

LEMMA SettingKeepsOrLoses ==
  ASSUME session \in Sessions, NEW phase, NEW holder \in {0, Current.holder},
         NEW t, t = SetInfo(phase, holder)
  PROVE  Keeps(session, t) \/ Loses(session, t)
<1>. DEFINE info == [session.info EXCEPT ![session.run] = Info(phase, holder)]
            fresh == session.fresh /\ holder # 0
            s == [session EXCEPT !.info = info]
<1>1. session.run \in 1..MaxRuns
      /\ session.info \in [1..MaxRuns -> [phase : Phases, holder : 0..MaxGrants]]
  BY SessionFields
<1>2. info[session.run].holder = holder
  BY <1>1 DEF Info
<1>3. t = [s EXCEPT !.fresh = fresh]
  BY DEF SetInfo, Sessions
<1>. HIDE DEF info, fresh
<1>4. t.run = session.run /\ t.info = info /\ t.granted = session.granted
  BY <1>3 DEF Sessions
<1>. QED  BY <1>2, <1>4 DEF Keeps, Loses, Holder, Current

LEMMA SessionImplements ==
  ASSUME LifeInv, LifeInv', Session
  PROVE  [Lease!LeaseNext]_(Lease!leaseVars)
<1>1. session \in Sessions /\ session' \in Sessions
  BY DEF LifeInv
<1>2. CASE LeaseAges
  <2>1. session' = [session EXCEPT !.fresh = FALSE]
    BY <1>2 DEF LeaseAges, Moves
  <2>2. Keeps(session, session')
    BY <1>1, <2>1 DEF Keeps, Holder, Sessions
  <2>. QED  BY <1>1, <2>2, KeepingImplements
<1>3. CASE Completes
  <2>. DEFINE s == [session EXCEPT !.up = FALSE]
  <2>1. session' = [s EXCEPT !.fresh = FALSE]
    BY <1>1, <1>3 DEF Completes, Moves, Sessions
  <2>2. Keeps(session, session')
    BY <1>1, <2>1 DEF Keeps, Holder, Sessions
  <2>. QED  BY <1>1, <2>2, KeepingImplements
<1>4. CASE ReapLease \/ RequestDetach \/ DrainEnds \/ ForceDetach \/ Destroy
  <2>1. PICK phase \in {"detached", "draining", "gone"}, holder \in {0, Current.holder} :
          session' = SetInfo(phase, holder)
    BY <1>4 DEF ReapLease, RequestDetach, DrainEnds, ForceDetach, Destroy, Moves
  <2>2. Keeps(session, session') \/ Loses(session, session')
    BY <1>1, <2>1, SettingKeepsOrLoses
  <2>. QED  BY <1>1, <2>2, KeepingImplements, LosingImplements
<1>5. CASE RivalClaims
  BY <1>1, <1>5, AdmittingImplements DEF RivalClaims, Moves
<1>6. CASE ContinueAsNew
  <2>. DEFINE next == session.run + 1
              fresh == Current.holder # 0
              info == [session.info EXCEPT ![next] = Current]
              s == [session EXCEPT !.run = next]
              f == [s EXCEPT !.fresh = fresh]
  <2>1. /\ next \in 1..MaxRuns
        /\ session.info \in [1..MaxRuns -> [phase : Phases, holder : 0..MaxGrants]]
    BY <1>1, <1>6, SessionFields, Bounds DEF ContinueAsNew
  <2>2. session' = [f EXCEPT !.info = info]
    BY <1>1, <1>6 DEF ContinueAsNew, Moves, Sessions
  <2>3. info[next] = Current
    BY <2>1
  <2>. HIDE DEF next, fresh, info
  <2>4. session'.run = next /\ session'.info = info /\ session'.granted = session.granted
    BY <1>1, <2>2 DEF Sessions
  <2>5. Keeps(session, session')
    BY <2>3, <2>4 DEF Keeps, Holder, Current
  <2>. QED  BY <1>1, <2>5, KeepingImplements
<1>. QED  BY <1>2, <1>3, <1>4, <1>5, <1>6 DEF Session

(* What the adapters do to the session. *)
LEMMA AdaptersImplement ==
  ASSUME LifeInv, LifeInv', NEW a \in Adapters,
         \/ Start(a) \/ Started(a) \/ Stop(a) \/ PollerMeetsEnd(a) \/ Reconnect(a)
         \/ \E l \in Loops : Tick(a, l) \/ \E i \in Slots : Resume(a, l, i)
  PROVE  [Lease!LeaseNext]_(Lease!leaseVars)
<1>1. session \in Sessions /\ session' \in Sessions
  BY DEF LifeInv
<1>2. UNCHANGED session => Keeps(session, session')
  BY DEF Keeps
<1>3. ASSUME NEW d, Claims(d, a) PROVE [Lease!LeaseNext]_(Lease!leaseVars)
  <2>1. (Grantable /\ session' = Granted) \/ UNCHANGED session
    BY <1>3 DEF Claims
  <2>. QED  BY <1>1, <1>2, <2>1, AdmittingImplements, KeepingImplements
<1>4. CASE Start(a) \/ ReconnectClaims(a)
  BY <1>3, <1>4 DEF Start, ReconnectClaims
<1>5. CASE Stop(a)
  <2>1. session' = SetInfo("detached", 0) \/ UNCHANGED session
    BY <1>5 DEF Stop, Exited
  <2>2. Keeps(session, session') \/ Loses(session, session')
    BY <1>1, <1>2, <2>1, SettingKeepsOrLoses
  <2>. QED  BY <1>1, <2>2, KeepingImplements, LosingImplements
<1>6. CASE TickHeartbeat(a)
  <2>1. session' = [session EXCEPT !.fresh = TRUE] \/ UNCHANGED session
    BY <1>6 DEF TickHeartbeat, Refreshed
  <2>2. Keeps(session, session')
    BY <1>1, <1>2, <2>1 DEF Keeps, Holder, Sessions
  <2>. QED  BY <1>1, <2>2, KeepingImplements
<1>7. CASE UNCHANGED session
  BY <1>1, <1>2, <1>7, KeepingImplements
<1>. QED
  BY <1>4, <1>5, <1>6, <1>7
     DEF Started, PollerMeetsEnd, Reconnect, ReconnectAsks, ConfirmWorkflowTerminal,
         ReconnectDecides, Reconnected, Tick, TickTrips, TickPhaseWatcher, Resume, TickReturns,
         FindCanSuccessorRunId, HandleRunEndError

(* The session the adapters see keeps the promise of the abstract lease:   *)
(* one holder at a time, replaced only when its lease has run out or was   *)
(* taken away, by an attachment that was never given out before.           *)
THEOREM SeenSessionImplementsLease == Spec => ImplementsLease
<1>1. Init => Lease!LeaseInit
  BY Bounds DEF Init, Lease!LeaseInit, Current, Info
<1>2. LifeInv /\ LifeInv' /\ [Next]_adapterVars => [Lease!LeaseNext]_(Lease!leaseVars)
  <2>. SUFFICES ASSUME LifeInv, LifeInv', [Next]_adapterVars
                PROVE  [Lease!LeaseNext]_(Lease!leaseVars)
    OBVIOUS
  <2>1. CASE Session
    BY <2>1, SessionImplements
  <2>2. ASSUME NEW a \in Adapters,
               \/ Start(a) \/ Started(a) \/ Stop(a) \/ PollerMeetsEnd(a) \/ Reconnect(a)
               \/ \E l \in Loops : Tick(a, l) \/ \E i \in Slots : Resume(a, l, i)
        PROVE  [Lease!LeaseNext]_(Lease!leaseVars)
    BY <2>2, AdaptersImplement
  <2>3. CASE UNCHANGED adapterVars
    BY <2>3 DEF adapterVars, Lease!leaseVars, Current
  <2>. QED  BY <2>1, <2>2, <2>3 DEF Next
<1>. QED  BY <1>1, <1>2, LifeAlways, PTL DEF Spec, ImplementsLease, Lease!LeaseSpec

=============================================================================
