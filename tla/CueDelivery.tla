------------------------------ MODULE CueDelivery ------------------------------
(***************************************************************************)
(* A cue or a reset on its way from an outbox to a Pi agent: the dispatch  *)
(* of the sender's outbox with its retried activity (deliverCue and        *)
(* deliverReset in activities/outbox.ts), the inbox and the reset slot of  *)
(* the receiving session (workflows/session.ts), and the cue pump that     *)
(* polls them and feeds the agent (pi/cue-pump.ts).                        *)
(*                                                                         *)
(* A signal travels on its own: an attempt that timed out may land later,  *)
(* or never.  An item is the n-th entry of a sender's outbox.  Messages    *)
(* are numbered as they arrive, so the inbox, a list in order of arrival,  *)
(* is a set here.                                                          *)
(***************************************************************************)
EXTENDS Naturals, FiniteSets

CONSTANTS
  Senders,     \* sessions with an outbox
  Kinds,       \* what they send: "cue", "reset"
  MaxItems,    \* bound on the items of a sender
  MaxAttempts, \* maximumAttempts of the activities
  MaxRuns,     \* bound on runs of the receiving session
  MaxFaults    \* bound on calls that go wrong, wakes missed and crashes

ASSUME DeliveryKindsAssumption == Kinds \subseteq {"cue", "reset"}
ASSUME DeliveryBoundsAssumption ==
  {MaxItems, MaxRuns, MaxFaults} \subseteq Nat /\ MaxAttempts \in Nat \ {0}

VARIABLES
  outbox,  \* kind and status of each item
  call,    \* the dispatch under way at each sender
  wire,    \* signals on their way
  inbox,   \* messages, reset slot and run of the receiving session, and the
           \* reset in the input of that run
  pump,    \* the tick of the cue pump
  agent,   \* "rest", "roused" by a cue, or "dormant": the wake did not take
  faults,  \* things that went wrong so far
  hist     \* what happened, for the properties

deliveryVars == <<outbox, call, wire, inbox, pump, agent, faults, hist>>

Items == Senders \X (1..MaxItems)
None == <<>>
NoCall == [attempt |-> 0, landed |-> FALSE]
NotTracked == [id |-> 0, escalated |-> FALSE, turned |-> FALSE]
NewPump == [at |-> "idle", messages |-> {}, reset |-> None, done |-> {},
            last |-> NotTracked]

Faulty == faults < MaxFaults /\ faults' = faults + 1
Sound == UNCHANGED faults

Init ==
  /\ outbox = [i \in Items |-> [kind |-> "none", status |-> "none"]]
  /\ call = [s \in Senders |-> NoCall]
  /\ wire = {}
  /\ inbox = [messages |-> {}, next |-> 1, reset |-> None, run |-> 1, input |-> None]
  /\ pump = NewPump /\ agent = "rest" /\ faults = 0
  /\ hist = [arrived |-> {}, seen |-> {}, performed |-> {}, newest |-> None]

-----------------------------------------------------------------------------
(* The sender: entries are dispatched in the order they were submitted,    *)
(* each by an activity of at most MaxAttempts attempts.                    *)

Submit(i, k) ==
  /\ outbox[i].status = "none"
  /\ \A n \in 1..(i[2] - 1) : outbox[<<i[1], n>>].status # "none"
  /\ outbox' = [outbox EXCEPT ![i] = [kind |-> k, status |-> "pending"]]
  /\ UNCHANGED <<call, wire, inbox, pump, agent, faults, hist>>

IsNext(i) == /\ outbox[i].status = "pending"
            /\ \A n \in 1..(i[2] - 1) : outbox[<<i[1], n>>].status # "pending"

Signal(i, a) == [item |-> i, attempt |-> a]
Attempt(i) ==
  /\ IsNext(i) /\ call[i[1]] = NoCall
  /\ call' = [call EXCEPT ![i[1]] = [attempt |-> 1, landed |-> FALSE]]
  /\ wire' = wire \cup {Signal(i, 1)}
  /\ UNCHANGED <<outbox, inbox, pump, agent, faults, hist>>

Close(i, status) == /\ outbox' = [outbox EXCEPT ![i] = [kind |-> @.kind, status |-> status]]
                    /\ call' = [call EXCEPT ![i[1]] = NoCall]

Answered(i) ==
  /\ IsNext(i) /\ call[i[1]].landed
  /\ Close(i, "delivered")
  /\ UNCHANGED <<wire, inbox, pump, agent, faults, hist>>

(* classifyAndRethrow: a transient error is retried while attempts last,   *)
(* any other, or the last, fails the entry.  Either may hide a signal that *)
(* landed, or is still to land.                                            *)
CallFails(i, isRetryable) ==
  LET a == call[i[1]].attempt IN
  /\ IsNext(i) /\ a > 0 /\ Faulty
  /\ IF isRetryable /\ a < MaxAttempts
       THEN /\ call' = [call EXCEPT ![i[1]] = [attempt |-> a + 1, landed |-> FALSE]]
            /\ wire' = wire \cup {Signal(i, a + 1)}
            /\ UNCHANGED outbox
       ELSE Close(i, "failed") /\ UNCHANGED wire
  /\ UNCHANGED <<inbox, pump, agent, hist>>

-----------------------------------------------------------------------------
(* The receiving session.                                                  *)

Message(n, i) == [id |-> n, item |-> i, delivered |-> FALSE]
Undelivered == {m \in inbox.messages : ~m.delivered}

ReceiveMessage(i) ==
  /\ inbox' = [inbox EXCEPT !.messages = @ \cup {Message(inbox.next, i)}, !.next = @ + 1]
  /\ hist' = [hist EXCEPT !.arrived = @ \cup {Message(inbox.next, i)}]
SetPendingReset(i) ==
  /\ inbox' = [inbox EXCEPT !.reset = i]
  /\ hist' = [hist EXCEPT !.newest = i]

MarkDelivered(ids) ==
  [inbox EXCEPT !.messages = {[m EXCEPT !.delivered = @ \/ m.id \in ids] : m \in inbox.messages}]
ClearAnyReset(i) == [inbox EXCEPT !.reset = None]
ClearReset(i) == [inbox EXCEPT !.reset = IF @ = i THEN None ELSE @]

Land(c) ==
  LET s == c.item[1] IN
  /\ c \in wire
  /\ wire' = wire \ {c}
  /\ call' = IF IsNext(c.item) /\ call[s].attempt = c.attempt
               THEN [call EXCEPT ![s] = [attempt |-> c.attempt, landed |-> TRUE]]
               ELSE call
  /\ IF outbox[c.item].kind = "cue" THEN ReceiveMessage(c.item) ELSE SetPendingReset(c.item)
  /\ UNCHANGED <<outbox, pump, agent, faults>>

(* The next run gets this run's input with what is set now in its place,   *)
(* so a reset that was cleared since comes back.                           *)
CarriedReset == IF inbox.reset # None THEN inbox.reset ELSE inbox.input
ContinueWithoutMessages ==
  /\ inbox.run < MaxRuns
  /\ inbox' = [inbox EXCEPT !.messages = {}, !.run = @ + 1,
                            !.reset = CarriedReset, !.input = CarriedReset]
  /\ UNCHANGED <<outbox, call, wire, pump, agent, faults, hist>>
ContinueAsNew ==
  /\ inbox.run < MaxRuns
  /\ inbox' = [inbox EXCEPT !.messages = Undelivered, !.run = @ + 1,
                            !.reset = CarriedReset, !.input = CarriedReset]
  /\ UNCHANGED <<outbox, call, wire, pump, agent, faults, hist>>

-----------------------------------------------------------------------------
(* The tick of the cue pump, one await at a time: pendingIntake, the reset *)
(* and its ack, the escalation, the cues one by one, and their ack.        *)

Tracking == pump.last.id # 0

FetchIntake ==
  /\ pump.at = "idle"
  /\ pump' = [pump EXCEPT !.at = IF inbox.reset = None THEN "escalate" ELSE "reset",
                          !.messages = Undelivered, !.reset = inbox.reset, !.done = {}]
  /\ UNCHANGED <<outbox, call, wire, inbox, agent, faults, hist>>

(* tickReset.  A session that can start afresh is wiped, else the operator *)
(* is told (not twice while the slot holds the same reset); with neither   *)
(* attached, or when the wipe or its ack throws, the reset waits.          *)
PerformReset ==
  /\ pump.at = "reset"
  /\ pump' = [pump EXCEPT !.at = "ackReset"]
  /\ hist' = [hist EXCEPT !.performed = @ \cup {pump.reset}]
  /\ UNCHANGED <<outbox, call, wire, inbox, agent, faults>>
ResetWaits ==
  /\ pump.at \in {"reset", "ackReset"} /\ Faulty
  /\ pump' = [pump EXCEPT !.at = "escalate"]
  /\ UNCHANGED <<outbox, call, wire, inbox, agent, hist>>
AckReset ==
  /\ pump.at = "ackReset"
  /\ inbox' = ClearReset(pump.reset)
  /\ pump' = [pump EXCEPT !.at = "escalate"]
  /\ UNCHANGED <<outbox, call, wire, agent, faults, hist>>

(* maybeEscalate, then the early return of a tick without cues: the        *)
(* variant takes that return first.                                        *)
AfterEscalation == IF pump.messages = {} THEN "idle" ELSE "inject"
NeedsEscalation == Tracking /\ ~pump.last.escalated /\ ~pump.last.turned

Escalate(needed) ==
  /\ pump.at = "escalate"
  /\ IF needed
       THEN /\ pump' = [pump EXCEPT !.at = AfterEscalation, !.last.escalated = TRUE]
            /\ agent' = "roused"
       ELSE /\ pump' = [pump EXCEPT !.at = AfterEscalation,
                                    !.last = IF @.turned /\ ~@.escalated THEN NotTracked ELSE @]
            /\ UNCHANGED agent
  /\ UNCHANGED <<outbox, call, wire, inbox, faults, hist>>
EscalateWithCues == Escalate(NeedsEscalation /\ pump.messages # {})
MaybeEscalate == Escalate(NeedsEscalation)
EscalationFails ==
  /\ pump.at = "escalate" /\ NeedsEscalation /\ Faulty
  /\ pump' = [pump EXCEPT !.at = AfterEscalation]
  /\ UNCHANGED <<outbox, call, wire, inbox, agent, hist>>

(* The cues of the intake go in by order of arrival. *)
IsSomeCue(m) == m \in pump.messages /\ m.id \notin pump.done
IsNextCue(m) == /\ m \in pump.messages /\ m.id \notin pump.done
                /\ \A o \in pump.messages : o.id < m.id => o.id \in pump.done
AfterInject(done) == IF \A o \in pump.messages : o.id \in done THEN "ack" ELSE "inject"

InjectCue(m, wakes) ==
  /\ pump.at = "inject" /\ IsNextCue(m)
  /\ IF wakes THEN Sound ELSE Faulty
  /\ agent' = IF wakes THEN "roused" ELSE IF agent = "roused" THEN "roused" ELSE "dormant"
  /\ pump' = [pump EXCEPT !.done = @ \cup {m.id}, !.at = AfterInject(pump.done \cup {m.id})]
  /\ hist' = [hist EXCEPT !.seen = @ \cup {m.id}]
  /\ UNCHANGED <<outbox, call, wire, inbox>>

(* The loop over the cues breaks at the first that throws; without a live  *)
(* injector it is never entered.                                           *)
InjectFails ==
  /\ pump.at = "inject" /\ Faulty
  /\ pump' = [pump EXCEPT !.at = IF pump.done = {} THEN "idle" ELSE "ack"]
  /\ UNCHANGED <<outbox, call, wire, inbox, agent, hist>>

AckFetched ==
  /\ pump.at = "ack"
  /\ inbox' = MarkDelivered({m.id : m \in pump.messages})
  /\ pump' = [pump EXCEPT !.at = "acked"]
  /\ UNCHANGED <<outbox, call, wire, agent, faults, hist>>
AckDelivered ==
  /\ pump.at = "ack"
  /\ inbox' = MarkDelivered(pump.done)
  /\ pump' = [pump EXCEPT !.at = "acked"]
  /\ UNCHANGED <<outbox, call, wire, agent, faults, hist>>

(* The ack throws out of the tick, landed or not. *)
AckFails ==
  /\ pump.at \in {"ack", "acked"} /\ Faulty
  /\ pump' = [pump EXCEPT !.at = "idle"]
  /\ UNCHANGED <<outbox, call, wire, inbox, agent, hist>>

(* injectedAt is the time of this step, not of the injection.              *)
TrackInject ==
  /\ pump.at = "acked"
  /\ \E n \in pump.done :
       /\ \A o \in pump.done : o <= n
       /\ pump' = [pump EXCEPT !.at = "idle", !.last = [NotTracked EXCEPT !.id = n]]
  /\ UNCHANGED <<outbox, call, wire, inbox, agent, faults, hist>>

-----------------------------------------------------------------------------
(* The agent.                                                              *)

TurnStarts ==
  /\ agent = "roused"
  /\ agent' = "rest"
  /\ pump' = [pump EXCEPT !.last.turned = Tracking]
  /\ UNCHANGED <<outbox, call, wire, inbox, faults, hist>>

(* The process dies and is started again. *)
Crash ==
  /\ Faulty
  /\ pump' = NewPump /\ agent' = "rest"
  /\ UNCHANGED <<outbox, call, wire, inbox, hist>>

Sender(i) == \/ \E k \in Kinds : Submit(i, k)
             \/ Attempt(i)
             \/ Answered(i)
             \/ \E r \in BOOLEAN : CallFails(i, r)
Receiver == ContinueAsNew \/ \E c \in wire : Land(c)
Tick == \/ FetchIntake
        \/ PerformReset
        \/ AckReset
        \/ MaybeEscalate
        \/ \E m \in pump.messages : InjectCue(m, TRUE)
        \/ AckDelivered
        \/ TrackInject
TickFails == \/ ResetWaits
             \/ EscalationFails
             \/ \E m \in pump.messages : InjectCue(m, FALSE)
             \/ InjectFails
             \/ AckFails

Next == \/ \E i \in Items : Sender(i)
        \/ Receiver
        \/ Tick
        \/ TickFails
        \/ TurnStarts
        \/ Crash

Spec == Init /\ [][Next]_deliveryVars
FairSpec == Spec /\ WF_deliveryVars(Tick)

-----------------------------------------------------------------------------
Slots == Items \cup {None}
Messages == [id : Nat \ {0}, item : Items, delivered : BOOLEAN]
Points == {"idle", "reset", "ackReset", "escalate", "inject", "ack", "acked"}

(* Type invariant; what the pump took in arrived before, and what it       *)
(* injected is of that.                                                    *)
TypeOK ==
  /\ outbox \in [Items -> [kind : {"none"} \cup Kinds,
                           status : {"none", "pending", "delivered", "failed"}]]
  /\ call \in [Senders -> [attempt : 0..MaxAttempts, landed : BOOLEAN]]
  /\ wire \subseteq [item : Items, attempt : 1..MaxAttempts]
  /\ inbox \in [messages : SUBSET Messages, next : Nat \ {0}, reset : Slots, run : Nat,
               input : Slots]
  /\ pump \in [at : Points, messages : SUBSET Messages, reset : Slots, done : SUBSET Nat,
               last : [id : Nat, escalated : BOOLEAN, turned : BOOLEAN]]
  /\ hist \in [arrived : SUBSET Messages, seen : SUBSET Nat, performed : SUBSET Slots,
               newest : Slots]
  /\ \A m \in inbox.messages \cup pump.messages \cup hist.arrived : m.id < inbox.next
  /\ \A m \in pump.messages : ~m.delivered
  /\ pump.done \subseteq {m.id : m \in pump.messages}
  /\ agent \in {"rest", "roused", "dormant"}
  /\ faults \in 0..MaxFaults

(* No cue is lost between the signal that landed and the agent: it is      *)
(* undelivered at the session, across continueAsNew, until the agent was   *)
(* shown it (markDelivered names the injected ones only).                  *)
NothingLost ==
  \A n \in 1..(inbox.next - 1) : (\E m \in Undelivered : m.id = n) \/ n \in hist.seen

Shown == {m.item : m \in {a \in hist.arrived : a.id \in hist.seen}}

(* Cues their sender recorded as delivered are first shown in the order it *)
(* sent them, whatever attempts timed out, failed or landed late.          *)
ShownInOrder ==
  \A s \in Senders : \A j \in 1..MaxItems : \A i \in 1..(j - 1) :
    /\ <<s, j>> \in Shown
    /\ outbox[<<s, i>>] = [kind |-> "cue", status |-> "delivered"]
    => <<s, i>> \in Shown

(* The newest reset is in the slot until it is performed: the ack of an    *)
(* older one, wiped while the newer one landed, does not clear it.         *)
NewestResetHonoured ==
  \/ hist.newest = None
  \/ inbox.reset = hist.newest
  \/ hist.newest \in hist.performed

(* A cue its sender recorded as delivered is shown to the agent.           *)
DeliveredIsShown ==
  \A i \in Items : outbox[i] = [kind |-> "cue", status |-> "delivered"] ~> i \in Shown

(* A cue that went in while its wake did not take rouses the agent in the  *)
(* end, by the escalation or with a later cue, once its ack is answered.   *)
MissedWakeRouses ==
  NeedsEscalation /\ agent = "dormant" ~> agent # "dormant"
=============================================================================
