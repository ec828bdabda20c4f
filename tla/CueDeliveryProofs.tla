--------------------------- MODULE CueDeliveryProofs ---------------------------
(***************************************************************************)
(* What holds of every cue and reset on its way to a Pi agent, for any     *)
(* senders and any bounds: nothing is lost, the newest reset is kept until *)
(* it is performed, and delivered cues are shown in order.                 *)
(***************************************************************************)
EXTENDS CueDelivery, TLAPS

-----------------------------------------------------------------------------
(* Types *)

LEMMA InitTypes == Init => TypeOK
  BY DeliveryBoundsAssumption
  DEF Init, TypeOK, NoCall, NewPump, NotTracked, Slots, Points, None

LEMMA SenderTypes ==
  ASSUME TypeOK, NEW i \in Items, Sender(i) PROVE TypeOK'
<1>. USE DeliveryBoundsAssumption DEF TypeOK, Items
<1>1. ASSUME NEW k \in Kinds, Submit(i, k) PROVE TypeOK'
  BY <1>1 DEF Submit
<1>2. CASE Attempt(i)
  <2>1. call' \in [Senders -> [attempt : 0..MaxAttempts, landed : BOOLEAN]]
    BY <1>2 DEF Attempt, NoCall
  <2>2. wire' \subseteq [item : Items, attempt : 1..MaxAttempts]
    BY <1>2 DEF Attempt, Signal
  <2>. QED  BY <1>2, <2>1, <2>2 DEF Attempt
<1>3. CASE Answered(i)
  BY <1>3 DEF Answered, Close, NoCall
<1>4. ASSUME NEW r \in BOOLEAN, CallFails(i, r) PROVE TypeOK'
  <2>1. CASE r /\ call[i[1]].attempt < MaxAttempts
    <3>1. PICK a \in 1..MaxAttempts :
                 /\ call' = [call EXCEPT ![i[1]] = [attempt |-> a, landed |-> FALSE]]
                 /\ wire' = wire \cup {Signal(i, a)}
      <4>1. call[i[1]].attempt + 1 \in 1..MaxAttempts
        BY <1>4, <2>1 DEF CallFails
      <4>. QED  BY <1>4, <2>1, <4>1 DEF CallFails
    <3>2. call' \in [Senders -> [attempt : 0..MaxAttempts, landed : BOOLEAN]]
      BY <3>1
    <3>3. wire' \subseteq [item : Items, attempt : 1..MaxAttempts]
      BY <3>1 DEF Signal
    <3>. QED  BY <1>4, <2>1, <3>2, <3>3 DEF CallFails, Faulty
  <2>2. CASE ~(r /\ call[i[1]].attempt < MaxAttempts)
    <3>1. Close(i, "failed") /\ UNCHANGED wire
      BY <1>4, <2>2 DEF CallFails
    <3>. QED  BY <1>4, <3>1 DEF CallFails, Faulty, Close, NoCall
  <2>. QED  BY <2>1, <2>2
<1>. QED  BY <1>1, <1>2, <1>3, <1>4 DEF Sender

(* Marking messages changes neither which there are nor their ids.         *)
LEMMA MarkTypes ==
  ASSUME TypeOK, NEW ids
  PROVE  /\ MarkDelivered(ids) \in [messages : SUBSET Messages, next : Nat \ {0},
                                    reset : Slots, run : Nat, input : Slots]
         /\ \A m \in MarkDelivered(ids).messages : m.id < inbox.next
         /\ MarkDelivered(ids).next = inbox.next
  <1>. DEFINE marked == {[m EXCEPT !.delivered = @ \/ m.id \in ids] : m \in inbox.messages}
  <1>1. \A m \in inbox.messages :
          [m EXCEPT !.delivered = @ \/ m.id \in ids]
            = [id |-> m.id, item |-> m.item, delivered |-> m.delivered \/ m.id \in ids]
    BY DEF TypeOK, Messages
  <1>2. ASSUME NEW x \in marked PROVE x \in Messages /\ x.id < inbox.next
    <2>1. PICK m \in inbox.messages :
            x = [id |-> m.id, item |-> m.item, delivered |-> m.delivered \/ m.id \in ids]
      BY <1>1
    <2>2. m \in Messages /\ m.id < inbox.next
      BY DEF TypeOK
    <2>. QED  BY <2>1, <2>2 DEF Messages
  <1>3. MarkDelivered(ids) = [inbox EXCEPT !.messages = marked]
    BY DEF MarkDelivered
  <1>. QED  BY <1>2, <1>3 DEF TypeOK

LEMMA ReceiverTypes == ASSUME TypeOK, Receiver PROVE TypeOK'
<1>. USE DEF TypeOK, Items
<1>1. CASE ContinueAsNew
  <2>1. inbox' = [inbox EXCEPT !.messages = Undelivered, !.run = inbox.run + 1,
                               !.reset = CarriedReset, !.input = CarriedReset]
    BY <1>1 DEF ContinueAsNew
  <2>2. Undelivered \subseteq inbox.messages
    BY DEF Undelivered
  <2>3. inbox' \in [messages : SUBSET Messages, next : Nat \ {0}, reset : Slots, run : Nat,
                    input : Slots]
    <3>1. /\ Undelivered \in SUBSET Messages /\ inbox.run + 1 \in Nat
          /\ CarriedReset \in Slots
      BY <2>2 DEF CarriedReset
    <3>. QED  BY <2>1, <3>1
  <2>4. inbox'.messages = Undelivered /\ inbox'.next = inbox.next
    BY <2>1
  <2>. QED  BY <1>1, <2>2, <2>3, <2>4 DEF ContinueAsNew
<1>2. ASSUME NEW c \in wire, Land(c) PROVE TypeOK'
  <2>1. call' \in [Senders -> [attempt : 0..MaxAttempts, landed : BOOLEAN]]
    BY <1>2 DEF Land
  <2>2. CASE outbox[c.item].kind = "cue"
    <3>1. Message(inbox.next, c.item) \in Messages
      BY DEF Message, Messages
    <3>2. /\ inbox' = [inbox EXCEPT !.messages = @ \cup {Message(inbox.next, c.item)},
                                    !.next = inbox.next + 1]
          /\ hist' = [hist EXCEPT !.arrived = @ \cup {Message(inbox.next, c.item)}]
      BY <1>2, <2>2 DEF Land, ReceiveMessage
    <3>3. \A m \in inbox'.messages \cup pump.messages \cup hist'.arrived : m.id < inbox'.next
      BY <3>1, <3>2 DEF Message, Messages
    <3>4. inbox' \in [messages : SUBSET Messages, next : Nat \ {0}, reset : Slots, run : Nat,
                      input : Slots]
      <4>1. /\ inbox.messages \cup {Message(inbox.next, c.item)} \in SUBSET Messages
            /\ inbox.next + 1 \in Nat \ {0}
        BY <3>1
      <4>. QED  BY <3>2, <4>1
    <3>5. hist' \in [arrived : SUBSET Messages, seen : SUBSET Nat, performed : SUBSET Slots,
                     newest : Slots]
      BY <3>1, <3>2
    <3>. QED  BY <1>2, <2>1, <3>3, <3>4, <3>5 DEF Land
  <2>3. CASE outbox[c.item].kind # "cue"
    <3>1. /\ inbox' = [inbox EXCEPT !.reset = c.item]
          /\ hist' = [hist EXCEPT !.newest = c.item]
      BY <1>2, <2>3 DEF Land, SetPendingReset
    <3>2. c.item \in Slots
      BY DEF Slots
    <3>. QED  BY <1>2, <2>1, <3>1, <3>2 DEF Land
  <2>. QED  BY <2>2, <2>3
<1>. QED  BY <1>1, <1>2 DEF Receiver

LEMMA PumpTypes ==
  ASSUME TypeOK, Tick \/ TickFails \/ TurnStarts \/ Crash PROVE TypeOK'
<1>. USE DeliveryBoundsAssumption DEF TypeOK, Faulty, Sound, Points
<1>1. CASE FetchIntake
  BY <1>1 DEF FetchIntake, Undelivered
<1>2. CASE PerformReset
  BY <1>2 DEF PerformReset
<1>3. CASE AckReset
  BY <1>3 DEF AckReset, ClearReset, Slots
<1>4. CASE MaybeEscalate
  <2>1. AfterEscalation \in Points
    BY DEF AfterEscalation
  <2>2. CASE NeedsEscalation
    <3>1. pump' = [pump EXCEPT !.at = AfterEscalation, !.last.escalated = TRUE]
      BY <1>4, <2>2 DEF MaybeEscalate, Escalate
    <3>. QED  BY <1>4, <2>1, <2>2, <3>1 DEF MaybeEscalate, Escalate
  <2>3. CASE ~NeedsEscalation
    <3>1. PICK last \in {pump.last, NotTracked} :
                 pump' = [pump EXCEPT !.at = AfterEscalation, !.last = last]
      BY <1>4, <2>3 DEF MaybeEscalate, Escalate
    <3>2. NotTracked \in [id : Nat, escalated : BOOLEAN, turned : BOOLEAN]
      BY DEF NotTracked
    <3>3. last \in [id : Nat, escalated : BOOLEAN, turned : BOOLEAN]
      BY <3>2
    <3>. QED  BY <1>4, <2>1, <2>3, <3>1, <3>3 DEF MaybeEscalate, Escalate
  <2>. QED  BY <2>2, <2>3
<1>5. ASSUME NEW m \in pump.messages, NEW wakes \in BOOLEAN, InjectCue(m, wakes)
      PROVE TypeOK'
  <2>1. m.id \in Nat /\ AfterInject(pump.done \cup {m.id}) \in Points
    BY DEF Messages, AfterInject
  <2>2. /\ pump' = [pump EXCEPT !.done = pump.done \cup {m.id},
                                !.at = AfterInject(pump.done \cup {m.id})]
        /\ hist' = [hist EXCEPT !.seen = hist.seen \cup {m.id}]
    BY <1>5 DEF InjectCue
  <2>3. /\ pump' \in [at : Points, messages : SUBSET Messages, reset : Slots, done : SUBSET Nat,
                       last : [id : Nat, escalated : BOOLEAN, turned : BOOLEAN]]
        /\ pump'.messages = pump.messages /\ pump'.done = pump.done \cup {m.id}
    BY <2>1, <2>2
  <2>4. /\ hist' \in [arrived : SUBSET Messages, seen : SUBSET Nat, performed : SUBSET Slots,
                       newest : Slots]
        /\ hist'.arrived = hist.arrived
    BY <2>1, <2>2
  <2>5. agent' \in {"rest", "roused", "dormant"} /\ faults' \in 0..MaxFaults
    BY <1>5 DEF InjectCue
  <2>. QED  BY <1>5, <2>3, <2>4, <2>5 DEF InjectCue
<1>6. CASE AckDelivered
  BY <1>6, MarkTypes DEF AckDelivered
<1>7. CASE TrackInject
  <2>1. PICK n \in pump.done :
               pump' = [pump EXCEPT !.at = "idle", !.last = [NotTracked EXCEPT !.id = n]]
    BY <1>7 DEF TrackInject
  <2>2. [NotTracked EXCEPT !.id = n] \in [id : Nat, escalated : BOOLEAN, turned : BOOLEAN]
    BY DEF NotTracked
  <2>. QED  BY <1>7, <2>1, <2>2 DEF TrackInject
<1>8. CASE ResetWaits
  BY <1>8 DEF ResetWaits
<1>9. CASE EscalationFails
  BY <1>9 DEF EscalationFails, AfterEscalation
<1>10. CASE InjectFails
  <2>1. PICK p \in {"idle", "ack"} : pump' = [pump EXCEPT !.at = p]
    BY <1>10 DEF InjectFails
  <2>2. faults' \in 0..MaxFaults
    BY <1>10 DEF InjectFails
  <2>. QED  BY <1>10, <2>1, <2>2 DEF InjectFails
<1>11. CASE AckFails
  BY <1>11 DEF AckFails
<1>12. CASE TurnStarts
  BY <1>12 DEF TurnStarts, Tracking
<1>13. CASE Crash
  BY <1>13 DEF Crash, NewPump, NotTracked, Slots
<1>. QED
  BY <1>1, <1>2, <1>3, <1>4, <1>5, <1>6, <1>7, <1>8, <1>9, <1>10, <1>11, <1>12, <1>13
     DEF Tick, TickFails

LEMMA StutterTypes == TypeOK /\ UNCHANGED deliveryVars => TypeOK'
  BY DEF TypeOK, deliveryVars, Messages, Slots, Items

LEMMA NextTypes == TypeOK /\ [Next]_deliveryVars => TypeOK'
  BY SenderTypes, ReceiverTypes, PumpTypes, StutterTypes DEF Next

(* Every reachable state is type correct, for any senders and bounds.      *)
THEOREM DeliveryTypeCorrect == Spec => []TypeOK
  BY InitTypes, NextTypes, PTL DEF Spec

-----------------------------------------------------------------------------
(* Nothing is lost, no reset is dropped *)

(* What the tick has injected the agent was shown. *)
DoneIsSeen == pump.done \subseteq hist.seen

(* A reset on its way to its ack was performed. *)
AckedIsPerformed == pump.at = "ackReset" => pump.reset \in hist.performed

DeliveryInv == DoneIsSeen /\ NothingLost /\ AckedIsPerformed /\ NewestResetHonoured

LEMMA DeliveryInvKept ==
  TypeOK /\ TypeOK' /\ DeliveryInv /\ [Next]_deliveryVars => DeliveryInv'
<1>. SUFFICES ASSUME TypeOK, TypeOK', DeliveryInv, [Next]_deliveryVars PROVE DeliveryInv'
  OBVIOUS
<1>. USE DEF DeliveryInv, DoneIsSeen, AckedIsPerformed, NewestResetHonoured
<1>a. ASSUME UNCHANGED <<inbox, hist>>, DoneIsSeen', AckedIsPerformed' PROVE DeliveryInv'
  BY <1>a DEF NothingLost, Undelivered
<1>1. ASSUME NEW i \in Items, Sender(i) PROVE DeliveryInv'
  BY <1>1, <1>a DEF Sender, Submit, Attempt, Answered, CallFails
<1>2. CASE ContinueAsNew
  <2>1. inbox' = [inbox EXCEPT !.messages = Undelivered, !.run = inbox.run + 1,
                               !.reset = CarriedReset, !.input = CarriedReset]
    BY <1>2 DEF ContinueAsNew
  <2>2. /\ inbox'.messages = Undelivered /\ inbox'.next = inbox.next
        /\ inbox'.reset = CarriedReset
    BY <2>1 DEF TypeOK
  <2>3. Undelivered' = Undelivered
    BY <2>2 DEF Undelivered
  <2>4. NewestResetHonoured'
    BY <1>2, <2>2 DEF ContinueAsNew, CarriedReset
  <2>. QED  BY <1>2, <2>2, <2>3, <2>4 DEF ContinueAsNew, NothingLost
<1>3. ASSUME NEW c \in wire, Land(c) PROVE DeliveryInv'
  <2>1. CASE outbox[c.item].kind = "cue"
    <3>1. /\ inbox'.messages = inbox.messages \cup {Message(inbox.next, c.item)}
          /\ inbox'.next = inbox.next + 1
          /\ inbox'.reset = inbox.reset
          /\ hist'.seen = hist.seen /\ hist'.performed = hist.performed
          /\ hist'.newest = hist.newest
      <4>1. /\ inbox' = [inbox EXCEPT !.messages = @ \cup {Message(inbox.next, c.item)},
                                      !.next = inbox.next + 1]
            /\ hist' = [hist EXCEPT !.arrived = @ \cup {Message(inbox.next, c.item)}]
        BY <1>3, <2>1 DEF Land, ReceiveMessage
      <4>. QED  BY <4>1 DEF TypeOK
    <3>2. Undelivered' = Undelivered \cup {Message(inbox.next, c.item)}
      BY <3>1 DEF Undelivered, Message
    <3>3. NothingLost'
      <4>1. ASSUME NEW n \in 1..(inbox'.next - 1)
            PROVE  (\E m \in Undelivered' : m.id = n) \/ n \in hist'.seen
        <5>1. n \in 1..(inbox.next - 1) \/ n = inbox.next
          <6>1. inbox.next \in Nat \ {0}
            BY DEF TypeOK
          <6>. QED  BY <3>1, <6>1
        <5>2. Message(inbox.next, c.item).id = inbox.next
          BY DEF Message
        <5>. QED  BY <3>1, <3>2, <5>1, <5>2 DEF NothingLost
      <4>. QED  BY <4>1 DEF NothingLost
    <3>. QED  BY <1>3, <3>1, <3>3 DEF Land
  <2>2. CASE outbox[c.item].kind # "cue"
    <3>1. /\ inbox'.messages = inbox.messages /\ inbox'.next = inbox.next
          /\ inbox'.reset = c.item
          /\ hist'.seen = hist.seen /\ hist'.performed = hist.performed
          /\ hist'.newest = c.item
      BY <1>3, <2>2 DEF Land, SetPendingReset, TypeOK
    <3>2. Undelivered' = Undelivered
      BY <3>1 DEF Undelivered
    <3>. QED  BY <1>3, <3>1, <3>2 DEF Land, NothingLost
  <2>. QED  BY <2>1, <2>2
<1>4. CASE FetchIntake
  <2>1. pump'.done = {} /\ pump'.at \in {"escalate", "reset"}
    BY <1>4 DEF FetchIntake, TypeOK
  <2>. QED  BY <1>4, <1>a, <2>1 DEF FetchIntake
<1>5. CASE PerformReset
  <2>1. /\ hist'.performed = hist.performed \cup {pump.reset} /\ hist'.seen = hist.seen
        /\ hist'.newest = hist.newest
        /\ pump'.reset = pump.reset /\ pump'.done = pump.done
    BY <1>5 DEF PerformReset, TypeOK
  <2>. QED  BY <1>5, <2>1 DEF PerformReset, NothingLost, Undelivered
<1>6. CASE AckReset
  <2>1. /\ inbox'.reset = IF inbox.reset = pump.reset THEN None ELSE inbox.reset
        /\ inbox'.messages = inbox.messages /\ inbox'.next = inbox.next
        /\ pump'.done = pump.done /\ pump'.at = "escalate"
    BY <1>6 DEF AckReset, ClearReset, TypeOK
  <2>2. NothingLost'
    BY <1>6, <2>1 DEF AckReset, NothingLost, Undelivered
  <2>. QED  BY <1>6, <2>1, <2>2 DEF AckReset
<1>7. CASE MaybeEscalate
  <2>1. pump'.done = pump.done /\ pump'.at \in {"idle", "inject"}
    <3>1. AfterEscalation \in {"idle", "inject"}
      BY DEF AfterEscalation
    <3>2. pump'.done = pump.done /\ pump'.at = AfterEscalation
      <4>1. CASE NeedsEscalation
        BY <1>7, <4>1 DEF MaybeEscalate, Escalate, TypeOK
      <4>2. CASE ~NeedsEscalation
        <5>1. PICK last : pump' = [pump EXCEPT !.at = AfterEscalation, !.last = last]
          BY <1>7, <4>2 DEF MaybeEscalate, Escalate
        <5>. QED  BY <5>1 DEF TypeOK
      <4>. QED  BY <4>1, <4>2
    <3>. QED  BY <3>1, <3>2
  <2>. QED  BY <1>7, <1>a, <2>1 DEF MaybeEscalate, Escalate
<1>8. ASSUME NEW m \in pump.messages, NEW wakes \in BOOLEAN, InjectCue(m, wakes)
      PROVE DeliveryInv'
  <2>1. /\ hist'.seen = hist.seen \cup {m.id} /\ hist'.performed = hist.performed
        /\ hist'.newest = hist.newest
        /\ pump'.done = pump.done \cup {m.id} /\ pump'.at \in {"ack", "inject"}
    BY <1>8 DEF InjectCue, AfterInject, TypeOK
  <2>. QED  BY <1>8, <2>1 DEF InjectCue, NothingLost, Undelivered
<1>9. CASE AckDelivered
  <2>1. /\ inbox'.messages = {[m EXCEPT !.delivered = @ \/ m.id \in pump.done] : m \in inbox.messages}
        /\ inbox'.next = inbox.next /\ inbox'.reset = inbox.reset
        /\ pump'.done = pump.done /\ pump'.at = "acked"
    BY <1>9 DEF AckDelivered, MarkDelivered, TypeOK
  <2>2. ASSUME NEW m \in Undelivered, m.id \notin pump.done
        PROVE  \E o \in Undelivered' : o.id = m.id
    <3>1. m \in Messages /\ m \in inbox.messages /\ ~m.delivered
      BY DEF Undelivered, TypeOK
    <3>2. [m EXCEPT !.delivered = @ \/ m.id \in pump.done] \in inbox'.messages
      BY <2>1, <3>1
    <3>3. [m EXCEPT !.delivered = @ \/ m.id \in pump.done] = m
      BY <2>2, <3>1 DEF Messages
    <3>. QED  BY <3>1, <3>2, <3>3 DEF Undelivered
  <2>3. NothingLost'
    BY <1>9, <2>1, <2>2 DEF AckDelivered, NothingLost
  <2>. QED  BY <1>9, <2>1, <2>3 DEF AckDelivered
<1>10. CASE TrackInject
  <2>1. pump'.done = pump.done /\ pump'.at = "idle"
    BY <1>10 DEF TrackInject, TypeOK
  <2>. QED  BY <1>10, <1>a, <2>1 DEF TrackInject
<1>11. CASE TickFails \/ TurnStarts \/ Crash
  <2>1. ASSUME NEW m \in pump.messages, InjectCue(m, FALSE) PROVE DeliveryInv'
    BY <2>1, <1>8
  <2>2. CASE ResetWaits \/ EscalationFails \/ InjectFails \/ AckFails
    <3>1. pump'.done = pump.done /\ pump'.at \in {"escalate", "idle", "inject", "ack"}
      BY <2>2 DEF ResetWaits, EscalationFails, InjectFails, AckFails, AfterEscalation, TypeOK
    <3>. QED  BY <1>a, <2>2, <3>1 DEF ResetWaits, EscalationFails, InjectFails, AckFails
  <2>3. CASE TurnStarts
    <3>1. pump'.done = pump.done /\ pump'.at = pump.at /\ pump'.reset = pump.reset
      BY <2>3 DEF TurnStarts, TypeOK
    <3>. QED  BY <1>a, <2>3, <3>1 DEF TurnStarts
  <2>4. CASE Crash
    BY <1>a, <2>4 DEF Crash, NewPump
  <2>. QED  BY <1>11, <2>1, <2>2, <2>3, <2>4 DEF TickFails
<1>12. CASE UNCHANGED deliveryVars
  BY <1>12, <1>a DEF deliveryVars
<1>. QED
  BY <1>1, <1>2, <1>3, <1>4, <1>5, <1>6, <1>7, <1>8, <1>9, <1>10, <1>11, <1>12
     DEF Next, Receiver, Tick

LEMMA DeliveryInvStarts == Init => DeliveryInv
  BY DEF Init, DeliveryInv, DoneIsSeen, AckedIsPerformed, NewestResetHonoured, NothingLost, NewPump

LEMMA DeliveryInvHolds == Spec => []DeliveryInv
<1>1. TypeOK /\ [Next]_deliveryVars => TypeOK'
  BY NextTypes
<1>. QED  BY <1>1, DeliveryTypeCorrect, DeliveryInvStarts, DeliveryInvKept, PTL DEF Spec

(* A cue that arrived is undelivered at its session, or the agent was      *)
(* shown it, through failed acks, crashes and continueAsNew.               *)
THEOREM NothingIsLost == Spec => []NothingLost
  BY DeliveryInvHolds, PTL DEF DeliveryInv

(* The newest reset waits in its slot until it is performed.               *)
THEOREM NewestResetIsHonoured == Spec => []NewestResetHonoured
  BY DeliveryInvHolds, PTL DEF DeliveryInv

-----------------------------------------------------------------------------
(* Order *)

(* Whatever arrived before a message of the intake is in the intake as     *)
(* well, or was shown.                                                     *)
IntakeIsPrefix ==
  \A m \in pump.messages : \A n \in 1..(m.id - 1) :
    n \in hist.seen \/ \E o \in pump.messages : o.id = n

(* The agent is shown the messages as they arrived.                        *)
SeenIsPrefix == \A n \in hist.seen : \A o \in 1..(n - 1) : o \in hist.seen

PrefixInv == IntakeIsPrefix /\ SeenIsPrefix

LEMMA PrefixKept ==
  TypeOK /\ DeliveryInv /\ PrefixInv /\ [Next]_deliveryVars => PrefixInv'
<1>. SUFFICES ASSUME TypeOK, DeliveryInv, PrefixInv, [Next]_deliveryVars PROVE PrefixInv'
  OBVIOUS
<1>. USE DEF PrefixInv, IntakeIsPrefix, SeenIsPrefix
<1>a. ASSUME pump'.messages = pump.messages, hist'.seen = hist.seen PROVE PrefixInv'
  BY <1>a
<1>1. CASE FetchIntake
  <2>1. pump'.messages = Undelivered /\ hist' = hist
    BY <1>1 DEF FetchIntake, TypeOK
  <2>2. ASSUME NEW m \in Undelivered, NEW n \in 1..(m.id - 1)
        PROVE  n \in hist.seen \/ \E o \in Undelivered : o.id = n
    <3>1. m.id \in Nat /\ m.id < inbox.next /\ inbox.next \in Nat
      BY DEF Undelivered, TypeOK, Messages
    <3>2. n \in 1..(inbox.next - 1)
      BY <3>1
    <3>. QED  BY <3>2 DEF DeliveryInv, NothingLost
  <2>. QED  BY <2>1, <2>2
<1>2. ASSUME NEW m \in pump.messages, NEW wakes \in BOOLEAN, InjectCue(m, wakes)
      PROVE PrefixInv'
  <2>1. hist'.seen = hist.seen \cup {m.id} /\ pump'.messages = pump.messages
    BY <1>2 DEF InjectCue, TypeOK
  <2>2. \A n \in 1..(m.id - 1) : n \in hist.seen
    <3>1. \A o \in pump.messages : o.id < m.id => o.id \in hist.seen
      BY <1>2 DEF InjectCue, IsNextCue, DeliveryInv, DoneIsSeen
    <3>2. m.id \in Nat
      BY DEF TypeOK, Messages
    <3>. QED  BY <3>1, <3>2
  <2>. QED  BY <2>1, <2>2
<1>3. CASE Crash
  BY <1>3 DEF Crash, NewPump
<1>4. ASSUME NEW i \in Items, Sender(i) PROVE PrefixInv'
  BY <1>4, <1>a DEF Sender, Submit, Attempt, Answered, CallFails
<1>5. CASE Receiver
  <2>1. UNCHANGED pump /\ hist'.seen = hist.seen
    BY <1>5 DEF Receiver, ContinueAsNew, Land, ReceiveMessage, SetPendingReset, TypeOK
  <2>. QED  BY <1>a, <2>1
<1>6. CASE MaybeEscalate
  <2>1. CASE NeedsEscalation
    BY <1>6, <1>a, <2>1 DEF MaybeEscalate, Escalate, TypeOK
  <2>2. CASE ~NeedsEscalation
    <3>1. PICK at, last : pump' = [pump EXCEPT !.at = at, !.last = last]
      BY <1>6, <2>2 DEF MaybeEscalate, Escalate
    <3>2. pump'.messages = pump.messages
      BY <3>1 DEF TypeOK
    <3>. QED  BY <1>6, <1>a, <3>2 DEF MaybeEscalate, Escalate
  <2>. QED  BY <2>1, <2>2
<1>7. CASE PerformReset \/ AckReset \/ AckDelivered \/ TrackInject \/ TurnStarts
  BY <1>7, <1>a DEF PerformReset, AckReset, AckDelivered, TrackInject, TurnStarts, TypeOK
<1>8. CASE ResetWaits \/ EscalationFails \/ InjectFails \/ AckFails
  BY <1>8, <1>a DEF ResetWaits, EscalationFails, InjectFails, AckFails, TypeOK
<1>9. CASE UNCHANGED deliveryVars
  BY <1>9, <1>a DEF deliveryVars
<1>. QED
  BY <1>1, <1>2, <1>3, <1>4, <1>5, <1>6, <1>7, <1>8, <1>9 DEF Next, Tick, TickFails

-----------------------------------------------------------------------------
(* The order of a sender's items *)

Closed(i) == outbox[i].status \in {"delivered", "failed"}
Delivered(i) == outbox[i] = [kind |-> "cue", status |-> "delivered"]
Arrived(i) == \E a \in hist.arrived : a.item = i
OnWire(i) == \E c \in wire : c.item = i
Numbers == 1..MaxItems

(* Items are submitted in turn, and one leaves its sender only when those  *)
(* before it were closed.                                                  *)
SubmittedInTurn ==
  \A s \in Senders : \A j \in Numbers : \A i \in 1..(j - 1) :
    outbox[<<s, j>>].status # "none" => outbox[<<s, i>>].status # "none"
SentInTurn ==
  \A s \in Senders : \A j \in Numbers : OnWire(<<s, j>>) \/ Arrived(<<s, j>>) =>
    /\ outbox[<<s, j>>].status # "none"
    /\ \A i \in 1..(j - 1) : Closed(<<s, i>>)

(* A call is for the item whose turn it is; when it landed, that arrived.  *)
CallHasItem ==
  \A s \in Senders : call[s] # NoCall => \E n \in Numbers : IsNext(<<s, n>>)
LandedArrived ==
  \A s \in Senders : \A n \in Numbers :
    IsNext(<<s, n>>) /\ call[s].landed /\ outbox[<<s, n>>].kind = "cue" => Arrived(<<s, n>>)
DeliveredArrived ==
  \A s \in Senders : \A n \in Numbers : Delivered(<<s, n>>) => Arrived(<<s, n>>)

(* A cue that was delivered arrived before every later item of its sender. *)
ArrivedInTurn ==
  \A s \in Senders : \A j \in Numbers : \A i \in 1..(j - 1) : Delivered(<<s, i>>) =>
    \A b \in hist.arrived : b.item = <<s, j>> =>
      \E a \in hist.arrived : a.item = <<s, i>> /\ a.id < b.id

OrderInv == /\ SubmittedInTurn /\ SentInTurn
            /\ CallHasItem /\ LandedArrived
            /\ DeliveredArrived /\ ArrivedInTurn

LEMMA ItemsArePairs ==
  /\ \A s \in Senders : \A n \in Numbers : <<s, n>> \in Items
  /\ \A i \in Items : \E s \in Senders : \E n \in Numbers : i = <<s, n>>
  BY DEF Items, Numbers

(* Two items of a sender cannot both be next. *)
LEMMA NextIsOne ==
  ASSUME TypeOK, NEW s \in Senders, NEW m \in Numbers, NEW n \in Numbers,
         IsNext(<<s, m>>), IsNext(<<s, n>>)
  PROVE  m = n
  BY DeliveryBoundsAssumption DEF IsNext, Numbers

(* While nothing arrives, ArrivedInTurn is about what becomes delivered.    *)
LEMMA ArrivedInTurnKept ==
  ASSUME ArrivedInTurn, hist' = hist,
         \A s \in Senders : \A j \in Numbers : \A i \in 1..(j - 1) :
           Arrived(<<s, j>>) /\ Delivered(<<s, i>>)' => Delivered(<<s, i>>)
  PROVE  ArrivedInTurn'
<1>. SUFFICES ASSUME NEW s \in Senders, NEW j \in Numbers, NEW i \in 1..(j - 1),
                     Delivered(<<s, i>>)', NEW b \in hist'.arrived, b.item = <<s, j>>
              PROVE  \E a \in hist'.arrived : a.item = <<s, i>> /\ a.id < b.id
  <2>. HIDE DEF Delivered
  <2>. QED  BY ZenonT(60) DEF ArrivedInTurn
<1>1. b \in hist.arrived
  OBVIOUS
<1>2. Delivered(<<s, i>>)
  BY <1>1 DEF Arrived
<1>3. \E a \in hist.arrived : a.item = <<s, i>> /\ a.id < b.id
  BY <1>1, <1>2 DEF ArrivedInTurn
<1>. QED  BY <1>3

LEMMA SubmitKeepsOrder ==
  ASSUME TypeOK, OrderInv, NEW s \in Senders, NEW n \in Numbers, NEW k \in Kinds,
         Submit(<<s, n>>, k)
  PROVE  OrderInv'
<1>. USE DeliveryBoundsAssumption DEF Numbers
<1>1. /\ outbox[<<s, n>>].status = "none"
      /\ \A m \in 1..(n - 1) : outbox[<<s, m>>].status # "none"
      /\ outbox' = [outbox EXCEPT ![<<s, n>>] = [kind |-> k, status |-> "pending"]]
      /\ UNCHANGED <<call, wire, hist>>
  BY DEF Submit
<1>2. outbox \in [Items -> [kind : {"none"} \cup Kinds,
                           status : {"none", "pending", "delivered", "failed"}]]
  BY DEF TypeOK
<1>3. \A i \in Items : i # <<s, n>> => outbox'[i] = outbox[i]
  BY <1>1, <1>2
<1>4. outbox'[<<s, n>>] = [kind |-> k, status |-> "pending"]
  BY <1>1, <1>2, ItemsArePairs
<1>5. SubmittedInTurn'
  BY <1>1, <1>3, <1>4, ItemsArePairs DEF OrderInv, SubmittedInTurn
<1>6. SentInTurn'
  <2>1. \A i \in Items : Closed(i) => Closed(i)'
    BY <1>1, <1>3 DEF Closed
  <2>2. \A i \in Items : outbox[i].status # "none" => outbox'[i].status # "none"
    BY <1>1, <1>3
  <2>. QED  BY <1>1, <2>1, <2>2, ItemsArePairs DEF OrderInv, SentInTurn, OnWire, Arrived
<1>7. \A q \in Senders : \A m \in Numbers : <<q, m>> # <<s, n>> /\ IsNext(<<q, m>>)' => IsNext(<<q, m>>)
  BY <1>1, <1>3, <1>4, ItemsArePairs DEF IsNext
<1>8. \A q \in Senders : \A m \in Numbers : IsNext(<<q, m>>) => IsNext(<<q, m>>)'
  <2>1. ASSUME NEW q \in Senders, NEW m \in Numbers, IsNext(<<q, m>>),
               NEW i \in 1..(m - 1)
        PROVE  <<q, i>> # <<s, n>>
    BY <1>1, <2>1 DEF IsNext, OrderInv, SubmittedInTurn
  <2>. QED  BY <1>1, <1>3, <2>1, ItemsArePairs DEF IsNext
<1>9. CallHasItem'
  BY <1>1, <1>8 DEF OrderInv, CallHasItem
<1>10. LandedArrived'
  <2>1. ASSUME NEW q \in Senders, NEW m \in Numbers, IsNext(<<q, m>>)', call'[q].landed,
               outbox'[<<q, m>>].kind = "cue"
        PROVE  Arrived(<<q, m>>)'
    <3>1. CASE <<q, m>> = <<s, n>>
      <4>1. call[s] # NoCall
        BY <1>1, <2>1, <3>1 DEF NoCall
      <4>2. PICK o \in Numbers : IsNext(<<s, o>>)
        BY <4>1 DEF OrderInv, CallHasItem
      <4>3. o # n /\ IsNext(<<s, o>>)' /\ IsNext(<<s, n>>)'
        BY <1>1, <1>8, <2>1, <3>1, <4>2 DEF IsNext
      <4>. QED  BY <4>3 DEF IsNext
    <3>2. CASE <<q, m>> # <<s, n>>
      BY <1>1, <1>3, <1>7, <2>1, <3>2, ItemsArePairs DEF OrderInv, LandedArrived, Arrived
    <3>. QED  BY <3>1, <3>2
  <2>. QED  BY <2>1 DEF LandedArrived
<1>11. \A i \in Items : Delivered(i)' => Delivered(i)
  BY <1>3, <1>4 DEF Delivered
<1>12. DeliveredArrived' /\ ArrivedInTurn'
  <2>1. \A q \in Senders : \A j \in Numbers : \A i \in 1..(j - 1) : <<q, i>> \in Items
    BY ItemsArePairs
  <2>2. ArrivedInTurn'
    BY <1>1, <1>11, <2>1, ArrivedInTurnKept DEF OrderInv
  <2>. QED  BY <1>1, <1>11, <2>2, ItemsArePairs DEF OrderInv, DeliveredArrived, Arrived
<1>. QED  BY <1>5, <1>6, <1>9, <1>10, <1>12 DEF OrderInv

(* A signal goes out for the item whose turn it is, as a call begins or is *)
(* retried.                                                                *)
LEMMA SendKeepsOrder ==
  ASSUME TypeOK, OrderInv, NEW s \in Senders, NEW n \in Numbers, NEW a \in 1..MaxAttempts,
         IsNext(<<s, n>>),
         call' = [call EXCEPT ![s] = [attempt |-> a, landed |-> FALSE]],
         wire' = wire \cup {Signal(<<s, n>>, a)},
         UNCHANGED <<outbox, hist>>
  PROVE  OrderInv'
<1>. USE DeliveryBoundsAssumption DEF Numbers
<1>1. \A i : IsNext(i)' <=> IsNext(i)
  BY DEF IsNext
<1>2. \A i \in Items : OnWire(i)' => OnWire(i) \/ i = <<s, n>>
  BY DEF OnWire, Signal
<1>3. /\ outbox[<<s, n>>].status # "none"
      /\ \A i \in 1..(n - 1) : Closed(<<s, i>>)
  <2>1. ASSUME NEW i \in 1..(n - 1) PROVE Closed(<<s, i>>)
    <3>1. outbox[<<s, i>>].status \notin {"none", "pending"}
      BY DEF IsNext, OrderInv, SubmittedInTurn
    <3>. QED  BY <3>1, ItemsArePairs DEF Closed, TypeOK
  <2>. QED  BY <2>1 DEF IsNext
<1>4. SentInTurn'
  BY <1>2, <1>3, ItemsArePairs DEF OrderInv, SentInTurn, Arrived, Closed
<1>5. CallHasItem' /\ LandedArrived'
  <2>1. \A q \in Senders : q # s => call'[q] = call[q]
    BY DEF TypeOK
  <2>2. ~call'[s].landed
    BY DEF TypeOK
  <2>. QED  BY <1>1, <2>1, <2>2 DEF OrderInv, CallHasItem, LandedArrived, Arrived
<1>6. ArrivedInTurn'
  BY ArrivedInTurnKept DEF OrderInv, Delivered
<1>. QED
  BY <1>4, <1>5, <1>6 DEF OrderInv, SubmittedInTurn, DeliveredArrived, Arrived, Delivered

(* An item is closed: as delivered, when its signal landed, or as failed.  *)
LEMMA CloseKeepsOrder ==
  ASSUME TypeOK, OrderInv, NEW s \in Senders, NEW n \in Numbers,
         NEW status \in {"delivered", "failed"},
         IsNext(<<s, n>>), Close(<<s, n>>, status), UNCHANGED <<wire, hist>>,
         status = "delivered" => call[s].landed
  PROVE  OrderInv'
<1>. USE DeliveryBoundsAssumption DEF Numbers
<1>1. outbox \in [Items -> [kind : {"none"} \cup Kinds,
                           status : {"none", "pending", "delivered", "failed"}]]
  BY DEF TypeOK
<1>2. \A i \in Items : i # <<s, n>> => outbox'[i] = outbox[i]
  BY <1>1 DEF Close
<1>3. outbox'[<<s, n>>] = [kind |-> outbox[<<s, n>>].kind, status |-> status]
  BY <1>1, ItemsArePairs DEF Close
<1>4. call'[s] = NoCall /\ \A q \in Senders : q # s => call'[q] = call[q]
  BY DEF Close, TypeOK
<1>5. \A i \in Items : Closed(i) => Closed(i)'
  BY <1>2, <1>3 DEF Closed
<1>6. \A i \in Items : outbox[i].status # "none" <=> outbox'[i].status # "none"
  BY <1>2, <1>3 DEF IsNext
<1>7. SubmittedInTurn' /\ SentInTurn'
  <2>1. \A q \in Senders : \A j \in Numbers : \A i \in 1..(j - 1) : <<q, i>> \in Items
    BY ItemsArePairs
  <2>2. SubmittedInTurn'
    BY <1>6, <2>1, ItemsArePairs DEF OrderInv, SubmittedInTurn
  <2>3. \A i \in Items : (OnWire(i)' <=> OnWire(i)) /\ (Arrived(i)' <=> Arrived(i))
    BY DEF OnWire, Arrived
  <2>4. SentInTurn'
    BY <1>5, <1>6, <2>1, <2>3, ItemsArePairs DEF OrderInv, SentInTurn
  <2>. QED  BY <2>2, <2>4
<1>8. CallHasItem' /\ LandedArrived'
  <2>1. ASSUME NEW q \in Senders, q # s, NEW m \in Numbers
        PROVE  /\ IsNext(<<q, m>>)' <=> IsNext(<<q, m>>)
               /\ outbox'[<<q, m>>] = outbox[<<q, m>>]
    <3>1. \A o \in Numbers : outbox'[<<q, o>>] = outbox[<<q, o>>]
      BY <1>2, <2>1, ItemsArePairs
    <3>. QED  BY <3>1 DEF IsNext
  <2>2. ~call'[s].landed
    BY <1>4 DEF NoCall
  <2>3. CallHasItem'
    BY <1>4, <2>1 DEF OrderInv, CallHasItem
  <2>4. LandedArrived'
    BY <1>4, <2>1, <2>2 DEF OrderInv, LandedArrived, Arrived
  <2>. QED  BY <2>3, <2>4
<1>9. \A i \in Items : Delivered(i)' => Delivered(i) \/ i = <<s, n>>
  BY <1>2 DEF Delivered
<1>10. DeliveredArrived'
  <2>1. Delivered(<<s, n>>)' => Arrived(<<s, n>>)
    BY <1>3 DEF Delivered, OrderInv, LandedArrived
  <2>. QED  BY <1>9, <2>1, ItemsArePairs DEF OrderInv, DeliveredArrived, Arrived
<1>11. ArrivedInTurn'
  <2>1. ASSUME NEW q \in Senders, NEW j \in Numbers, NEW i \in 1..(j - 1),
               Arrived(<<q, j>>), Delivered(<<q, i>>)'
        PROVE  Delivered(<<q, i>>)
    <3>1. Closed(<<q, i>>)
      BY <2>1 DEF OrderInv, SentInTurn
    <3>2. <<q, i>> # <<s, n>>
      BY <3>1 DEF Closed, IsNext
    <3>. QED  BY <1>9, <2>1, <3>2, ItemsArePairs
  <2>. QED  BY <2>1, ArrivedInTurnKept DEF OrderInv
<1>. QED  BY <1>7, <1>8, <1>10, <1>11 DEF OrderInv

LEMMA LandKeepsOrder ==
  ASSUME TypeOK, OrderInv, NEW c \in wire, Land(c) PROVE OrderInv'
<1>. USE DeliveryBoundsAssumption DEF Numbers
<1>1. PICK s \in Senders, n \in Numbers : c.item = <<s, n>>
  BY ItemsArePairs DEF TypeOK
<1>2. UNCHANGED outbox /\ wire' \subseteq wire
  BY DEF Land
<1>3. /\ \A i : IsNext(i)' <=> IsNext(i)
      /\ \A i : Delivered(i)' <=> Delivered(i)
      /\ \A i : Closed(i)' <=> Closed(i)
  BY <1>2 DEF IsNext, Delivered, Closed
<1>4. hist.arrived \subseteq hist'.arrived
  BY DEF Land, ReceiveMessage, SetPendingReset, TypeOK
<1>5. \A a \in hist'.arrived : a \in hist.arrived \/ (a.item = <<s, n>> /\ a.id = inbox.next)
  BY <1>1 DEF Land, ReceiveMessage, SetPendingReset, Message, TypeOK
<1>6. outbox[<<s, n>>].kind = "cue" => Arrived(<<s, n>>)'
  <2>1. ASSUME outbox[<<s, n>>].kind = "cue" PROVE Arrived(<<s, n>>)'
    <3>1. hist' = [hist EXCEPT !.arrived = @ \cup {Message(inbox.next, c.item)}]
      BY <1>1, <2>1 DEF Land, ReceiveMessage
    <3>2. Message(inbox.next, c.item) \in hist'.arrived
      BY <3>1 DEF TypeOK
    <3>. QED  BY <1>1, <3>2 DEF Arrived, Message
  <2>. QED  BY <2>1
<1>7. SubmittedInTurn'
  BY <1>2 DEF OrderInv, SubmittedInTurn
<1>8. SentInTurn'
  <2>1. \A i : OnWire(i)' => OnWire(i)
    BY <1>2 DEF OnWire
  <2>2. \A i : Arrived(i)' => Arrived(i) \/ i = <<s, n>>
    BY <1>5 DEF Arrived
  <2>3. OnWire(<<s, n>>)
    BY <1>1 DEF OnWire
  <2>. QED  BY <1>2, <1>3, <2>1, <2>2, <2>3 DEF OrderInv, SentInTurn
<1>9. \A i : Arrived(i) => Arrived(i)'
  BY <1>4 DEF Arrived
<1>10. CallHasItem' /\ LandedArrived'
  <2>1. CASE IsNext(<<s, n>>) /\ call[s].attempt = c.attempt
    <3>1. call' = [call EXCEPT ![s] = [attempt |-> c.attempt, landed |-> TRUE]]
      BY <1>1, <2>1 DEF Land
    <3>2. \A q \in Senders : q # s => call'[q] = call[q]
      BY <3>1 DEF TypeOK
    <3>3. CallHasItem'
      BY <1>3, <2>1, <3>2 DEF OrderInv, CallHasItem
    <3>4. ASSUME NEW q \in Senders, NEW m \in Numbers, IsNext(<<q, m>>), call'[q].landed,
                 outbox[<<q, m>>].kind = "cue"
          PROVE  Arrived(<<q, m>>)'
      <4>1. CASE q = s
        <5>1. m = n
          BY <2>1, <3>4, <4>1, NextIsOne
        <5>. QED  BY <1>6, <3>4, <4>1, <5>1
      <4>2. CASE q # s
        BY <1>9, <3>2, <3>4, <4>2 DEF OrderInv, LandedArrived
      <4>. QED  BY <4>1, <4>2
    <3>5. LandedArrived'
      BY <1>2, <1>3, <3>4 DEF LandedArrived
    <3>. QED  BY <3>3, <3>5
  <2>2. CASE ~(IsNext(<<s, n>>) /\ call[s].attempt = c.attempt)
    <3>1. call' = call
      BY <1>1, <2>2 DEF Land
    <3>. QED  BY <1>2, <1>3, <1>9, <3>1 DEF OrderInv, CallHasItem, LandedArrived
  <2>. QED  BY <2>1, <2>2
<1>11. DeliveredArrived'
  BY <1>3, <1>9 DEF OrderInv, DeliveredArrived
<1>12. ASSUME NEW q \in Senders, NEW j \in Numbers, NEW i \in 1..(j - 1), Delivered(<<q, i>>),
              NEW b \in hist'.arrived, b.item = <<q, j>>
       PROVE  \E a \in hist'.arrived : a.item = <<q, i>> /\ a.id < b.id
  <2>1. CASE b \in hist.arrived
    BY <1>4, <1>12, <2>1 DEF OrderInv, ArrivedInTurn
  <2>2. CASE b.id = inbox.next
    <3>1. i \in Numbers
      OBVIOUS
    <3>2. PICK a \in hist.arrived : a.item = <<q, i>>
      BY <1>12, <3>1 DEF OrderInv, DeliveredArrived, Arrived
    <3>3. a.id < inbox.next
      BY DEF TypeOK
    <3>. QED  BY <1>4, <2>2, <3>2, <3>3
  <2>. QED  BY <1>5, <2>1, <2>2
<1>13. ArrivedInTurn'
  <2>. SUFFICES ASSUME NEW q \in Senders, NEW j \in Numbers, NEW i \in 1..(j - 1),
                       Delivered(<<q, i>>)', NEW b \in hist'.arrived, b.item = <<q, j>>
                PROVE  \E a \in hist'.arrived : a.item = <<q, i>> /\ a.id < b.id
    <3>. HIDE DEF Delivered
    <3>. QED  BY ZenonT(60) DEF ArrivedInTurn
  <2>1. Delivered(<<q, i>>)
    BY <1>3
  <2>. QED  BY <1>12, <2>1
<1>. QED  BY <1>7, <1>8, <1>10, <1>11, <1>13 DEF OrderInv

(* The receiving session's rollover and the pump leave all of it alone. *)
LEMMA PumpKeepsOrder ==
  ASSUME TypeOK, OrderInv,
         Tick \/ TickFails \/ TurnStarts \/ Crash \/ ContinueAsNew \/ UNCHANGED deliveryVars
  PROVE  OrderInv'
<1>1. UNCHANGED <<outbox, call, wire>> /\ hist'.arrived = hist.arrived
  <2>1. CASE TickFails \/ TurnStarts \/ Crash \/ ContinueAsNew \/ UNCHANGED deliveryVars
    BY <2>1 DEF TickFails, ResetWaits, EscalationFails, InjectCue, InjectFails, AckFails,
                TurnStarts, Crash, ContinueAsNew, deliveryVars, TypeOK
  <2>2. CASE Tick
    BY <2>2 DEF Tick, FetchIntake, PerformReset, AckReset, MaybeEscalate, Escalate, InjectCue,
                AckDelivered, TrackInject, TypeOK
  <2>. QED  BY <2>1, <2>2
<1>2. /\ \A i : IsNext(i)' <=> IsNext(i)
      /\ \A i : Delivered(i)' <=> Delivered(i)
      /\ \A i : Closed(i)' <=> Closed(i)
      /\ \A i : Arrived(i)' <=> Arrived(i)
      /\ \A i : OnWire(i)' <=> OnWire(i)
  BY <1>1 DEF IsNext, Delivered, Closed, Arrived, OnWire
<1>3. SubmittedInTurn' /\ SentInTurn' /\ CallHasItem' /\ LandedArrived' /\ DeliveredArrived'
  BY <1>1, <1>2 DEF OrderInv, SubmittedInTurn, SentInTurn, CallHasItem, LandedArrived,
                    DeliveredArrived
<1>4. ArrivedInTurn'
  <2>. HIDE DEF Delivered
  <2>. QED  BY <1>1, <1>2, Zenon DEF OrderInv, ArrivedInTurn
<1>. QED  BY <1>3, <1>4 DEF OrderInv

LEMMA SenderKeepsOrder ==
  ASSUME TypeOK, OrderInv, NEW i \in Items, Sender(i) PROVE OrderInv'
<1>1. PICK s \in Senders, n \in Numbers : i = <<s, n>>
  BY ItemsArePairs
<1>2. ASSUME NEW k \in Kinds, Submit(i, k) PROVE OrderInv'
  BY <1>1, <1>2, SubmitKeepsOrder
<1>3. CASE Attempt(i)
  <2>1. 1 \in 1..MaxAttempts
    BY DeliveryBoundsAssumption
  <2>2. /\ IsNext(<<s, n>>)
        /\ call' = [call EXCEPT ![s] = [attempt |-> 1, landed |-> FALSE]]
        /\ wire' = wire \cup {Signal(<<s, n>>, 1)}
        /\ UNCHANGED <<outbox, hist>>
    BY <1>1, <1>3 DEF Attempt
  <2>. QED  BY <2>1, <2>2, SendKeepsOrder
<1>4. CASE Answered(i)
  BY <1>1, <1>4, CloseKeepsOrder DEF Answered
<1>5. ASSUME NEW r \in BOOLEAN, CallFails(i, r) PROVE OrderInv'
  <2>1. CASE r /\ call[s].attempt < MaxAttempts
    <3>1. call[s].attempt + 1 \in 1..MaxAttempts
      BY DeliveryBoundsAssumption, <2>1 DEF TypeOK
    <3>2. PICK a \in 1..MaxAttempts :
            /\ call' = [call EXCEPT ![s] = [attempt |-> a, landed |-> FALSE]]
            /\ wire' = wire \cup {Signal(<<s, n>>, a)}
      BY <1>1, <1>5, <2>1, <3>1 DEF CallFails
    <3>3. IsNext(<<s, n>>) /\ UNCHANGED <<outbox, hist>>
      BY <1>1, <1>5, <2>1 DEF CallFails
    <3>. QED  BY <3>2, <3>3, SendKeepsOrder
  <2>2. CASE ~(r /\ call[s].attempt < MaxAttempts)
    <3>1. IsNext(<<s, n>>) /\ Close(<<s, n>>, "failed") /\ UNCHANGED <<wire, hist>>
      BY <1>1, <1>5, <2>2 DEF CallFails
    <3>. QED  BY <3>1, CloseKeepsOrder
  <2>. QED  BY <2>1, <2>2
<1>. QED  BY <1>2, <1>3, <1>4, <1>5 DEF Sender

LEMMA OrderKept == TypeOK /\ OrderInv /\ [Next]_deliveryVars => OrderInv'
  BY SenderKeepsOrder, LandKeepsOrder, PumpKeepsOrder DEF Next, Receiver

LEMMA OrderStarts == Init => OrderInv /\ PrefixInv
<1>. SUFFICES ASSUME Init PROVE OrderInv /\ PrefixInv
  OBVIOUS
<1>1. \A s \in Senders : call[s] = NoCall
  BY DEF Init
<1>2. \A s \in Senders : \A n \in Numbers : outbox[<<s, n>>].status = "none"
  BY ItemsArePairs DEF Init
<1>3. hist.arrived = {} /\ hist.seen = {} /\ wire = {} /\ pump.messages = {}
  BY DEF Init, NewPump
<1>4. SubmittedInTurn
  BY <1>2 DEF SubmittedInTurn
<1>5. DeliveredArrived
  BY <1>2 DEF DeliveredArrived, Delivered
<1>. QED
  BY <1>1, <1>3, <1>4, <1>5
  DEF OrderInv, SentInTurn, CallHasItem, LandedArrived, ArrivedInTurn, Arrived, OnWire, NoCall,
      PrefixInv, IntakeIsPrefix, SeenIsPrefix

LEMMA OrderShows ==
  TypeOK /\ SeenIsPrefix /\ ArrivedInTurn => ShownInOrder
<1>. SUFFICES ASSUME TypeOK, SeenIsPrefix, ArrivedInTurn,
                     NEW s \in Senders, NEW j \in 1..MaxItems, NEW i \in 1..(j - 1),
                     <<s, j>> \in Shown,
                     outbox[<<s, i>>] = [kind |-> "cue", status |-> "delivered"]
              PROVE  <<s, i>> \in Shown
  BY DEF ShownInOrder
<1>1. PICK b \in hist.arrived : b.item = <<s, j>> /\ b.id \in hist.seen
  BY DEF Shown
<1>2. PICK a \in hist.arrived : a.item = <<s, i>> /\ a.id < b.id
  BY <1>1 DEF ArrivedInTurn, Delivered, Numbers
<1>3. a.id \in 1..(b.id - 1)
  BY <1>2 DEF TypeOK, Messages
<1>4. a.id \in hist.seen
  BY <1>1, <1>3 DEF SeenIsPrefix
<1>. QED  BY <1>2, <1>4 DEF Shown

(* Cues their sender recorded as delivered are first shown in the order it *)
(* sent them, whatever attempts timed out, failed or landed late.          *)
THEOREM ShowsInOrder == Spec => []ShownInOrder
<1>1. TypeOK /\ DeliveryInv /\ PrefixInv /\ OrderInv => ShownInOrder
  BY OrderShows DEF PrefixInv, OrderInv
<1>2. TypeOK /\ DeliveryInv /\ PrefixInv /\ OrderInv /\ [Next]_deliveryVars
        => PrefixInv' /\ OrderInv'
  BY PrefixKept, OrderKept
<1>. QED
  BY <1>1, <1>2, OrderStarts, DeliveryTypeCorrect, DeliveryInvHolds, PTL DEF Spec

=============================================================================
