------------------------------ MODULE EventStream ------------------------------
(***************************************************************************)
(* The event stream of one ensemble: the daemon's poll loop, which turns   *)
(* differences between snapshots into events (http/aggregate.ts), the bus  *)
(* with its rate caps and replay ring (http/event-bus.ts), the SSE handler *)
(* (http/sse-handler.ts) and a client that reconnects with the id of the   *)
(* last event it saw (client/subscribe.ts).                                *)
(*                                                                         *)
(* The daemon is single threaded; a tick is cut at the awaits between      *)
(* listing the ensembles, reading a snapshot and applying it.  Of a        *)
(* snapshot the flags and the chat are kept: an event that may be dropped  *)
(* and one that may not.  A bus numbers its events from 0; of the events   *)
(* themselves it keeps how many messages they told of, sent or dropped.    *)
(***************************************************************************)
EXTENDS Integers, Sequences, FiniteSets

CONSTANTS
  RingCapacity,       \* RING_BUFFER_CAPACITY
  EnsembleRateLimit,  \* events per window before flags.changed is dropped
  ChatRateLimit,      \* chat.appended per window
  MaxFailures,        \* MAX_CONSECUTIVE_FAILURES
  MaxMessages,        \* bound on chat messages
  MaxLives,           \* bound on the times the ensemble is brought up
  MaxUpsets           \* bound on changes of the flags, restarts, failing reads

ASSUME EventLimitsAssumption ==
  /\ {RingCapacity, EnsembleRateLimit, ChatRateLimit} \subseteq Nat \ {0}
  /\ {MaxFailures, MaxMessages, MaxLives, MaxUpsets} \subseteq Nat

VARIABLES
  world,    \* the ensemble as Temporal knows it, and what happened so far
  known,    \* the ensemble is in knownEnsembles
  track,    \* its EnsembleTrack with its bus, or NoTrack
  ticks,    \* the tick inFlight stands for, and one the watchdog passed by
  client    \* the subscriber: connection, cursor, events on their way to it

eventVars == <<world, known, track, ticks, client>>

NoTrack == [open |-> FALSE, failures |-> 0, flag |-> "none", seen |-> {},
            next |-> 0, told |-> 0,
            recent |-> 0, recentChat |-> 0, quiet |-> FALSE, drops |-> 0, timer |-> FALSE]
NewTrack == [NoTrack EXCEPT !.open = TRUE]
Idle == [stage |-> "idle", result |-> "none", flag |-> "none", chats |-> {}]

(* A cursor, and the seq a client is due, are numbers of the bus there is, *)
(* or None, or of an earlier daemon; what was due of a bus that was closed *)
(* is nobody's to tell.                                                    *)
None == -1
Foreign == -2
NoClient == [conn |-> "off", onBus |-> FALSE, next |-> 0, cursor |-> None, queue |-> <<>>,
             due |-> None]

AtLeast(a, b) == IF a >= b THEN a ELSE b
AtMost(a, b) == IF a <= b THEN a ELSE b

-----------------------------------------------------------------------------
(* The bus *)

EmitInternal(b) == [b EXCEPT !.next = @ + 1]
EmitCounted(b) == EmitInternal([b EXCEPT !.recent = AtMost(@ + 1, EnsembleRateLimit)])

(* chat.appended has a cap of its own; what exceeds it is counted, and a   *)
(* timer set to announce it.                                               *)
PastChatCap(b) == b.recentChat > ChatRateLimit
AtChatCap(b) == b.recentChat >= ChatRateLimit
DropChatUntimed(b) == [b EXCEPT !.drops = @ + 1]
DropChat(b) == [b EXCEPT !.drops = @ + 1, !.timer = TRUE]
EmitChat(b) == IF AtChatCap(b) THEN DropChat(b)
               ELSE EmitCounted([b EXCEPT !.recentChat = @ + 1, !.told = @ + 1])

(* One chat.appended for each of n new messages. *)
EmitChats(b, n) ==
  LET after[i \in 0..n] == IF i = 0 THEN b ELSE EmitChat(after[i - 1]) IN after[n]

(* flags.changed is dropped silently after a throttled, and makes one when *)
(* it exceeds the cap of the ensemble.                                     *)
EmitFlags(b) ==
  IF b.quiet THEN b
  ELSE IF b.recent >= EnsembleRateLimit THEN EmitInternal([b EXCEPT !.quiet = TRUE])
  ELSE EmitCounted(b)

FlushKeepingDrops(b) == [EmitInternal(b) EXCEPT !.told = @ + b.drops, !.timer = FALSE]
FlushChatCompressed(b) ==
  [EmitInternal(b) EXCEPT !.told = @ + b.drops, !.drops = 0, !.timer = FALSE]

(* The replay ring holds the last events of the bus. *)
OldestSeq(b) == AtLeast(0, b.next - RingCapacity)
OverflowLate(b, seq) == b.next = 0 \/ seq + 2 < OldestSeq(b)
Overflow(b, seq) == b.next = 0 \/ seq + 1 < OldestSeq(b)

BusEvents(b, from) ==
  [i \in 1..(b.next - from) |-> [kind |-> "event", seq |-> from + i - 1]]
ReplayFrom(b, seq) == BusEvents(b, AtLeast(OldestSeq(b), seq + 1))
(* gap or snapshot, on a bus whose nextSeq is next.                        *)
Prelude(next) == [kind |-> "prelude", seq |-> next]

(* What the bus emits goes to the subscription; until there is one, next   *)
(* follows the bus the connection was opened for.  A bus that is closed    *)
(* leaves the connection what it had emitted.                              *)
FeedClient ==
  client' = IF track.open /\ ~track'.open
              THEN [client EXCEPT !.onBus = FALSE, !.due = AtMost(@, None)]
            ELSE IF client.onBus /\ client.conn = "live"
              THEN [client EXCEPT !.queue = @ \o BusEvents(track', track.next)]
            ELSE IF client.onBus THEN [client EXCEPT !.next = track'.next]
            ELSE client

-----------------------------------------------------------------------------
(* The poll loop *)

EnsureTrack == IF track.open THEN track ELSE NewTrack

Pending == {"current", "late"}

(* A tick whose list fails or times out changes nothing and is left out.   *)
TickLists ==
  /\ ticks.current = Idle
  /\ ticks' = [ticks EXCEPT !.current = IF world.exists THEN [Idle EXCEPT !.stage = "listed"]
                 ELSE [Idle EXCEPT !.stage = "read", !.result = "absent"]]
  /\ UNCHANGED <<world, known, track, client>>

(* buildEnsembleSnapshot lists the ensembles again; an error of that list  *)
(* counts as an empty one.  Any other error fails the ensemble.            *)
HasRead(s, result) ==
  /\ ticks[s].stage = "listed"
  /\ ticks' = [ticks EXCEPT ![s] = IF result = "ok"
                 THEN [stage |-> "read", result |-> "ok", flag |-> world.flag,
                       chats |-> world.chats]
                 ELSE [Idle EXCEPT !.stage = "read", !.result = result]]
  /\ UNCHANGED <<known, track, client>>

TickReads(s) == HasRead(s, IF world.exists THEN "ok" ELSE "absent") /\ UNCHANGED world
TickFails(s) ==
  /\ world.upsets < MaxUpsets
  /\ HasRead(s, "absent") \/ HasRead(s, "failed")
  /\ world' = [world EXCEPT !.upsets = @ + 1]

(* diffEnsembleSnapshot for flags and chat, emitted on the bus. *)
Diff(b, snap) ==
  LET flagged == IF b.flag = snap.flag THEN b
                 ELSE [EmitFlags(b) EXCEPT !.flag = snap.flag]
  IN  [EmitChats(flagged, Cardinality(snap.chats \ b.seen)) EXCEPT !.seen = @ \cup snap.chats]

(* The failures in a row that make a failing ensemble count as gone. *)
Promoted(b) == b.failures + 1 > MaxFailures
IsGone(s) == \/ ticks[s].result = "absent"
             \/ ticks[s].result = "failed" /\ Promoted(EnsureTrack)

TickApplies(s) ==
  /\ ticks[s].stage = "read"
  /\ known' = ~IsGone(s)
  /\ track' = IF IsGone(s) THEN NoTrack
              ELSE IF ticks[s].result = "ok"
                THEN Diff([EnsureTrack EXCEPT !.failures = 0], ticks[s])
                ELSE [EnsureTrack EXCEPT !.failures = @ + 1]
  /\ FeedClient
  /\ ticks' = [ticks EXCEPT ![s] = Idle]
  /\ UNCHANGED world

(* The watchdog clears inFlight (#433), so that the next tick runs while this one *)
(* is pending; if it comes back, it still applies its snapshot.            *)
NoWatchdog == FALSE
WatchdogDue == ticks.current.stage # "idle"
Watchdog ==
  /\ WatchdogDue
  /\ ticks.late = Idle
  /\ ticks' = [current |-> Idle, late |-> ticks.current]
  /\ UNCHANGED <<world, known, track, client>>

CompressionTimer ==
  /\ track.timer
  /\ track' = FlushChatCompressed(track)
  /\ FeedClient
  /\ UNCHANGED <<world, known, ticks>>

(* Time passes: the rate windows empty, or the quiet after a throttled is  *)
(* over.                                                                   *)
WindowPasses ==
  /\ \/ /\ track.recent > 0
        /\ track' = [track EXCEPT !.recent = 0, !.recentChat = 0]
     \/ track.quiet /\ track' = [track EXCEPT !.quiet = FALSE]
  /\ UNCHANGED <<world, known, ticks, client>>

-----------------------------------------------------------------------------
(* The client and the SSE handler *)

Subscribed(queue) ==
  [client EXCEPT !.conn = "live", !.onBus = TRUE, !.next = 0, !.queue = queue]

(* The route finds the ensemble and its bus, or makes it one. *)
FindsBus ==
  /\ client.conn = "off"
  /\ world.exists
  /\ track' = EnsureTrack
  /\ UNCHANGED <<world, known, ticks>>

(* With Last-Event-ID: a gap, or what the ring has after it. *)
Reconnect ==
  /\ client.cursor # None
  /\ FindsBus
  /\ client' = IF client.cursor = Foreign \/ Overflow(track', client.cursor)
                 THEN Subscribed(<<Prelude(track'.next)>>)
                 ELSE Subscribed(ReplayFrom(track', client.cursor))

Disconnected ==
  [client EXCEPT !.conn = "off", !.onBus = FALSE, !.next = 0, !.queue = <<>>]

(* Without: a snapshot is built first, and then subscribed. *)
ConnectFresh ==
  /\ client.cursor = None
  /\ FindsBus
  /\ client' = [client EXCEPT !.conn = "building", !.onBus = TRUE, !.next = track'.next]

SnapshotBuilt ==
  /\ client.conn = "building"
  /\ \E prelude \in {<<>>, <<Prelude(client.next)>>} :
       client' = [client EXCEPT !.conn = "live", !.next = 0, !.queue = prelude]
  /\ UNCHANGED <<world, known, track, ticks>>

SnapshotNotFound ==
  /\ client.conn = "building"
  /\ client' = Disconnected
  /\ UNCHANGED <<world, known, track, ticks>>

(* The id of a prelude is one less than nextSeq, but never less than 0. *)
IdOf(e) == IF e.kind = "event" THEN e.seq ELSE AtLeast(0, e.seq - 1)
Receive ==
  /\ client.conn = "live"
  /\ client.queue # <<>>
  /\ LET e == Head(client.queue)
     IN  client' = [client EXCEPT
           !.queue = Tail(@),
           !.cursor = IdOf(e),
           !.due = IF ~client.onBus THEN None
                   ELSE IF e.kind = "event" THEN e.seq + 1 ELSE e.seq]
  /\ UNCHANGED <<world, known, track, ticks>>

(* The connection is lost, the write buffer overflows, or the bus was      *)
(* closed and all it had emitted is sent.                                  *)
ConnectionEnds ==
  /\ client.conn # "off"
  /\ client' = Disconnected
  /\ UNCHANGED <<world, known, track, ticks>>

(* A consumer that ended its connection and subscribes anew starts without *)
(* a cursor.                                                               *)
Resubscribe ==
  /\ client.conn = "off"
  /\ client' = NoClient
  /\ UNCHANGED <<world, known, track, ticks>>

-----------------------------------------------------------------------------
(* The ensemble, and the daemon's restart *)

Up == /\ ~world.exists /\ world.lives < MaxLives
      /\ world' = [world EXCEPT !.exists = TRUE, !.lives = @ + 1]
Down == /\ world.exists
        /\ world' = [world EXCEPT !.exists = FALSE, !.flag = "off", !.chats = {}]
Chat == /\ world.exists /\ world.sent < MaxMessages
        /\ world' = [world EXCEPT !.sent = @ + 1, !.chats = @ \cup {world.sent + 1}]
Flip == /\ world.exists /\ world.upsets < MaxUpsets
        /\ world' = [world EXCEPT !.upsets = @ + 1,
                                  !.flag = IF @ = "on" THEN "off" ELSE "on"]
WorldMoves == (Up \/ Down \/ Chat \/ Flip)
              /\ UNCHANGED <<known, track, ticks, client>>

Restart ==
  /\ world.upsets < MaxUpsets
  /\ world' = [world EXCEPT !.upsets = @ + 1]
  /\ known' = FALSE
  /\ track' = NoTrack
  /\ ticks' = [s \in Pending |-> Idle]
  /\ client' = [Disconnected EXCEPT !.cursor = IF @ = None THEN None ELSE Foreign,
                                     !.due = IF client.cursor = None THEN None ELSE Foreign]

StreamInit ==
  /\ world = [exists |-> FALSE, flag |-> "off", chats |-> {}, sent |-> 0,
              lives |-> 0, upsets |-> 0]
  /\ known = FALSE
  /\ track = NoTrack
  /\ ticks = [s \in Pending |-> Idle]
  /\ client = NoClient

StreamNext ==
  \/ TickLists \/ \E s \in Pending : TickReads(s) \/ TickFails(s) \/ TickApplies(s)
  \/ Watchdog \/ CompressionTimer \/ WindowPasses
  \/ Reconnect \/ ConnectFresh \/ SnapshotBuilt \/ SnapshotNotFound
  \/ Receive \/ ConnectionEnds \/ Resubscribe
  \/ WorldMoves \/ Restart

StreamSpec == StreamInit /\ [][StreamNext]_eventVars

(* Timers fire, and a tick comes to its end unless it hangs in Temporal,   *)
(* which at most one does at a time.                                       *)
StreamFairness ==
  /\ WF_eventVars(TickLists)
  /\ WF_eventVars(TickApplies("current"))
  /\ WF_eventVars(ticks.late # Idle /\ TickReads("current"))
  /\ WF_eventVars(Watchdog)
  /\ WF_eventVars(CompressionTimer)
FairStreamSpec == StreamSpec /\ StreamFairness

-----------------------------------------------------------------------------
(* Properties *)

Flags == {"none", "on", "off"}
Tracks == [open : BOOLEAN, failures : 0..MaxFailures, flag : Flags,
           seen : SUBSET (1..MaxMessages), next : Nat, told : Nat,
           recent : 0..EnsembleRateLimit, recentChat : 0..ChatRateLimit,
           quiet : BOOLEAN, drops : Nat, timer : BOOLEAN]

(* Type invariant; failures stay within their cap, as do the rate windows. *)
StreamTypeOK ==
  /\ world.exists \in BOOLEAN /\ world.flag \in Flags /\ world.chats \subseteq 1..world.sent
  /\ known \in BOOLEAN
  /\ track \in Tracks
  /\ \A s \in Pending : ticks[s].stage \in {"idle", "listed", "read"}
  /\ client.conn \in {"off", "building", "live"} /\ client.onBus \in BOOLEAN
  /\ \A i \in DOMAIN client.queue : client.queue[i].seq \in Nat

(* Between two events a client receives nothing is missing or repeated     *)
(* without a gap or a snapshot in between, through lost connections, ring  *)
(* overflows and daemon restarts.  There are two exceptions: a bus that    *)
(* was closed and built anew by one daemon numbers its events from 0 again *)
(* under the same epoch, and the id of a gap or snapshot on a bus that has *)
(* emitted nothing is that of its first event.                             *)
Receives == client'.conn = "live" /\ client'.queue = Tail(client.queue)
NothingSkipped ==
  [][LET e == Head(client.queue) IN
       client.queue # <<>> /\ Receives /\ e.kind = "event" /\ client.due # None =>
          client.due = e.seq \/ (client.due = 0 /\ e.seq = 1)]_eventVars

(* Every message the loop has seen was sent once, announced as dropped, or *)
(* is waiting to be, whichever ticks overtake each other.                  *)
EveryMessageAccounted ==
  Cardinality(track.seen) = track.told + track.drops

(* A burst of dropped messages is announced, unless the bus is closed.     *)
DropsAnnounced == track.drops > 0 ~> track.drops = 0

(* The end of an ensemble is told, although ticks hang and the watchdog    *)
(* has to pass them by.                                                    *)
DestroyedIsTold == (known /\ ~world.exists) ~> (~known \/ world.exists)
=============================================================================
