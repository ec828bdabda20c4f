---------------------------- MODULE ConductorStages ----------------------------
(***************************************************************************)
(* The conductor half of a session workflow (workflows/session.ts): player *)
(* reports, pipeline stages, quality gates and worktrees, all changed by   *)
(* signal handlers that never await.                                       *)
(*                                                                         *)
(* A running workflow handles a signal when it arrives.  Signals that      *)
(* arrive before the first task of a run are buffered and then drained in  *)
(* the order in which their handlers are registered, whatever the order    *)
(* they came in, and every continueAsNew starts a new run.                 *)
(***************************************************************************)
EXTENDS Integers, Sequences, FiniteSets, SequencesExt

CONSTANTS
  Players,       \* player ids
  Rosters,       \* the players arrays given to setStage
  Stages,        \* stage names
  Tasks,         \* names of the tasks that have quality gates
  Criteria,      \* criteria per quality gate
  WorktreeUsers, \* players who are given worktrees
  Window,        \* STAGE_RECONCILE_WINDOW_MS, in ticks
  ReportTypes,   \* report types in use: result, blocker, update
  MaxSignals,    \* bound on the signals sent
  MaxRuns        \* bound on workflow runs

ASSUME RostersAssumption == Rosters \subseteq Seq(Players) \ {<<>>}
ASSUME ReportTypesAssumption == ReportTypes \subseteq {"result", "blocker", "update"}
ASSUME StageNumbersAssumption == {Criteria, Window, MaxSignals, MaxRuns} \subseteq Nat

VARIABLES
  board,      \* reportHistory, stages, qualityGates, worktrees
  buffer,     \* signals waiting for this run's handlers
  mode,       \* starting, draining or running
  inOrder,    \* while draining: the board had arrival order been kept
  orderly,    \* while draining: the buffer does not depend on its order
  sent,       \* signals sent so far
  runs        \* runs so far

stageVars == <<board, buffer, mode, inOrder, orderly, sent, runs>>

NoStage == [status |-> "none", policy |-> "halt", players |-> <<>>, notices |-> 0]
NoGate == <<>>
Policies == {"halt", "continue"}
Ended == {"complete", "failed", "cancelled"}

EmptyBoard == [reports |-> <<>>, stages |-> [n \in Stages |-> NoStage],
               gates |-> [t \in Tasks |-> NoGate], worktrees |-> {}]

-----------------------------------------------------------------------------
(* Stages *)

Relevant(report) == report.type \in {"result", "blocker"}
Standing(type) == IF type = "result" THEN "reported" ELSE "blocked"
SomeBlocked(stage) == \E i \in DOMAIN stage.players : stage.players[i].status = "blocked"
SomeWaiting(stage) == \E i \in DOMAIN stage.players : stage.players[i].status = "waiting"

(* The end of a stage, and the one message the conductor gets about it.    *)
Finish(stage, status) == [stage EXCEPT !.status = status, !.notices = @ + 1]
SettleWhenAllDone(stage) ==
  IF SomeWaiting(stage) THEN stage
  ELSE Finish(stage, IF SomeBlocked(stage) THEN "failed" ELSE "complete")
Settle(stage) ==
  IF stage.policy = "halt" /\ SomeBlocked(stage) THEN Finish(stage, "failed")
  ELSE SettleWhenAllDone(stage)

(* playerReport: an active stage counts the report for the first entry of  *)
(* the player, if that one is still waiting.                               *)
EntryOf(stage, p) ==
  {i \in DOMAIN stage.players : /\ stage.players[i].playerId = p
                                /\ \A j \in 1..(i - 1) : stage.players[j].playerId # p}
CountsFor(stage, report) ==
  {i \in EntryOf(stage, report.playerId) : /\ stage.status = "active"
                                           /\ Relevant(report)
                                           /\ stage.players[i].status = "waiting"}
CountReport(stage, report, r) ==
  LET counted == CountsFor(stage, report)
  IN  IF counted = {} THEN stage
      ELSE Settle([stage EXCEPT !.players =
             [i \in DOMAIN @ |-> IF i \in counted
                                   THEN [@[i] EXCEPT !.status = Standing(report.type),
                                                     !.report = r]
                                   ELSE @[i]]])

PlayerReport(b, signal) ==
  LET report == [playerId |-> signal.key, type |-> signal.type, age |-> 0]
      r == Len(b.reports) + 1
  IN  [b EXCEPT !.reports = Append(@, report),
                !.stages = [n \in Stages |-> CountReport(@[n], report, r)]]

(* setStage: each player's latest result or blocker counts if it is fresh, *)
(* whatever questions and updates came after it.                           *)
ReportsOf(b, p) == {r \in DOMAIN b.reports : b.reports[r].playerId = p}
LatestOf(rs) == {r \in rs : \A other \in rs : other <= r}
AnyLatest(b, p) == {r \in LatestOf(ReportsOf(b, p)) : Relevant(b.reports[r])}
Latest(b, p) == LatestOf({r \in ReportsOf(b, p) : Relevant(b.reports[r])})
Fresh(b, p) == {r \in Latest(b, p) : b.reports[r].age <= Window}

NewEntry(b, p) ==
  IF Fresh(b, p) = {}
    THEN [playerId |-> p, status |-> "waiting", report |-> 0]
    ELSE LET r == CHOOSE r \in Fresh(b, p) : TRUE
         IN  [playerId |-> p, status |-> Standing(b.reports[r].type), report |-> r]

SetStage(b, signal) ==
  LET stage == [status |-> "active", policy |-> signal.policy, notices |-> 0,
                players |-> [i \in DOMAIN signal.roster |-> NewEntry(b, signal.roster[i])]]
  IN  [b EXCEPT !.stages[signal.key] = Settle(stage)]

CancelStage(b, signal) ==
  IF b.stages[signal.key].status = "active"
    THEN [b EXCEPT !.stages[signal.key] = Finish(@, "cancelled")]
    ELSE b

(* Quality gates and worktrees.  Evaluating an unknown gate or an index    *)
(* that is out of range does nothing.                                      *)
SetQualityGate(b, signal) ==
  [b EXCEPT !.gates[signal.key] = [c \in 1..Criteria |-> "pending"]]

EvaluateGateCriteria(b, signal) ==
  IF signal.index \in DOMAIN b.gates[signal.key]
    THEN [b EXCEPT !.gates[signal.key][signal.index] = signal.status]
    ELSE b

SetWorktree(b, signal) == [b EXCEPT !.worktrees = @ \cup {signal.key}]
RemoveWorktree(b, signal) == [b EXCEPT !.worktrees = @ \ {signal.key}]

Apply(b, signal) ==
  CASE signal.kind = "playerReport" -> PlayerReport(b, signal)
    [] signal.kind = "setQualityGate" -> SetQualityGate(b, signal)
    [] signal.kind = "evaluateGateCriteria" -> EvaluateGateCriteria(b, signal)
    [] signal.kind = "setWorktree" -> SetWorktree(b, signal)
    [] signal.kind = "removeWorktree" -> RemoveWorktree(b, signal)
    [] signal.kind = "setStage" -> SetStage(b, signal)
    [] signal.kind = "cancelStage" -> CancelStage(b, signal)

-----------------------------------------------------------------------------
(* Delivery *)

(* The order in which the handlers are registered; in ConsumerFirst, a     *)
(* variant, the two halves of the stage pair have changed places.          *)
ConsumerFirst == <<"playerReport", "setQualityGate", "evaluateGateCriteria", "setWorktree",
                   "removeWorktree", "cancelStage", "setStage">>
Registered == <<"playerReport", "setQualityGate", "evaluateGateCriteria", "setWorktree",
                "removeWorktree", "setStage", "cancelStage">>
Before(one, other) ==
  \E i, j \in DOMAIN Registered : i < j /\ Registered[i] = one /\ Registered[j] = other

(* What has to hold of a buffer for its order not to matter: no consumer   *)
(* ahead of its producer, no report behind a cancellation, and nobody with *)
(* more than one fresh report of consequence.                              *)
Pairs == {<<"setStage", "cancelStage">>, <<"setQualityGate", "evaluateGateCriteria">>,
          <<"setWorktree", "removeWorktree">>}
Orderly(b, signals) ==
  /\ \A i, j \in DOMAIN signals : i < j =>
       /\ ~(/\ <<signals[j].kind, signals[i].kind>> \in Pairs
            /\ signals[i].key = signals[j].key)
       /\ ~(signals[i].kind = "cancelStage" /\ signals[j].kind = "playerReport")
       /\ ~(/\ signals[i].kind = "playerReport" /\ signals[j].kind = "playerReport"
            /\ signals[i].key = signals[j].key)
  /\ \A i \in DOMAIN signals :
       signals[i].kind = "playerReport" => Fresh(b, signals[i].key) = {}

Deliver(signal) ==
  /\ mode # "draining"
  /\ sent < MaxSignals
  /\ sent' = sent + 1
  /\ IF mode = "running"
       THEN board' = Apply(board, signal) /\ UNCHANGED buffer
       ELSE buffer' = Append(buffer, signal) /\ UNCHANGED board
  /\ UNCHANGED <<mode, inOrder, orderly, runs>>

Report(p, type) == Deliver([kind |-> "playerReport", key |-> p, type |-> type])
Define(n, roster, policy) ==
  Deliver([kind |-> "setStage", key |-> n, roster |-> roster, policy |-> policy])
Cancel(n) == Deliver([kind |-> "cancelStage", key |-> n])
DefineGate(t) == Deliver([kind |-> "setQualityGate", key |-> t])
Evaluate(t, index, status) ==
  Deliver([kind |-> "evaluateGateCriteria", key |-> t, index |-> index, status |-> status])
AddWorktree(p) == Deliver([kind |-> "setWorktree", key |-> p])
DropWorktree(p) == Deliver([kind |-> "removeWorktree", key |-> p])

(* The board, had the signals been handled in the order they came in.      *)
HandledInOrder(b, signals) ==
  LET after[i \in 0..Len(signals)] == IF i = 0 THEN b ELSE Apply(after[i - 1], signals[i])
  IN  after[Len(signals)]

(* The first task of a run.  inOrder and orderly only observe.             *)
FirstTask ==
  /\ mode = "starting"
  /\ mode' = "draining"
  /\ inOrder' = HandledInOrder(board, buffer)
  /\ orderly' = Orderly(board, buffer)
  /\ UNCHANGED <<board, buffer, sent, runs>>

DrainNext(i) ==
  /\ mode = "draining"
  /\ \A j \in DOMAIN buffer :
       /\ ~Before(buffer[j].kind, buffer[i].kind)
       /\ buffer[j].kind = buffer[i].kind => i <= j
  /\ board' = Apply(board, buffer[i])
  /\ buffer' = RemoveAt(buffer, i)
  /\ UNCHANGED <<mode, inOrder, orderly, sent, runs>>

Drained ==
  /\ mode = "draining"
  /\ buffer = <<>>
  /\ mode' = "running"
  /\ inOrder' = EmptyBoard
  /\ orderly' = FALSE
  /\ UNCHANGED <<board, buffer, sent, runs>>

(* The board is part of the SessionInput of the next run. *)
NextRun ==
  /\ mode = "running"
  /\ runs < MaxRuns
  /\ runs' = runs + 1
  /\ mode' = "starting"
  /\ UNCHANGED <<board, buffer, inOrder, orderly, sent>>

(* Reports grow older; their timestamps are those of their handling. *)
Older(report) == [report EXCEPT !.age = IF @ > Window THEN @ ELSE @ + 1]
Tick ==
  /\ mode # "draining"
  /\ \E r \in DOMAIN board.reports : board.reports[r].age <= Window
  /\ board' = [board EXCEPT !.reports = [r \in DOMAIN @ |-> Older(@[r])]]
  /\ UNCHANGED <<buffer, mode, inOrder, orderly, sent, runs>>

Init ==
  /\ board = EmptyBoard
  /\ buffer = <<>>
  /\ mode = "starting"
  /\ inOrder = EmptyBoard
  /\ orderly = FALSE
  /\ sent = 0
  /\ runs = 1

Next ==
  \/ \E p \in Players, type \in ReportTypes : Report(p, type)
  \/ \E n \in Stages, roster \in Rosters, policy \in Policies : Define(n, roster, policy)
  \/ \E n \in Stages : Cancel(n)
  \/ \E t \in Tasks : DefineGate(t)
  \/ \E t \in Tasks, index \in 0..Criteria, status \in {"passed", "failed"} :
        Evaluate(t, index, status)
  \/ \E p \in WorktreeUsers : AddWorktree(p) \/ DropWorktree(p)
  \/ FirstTask \/ (\E i \in DOMAIN buffer : DrainNext(i)) \/ Drained
  \/ NextRun \/ Tick

Spec == Init /\ [][Next]_stageVars

-----------------------------------------------------------------------------
(* Properties *)

Reports == [playerId : Players, type : {"result", "blocker", "update"}, age : 0..(Window + 1)]
Entries == [playerId : Players, status : {"waiting", "reported", "blocked"}, report : Nat]
StageEntries == [status : Ended \cup {"none", "active"}, policy : Policies,
                 players : Seq(Entries), notices : 0..1]
Boards == [reports : Seq(Reports), stages : [Stages -> StageEntries],
           gates : [Tasks -> Seq({"pending", "passed", "failed"})],
           worktrees : SUBSET WorktreeUsers]

(* The signals that bring reports, that define stages, and the others. *)
ReportSignals ==
  [kind : {"playerReport"}, key : Players, type : {"result", "blocker", "update"}]
StageSignals == [kind : {"setStage"}, key : Stages, roster : Rosters, policy : Policies]
QuietSignals ==
  [kind : {"cancelStage"}, key : Stages] \cup [kind : {"setQualityGate"}, key : Tasks]
  \cup [kind : {"evaluateGateCriteria"}, key : Tasks, index : 0..Criteria,
        status : {"passed", "failed"}]
  \cup [kind : {"setWorktree", "removeWorktree"}, key : WorktreeUsers]
Signals == ReportSignals \cup StageSignals \cup QuietSignals

(* Type invariant; a stage sends at most one message about its end. *)
TypeOK ==
  /\ board \in Boards
  /\ buffer \in Seq(Signals)
  /\ mode \in {"starting", "draining", "running"} /\ orderly \in BOOLEAN
  /\ {sent, runs} \subseteq Nat

(* Status, entries and notice of every stage agree, whichever of the two   *)
(* copies of the transition logic, live or reconciling, produced them.     *)
VerdictFits ==
  \A n \in Stages :
    LET stage == board.stages[n] IN
    /\ stage.status = "active" => /\ SomeWaiting(stage)
                                  /\ ~(stage.policy = "halt" /\ SomeBlocked(stage))
    /\ stage.status = "complete" => ~SomeWaiting(stage) /\ ~SomeBlocked(stage)
    /\ stage.status = "failed" => /\ SomeBlocked(stage)
                                  /\ stage.policy = "continue" => ~SomeWaiting(stage)
    /\ stage.notices = IF stage.status \in Ended THEN 1 ELSE 0

(* The #777 wedge: an active stage never waits for a player whose result   *)
(* or blocker has come in, be it before the stage within the window or     *)
(* after it, and whatever else the player reported since.                  *)
NoReportLost ==
  \A n \in Stages : board.stages[n].status = "active" =>
    \A i \in DOMAIN board.stages[n].players :
      board.stages[n].players[i].status = "waiting" =>
        \A r \in ReportsOf(board, board.stages[n].players[i].playerId) :
          Relevant(board.reports[r]) => board.reports[r].age > Window

Verdicts(b) == [stages |-> [n \in Stages |-> <<b.stages[n].status, b.stages[n].notices>>],
                gates |-> b.gates, worktrees |-> b.worktrees]

(* Draining in registration order comes to what handling on arrival would  *)
(* have come to, unless the buffer holds one of the conflicts of Orderly.  *)
OrderlyDrain ==
  mode = "draining" /\ buffer = <<>> /\ orderly => Verdicts(board) = Verdicts(inOrder)
=============================================================================
