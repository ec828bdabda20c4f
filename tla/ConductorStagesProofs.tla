------------------------ MODULE ConductorStagesProofs ------------------------
(***************************************************************************)
(* The conductor's board for any players, stages and number of signals:    *)
(* its types, that the verdict on every stage fits its entries, and that   *)
(* no report is lost.                                                      *)
(***************************************************************************)
EXTENDS ConductorStages, WellFoundedInduction, TLAPS

(* What holds of one stage, whichever handler made it. *)
Verdict(stage) ==
  /\ stage.status = "active" => /\ SomeWaiting(stage)
                                /\ ~(stage.policy = "halt" /\ SomeBlocked(stage))
  /\ stage.status = "complete" => ~SomeWaiting(stage) /\ ~SomeBlocked(stage)
  /\ stage.status = "failed" => /\ SomeBlocked(stage)
                                /\ stage.policy = "continue" => ~SomeWaiting(stage)
  /\ stage.notices = IF stage.status \in Ended THEN 1 ELSE 0

(* A later report is never older; and nobody is in a roster twice. *)
AgesOrdered(b) == \A r \in DOMAIN b.reports : \A q \in 1..r : b.reports[q].age >= b.reports[r].age
Distinct(players) ==
  \A i, j \in DOMAIN players : players[i].playerId = players[j].playerId => i = j
NoRepetition ==
  \A roster \in Rosters : \A i, j \in DOMAIN roster : roster[i] = roster[j] => i = j

(* The entries that wait, wait for players with nothing fresh to say. *)
WaitsRightly(b, stage) ==
  stage.status = "active" =>
    \A i \in DOMAIN stage.players : stage.players[i].status = "waiting" =>
      \A r \in ReportsOf(b, stage.players[i].playerId) :
        Relevant(b.reports[r]) => b.reports[r].age > Window

BoardInv(b) == b \in Boards /\ \A n \in Stages : Verdict(b.stages[n])
BoardReports(b) ==
  /\ AgesOrdered(b)
  /\ \A n \in Stages : Distinct(b.stages[n].players) /\ WaitsRightly(b, b.stages[n])

LEMMA Numbers == Window \in Nat /\ Criteria \in Nat
  BY StageNumbersAssumption

LEMMA VerdictFitsIsVerdicts == VerdictFits <=> \A n \in Stages : Verdict(board.stages[n])
  BY DEF VerdictFits, Verdict

-----------------------------------------------------------------------------
(* Stages *)

LEMMA Finished ==
  ASSUME NEW stage \in StageEntries, NEW status
  PROVE  Finish(stage, status) = [status |-> status, policy |-> stage.policy,
                                  players |-> stage.players, notices |-> stage.notices + 1]
<1>. DEFINE ended == [stage EXCEPT !.status = status]
<1>1. Finish(stage, status) = [ended EXCEPT !.notices = stage.notices + 1]
  BY DEF Finish, StageEntries
<1>2. ended = [status |-> status, policy |-> stage.policy, players |-> stage.players,
               notices |-> stage.notices]
  BY DEF StageEntries
<1>. HIDE DEF ended
<1>. QED  BY <1>1, <1>2

LEMMA MarkedEntry ==
  ASSUME NEW e \in Entries, NEW status, NEW r
  PROVE  [e EXCEPT !.status = status, !.report = r]
           = [playerId |-> e.playerId, status |-> status, report |-> r]
<1>. DEFINE marked == [e EXCEPT !.status = status]
<1>1. [e EXCEPT !.status = status, !.report = r] = [marked EXCEPT !.report = r]
  BY DEF Entries
<1>2. marked = [playerId |-> e.playerId, status |-> status, report |-> e.report]
  BY DEF Entries
<1>. HIDE DEF marked
<1>. QED  BY <1>1, <1>2

(* Settling an active stage leaves it undecided or gives it its verdict.   *)
LEMMA SettleFits ==
  ASSUME NEW stage \in StageEntries, stage.status = "active", stage.notices = 0
  PROVE  /\ Settle(stage) \in StageEntries /\ Verdict(Settle(stage))
         /\ Settle(stage).players = stage.players
         /\ Settle(stage).status = "active" => Settle(stage) = stage
<1>1. ASSUME NEW status \in Ended
      PROVE  LET ended == Finish(stage, status) IN
             /\ ended \in StageEntries /\ ended.players = stage.players /\ ended.status = status
             /\ ended.policy = stage.policy /\ ended.notices = 1
  <2>. DEFINE ended == Finish(stage, status)
  <2>1. ended = [status |-> status, policy |-> stage.policy, players |-> stage.players,
                 notices |-> 1]
    BY Finished
  <2>. HIDE DEF ended
  <2>2. ended \in StageEntries
    BY <2>1 DEF StageEntries, Ended
  <2>3. /\ ended.players = stage.players /\ ended.status = status
        /\ ended.policy = stage.policy /\ ended.notices = 1
    BY <2>1
  <2>. QED  BY <2>2, <2>3 DEF ended
<1>2. \A other : other.players = stage.players =>
        /\ SomeBlocked(other) <=> SomeBlocked(stage)
        /\ SomeWaiting(other) <=> SomeWaiting(stage)
  BY DEF SomeBlocked, SomeWaiting
<1>3. CASE stage.policy = "halt" /\ SomeBlocked(stage)
  <2>1. Settle(stage) = Finish(stage, "failed")
    BY <1>3 DEF Settle
  <2>. QED  BY <1>1, <1>2, <1>3, <2>1 DEF Verdict, Ended
<1>4. CASE ~(stage.policy = "halt" /\ SomeBlocked(stage)) /\ SomeWaiting(stage)
  <2>1. Settle(stage) = stage
    BY <1>4 DEF Settle, SettleWhenAllDone
  <2>. QED  BY <1>4, <2>1 DEF Verdict, Ended
<1>5. CASE ~(stage.policy = "halt" /\ SomeBlocked(stage)) /\ ~SomeWaiting(stage)
  <2>1. CASE SomeBlocked(stage)
    <3>1. Settle(stage) = Finish(stage, "failed")
      BY <1>5, <2>1 DEF Settle, SettleWhenAllDone
    <3>. QED  BY <1>1, <1>2, <1>5, <2>1, <3>1 DEF Verdict, Ended
  <2>2. CASE ~SomeBlocked(stage)
    <3>1. Settle(stage) = Finish(stage, "complete")
      BY <1>5, <2>2 DEF Settle, SettleWhenAllDone
    <3>. QED  BY <1>1, <1>2, <1>5, <2>2, <3>1 DEF Verdict, Ended
  <2>. QED  BY <2>1, <2>2
<1>. QED  BY <1>3, <1>4, <1>5

(* A report changes nothing but the entries that count it. *)
LEMMA CountReportFits ==
  ASSUME NEW stage \in StageEntries, Verdict(stage), NEW report \in Reports, NEW r \in Nat
  PROVE  LET counted == CountsFor(stage, report)
             after == CountReport(stage, report, r)
         IN  /\ after \in StageEntries /\ Verdict(after)
             /\ DOMAIN after.players = DOMAIN stage.players
             /\ \A i \in DOMAIN stage.players :
                  after.players[i].playerId = stage.players[i].playerId
             /\ after.status = "active" =>
                  /\ stage.status = "active"
                  /\ \A i \in DOMAIN stage.players :
                       after.players[i].status = "waiting" =>
                         i \notin counted /\ stage.players[i].status = "waiting"
<1>. DEFINE counted == CountsFor(stage, report)
            Marked(e) == [playerId |-> e.playerId, status |-> Standing(report.type), report |-> r]
            players == [i \in DOMAIN stage.players |->
                          IF i \in counted THEN Marked(stage.players[i]) ELSE stage.players[i]]
            marked == [status |-> stage.status, policy |-> stage.policy, players |-> players,
                       notices |-> stage.notices]
<1>1. CASE counted = {}
  <2>1. CountReport(stage, report, r) = stage
    BY <1>1 DEF CountReport
  <2>. QED  BY <1>1, <2>1
<1>2. CASE counted # {}
  <2>1. stage.status = "active" /\ stage.notices = 0
    BY <1>2 DEF CountsFor, Verdict, Ended
  <2>2. stage.players \in Seq(Entries) /\ counted \subseteq DOMAIN stage.players
    BY DEF StageEntries, CountsFor, EntryOf
  <2>3. \A i \in DOMAIN stage.players : stage.players[i] \in Entries
    BY <2>2
  <2>4. Standing(report.type) \in {"reported", "blocked"}
    BY DEF Standing
  <2>5. \A e \in Entries : [e EXCEPT !.status = Standing(report.type), !.report = r] = Marked(e)
    BY MarkedEntry
  <2>6. \A e \in Entries : Marked(e) \in Entries /\ Marked(e).status # "waiting"
                           /\ Marked(e).playerId = e.playerId
    BY <2>4 DEF Entries
  <2>7. [i \in DOMAIN stage.players |->
           IF i \in counted THEN [stage.players[i] EXCEPT !.status = Standing(report.type), !.report = r]
           ELSE stage.players[i]] = players
    BY <2>3, <2>5
  <2>8. CountReport(stage, report, r) = Settle([stage EXCEPT !.players = players])
    BY <1>2, <2>7 DEF CountReport
  <2>9. [stage EXCEPT !.players = players] = marked
    <3>. HIDE DEF players
    <3>. QED  BY DEF StageEntries
  <2>10. players \in Seq(Entries)
    <3>1. PICK len \in Nat : DOMAIN stage.players = 1..len
      BY <2>2
    <3>2. players \in [1..len -> Entries]
      BY <2>3, <2>6, <3>1
    <3>. HIDE DEF players
    <3>. QED  BY <3>2
  <2>11. marked \in StageEntries
    BY <2>10 DEF StageEntries
  <2>12. marked.status = "active" /\ marked.notices = 0 /\ marked.players = players
    BY <2>1
  <2>. HIDE DEF marked
  <2>13. /\ Settle(marked) \in StageEntries /\ Verdict(Settle(marked))
         /\ Settle(marked).players = players
    BY <2>11, <2>12, SettleFits
  <2>. QED  BY <2>1, <2>3, <2>6, <2>8, <2>9, <2>13
<1>. QED  BY <1>1, <1>2

-----------------------------------------------------------------------------
(* Handlers *)

LEMMA ReportsTyped == ASSUME NEW b \in Boards, NEW r \in DOMAIN b.reports
                     PROVE  b.reports[r] \in Reports /\ r \in Nat \ {0}
  BY DEF Boards

LEMMA PlayerReportFits ==
  ASSUME NEW b, BoardInv(b), NEW signal \in ReportSignals
  PROVE  BoardInv(PlayerReport(b, signal))
<1>. DEFINE report == [playerId |-> signal.key, type |-> signal.type, age |-> 0]
            r == Len(b.reports) + 1
            stages == [n \in Stages |-> CountReport(b.stages[n], report, r)]
            after == [reports |-> Append(b.reports, report), stages |-> stages,
                      gates |-> b.gates, worktrees |-> b.worktrees]
<1>1. report \in Reports /\ r \in Nat
  BY Numbers DEF ReportSignals, Reports, BoardInv, Boards
<1>2. PlayerReport(b, signal) = after
  <2>. DEFINE reports == Append(b.reports, report)
              told == [b EXCEPT !.reports = reports]
  <2>0. b \in Boards
    BY DEF BoardInv
  <2>. HIDE DEF report, r, stages, reports
  <2>1. PlayerReport(b, signal) = [told EXCEPT !.stages = stages]
    BY <2>0 DEF PlayerReport, Boards, report, r, stages, reports
  <2>2. told = [reports |-> reports, stages |-> b.stages, gates |-> b.gates,
                worktrees |-> b.worktrees]
    BY <2>0 DEF Boards
  <2>. HIDE DEF told
  <2>. QED  BY <2>1, <2>2 DEF reports
<1>3. ASSUME NEW n \in Stages PROVE stages[n] \in StageEntries /\ Verdict(stages[n])
  <2>. HIDE DEF report, r
  <2>1. b.stages[n] \in StageEntries /\ Verdict(b.stages[n])
    BY DEF BoardInv, Boards
  <2>2. stages[n] = CountReport(b.stages[n], report, r)
    OBVIOUS
  <2>. QED  BY <1>1, <2>1, <2>2, CountReportFits
<1>4. Append(b.reports, report) \in Seq(Reports)
  BY <1>1 DEF BoardInv, Boards
<1>5. after \in Boards
  <2>. HIDE DEF report, r
  <2>1. stages \in [Stages -> StageEntries]
    BY <1>3
  <2>. HIDE DEF stages
  <2>. QED  BY <1>4, <2>1 DEF BoardInv, Boards
<1>. QED  BY <1>2, <1>3, <1>5 DEF BoardInv

LEMMA NewEntryFits ==
  ASSUME NEW b \in Boards, NEW p \in Players
  PROVE  /\ NewEntry(b, p) \in Entries /\ NewEntry(b, p).playerId = p
         /\ NewEntry(b, p).status = "waiting" => Fresh(b, p) = {}
<1>1. CASE Fresh(b, p) = {}
  BY <1>1 DEF NewEntry, Entries
<1>2. CASE Fresh(b, p) # {}
  <2>. DEFINE r == CHOOSE r \in Fresh(b, p) : TRUE
  <2>1. r \in DOMAIN b.reports
    BY <1>2 DEF Fresh, Latest, LatestOf, ReportsOf
  <2>2. r \in Nat
    BY <2>1, ReportsTyped
  <2>3. NewEntry(b, p) = [playerId |-> p, status |-> Standing(b.reports[r].type), report |-> r]
    BY <1>2 DEF NewEntry
  <2>. HIDE DEF r
  <2>. QED  BY <2>2, <2>3 DEF Entries, Standing
<1>. QED  BY <1>1, <1>2

LEMMA SetStageFits ==
  ASSUME NEW b, BoardInv(b), NEW signal \in StageSignals
  PROVE  LET players == [i \in DOMAIN signal.roster |-> NewEntry(b, signal.roster[i])]
             after == SetStage(b, signal)
         IN  /\ BoardInv(after)
             /\ after.reports = b.reports
             /\ \A n \in Stages \ {signal.key} : after.stages[n] = b.stages[n]
             /\ after.stages[signal.key].players = players
             /\ players \in Seq(Entries)
<1>. DEFINE players == [i \in DOMAIN signal.roster |-> NewEntry(b, signal.roster[i])]
            stage == [status |-> "active", policy |-> signal.policy, notices |-> 0,
                      players |-> players]
            stages == [b.stages EXCEPT ![signal.key] = Settle(stage)]
            after == [reports |-> b.reports, stages |-> stages, gates |-> b.gates,
                      worktrees |-> b.worktrees]
<1>1. b \in Boards /\ signal.key \in Stages /\ signal.roster \in Seq(Players)
  BY RostersAssumption DEF BoardInv, StageSignals
<1>2. players \in Seq(Entries)
  <2>1. PICK len \in Nat : signal.roster \in [1..len -> Players] /\ DOMAIN signal.roster = 1..len
    BY <1>1
  <2>2. \A i \in 1..len : NewEntry(b, signal.roster[i]) \in Entries
    BY <1>1, <2>1, NewEntryFits
  <2>3. players \in [1..len -> Entries]
    BY <2>1, <2>2
  <2>. QED  BY <2>3
<1>3. stage \in StageEntries
  <2>. HIDE DEF players
  <2>. QED  BY <1>2 DEF StageEntries, StageSignals
<1>4. Settle(stage) \in StageEntries /\ Verdict(Settle(stage)) /\ Settle(stage).players = players
  <2>1. stage.status = "active" /\ stage.notices = 0 /\ stage.players = players
    OBVIOUS
  <2>. HIDE DEF stage
  <2>. QED  BY <1>3, <2>1, SettleFits
<1>5. SetStage(b, signal) = after
  <2>1. SetStage(b, signal) = [b EXCEPT !.stages = stages]
    BY <1>1 DEF SetStage, Boards
  <2>. HIDE DEF stages
  <2>. QED  BY <1>1, <2>1 DEF Boards
<1>6. stages \in [Stages -> StageEntries] /\ \A n \in Stages : Verdict(stages[n])
  <2>. HIDE DEF stage
  <2>. QED  BY <1>1, <1>4 DEF BoardInv, Boards
<1>7. after \in Boards
  <2>. HIDE DEF stages
  <2>. QED  BY <1>1, <1>6 DEF Boards
<1>8. after.stages[signal.key].players = players /\ after.reports = b.reports
      /\ \A n \in Stages \ {signal.key} : after.stages[n] = b.stages[n]
  <2>. HIDE DEF stage
  <2>. QED  BY <1>1, <1>4 DEF Boards
<1>. QED  BY <1>2, <1>5, <1>6, <1>7, <1>8 DEF BoardInv

(* The other handlers leave reports and entries alone, and activate no     *)
(* stage.                                                                  *)
LEMMA QuietFits ==
  ASSUME NEW b, BoardInv(b), NEW signal \in QuietSignals
  PROVE  LET after == Apply(b, signal)
         IN  /\ BoardInv(after) /\ after.reports = b.reports
             /\ \A n \in Stages : /\ after.stages[n].players = b.stages[n].players
                                  /\ after.stages[n].status = "active" => b.stages[n].status = "active"
<1>1. b \in Boards
  BY DEF BoardInv
<1>2. CASE signal.kind = "cancelStage"
  <2>1. Apply(b, signal) = CancelStage(b, signal) /\ signal.key \in Stages
    BY <1>2 DEF Apply, QuietSignals
  <2>2. CASE b.stages[signal.key].status # "active"
    BY <2>1, <2>2 DEF CancelStage
  <2>3. CASE b.stages[signal.key].status = "active"
    <3>. DEFINE stage == b.stages[signal.key]
                ended == [status |-> "cancelled", policy |-> stage.policy,
                          players |-> stage.players, notices |-> stage.notices + 1]
                stages == [b.stages EXCEPT ![signal.key] = ended]
                after == [reports |-> b.reports, stages |-> stages, gates |-> b.gates,
                          worktrees |-> b.worktrees]
    <3>1. stage \in StageEntries /\ Verdict(stage)
      BY <1>1, <2>1 DEF BoardInv, Boards
    <3>2. stage.notices = 0
      BY <2>3, <3>1 DEF Verdict, Ended
    <3>3. ended = Finish(stage, "cancelled")
      BY <3>1, Finished
    <3>4. ended \in StageEntries /\ Verdict(ended)
      BY <3>1, <3>2 DEF StageEntries, Verdict, Ended
    <3>5. CancelStage(b, signal) = after
      <4>. HIDE DEF ended
      <4>. QED  BY <1>1, <2>3, <3>3 DEF CancelStage, Boards
    <3>6. ended.players = stage.players /\ ended.status # "active"
      OBVIOUS
    <3>. HIDE DEF ended
    <3>7. /\ stages \in [Stages -> StageEntries] /\ \A n \in Stages : Verdict(stages[n])
          /\ \A n \in Stages : /\ stages[n].players = b.stages[n].players
                               /\ stages[n].status = "active" => b.stages[n].status = "active"
      BY <1>1, <2>1, <3>4, <3>6 DEF BoardInv, Boards
    <3>. HIDE DEF stages
    <3>. QED  BY <1>1, <2>1, <3>5, <3>7 DEF BoardInv, Boards
  <2>. QED  BY <2>1, <2>2, <2>3 DEF CancelStage
<1>3. CASE signal.kind = "setQualityGate"
  <2>1. Apply(b, signal) = [b EXCEPT !.gates[signal.key] = [c \in 1..Criteria |-> "pending"]]
    BY <1>3 DEF Apply, SetQualityGate
  <2>2. [c \in 1..Criteria |-> "pending"] \in Seq({"pending", "passed", "failed"})
    BY Numbers
  <2>. DEFINE gates == [b.gates EXCEPT ![signal.key] = [c \in 1..Criteria |-> "pending"]]
  <2>3. gates \in [Tasks -> Seq({"pending", "passed", "failed"})]
    BY <1>1, <2>2 DEF Boards
  <2>4. Apply(b, signal) = [reports |-> b.reports, stages |-> b.stages, gates |-> gates,
                            worktrees |-> b.worktrees]
    BY <1>1, <2>1 DEF Boards
  <2>. HIDE DEF gates
  <2>. QED  BY <1>1, <2>3, <2>4 DEF BoardInv, Boards
<1>4. CASE signal.kind = "evaluateGateCriteria"
  <2>1. Apply(b, signal) = EvaluateGateCriteria(b, signal)
    BY <1>4 DEF Apply
  <2>2. CASE signal.index \notin DOMAIN b.gates[signal.key]
    BY <2>1, <2>2 DEF EvaluateGateCriteria
  <2>3. CASE signal.index \in DOMAIN b.gates[signal.key]
    <3>. DEFINE gate == [b.gates[signal.key] EXCEPT ![signal.index] = signal.status]
                gates == [b.gates EXCEPT ![signal.key] = gate]
    <3>1. signal.key \in Tasks /\ signal.status \in {"passed", "failed"}
      BY <1>4 DEF QuietSignals
    <3>2. gate \in Seq({"pending", "passed", "failed"})
      BY <1>1, <2>3, <3>1 DEF Boards
    <3>3. gates \in [Tasks -> Seq({"pending", "passed", "failed"})]
      <4>. HIDE DEF gate
      <4>. QED  BY <1>1, <3>2 DEF Boards
    <3>4. Apply(b, signal) = [reports |-> b.reports, stages |-> b.stages, gates |-> gates,
                              worktrees |-> b.worktrees]
      BY <1>1, <2>1, <2>3, <3>1 DEF EvaluateGateCriteria, Boards
    <3>. HIDE DEF gates
    <3>. QED  BY <1>1, <3>3, <3>4 DEF BoardInv, Boards
  <2>. QED  BY <2>2, <2>3
<1>5. CASE signal.kind \in {"setWorktree", "removeWorktree"}
  <2>1. PICK W \in SUBSET WorktreeUsers : Apply(b, signal) = [b EXCEPT !.worktrees = W]
    BY <1>1, <1>5 DEF Apply, SetWorktree, RemoveWorktree, QuietSignals, Boards
  <2>. QED  BY <1>1, <2>1 DEF BoardInv, Boards
<1>. QED  BY <1>2, <1>3, <1>4, <1>5 DEF QuietSignals

(* Every handler keeps the board well formed. *)
LEMMA ApplyFits ==
  ASSUME NEW b, BoardInv(b), NEW signal \in Signals
  PROVE  BoardInv(Apply(b, signal))
<1>1. CASE signal \in ReportSignals
  BY <1>1, PlayerReportFits DEF Apply, ReportSignals
<1>2. CASE signal \in StageSignals
  BY <1>2, SetStageFits DEF Apply, StageSignals
<1>3. CASE signal \in QuietSignals
  BY <1>3, QuietFits
<1>. QED  BY <1>1, <1>2, <1>3 DEF Signals

-----------------------------------------------------------------------------
(* Types and verdicts *)

LEMMA Removed ==
  ASSUME NEW S, NEW s \in Seq(S), NEW i \in DOMAIN s PROVE RemoveAt(s, i) \in Seq(S)
<1>1. i \in 1..Len(s) /\ Len(s) \in Nat
  OBVIOUS
<1>2. SubSeq(s, 1, i - 1) \in Seq(S) /\ SubSeq(s, i + 1, Len(s)) \in Seq(S)
  BY <1>1
<1>. QED  BY <1>2 DEF RemoveAt

LEMMA BoardTypes == TypeOK /\ VerdictFits => BoardInv(board)
  BY VerdictFitsIsVerdicts DEF TypeOK, BoardInv

(* A signal is sent to a running or starting conductor. *)
LEMMA DeliverFits ==
  ASSUME TypeOK, VerdictFits, NEW signal \in Signals, Deliver(signal)
  PROVE  TypeOK' /\ VerdictFits'
<1>1. CASE mode = "running"
  <2>1. board' = Apply(board, signal) /\ UNCHANGED buffer
    BY <1>1 DEF Deliver
  <2>2. BoardInv(board')
    BY <2>1, BoardTypes, ApplyFits
  <2>. QED  BY <2>1, <2>2, VerdictFitsIsVerdicts DEF Deliver, TypeOK, BoardInv, VerdictFits, Verdict
<1>2. CASE mode # "running"
  <2>1. buffer' = Append(buffer, signal) /\ UNCHANGED board
    BY <1>2 DEF Deliver
  <2>2. buffer' \in Seq(Signals)
    BY <2>1 DEF TypeOK
  <2>. QED  BY <2>1, <2>2 DEF Deliver, TypeOK, VerdictFits
<1>. QED  BY <1>1, <1>2

LEMMA SendsAreSignals ==
  /\ \A p \in Players, type \in ReportTypes :
       [kind |-> "playerReport", key |-> p, type |-> type] \in Signals
  /\ \A n \in Stages, roster \in Rosters, policy \in Policies :
       [kind |-> "setStage", key |-> n, roster |-> roster, policy |-> policy] \in Signals
  /\ \A n \in Stages : [kind |-> "cancelStage", key |-> n] \in Signals
  /\ \A t \in Tasks : [kind |-> "setQualityGate", key |-> t] \in Signals
  /\ \A t \in Tasks, index \in 0..Criteria, status \in {"passed", "failed"} :
       [kind |-> "evaluateGateCriteria", key |-> t, index |-> index, status |-> status] \in Signals
  /\ \A p \in WorktreeUsers : /\ [kind |-> "setWorktree", key |-> p] \in Signals
                              /\ [kind |-> "removeWorktree", key |-> p] \in Signals
  BY ReportTypesAssumption DEF Signals, ReportSignals, StageSignals, QuietSignals

Sends ==
  \/ \E p \in Players, type \in ReportTypes : Report(p, type)
  \/ \E n \in Stages, roster \in Rosters, policy \in Policies : Define(n, roster, policy)
  \/ \E n \in Stages : Cancel(n)
  \/ \E t \in Tasks : DefineGate(t)
  \/ \E t \in Tasks, index \in 0..Criteria, status \in {"passed", "failed"} :
        Evaluate(t, index, status)
  \/ \E p \in WorktreeUsers : AddWorktree(p) \/ DropWorktree(p)

LEMMA SendsDeliver == Sends => \E signal \in Signals : Deliver(signal)
  BY SendsAreSignals, Zenon DEF Sends, Report, Define, Cancel, DefineGate, Evaluate, AddWorktree, DropWorktree

(* Ageing changes the ages of reports only. *)
LEMMA TickAges ==
  ASSUME TypeOK, Tick
  PROVE  /\ board' \in Boards /\ board'.stages = board.stages
         /\ Len(board'.reports) = Len(board.reports)
         /\ DOMAIN board'.reports = DOMAIN board.reports
         /\ \A r \in DOMAIN board.reports :
              LET old == board.reports[r]
                  new == board'.reports[r]
              IN  /\ new.playerId = old.playerId /\ new.type = old.type
                  /\ new.age = IF old.age > Window THEN old.age ELSE old.age + 1
<1>. DEFINE Aged(report) == [playerId |-> report.playerId, type |-> report.type,
                             age |-> IF report.age > Window THEN report.age ELSE report.age + 1]
            reports == [r \in DOMAIN board.reports |-> Older(board.reports[r])]
<1>1. board \in Boards /\ board.reports \in Seq(Reports)
  BY DEF TypeOK, Boards
<1>2. \A r \in DOMAIN board.reports : board.reports[r] \in Reports
  BY <1>1
<1>3. \A report \in Reports : Older(report) = Aged(report) /\ Older(report) \in Reports
  <2>. SUFFICES ASSUME NEW report \in Reports
                PROVE  Older(report) = Aged(report) /\ Aged(report) \in Reports
    OBVIOUS
  <2>1. Older(report) = Aged(report)
    BY DEF Older, Reports
  <2>. QED  BY <2>1, Numbers DEF Reports
<1>4. board' = [board EXCEPT !.reports = reports]
  BY DEF Tick
<1>5. reports \in Seq(Reports) /\ Len(reports) = Len(board.reports)
      /\ DOMAIN reports = DOMAIN board.reports
  <2>1. PICK len \in Nat : DOMAIN board.reports = 1..len
    BY <1>1
  <2>2. reports \in [1..len -> Reports]
    BY <1>2, <1>3, <2>1
  <2>. QED  BY <2>1, <2>2, <1>1
<1>6. board'.reports = reports /\ board'.stages = board.stages
  BY <1>1, <1>4 DEF Boards
<1>7. board' \in Boards
  <2>. HIDE DEF reports
  <2>. QED  BY <1>1, <1>4, <1>5 DEF Boards
<1>8. ASSUME NEW r \in DOMAIN board.reports
      PROVE  LET old == board.reports[r]
                 new == board'.reports[r]
             IN  /\ new.playerId = old.playerId /\ new.type = old.type
                 /\ new.age = IF old.age > Window THEN old.age ELSE old.age + 1
  <2>1. reports[r] = Aged(board.reports[r])
    BY <1>2, <1>3
  <2>. HIDE DEF reports
  <2>2. board'.reports[r] = Aged(board.reports[r])
    BY <1>6, <2>1
  <2>. HIDE DEF Aged
  <2>. QED  BY <2>2 DEF Aged
<1>. HIDE DEF reports
<1>. QED  BY <1>5, <1>6, <1>7, <1>8

LEMMA DrainFits ==
  ASSUME TypeOK, VerdictFits, NEW i \in DOMAIN buffer, DrainNext(i)
  PROVE  TypeOK' /\ VerdictFits'
<1>1. buffer[i] \in Signals
  BY DEF TypeOK
<1>2. board' = Apply(board, buffer[i]) /\ buffer' = RemoveAt(buffer, i)
  BY DEF DrainNext
<1>3. BoardInv(board')
  BY <1>1, <1>2, BoardTypes, ApplyFits
<1>4. buffer' \in Seq(Signals)
  BY <1>2, Removed DEF TypeOK
<1>. QED  BY <1>3, <1>4 DEF DrainNext, TypeOK, BoardInv, VerdictFits, Verdict

LEMMA StagesInit == Init => TypeOK /\ VerdictFits
<1>. SUFFICES ASSUME Init PROVE TypeOK /\ VerdictFits
  OBVIOUS
<1>1. NoStage \in StageEntries
  BY DEF NoStage, StageEntries, Policies
<1>2. EmptyBoard \in Boards
  <2>. HIDE DEF NoStage
  <2>. QED  BY <1>1 DEF EmptyBoard, Boards, NoGate
<1>3. TypeOK
  <2>1. buffer \in Seq(Signals)
    BY DEF Init
  <2>2. {sent, runs} \subseteq Nat
    BY DEF Init
  <2>3. mode \in {"starting", "draining", "running"} /\ orderly \in BOOLEAN
    BY DEF Init
  <2>4. board \in Boards
    BY <1>2 DEF Init
  <2>. QED  BY <2>1, <2>2, <2>3, <2>4 DEF TypeOK
<1>4. VerdictFits
  BY DEF Init, EmptyBoard, NoStage, VerdictFits, Ended
<1>. QED  BY <1>3, <1>4

LEMMA StagesStep ==
  TypeOK /\ VerdictFits /\ [Next]_stageVars => TypeOK' /\ VerdictFits'
<1>. SUFFICES ASSUME TypeOK, VerdictFits, [Next]_stageVars PROVE TypeOK' /\ VerdictFits'
  OBVIOUS
<1>1. CASE Sends
  BY <1>1, SendsDeliver, DeliverFits
<1>2. CASE FirstTask
  BY <1>2 DEF FirstTask, TypeOK, VerdictFits, Orderly
<1>3. ASSUME NEW i \in DOMAIN buffer, DrainNext(i) PROVE TypeOK' /\ VerdictFits'
  BY <1>3, DrainFits
<1>4. CASE Drained
  BY <1>4 DEF Drained, TypeOK, VerdictFits
<1>5. CASE NextRun
  BY <1>5 DEF NextRun, TypeOK, VerdictFits
<1>6. CASE Tick
  BY <1>6, TickAges DEF Tick, TypeOK, VerdictFits
<1>7. CASE UNCHANGED stageVars
  BY <1>7 DEF stageVars, TypeOK, VerdictFits
<1>. QED  BY <1>1, <1>2, <1>3, <1>4, <1>5, <1>6, <1>7 DEF Next, Sends

(* The conductor's state keeps its types, whatever signals come in what    *)
(* order, live or drained.                                                 *)
THEOREM StagesTypeCorrect == Spec => []TypeOK
<1>1. Spec => [](TypeOK /\ VerdictFits)
  BY StagesInit, StagesStep, PTL DEF Spec
<1>. QED  BY <1>1, PTL

(* The verdict on a stage fits its entries and is announced once, whether  *)
(* a live report or the reconciliation of setStage reached it.             *)
THEOREM VerdictsFitEntries == Spec => []VerdictFits
<1>1. Spec => [](TypeOK /\ VerdictFits)
  BY StagesInit, StagesStep, PTL DEF Spec
<1>. QED  BY <1>1, PTL

-----------------------------------------------------------------------------
(* Reports *)

LEMMA HasGreatest ==
  ASSUME NEW N \in Nat, NEW T \in SUBSET (1..N), T # {}
  PROVE  \E m \in T : \A k \in T : k <= m
<1>. DEFINE Rest == {N - k : k \in T}
<1>1. Rest \subseteq Nat /\ Rest # {}
  <2>1. ASSUME NEW k \in T PROVE N - k \in Nat
    <3>1. k \in 1..N
      OBVIOUS
    <3>. QED  BY <3>1
  <2>. QED  BY <2>1
<1>2. PICK x \in Rest : \A y \in Rest : <<y, x>> \notin OpToRel(<, Nat)
  BY <1>1, NatLessThanWellFounded, WFMin
<1>3. \A y \in Rest : ~(y < x)
  BY <1>1, <1>2 DEF OpToRel
<1>4. PICK m \in T : x = N - m
  OBVIOUS
<1>5. ASSUME NEW k \in T PROVE k <= m
  <2>1. N - k \in Rest
    OBVIOUS
  <2>. HIDE DEF Rest
  <2>. QED  BY <1>3, <1>4, <2>1
<1>. QED  BY <1>5

(* The latest report of consequence is the youngest: if it is not fresh,   *)
(* none is.                                                                *)
LEMMA NoneFresh ==
  ASSUME NEW b \in Boards, AgesOrdered(b), NEW p, Fresh(b, p) = {},
         NEW r \in ReportsOf(b, p), Relevant(b.reports[r])
  PROVE  b.reports[r].age > Window
<1>. DEFINE rs == {q \in ReportsOf(b, p) : Relevant(b.reports[q])}
<1>1. b.reports \in Seq(Reports) /\ DOMAIN b.reports = 1..Len(b.reports) /\ Len(b.reports) \in Nat
  BY DEF Boards
<1>2. rs \in SUBSET (1..Len(b.reports)) /\ r \in rs
  BY <1>1 DEF ReportsOf
<1>. HIDE DEF rs
<1>3. PICK m \in rs : \A q \in rs : q <= m
  BY <1>1, <1>2, HasGreatest
<1>. USE DEF rs
<1>4. m \in Latest(b, p)
  BY <1>3 DEF Latest, LatestOf
<1>5. ~(b.reports[m].age <= Window)
  BY <1>4 DEF Fresh
<1>6. r \in 1..m /\ m \in DOMAIN b.reports
  BY <1>1, <1>2, <1>3
<1>7. b.reports[r].age >= b.reports[m].age
  BY <1>6 DEF AgesOrdered
<1>8. b.reports[r].age \in Nat /\ b.reports[m].age \in Nat
  <2>1. r \in DOMAIN b.reports
    BY <1>1, <1>2
  <2>2. b.reports[r] \in Reports /\ b.reports[m] \in Reports
    BY <1>6, <2>1, ReportsTyped
  <2>. QED  BY <2>2, Numbers DEF Reports
<1>. QED  BY <1>5, <1>7, <1>8, Numbers

LEMMA PlayerReportReports ==
  ASSUME NEW b, BoardInv(b), BoardReports(b), NEW signal \in ReportSignals
  PROVE  BoardReports(PlayerReport(b, signal))
<1>. DEFINE report == [playerId |-> signal.key, type |-> signal.type, age |-> 0]
            r == Len(b.reports) + 1
            after == PlayerReport(b, signal)
<1>1. report \in Reports /\ r \in Nat
  BY Numbers DEF ReportSignals, Reports, BoardInv, Boards
<1>2. b \in Boards /\ b.reports \in Seq(Reports) /\ DOMAIN b.reports = 1..Len(b.reports)
      /\ Len(b.reports) \in Nat
  BY DEF BoardInv, Boards
<1>3. after.reports = Append(b.reports, report)
      /\ after.stages = [n \in Stages |-> CountReport(b.stages[n], report, r)]
  BY <1>2 DEF PlayerReport, Boards
<1>. HIDE DEF after
<1>4. /\ DOMAIN after.reports = 1..r
      /\ \A q \in 1..Len(b.reports) : after.reports[q] = b.reports[q]
      /\ after.reports[r] = report
  <2>. HIDE DEF report
  <2>. QED  BY <1>1, <1>2, <1>3
<1>5. \A q \in 1..Len(b.reports) : b.reports[q].age \in Nat
  <2>1. \A q \in 1..Len(b.reports) : b.reports[q] \in Reports
    BY <1>2
  <2>. QED  BY <2>1, Numbers DEF Reports
<1>6. AgesOrdered(after)
  <2>. SUFFICES ASSUME NEW x \in 1..r, NEW q \in 1..x
                PROVE  after.reports[q].age >= after.reports[x].age
    BY <1>4 DEF AgesOrdered
  <2>1. CASE x = r
    <3>1. after.reports[x].age = 0
      BY <1>4, <2>1
    <3>2. after.reports[q].age \in Nat
      BY <1>2, <1>4, <1>5, <2>1
    <3>. QED  BY <3>1, <3>2
  <2>2. CASE x # r
    <3>1. x \in 1..Len(b.reports) /\ q \in 1..Len(b.reports)
      BY <1>2, <2>2
    <3>. QED  BY <1>2, <1>4, <3>1 DEF BoardReports, AgesOrdered
  <2>. QED  BY <2>1, <2>2
<1>7. ASSUME NEW n \in Stages
      PROVE  Distinct(after.stages[n].players) /\ WaitsRightly(after, after.stages[n])
  <2>. DEFINE stage == b.stages[n]
              counted == CountsFor(stage, report)
              then == after.stages[n]
  <2>1. stage \in StageEntries /\ Verdict(stage)
    BY DEF BoardInv, Boards
  <2>2. then = CountReport(stage, report, r)
    BY <1>3
  <2>3. /\ DOMAIN then.players = DOMAIN stage.players
        /\ \A i \in DOMAIN stage.players : then.players[i].playerId = stage.players[i].playerId
        /\ then.status = "active" =>
             /\ stage.status = "active"
             /\ \A i \in DOMAIN stage.players : then.players[i].status = "waiting" =>
                  i \notin counted /\ stage.players[i].status = "waiting"
    <3>. HIDE DEF report, r, stage
    <3>. QED  BY <1>1, <2>1, <2>2, CountReportFits
  <2>4. Distinct(stage.players) /\ WaitsRightly(b, stage)
    BY DEF BoardReports
  <2>5. Distinct(then.players)
    BY <2>3, <2>4 DEF Distinct
  <2>6. ASSUME then.status = "active", NEW i \in DOMAIN then.players,
               then.players[i].status = "waiting",
               NEW q \in ReportsOf(after, then.players[i].playerId), Relevant(after.reports[q])
        PROVE  after.reports[q].age > Window
    <3>. DEFINE p == stage.players[i].playerId
    <3>1. /\ i \in DOMAIN stage.players /\ stage.status = "active" /\ i \notin counted
          /\ stage.players[i].status = "waiting" /\ then.players[i].playerId = p
      BY <2>3, <2>6
    <3>2. q \in 1..r /\ after.reports[q].playerId = p
      BY <1>4, <2>6, <3>1 DEF ReportsOf
    <3>3. CASE q = r
      <4>1. report.playerId = p /\ Relevant(report)
        BY <1>4, <2>6, <3>2, <3>3
      <4>2. DOMAIN stage.players \subseteq Nat
        BY <2>1 DEF StageEntries
      <4>3. \A j \in 1..(i - 1) : j \in DOMAIN stage.players => stage.players[j].playerId # p
        BY <2>4, <3>1, <4>2 DEF Distinct
      <4>4. \A j \in 1..(i - 1) : j \in DOMAIN stage.players
        BY <2>1, <3>1 DEF StageEntries
      <4>5. i \in EntryOf(stage, report.playerId)
        BY <3>1, <4>1, <4>3, <4>4 DEF EntryOf
      <4>6. i \in counted
        BY <3>1, <4>1, <4>5 DEF CountsFor
      <4>. QED  BY <3>1, <4>6
    <3>4. CASE q # r
      <4>1. q \in 1..Len(b.reports)
        BY <1>2, <3>2, <3>4
      <4>2. after.reports[q] = b.reports[q] /\ q \in ReportsOf(b, p)
        BY <1>2, <1>4, <3>2, <4>1 DEF ReportsOf
      <4>. QED  BY <2>4, <2>6, <3>1, <4>2 DEF WaitsRightly
    <3>. QED  BY <3>3, <3>4
  <2>. QED  BY <2>5, <2>6 DEF WaitsRightly
<1>. QED  BY <1>6, <1>7 DEF BoardReports, after

LEMMA SetStageReports ==
  ASSUME NEW b, BoardInv(b), BoardReports(b), NEW signal \in StageSignals, NoRepetition
  PROVE  BoardReports(SetStage(b, signal))
<1>. DEFINE players == [i \in DOMAIN signal.roster |-> NewEntry(b, signal.roster[i])]
            after == SetStage(b, signal)
<1>1. b \in Boards /\ signal.roster \in Rosters /\ signal.roster \in Seq(Players)
      /\ signal.key \in Stages
  BY RostersAssumption DEF BoardInv, StageSignals
<1>2. /\ after.reports = b.reports
      /\ \A n \in Stages \ {signal.key} : after.stages[n] = b.stages[n]
      /\ after.stages[signal.key].players = players
  BY SetStageFits
<1>3. \A i \in DOMAIN signal.roster : signal.roster[i] \in Players
  BY <1>1
<1>4. \A i \in DOMAIN signal.roster :
        /\ players[i].playerId = signal.roster[i]
        /\ players[i].status = "waiting" => Fresh(b, signal.roster[i]) = {}
  BY <1>1, <1>3, NewEntryFits
<1>5. DOMAIN players = DOMAIN signal.roster
  OBVIOUS
<1>. HIDE DEF players, after
<1>6. Distinct(players)
  BY <1>1, <1>4, <1>5 DEF Distinct, NoRepetition
<1>7. ASSUME NEW i \in DOMAIN players, players[i].status = "waiting",
             NEW r \in ReportsOf(after, players[i].playerId), Relevant(after.reports[r])
      PROVE  after.reports[r].age > Window
  <2>1. AgesOrdered(b) /\ Fresh(b, players[i].playerId) = {}
    BY <1>4, <1>5, <1>7 DEF BoardReports
  <2>2. r \in ReportsOf(b, players[i].playerId) /\ Relevant(b.reports[r])
    BY <1>2, <1>7 DEF ReportsOf
  <2>. QED  BY <1>1, <1>2, <2>1, <2>2, NoneFresh
<1>8. AgesOrdered(after)
  BY <1>2 DEF BoardReports, AgesOrdered
<1>9. ASSUME NEW n \in Stages
      PROVE  Distinct(after.stages[n].players) /\ WaitsRightly(after, after.stages[n])
  <2>1. CASE n = signal.key
    BY <1>2, <1>6, <1>7, <2>1 DEF WaitsRightly
  <2>2. CASE n # signal.key
    BY <1>2, <2>2 DEF BoardReports, WaitsRightly, ReportsOf
  <2>. QED  BY <2>1, <2>2
<1>. QED  BY <1>8, <1>9 DEF BoardReports, after

LEMMA QuietReports ==
  ASSUME NEW b, BoardInv(b), BoardReports(b), NEW signal \in QuietSignals
  PROVE  BoardReports(Apply(b, signal))
<1>. DEFINE after == Apply(b, signal)
<1>1. /\ after.reports = b.reports
      /\ \A n \in Stages : /\ after.stages[n].players = b.stages[n].players
                           /\ after.stages[n].status = "active" => b.stages[n].status = "active"
  BY QuietFits
<1>. HIDE DEF after
<1>2. AgesOrdered(after)
  BY <1>1 DEF BoardReports, AgesOrdered
<1>3. \A p : ReportsOf(after, p) = ReportsOf(b, p)
  BY <1>1 DEF ReportsOf
<1>4. ASSUME NEW n \in Stages
      PROVE  Distinct(after.stages[n].players) /\ WaitsRightly(after, after.stages[n])
  BY <1>1, <1>3 DEF BoardReports, WaitsRightly
<1>. QED  BY <1>2, <1>4 DEF BoardReports, after

LEMMA ApplyReports ==
  ASSUME NEW b, BoardInv(b), BoardReports(b), NEW signal \in Signals, NoRepetition
  PROVE  BoardReports(Apply(b, signal))
<1>1. CASE signal \in ReportSignals
  BY <1>1, PlayerReportReports DEF Apply, ReportSignals
<1>2. CASE signal \in StageSignals
  BY <1>2, SetStageReports DEF Apply, StageSignals
<1>3. CASE signal \in QuietSignals
  BY <1>3, QuietReports
<1>. QED  BY <1>1, <1>2, <1>3 DEF Signals

LEMMA TickReports ==
  ASSUME TypeOK, BoardReports(board), Tick
  PROVE  BoardReports(board')
<1>1. /\ board'.stages = board.stages
      /\ DOMAIN board'.reports = DOMAIN board.reports
      /\ \A r \in DOMAIN board.reports :
           LET old == board.reports[r]
               new == board'.reports[r]
           IN  /\ new.playerId = old.playerId /\ new.type = old.type
               /\ new.age = IF old.age > Window THEN old.age ELSE old.age + 1
  BY TickAges
<1>2. board.reports \in Seq(Reports) /\ DOMAIN board.reports = 1..Len(board.reports)
      /\ Len(board.reports) \in Nat
  BY DEF TypeOK, Boards
<1>3. \A r \in DOMAIN board.reports : board.reports[r].age \in Nat
  <2>1. \A r \in DOMAIN board.reports : board.reports[r] \in Reports
    BY <1>2
  <2>. QED  BY <2>1, Numbers DEF Reports
<1>4. AgesOrdered(board')
  <2>. SUFFICES ASSUME NEW r \in DOMAIN board.reports, NEW q \in 1..r
                PROVE  board'.reports[q].age >= board'.reports[r].age
    BY <1>1 DEF AgesOrdered
  <2>1. q \in DOMAIN board.reports /\ board.reports[q].age >= board.reports[r].age
    BY <1>2 DEF BoardReports, AgesOrdered
  <2>. QED  BY <1>1, <1>3, <2>1, Numbers
<1>5. ASSUME NEW p PROVE ReportsOf(board', p) = ReportsOf(board, p)
  BY <1>1 DEF ReportsOf
<1>6. \A r \in DOMAIN board.reports :
        /\ Relevant(board'.reports[r]) <=> Relevant(board.reports[r])
        /\ board.reports[r].age > Window => board'.reports[r].age > Window
  BY <1>1 DEF Relevant
<1>7. ASSUME NEW n \in Stages PROVE WaitsRightly(board', board'.stages[n])
  <2>1. WaitsRightly(board, board.stages[n])
    BY DEF BoardReports
  <2>2. \A p : ReportsOf(board, p) \subseteq DOMAIN board.reports
    BY DEF ReportsOf
  <2>. QED  BY <1>1, <1>5, <1>6, <2>1, <2>2 DEF WaitsRightly
<1>. QED  BY <1>1, <1>4, <1>7 DEF BoardReports

LEMMA ReportsStep ==
  ASSUME NoRepetition
  PROVE  TypeOK /\ VerdictFits /\ BoardReports(board) /\ [Next]_stageVars => BoardReports(board)'
<1>. SUFFICES ASSUME TypeOK, VerdictFits, BoardReports(board), [Next]_stageVars
              PROVE  BoardReports(board')
  OBVIOUS
<1>1. BoardInv(board)
  BY BoardTypes
<1>2. ASSUME NEW signal \in Signals, Deliver(signal) PROVE BoardReports(board')
  BY <1>1, <1>2, ApplyReports DEF Deliver
<1>3. CASE Sends
  BY <1>2, <1>3, SendsDeliver
<1>4. ASSUME NEW i \in DOMAIN buffer, DrainNext(i) PROVE BoardReports(board')
  <2>1. buffer[i] \in Signals
    BY DEF TypeOK
  <2>. QED  BY <1>1, <1>4, <2>1, ApplyReports DEF DrainNext
<1>5. CASE Tick
  BY <1>5, TickReports
<1>6. CASE FirstTask \/ Drained \/ NextRun \/ UNCHANGED stageVars
  BY <1>6 DEF FirstTask, Drained, NextRun, stageVars
<1>. QED  BY <1>3, <1>4, <1>5, <1>6 DEF Next, Sends

LEMMA ReportsInit == Init => BoardReports(board)
  BY DEF Init, EmptyBoard, NoStage, BoardReports, AgesOrdered, Distinct, WaitsRightly

LEMMA ReportsFit == BoardReports(board) => NoReportLost
  BY DEF BoardReports, WaitsRightly, NoReportLost

(* As long as no roster names a player twice, an active stage never waits  *)
(* for a player whose result or blocker counts, whatever was reported,     *)
(* replaced, cancelled or drained before.                                  *)
THEOREM NoReportIsLost == NoRepetition => (Spec => []NoReportLost)
<1>. SUFFICES ASSUME NoRepetition PROVE Spec => []NoReportLost
  OBVIOUS
<1>. DEFINE Inv == TypeOK /\ VerdictFits /\ BoardReports(board)
<1>1. Init => Inv
  BY StagesInit, ReportsInit
<1>2. Inv /\ [Next]_stageVars => Inv'
  BY StagesStep, ReportsStep
<1>3. Inv => NoReportLost
  BY ReportsFit
<1>. QED  BY <1>1, <1>2, <1>3, PTL DEF Spec
-----------------------------------------------------------------------------
(* The drain *)

(* What a signal makes of each part of the board. *)
Told(signal) == [playerId |-> signal.key, type |-> signal.type, age |-> 0]
Defined(b, signal) ==
  [status |-> "active", policy |-> signal.policy, notices |-> 0,
   players |-> [i \in DOMAIN signal.roster |-> NewEntry(b, signal.roster[i])]]
ReportsAfter(b, signal) ==
  IF signal.kind = "playerReport" THEN Append(b.reports, Told(signal)) ELSE b.reports
StageAfter(b, signal, n) ==
  IF signal.kind = "playerReport" THEN CountReport(b.stages[n], Told(signal), Len(b.reports) + 1)
  ELSE IF signal.kind = "setStage" /\ signal.key = n THEN Settle(Defined(b, signal))
  ELSE IF signal.kind = "cancelStage" /\ signal.key = n /\ b.stages[n].status = "active"
    THEN Finish(b.stages[n], "cancelled")
  ELSE b.stages[n]
GatesAfter(gates, signal) ==
  IF signal.kind = "setQualityGate"
    THEN [gates EXCEPT ![signal.key] = [c \in 1..Criteria |-> "pending"]]
  ELSE IF signal.kind = "evaluateGateCriteria" /\ signal.index \in DOMAIN gates[signal.key]
    THEN [gates EXCEPT ![signal.key] = [gates[signal.key] EXCEPT ![signal.index] = signal.status]]
  ELSE gates
TreesAfter(trees, signal) ==
  IF signal.kind = "setWorktree" THEN trees \cup {signal.key}
  ELSE IF signal.kind = "removeWorktree" THEN trees \ {signal.key} ELSE trees

LEMMA KindsOfSignals ==
  ASSUME NEW signal \in Signals
  PROVE  \/ signal.kind = "playerReport" /\ signal \in ReportSignals
         \/ signal.kind = "setStage" /\ signal \in StageSignals
         \/ signal.kind = "cancelStage" /\ signal.key \in Stages /\ signal \in QuietSignals
         \/ signal.kind = "setQualityGate" /\ signal.key \in Tasks /\ signal \in QuietSignals
         \/ /\ signal.kind = "evaluateGateCriteria" /\ signal.key \in Tasks
            /\ signal \in QuietSignals
         \/ signal.kind = "setWorktree" /\ signal \in QuietSignals
         \/ signal.kind = "removeWorktree" /\ signal \in QuietSignals
BY DEF Signals, ReportSignals, StageSignals, QuietSignals

LEMMA Handles ==
  ASSUME NEW b, BoardInv(b), NEW signal \in Signals
  PROVE  LET after == Apply(b, signal)
         IN  /\ after.reports = ReportsAfter(b, signal)
             /\ \A n \in Stages : after.stages[n] = StageAfter(b, signal, n)
             /\ after.gates = GatesAfter(b.gates, signal)
             /\ after.worktrees = TreesAfter(b.worktrees, signal)
<1>. DEFINE after == Apply(b, signal)
            Goal == /\ after.reports = ReportsAfter(b, signal)
                    /\ \A n \in Stages : after.stages[n] = StageAfter(b, signal, n)
                    /\ after.gates = GatesAfter(b.gates, signal)
                    /\ after.worktrees = TreesAfter(b.worktrees, signal)
<1>0. b \in Boards /\ b.stages \in [Stages -> StageEntries]
  BY DEF BoardInv, Boards
<1>. USE DEF ReportsAfter, StageAfter, GatesAfter, TreesAfter
<1>1. CASE signal.kind = "playerReport"
  <2>. DEFINE r == Len(b.reports) + 1
              reports == Append(b.reports, Told(signal))
              stages == [n \in Stages |-> CountReport(b.stages[n], Told(signal), r)]
              more == [b EXCEPT !.reports = reports]
  <2>1. after = [b EXCEPT !.reports = reports, !.stages = stages]
    BY <1>0, <1>1 DEF Apply, PlayerReport, Told, Boards
  <2>. HIDE DEF reports, stages, after, r
  <2>2. after = [more EXCEPT !.stages = stages]
    BY <1>0, <2>1 DEF Boards
  <2>3. more = [reports |-> reports, stages |-> b.stages, gates |-> b.gates,
                worktrees |-> b.worktrees]
    BY <1>0 DEF Boards
  <2>. HIDE DEF more
  <2>4. after.reports = reports /\ after.stages = stages /\ after.gates = b.gates
        /\ after.worktrees = b.worktrees
    BY <2>2, <2>3
  <2>5. \A n \in Stages : after.stages[n] = CountReport(b.stages[n], Told(signal), Len(b.reports) + 1)
    BY <2>4 DEF stages, r
  <2>6. Goal
    BY <1>1, <2>4, <2>5 DEF reports
  <2>. QED  BY <2>6 DEF after
<1>2. CASE signal.kind = "setStage"
  <2>. DEFINE stage == Settle(Defined(b, signal))
              stages == [b.stages EXCEPT ![signal.key] = stage]
  <2>1. after = [b EXCEPT !.stages = stages]
    BY <1>0, <1>2 DEF Apply, SetStage, Defined, Boards
  <2>2. \A n \in Stages : stages[n] = IF signal.key = n THEN stage ELSE b.stages[n]
    BY <1>0
  <2>. HIDE DEF stage, stages, after
  <2>3. after.reports = b.reports /\ after.stages = stages /\ after.gates = b.gates
        /\ after.worktrees = b.worktrees
    BY <1>0, <2>1 DEF Boards
  <2>4. Goal
    BY <1>2, <2>2, <2>3 DEF stage
  <2>. QED  BY <2>4 DEF after
<1>3. CASE signal.kind = "cancelStage"
  <2>. DEFINE stage == IF b.stages[signal.key].status = "active"
                         THEN Finish(b.stages[signal.key], "cancelled") ELSE b.stages[signal.key]
              stages == [b.stages EXCEPT ![signal.key] = stage]
  <2>1. after = [b EXCEPT !.stages = stages]
    <3>1. after = CancelStage(b, signal)
      BY <1>3 DEF Apply
    <3>2. CASE b.stages[signal.key].status = "active"
      BY <1>0, <3>1, <3>2 DEF CancelStage, Boards
    <3>3. CASE b.stages[signal.key].status # "active"
      <4>1. stages = b.stages
        BY <1>0, <3>3
      <4>2. after = b
        BY <3>1, <3>3 DEF CancelStage
      <4>. HIDE DEF stages, after
      <4>. QED  BY <1>0, <4>1, <4>2 DEF Boards
    <3>. QED  BY <3>2, <3>3
  <2>2. \A n \in Stages : stages[n] = IF signal.key = n THEN stage ELSE b.stages[n]
    BY <1>0
  <2>. HIDE DEF stage, stages, after
  <2>3. after.reports = b.reports /\ after.stages = stages /\ after.gates = b.gates
        /\ after.worktrees = b.worktrees
    BY <1>0, <2>1 DEF Boards
  <2>4. Goal
    BY <1>3, <2>2, <2>3 DEF stage
  <2>. QED  BY <2>4 DEF after
<1>4. CASE signal.kind = "setQualityGate"
  <2>. DEFINE gates == [b.gates EXCEPT ![signal.key] = [c \in 1..Criteria |-> "pending"]]
  <2>1. after = [b EXCEPT !.gates = gates]
    BY <1>0, <1>4 DEF Apply, SetQualityGate, Boards
  <2>. HIDE DEF gates, after
  <2>2. after.reports = b.reports /\ after.stages = b.stages /\ after.gates = gates
        /\ after.worktrees = b.worktrees
    BY <1>0, <2>1 DEF Boards
  <2>3. Goal
    BY <1>4, <2>2 DEF gates
  <2>. QED  BY <2>3 DEF after
<1>5. CASE signal.kind = "evaluateGateCriteria"
  <2>1. after = EvaluateGateCriteria(b, signal)
    BY <1>5 DEF Apply
  <2>2. CASE signal.index \notin DOMAIN b.gates[signal.key]
    BY <1>5, <2>1, <2>2 DEF EvaluateGateCriteria
  <2>3. CASE signal.index \in DOMAIN b.gates[signal.key]
    <3>. DEFINE gates ==
           [b.gates EXCEPT ![signal.key] = [b.gates[signal.key] EXCEPT ![signal.index] = signal.status]]
    <3>1. after = [b EXCEPT !.gates = gates]
      <4>1. signal.key \in Tasks
        BY <1>5, KindsOfSignals
      <4>. QED  BY <1>0, <2>1, <2>3, <4>1 DEF EvaluateGateCriteria, Boards
    <3>. HIDE DEF gates, after
    <3>2. after.reports = b.reports /\ after.stages = b.stages /\ after.gates = gates
          /\ after.worktrees = b.worktrees
      BY <1>0, <3>1 DEF Boards
    <3>3. Goal
      BY <1>5, <2>3, <3>2 DEF gates
    <3>. QED  BY <3>3 DEF after
  <2>. QED  BY <2>2, <2>3
<1>6. CASE signal.kind \in {"setWorktree", "removeWorktree"}
  <2>. DEFINE trees == TreesAfter(b.worktrees, signal)
  <2>1. after = [b EXCEPT !.worktrees = trees]
    BY <1>0, <1>6 DEF Apply, SetWorktree, RemoveWorktree, Boards
  <2>. HIDE DEF after, trees
  <2>2. after.reports = b.reports /\ after.stages = b.stages /\ after.gates = b.gates
        /\ after.worktrees = trees
    BY <1>0, <2>1 DEF Boards
  <2>3. Goal
    BY <1>6, <2>2 DEF trees
  <2>. QED  BY <2>3 DEF after
<1>. QED  BY <1>1, <1>2, <1>3, <1>4, <1>5, <1>6, KindsOfSignals

(* Boards that differ at most in the entries of stages that are over.      *)
AlikeStage(one, other) ==
  \/ one = other
  \/ /\ one.status = other.status /\ one.status # "active"
     /\ one.notices = other.notices
Alike(b, c) ==
  /\ b.reports = c.reports /\ b.gates = c.gates /\ b.worktrees = c.worktrees
  /\ \A n \in Stages : AlikeStage(b.stages[n], c.stages[n])

LEMMA AlikeAll ==
  /\ \A b : Alike(b, b)
  /\ \A b, c, d : Alike(b, c) /\ Alike(c, d) => Alike(b, d)
  /\ \A b, c : Alike(b, c) => Alike(c, b)
<1>1. /\ \A x : AlikeStage(x, x)
      /\ \A x, y, z : AlikeStage(x, y) /\ AlikeStage(y, z) => AlikeStage(x, z)
      /\ \A x, y : AlikeStage(x, y) => AlikeStage(y, x)
  BY DEF AlikeStage
<1>. QED  BY <1>1 DEF Alike

LEMMA AlikeVerdicts == \A b, c : Alike(b, c) => Verdicts(b) = Verdicts(c)
BY DEF Alike, AlikeStage, Verdicts

(* What is counted, and how an entry starts, depends on the reports alone. *)
LEMMA SameReports ==
  ASSUME NEW b, NEW c, b.reports = c.reports, NEW p
  PROVE  Fresh(b, p) = Fresh(c, p) /\ NewEntry(b, p) = NewEntry(c, p)
<1>. DEFINE Chosen(F) == CHOOSE r \in F : TRUE
<1>1. ReportsOf(b, p) = ReportsOf(c, p)
  BY DEF ReportsOf
<1>2. Latest(b, p) = Latest(c, p)
  BY <1>1 DEF Latest
<1>3. Fresh(b, p) = Fresh(c, p)
  BY <1>2 DEF Fresh
<1>4. \A d : NewEntry(d, p) =
        IF Fresh(d, p) = {} THEN [playerId |-> p, status |-> "waiting", report |-> 0]
        ELSE [playerId |-> p, status |-> Standing(d.reports[Chosen(Fresh(d, p))].type),
              report |-> Chosen(Fresh(d, p))]
  BY DEF NewEntry
<1>. HIDE DEF Chosen
<1>. QED  BY <1>3, <1>4

LEMMA AlikeStays ==
  ASSUME NEW b, BoardInv(b), NEW c, BoardInv(c), Alike(b, c), NEW signal \in Signals
  PROVE  Alike(Apply(b, signal), Apply(c, signal))
<1>1. b.reports = c.reports /\ b.gates = c.gates /\ b.worktrees = c.worktrees
  BY DEF Alike
<1>2. ReportsAfter(b, signal) = ReportsAfter(c, signal)
  BY <1>1 DEF ReportsAfter
<1>3. signal.kind = "setStage" => Defined(b, signal) = Defined(c, signal)
  <2>1. \A p : NewEntry(b, p) = NewEntry(c, p)
    BY <1>1, SameReports
  <2>. QED  BY <2>1 DEF Defined
<1>4. ASSUME NEW n \in Stages
      PROVE  AlikeStage(StageAfter(b, signal, n), StageAfter(c, signal, n))
  <2>. DEFINE x == b.stages[n]
              y == c.stages[n]
  <2>1. AlikeStage(x, y)
    BY DEF Alike
  <2>2. CASE signal.kind = "playerReport"
    <3>1. \A z, told, r : z.status # "active" => CountReport(z, told, r) = z
      BY DEF CountReport, CountsFor
    <3>2. CASE x = y
      BY <1>1, <2>2, <3>2 DEF StageAfter, AlikeStage
    <3>3. CASE x # y
      BY <2>1, <2>2, <3>1, <3>3 DEF StageAfter, AlikeStage
    <3>. QED  BY <3>2, <3>3
  <2>3. CASE signal.kind = "setStage"
    BY <1>3, <2>1, <2>3 DEF StageAfter, AlikeStage
  <2>4. CASE signal.kind \notin {"playerReport", "setStage"}
    BY <2>1, <2>4 DEF StageAfter, AlikeStage
  <2>. QED  BY <2>2, <2>3, <2>4
<1>. DEFINE bs == Apply(b, signal)
            cs == Apply(c, signal)
<1>5. /\ bs.reports = ReportsAfter(b, signal) /\ cs.reports = ReportsAfter(c, signal)
      /\ bs.gates = GatesAfter(b.gates, signal) /\ cs.gates = GatesAfter(c.gates, signal)
      /\ bs.worktrees = TreesAfter(b.worktrees, signal)
      /\ cs.worktrees = TreesAfter(c.worktrees, signal)
      /\ \A n \in Stages : /\ bs.stages[n] = StageAfter(b, signal, n)
                           /\ cs.stages[n] = StageAfter(c, signal, n)
  BY Handles
<1>. HIDE DEF bs, cs
<1>6. Alike(bs, cs)
  BY <1>1, <1>2, <1>4, <1>5 DEF Alike
<1>. QED  BY <1>6 DEF bs, cs

(* A report that comes after the definition of a stage counts for it as    *)
(* one that came before.                                                   *)
LEMMA EntriesAfterReport ==
  ASSUME NEW b \in Boards, NEW c, NEW y \in ReportSignals, c.reports = Append(b.reports, Told(y)),
         Fresh(b, y.key) = {}, NEW p
  PROVE  NewEntry(c, p) =
           IF p = y.key /\ Relevant(Told(y))
             THEN [playerId |-> p, status |-> Standing(y.type), report |-> Len(b.reports) + 1]
             ELSE NewEntry(b, p)
<1>. DEFINE r == Len(b.reports) + 1
            Chosen(F) == CHOOSE q \in F : TRUE
<1>1. /\ b.reports \in Seq(Reports) /\ DOMAIN b.reports = 1..Len(b.reports)
      /\ Len(b.reports) \in Nat
  BY DEF Boards
<1>2. /\ DOMAIN c.reports = 1..r
      /\ \A q \in 1..Len(b.reports) : c.reports[q] = b.reports[q]
      /\ c.reports[r] = Told(y)
  <2>1. Told(y) \in Reports
    BY Numbers DEF Told, Reports, ReportSignals
  <2>. QED  BY <1>1, <2>1
<1>3. /\ DOMAIN b.reports \subseteq DOMAIN c.reports /\ r \in Nat
      /\ \A q \in DOMAIN c.reports : q \in DOMAIN b.reports \/ q = r
      /\ \A q \in DOMAIN b.reports : q < r
  BY <1>1, <1>2
<1>4. \A d : NewEntry(d, p) =
        IF Fresh(d, p) = {} THEN [playerId |-> p, status |-> "waiting", report |-> 0]
        ELSE [playerId |-> p, status |-> Standing(d.reports[Chosen(Fresh(d, p))].type),
              report |-> Chosen(Fresh(d, p))]
  BY DEF NewEntry
<1>5. Told(y).playerId = y.key /\ Told(y).type = y.type /\ Told(y).age = 0
  BY DEF Told
<1>. DEFINE Rel(d) == {q \in ReportsOf(d, p) : Relevant(d.reports[q])}
<1>6. CASE ~(p = y.key /\ Relevant(Told(y)))
  <2>1. Rel(c) = Rel(b)
    BY <1>1, <1>2, <1>3, <1>5, <1>6 DEF ReportsOf
  <2>2. Latest(c, p) = Latest(b, p)
    BY <2>1 DEF Latest
  <2>3. Latest(b, p) \subseteq DOMAIN b.reports
    BY DEF Latest, LatestOf, ReportsOf
  <2>4. Fresh(c, p) = Fresh(b, p) /\ Fresh(b, p) \subseteq DOMAIN b.reports
    BY <1>1, <1>2, <2>2, <2>3 DEF Fresh
  <2>5. Fresh(b, p) # {} => Chosen(Fresh(b, p)) \in Fresh(b, p)
    OBVIOUS
  <2>. HIDE DEF Chosen
  <2>6. Fresh(b, p) # {} => c.reports[Chosen(Fresh(b, p))] = b.reports[Chosen(Fresh(b, p))]
    BY <1>1, <1>2, <2>4, <2>5
  <2>. QED  BY <1>4, <1>6, <2>4, <2>6
<1>7. CASE p = y.key /\ Relevant(Told(y))
  <2>1. r \in Rel(c) /\ \A q \in Rel(c) : q <= r /\ q \in Nat
    BY <1>1, <1>2, <1>3, <1>5, <1>7 DEF ReportsOf
  <2>2. Latest(c, p) = {r}
    <3>1. Latest(c, p) = LatestOf(Rel(c))
      BY DEF Latest
    <3>. HIDE DEF Rel
    <3>. QED  BY <1>3, <2>1, <3>1 DEF LatestOf
  <2>3. Fresh(c, p) = {r}
    BY <1>2, <1>5, <2>2, Numbers DEF Fresh
  <2>4. Chosen(Fresh(c, p)) = r
    BY <2>3
  <2>5. Fresh(c, p) # {}
    BY <2>3
  <2>. HIDE DEF Chosen
  <2>. QED  BY <1>2, <1>4, <1>5, <1>7, <2>4, <2>5
<1>. QED  BY <1>6, <1>7

LEMMA DefinedFits ==
  ASSUME NEW b \in Boards, NEW x \in StageSignals
  PROVE  /\ Defined(b, x) \in StageEntries
         /\ DOMAIN Defined(b, x).players = DOMAIN x.roster
         /\ \A i \in DOMAIN x.roster : /\ x.roster[i] \in Players
                                       /\ Defined(b, x).players[i] = NewEntry(b, x.roster[i])
         /\ Defined(b, x).players \in Seq(Entries)
         /\ Defined(b, x).status = "active" /\ Defined(b, x).notices = 0
         /\ Defined(b, x).policy = x.policy
<1>. DEFINE players == [i \in DOMAIN x.roster |-> NewEntry(b, x.roster[i])]
<1>0. x.roster \in Seq(Players) /\ x.policy \in Policies
  BY RostersAssumption DEF StageSignals
<1>1. PICK len \in Nat : x.roster \in [1..len -> Players] /\ DOMAIN x.roster = 1..len
  BY <1>0
<1>2. \A i \in 1..len : NewEntry(b, x.roster[i]) \in Entries
  BY <1>1, NewEntryFits
<1>3. players \in Seq(Entries)
  <2>1. players \in [1..len -> Entries]
    BY <1>1, <1>2
  <2>. QED  BY <2>1
<1>4. Defined(b, x) = [status |-> "active", policy |-> x.policy, notices |-> 0, players |-> players]
  BY DEF Defined
<1>5. DOMAIN players = DOMAIN x.roster
      /\ \A i \in DOMAIN x.roster : x.roster[i] \in Players /\ players[i] = NewEntry(b, x.roster[i])
  BY <1>1
<1>. HIDE DEF players
<1>. QED  BY <1>0, <1>3, <1>4, <1>5 DEF StageEntries

LEMMA ReportMeetsStage ==
  ASSUME NoRepetition, NEW b \in Boards, NEW c \in Boards, NEW x \in StageSignals,
         NEW y \in ReportSignals, c.reports = Append(b.reports, Told(y)),
         Fresh(b, y.key) = {}
  PROVE  AlikeStage(CountReport(Settle(Defined(b, x)), Told(y), Len(b.reports) + 1),
                    Settle(Defined(c, x)))
<1>. DEFINE p == y.key
            r == Len(b.reports) + 1
            told == Told(y)
            one == Defined(b, x)
            other == Defined(c, x)
            mark == [playerId |-> p, status |-> Standing(y.type), report |-> r]
<1>1. \A q : NewEntry(c, q) = IF q = p /\ Relevant(told) THEN mark ELSE NewEntry(b, q)
  BY EntriesAfterReport
<1>2. /\ one \in StageEntries /\ other \in StageEntries
      /\ DOMAIN one.players = DOMAIN x.roster /\ DOMAIN other.players = DOMAIN x.roster
      /\ one.players \in Seq(Entries) /\ other.players \in Seq(Entries)
      /\ one.status = "active" /\ one.notices = 0 /\ one.policy = x.policy
      /\ other.status = "active" /\ other.notices = 0 /\ other.policy = x.policy
      /\ \A i \in DOMAIN x.roster : /\ x.roster[i] \in Players
                                    /\ one.players[i] = NewEntry(b, x.roster[i])
                                    /\ other.players[i] = NewEntry(c, x.roster[i])
  BY DefinedFits
<1>3. told.playerId = p /\ told.type = y.type /\ mark.playerId = p
  BY DEF Told
<1>4. /\ NewEntry(b, p) = [playerId |-> p, status |-> "waiting", report |-> 0]
      /\ \A q \in Players : NewEntry(b, q).playerId = q
  <2>1. NewEntry(b, p) = [playerId |-> p, status |-> "waiting", report |-> 0]
    BY DEF NewEntry
  <2>. QED  BY <2>1, NewEntryFits
<1>5. x.roster \in Rosters /\ DOMAIN x.roster \subseteq Nat
      /\ \A i \in DOMAIN x.roster : \A j \in 1..(i - 1) : j \in DOMAIN x.roster
  BY RostersAssumption DEF StageSignals
<1>6. \A i \in DOMAIN x.roster : one.players[i].playerId = x.roster[i]
  BY <1>2, <1>4
<1>. HIDE DEF p, r, told, one, other, mark
<1>7. /\ Settle(one) \in StageEntries /\ Verdict(Settle(one))
      /\ Settle(one).players = one.players
      /\ Settle(one).status = "active" => Settle(one) = one
  BY <1>2, SettleFits
(* Nobody in the stage has reported anything that counts. *)
<1>8. CASE ~Relevant(told) \/ ~\E i \in DOMAIN x.roster : x.roster[i] = p
  <2>1. \A i \in DOMAIN x.roster : NewEntry(c, x.roster[i]) = NewEntry(b, x.roster[i])
    BY <1>1, <1>8
  <2>2. one = other
    <3>1. [i \in DOMAIN x.roster |-> NewEntry(c, x.roster[i])]
            = [i \in DOMAIN x.roster |-> NewEntry(b, x.roster[i])]
      BY <2>1
    <3>. QED  BY <3>1 DEF Defined, one, other
  <2>3. CountsFor(Settle(one), told) = {}
    BY <1>2, <1>3, <1>6, <1>7, <1>8 DEF CountsFor, EntryOf
  <2>4. CountReport(Settle(one), told, r) = Settle(one)
    BY <2>3 DEF CountReport
  <2>. QED  BY <2>2, <2>4 DEF AlikeStage, one, other, told, r
<1>9. ASSUME Relevant(told), NEW i \in DOMAIN x.roster, x.roster[i] = p
      PROVE  AlikeStage(CountReport(Settle(one), told, r), Settle(other))
  <2>. DEFINE marked == [j \in DOMAIN one.players |-> IF j = i THEN mark ELSE one.players[j]]
  <2>1. \A j \in DOMAIN x.roster : x.roster[j] = p <=> j = i
    BY <1>5, <1>9 DEF NoRepetition
  <2>2. one.players[i] = [playerId |-> p, status |-> "waiting", report |-> 0]
    BY <1>2, <1>4, <1>9
  <2>3. \A j \in DOMAIN x.roster : other.players[j] = IF j = i THEN mark ELSE one.players[j]
    BY <1>1, <1>2, <1>9, <2>1
  <2>4. marked = other.players
    <3>1. DOMAIN marked = DOMAIN x.roster
      BY <1>2
    <3>2. \A j \in DOMAIN x.roster : marked[j] = other.players[j]
      BY <1>2, <2>3
    <3>3. PICK len \in Nat : DOMAIN x.roster = 1..len
      BY <1>5, RostersAssumption
    <3>4. /\ marked = [j \in 1..len |-> marked[j]]
          /\ other.players = [j \in 1..len |-> other.players[j]]
      BY <1>2, <3>1, <3>3
    <3>. HIDE DEF marked
    <3>. QED  BY <3>2, <3>3, <3>4
  <2>5. other = [one EXCEPT !.players = marked]
    <3>. HIDE DEF marked
    <3>1. /\ one = [status |-> "active", policy |-> x.policy, notices |-> 0, players |-> one.players]
          /\ other = [status |-> "active", policy |-> x.policy, notices |-> 0,
                      players |-> other.players]
      BY <1>2 DEF StageEntries
    <3>. QED  BY <2>4, <3>1
  <2>6. CASE Settle(one).status = "active"
    <3>1. Settle(one) = one
      BY <1>7, <2>6
    <3>2. EntryOf(one, p) = {i}
      BY <1>2, <1>5, <1>6, <1>9, <2>1 DEF EntryOf
    <3>3. CountsFor(one, told) = {i}
      BY <1>2, <1>3, <1>9, <2>2, <3>2 DEF CountsFor
    <3>4. \A j \in DOMAIN one.players :
            (IF j \in {i} THEN [one.players[j] EXCEPT !.status = Standing(told.type), !.report = r]
             ELSE one.players[j]) = marked[j]
      <4>1. one.players[i] \in Entries /\ i \in DOMAIN one.players
        BY <1>2, <1>9
      <4>2. [one.players[i] EXCEPT !.status = Standing(told.type), !.report = r]
              = [playerId |-> one.players[i].playerId, status |-> Standing(told.type), report |-> r]
        BY <4>1, MarkedEntry
      <4>3. one.players[i].playerId = p
        BY <2>2
      <4>4. [one.players[i] EXCEPT !.status = Standing(told.type), !.report = r] = mark
        BY <1>3, <4>2, <4>3 DEF mark
      <4>. QED  BY <4>4
    <3>5. [j \in DOMAIN one.players |->
             IF j \in {i} THEN [one.players[j] EXCEPT !.status = Standing(told.type), !.report = r]
             ELSE one.players[j]] = marked
      BY <3>4
    <3>6. CountReport(one, told, r) = Settle([one EXCEPT !.players = marked])
      <4>. HIDE DEF marked
      <4>. QED  BY <3>3, <3>5 DEF CountReport
    <3>. HIDE DEF marked
    <3>. QED  BY <2>5, <3>1, <3>6 DEF AlikeStage
(* The stage failed when it was defined: somebody else is blocked.         *)
  <2>7. CASE Settle(one).status # "active"
    <3>1. SomeWaiting(one)
      BY <1>2, <1>9, <2>2 DEF SomeWaiting
    <3>2. one.policy = "halt" /\ SomeBlocked(one) /\ Settle(one) = Finish(one, "failed")
      BY <1>2, <2>7, <3>1 DEF Settle, SettleWhenAllDone
    <3>3. PICK k \in DOMAIN one.players : one.players[k].status = "blocked"
      BY <3>2 DEF SomeBlocked
    <3>4. k # i /\ other.players[k] = one.players[k] /\ k \in DOMAIN other.players
      BY <1>2, <2>2, <2>3, <3>3
    <3>5. SomeBlocked(other) /\ other.policy = "halt"
      BY <1>2, <3>2, <3>3, <3>4 DEF SomeBlocked
    <3>6. Settle(other) = Finish(other, "failed")
      BY <3>5 DEF Settle
    <3>7. /\ Settle(one).status = "failed" /\ Settle(one).notices = 1
          /\ Settle(other).status = "failed" /\ Settle(other).notices = 1
      <4>1. /\ Finish(one, "failed") = [status |-> "failed", policy |-> one.policy,
                                        players |-> one.players, notices |-> one.notices + 1]
            /\ Finish(other, "failed") = [status |-> "failed", policy |-> other.policy,
                                          players |-> other.players, notices |-> other.notices + 1]
        BY <1>2, Finished
      <4>. QED  BY <1>2, <3>2, <3>6, <4>1
    <3>8. CountReport(Settle(one), told, r) = Settle(one)
      BY <3>7 DEF CountReport, CountsFor
    <3>. QED  BY <3>7, <3>8 DEF AlikeStage
  <2>. QED  BY <2>6, <2>7
<1>. QED  BY <1>8, <1>9 DEF one, other, told, r, p

(* A signal that is drained ahead of an earlier one is of a kind that is   *)
(* registered before.                                                      *)
Overtakes(y, x) ==
  /\ x.kind # "playerReport" /\ y.kind # "cancelStage"
  /\ y.kind = "setStage" => x.kind = "cancelStage"
  /\ y.kind = "removeWorktree" => x.kind \in {"setStage", "cancelStage"}
  /\ y.kind = "setWorktree" => x.kind \in {"removeWorktree", "setStage", "cancelStage"}
  /\ y.kind = "evaluateGateCriteria" =>
       x.kind \in {"setWorktree", "removeWorktree", "setStage", "cancelStage"}
  /\ y.kind = "setQualityGate" =>
       x.kind \in {"evaluateGateCriteria", "setWorktree", "removeWorktree", "setStage",
                   "cancelStage"}

LEMMA RegisteredOrder ==
  ASSUME NEW x \in Signals, NEW y \in Signals, x.kind # y.kind, ~Before(x.kind, y.kind)
  PROVE  Overtakes(y, x)
<1>1. /\ DOMAIN Registered = 1..7
      /\ Registered[1] = "playerReport" /\ Registered[2] = "setQualityGate"
      /\ Registered[3] = "evaluateGateCriteria" /\ Registered[4] = "setWorktree"
      /\ Registered[5] = "removeWorktree" /\ Registered[6] = "setStage"
      /\ Registered[7] = "cancelStage"
  BY DEF Registered
<1>2. \A i, j \in 1..7 : i < j => ~(x.kind = Registered[i] /\ y.kind = Registered[j])
  <2>. HIDE DEF Registered
  <2>. QED  BY <1>1 DEF Before
<1>3. x.kind \in {Registered[i] : i \in 1..7} /\ y.kind \in {Registered[i] : i \in 1..7}
  <2>1. \A signal \in Signals : signal.kind \in
          {"playerReport", "setQualityGate", "evaluateGateCriteria", "setWorktree",
           "removeWorktree", "setStage", "cancelStage"}
    BY KindsOfSignals
  <2>2. {"playerReport", "setQualityGate", "evaluateGateCriteria", "setWorktree",
         "removeWorktree", "setStage", "cancelStage"} \subseteq {Registered[i] : i \in 1..7}
    <3>. HIDE DEF Registered
    <3>. QED  BY <1>1
  <2>. HIDE DEF Registered
  <2>. QED  BY <2>1, <2>2
<1>. HIDE DEF Registered
<1>4. PICK i \in 1..7, j \in 1..7 : x.kind = Registered[i] /\ y.kind = Registered[j]
  BY <1>3
<1>5. j < i
  BY <1>2, <1>4
<1>. QED  BY <1>1, <1>4, <1>5 DEF Overtakes

(* Two signals that are no conflict come to the same in either order. *)
LEMMA Commute ==
  ASSUME NoRepetition, NEW b, BoardInv(b), NEW x \in Signals, NEW y \in Signals,
         Overtakes(y, x), ~(<<y.kind, x.kind>> \in Pairs /\ y.key = x.key),
         ~(x.kind = "cancelStage" /\ y.kind = "playerReport"),
         y.kind = "playerReport" => Fresh(b, y.key) = {}
  PROVE  Alike(Apply(Apply(b, x), y), Apply(Apply(b, y), x))
<1>. DEFINE bx == Apply(b, x)
            by == Apply(b, y)
            bxy == Apply(bx, y)
            byx == Apply(by, x)
<1>1. BoardInv(bx) /\ BoardInv(by)
  BY ApplyFits
<1>2. /\ bx.reports = ReportsAfter(b, x) /\ by.reports = ReportsAfter(b, y)
      /\ \A n \in Stages : bx.stages[n] = StageAfter(b, x, n) /\ by.stages[n] = StageAfter(b, y, n)
      /\ bx.gates = GatesAfter(b.gates, x) /\ by.gates = GatesAfter(b.gates, y)
      /\ bx.worktrees = TreesAfter(b.worktrees, x) /\ by.worktrees = TreesAfter(b.worktrees, y)
  BY Handles
<1>. HIDE DEF bx, by
<1>3. /\ bxy.reports = ReportsAfter(bx, y) /\ byx.reports = ReportsAfter(by, x)
      /\ \A n \in Stages : bxy.stages[n] = StageAfter(bx, y, n) /\ byx.stages[n] = StageAfter(by, x, n)
      /\ bxy.gates = GatesAfter(bx.gates, y) /\ byx.gates = GatesAfter(by.gates, x)
      /\ bxy.worktrees = TreesAfter(bx.worktrees, y) /\ byx.worktrees = TreesAfter(by.worktrees, x)
  BY <1>1, Handles
<1>. HIDE DEF bxy, byx
<1>4. bx.reports = b.reports /\ bxy.reports = byx.reports /\ byx.reports = by.reports
  BY <1>2, <1>3 DEF ReportsAfter, Overtakes
<1>5. bxy.gates = byx.gates
  <2>. DEFINE g == b.gates
  <2>0. g \in [Tasks -> Seq({"pending", "passed", "failed"})]
    BY DEF BoardInv, Boards
  <2>1. CASE y.kind = "setQualityGate" /\ x.kind = "evaluateGateCriteria"
    <3>1. x.key \in Tasks /\ y.key \in Tasks /\ x.key # y.key
      BY <2>1, KindsOfSignals DEF Pairs
    <3>. DEFINE new == [c \in 1..Criteria |-> "pending"]
                old == g[x.key]
                judged == [old EXCEPT ![x.index] = x.status]
    <3>2. GatesAfter(g, y) = [g EXCEPT ![y.key] = new] /\ GatesAfter(g, y)[x.key] = old
      BY <2>0, <2>1, <3>1 DEF GatesAfter
    <3>3. CASE x.index \in DOMAIN old
      <4>1. GatesAfter(g, x) = [g EXCEPT ![x.key] = judged]
        BY <2>1, <3>3 DEF GatesAfter
      <4>2. GatesAfter(GatesAfter(g, y), x) = [GatesAfter(g, y) EXCEPT ![x.key] = judged]
        BY <2>1, <3>2, <3>3 DEF GatesAfter
      <4>3. GatesAfter(GatesAfter(g, x), y) = [GatesAfter(g, x) EXCEPT ![y.key] = new]
        BY <2>1 DEF GatesAfter
      <4>4. [[g EXCEPT ![x.key] = judged] EXCEPT ![y.key] = new]
              = [[g EXCEPT ![y.key] = new] EXCEPT ![x.key] = judged]
        <5>. HIDE DEF g, judged, new
        <5>. QED  BY <2>0, <3>1
      <4>. HIDE DEF g, judged, new, old
      <4>5. GatesAfter(GatesAfter(g, y), x) = GatesAfter(GatesAfter(g, x), y)
        BY <3>2, <4>1, <4>2, <4>3, <4>4
      <4>. QED  BY <1>2, <1>3, <4>5 DEF g
    <3>4. CASE x.index \notin DOMAIN old
      <4>1. GatesAfter(g, x) = g
        BY <2>1, <3>4 DEF GatesAfter
      <4>2. GatesAfter(GatesAfter(g, y), x) = GatesAfter(g, y)
        BY <2>1, <3>2, <3>4 DEF GatesAfter
      <4>. QED  BY <1>2, <1>3, <4>1, <4>2
    <3>. QED  BY <3>3, <3>4
  <2>2. CASE x.kind \notin {"setQualityGate", "evaluateGateCriteria"}
    <3>1. \A h : GatesAfter(h, x) = h
      BY <2>2 DEF GatesAfter
    <3>. QED  BY <1>2, <1>3, <3>1
  <2>3. CASE y.kind \notin {"setQualityGate", "evaluateGateCriteria"}
    <3>1. \A h : GatesAfter(h, y) = h
      BY <2>3 DEF GatesAfter
    <3>. QED  BY <1>2, <1>3, <3>1
  <2>. QED  BY <2>1, <2>2, <2>3 DEF Overtakes
<1>6. bxy.worktrees = byx.worktrees
  <2>1. CASE y.kind = "setWorktree" /\ x.kind = "removeWorktree"
    <3>1. x.key # y.key
      BY <2>1 DEF Pairs
    <3>. QED  BY <1>2, <1>3, <2>1, <3>1 DEF TreesAfter
  <2>2. CASE x.kind \notin {"setWorktree", "removeWorktree"}
    BY <1>2, <1>3, <2>2 DEF TreesAfter
  <2>3. CASE y.kind \notin {"setWorktree", "removeWorktree"}
    BY <1>2, <1>3, <2>3 DEF TreesAfter
  <2>. QED  BY <2>1, <2>2, <2>3 DEF Overtakes
<1>7. ASSUME NEW n \in Stages PROVE AlikeStage(bxy.stages[n], byx.stages[n])
  <2>1. CASE y.kind = "playerReport"
    <3>0. /\ bxy.stages[n] = CountReport(bx.stages[n], Told(y), Len(b.reports) + 1)
          /\ by.stages[n] = CountReport(b.stages[n], Told(y), Len(b.reports) + 1)
          /\ by.reports = Append(b.reports, Told(y))
      BY <1>2, <1>3, <1>4, <2>1 DEF StageAfter, ReportsAfter
    <3>1. CASE x.kind = "setStage" /\ x.key = n
      <4>1. x \in StageSignals /\ y \in ReportSignals
        BY <2>1, <3>1, KindsOfSignals
      <4>2. bx.stages[n] = Settle(Defined(b, x)) /\ byx.stages[n] = Settle(Defined(by, x))
        BY <1>2, <1>3, <3>1 DEF StageAfter
      <4>3. AlikeStage(CountReport(Settle(Defined(b, x)), Told(y), Len(b.reports) + 1),
                       Settle(Defined(by, x)))
        BY <1>1, <2>1, <3>0, <4>1, ReportMeetsStage DEF BoardInv
      <4>. QED  BY <3>0, <4>2, <4>3
    <3>2. CASE ~(x.kind = "setStage" /\ x.key = n)
      <4>1. bx.stages[n] = b.stages[n] /\ byx.stages[n] = by.stages[n]
        BY <1>2, <1>3, <2>1, <3>2 DEF StageAfter, Overtakes
      <4>. QED  BY <3>0, <4>1 DEF AlikeStage
    <3>. QED  BY <3>1, <3>2
  <2>2. CASE y.kind = "setStage"
    <3>1. x.kind = "cancelStage" /\ x.key # y.key
      BY <2>2 DEF Overtakes, Pairs
    <3>2. Defined(bx, y) = Defined(b, y)
      <4>1. \A p : NewEntry(bx, p) = NewEntry(b, p)
        BY <1>4, SameReports
      <4>. QED  BY <4>1 DEF Defined
    <3>3. CASE n = y.key
      BY <1>2, <1>3, <2>2, <3>1, <3>2, <3>3 DEF StageAfter, AlikeStage
    <3>4. CASE n # y.key
      BY <1>2, <1>3, <2>2, <3>1, <3>4 DEF StageAfter, AlikeStage
    <3>. QED  BY <3>3, <3>4
  <2>3. CASE y.kind \notin {"playerReport", "setStage"}
    <3>1. by.stages[n] = b.stages[n] /\ bxy.stages[n] = bx.stages[n] /\ by.reports = b.reports
      BY <1>2, <1>3, <2>3 DEF StageAfter, ReportsAfter, Overtakes
    <3>2. x.kind = "setStage" => Defined(by, x) = Defined(b, x)
      <4>1. \A p : NewEntry(by, p) = NewEntry(b, p)
        BY <3>1, SameReports
      <4>. QED  BY <4>1 DEF Defined
    <3>3. byx.stages[n] = StageAfter(by, x, n) /\ bx.stages[n] = StageAfter(b, x, n)
      BY <1>2, <1>3
    <3>4. StageAfter(by, x, n) = StageAfter(b, x, n)
      BY <3>1, <3>2 DEF StageAfter, Overtakes
    <3>. QED  BY <3>1, <3>3, <3>4 DEF AlikeStage
  <2>. QED  BY <2>1, <2>2, <2>3
<1>8. Alike(bxy, byx)
  BY <1>4, <1>5, <1>6, <1>7 DEF Alike
<1>. QED  BY <1>8 DEF bxy, byx, bx, by

(* Induction on the natural numbers, for a set. *)
LEMMA LeastOfNaturals ==
  ASSUME NEW T, T \subseteq Nat, T # {}
  PROVE  \E x \in T : \A y \in T : x <= y
<1>. DEFINE R == OpToRel(<,Nat)
<1>1. IsWellFoundedOn(R, Nat)
  BY NatLessThanWellFounded, Zenon
<1>2. \E x \in T : \A y \in T : <<y, x>> \notin R
  <2>. HIDE DEF R
  <2>. QED  BY <1>1, WFMin, Zenon
<1>3. PICK x \in T : \A y \in T : <<y, x>> \notin R
  BY <1>2, Zenon
<1>4. ASSUME NEW y \in T PROVE ~(y < x)
  <2>1. <<y, x>> \in Nat \X Nat
    OBVIOUS
  <2>2. <<y, x>>[1] = y /\ <<y, x>>[2] = x
    OBVIOUS
  <2>3. y < x => <<y, x>> \in R
    BY <2>1, <2>2, Zenon DEF OpToRel
  <2>. QED  BY <1>3, <2>3
<1>. QED  BY <1>4

LEMMA InductiveSet ==
  ASSUME NEW G, 0 \in G, \A i \in Nat : i \in G => i + 1 \in G
  PROVE  Nat \subseteq G
<1>. SUFFICES ASSUME Nat \ G # {} PROVE FALSE
  OBVIOUS
<1>1. PICK x \in Nat \ G : \A y \in Nat \ G : x <= y
  BY LeastOfNaturals
<1>2. x # 0 /\ x - 1 \in Nat
  OBVIOUS
<1>3. x - 1 \in G
  BY <1>1, <1>2
<1>. QED  BY <1>2, <1>3

(* The boards a row of signals goes through. *)
Handled(f, b, s, k) == f[0] = b /\ \A i \in 1..k : f[i] = Apply(f[i - 1], s[i])

LEMMA HandledInSteps ==
  ASSUME NEW b, BoardInv(b), NEW s \in Seq(Signals)
  PROVE  \E f \in [0..Len(s) -> {c \in Boards : BoardInv(c)}] :
           Handled(f, b, s, Len(s)) /\ HandledInOrder(b, s) = f[Len(s)]
<1>. DEFINE Good == {c \in Boards : BoardInv(c)}
            n == Len(s)
            G == {k \in Nat : k <= n => \E f \in [0..k -> Good] : Handled(f, b, s, k)}
<1>0. n \in Nat /\ b \in Good /\ DOMAIN s = 1..n
  BY DEF BoardInv
<1>01. ASSUME NEW c \in Good, NEW i \in 1..n PROVE Apply(c, s[i]) \in Good
  <2>1. s[i] \in Signals
    BY <1>0
  <2>. QED  BY <2>1, ApplyFits DEF BoardInv
<1>. HIDE DEF Good
<1>1. 0 \in G
  <2>. DEFINE f == [i \in 0..0 |-> b]
  <2>1. f \in [0..0 -> Good] /\ f[0] = b
    BY <1>0
  <2>. HIDE DEF f
  <2>2. Handled(f, b, s, 0)
    BY <2>1 DEF Handled
  <2>. QED  BY <2>1, <2>2
<1>2. ASSUME NEW k \in Nat, k \in G PROVE k + 1 \in G
  <2>. SUFFICES ASSUME k + 1 <= n PROVE \E f \in [0..k + 1 -> Good] : Handled(f, b, s, k + 1)
    OBVIOUS
  <2>1. PICK f \in [0..k -> Good] : Handled(f, b, s, k)
    BY <1>0, <1>2
  <2>. DEFINE g == [i \in 0..k + 1 |-> IF i = k + 1 THEN Apply(f[k], s[k + 1]) ELSE f[i]]
  <2>2. f[k] \in Good /\ k + 1 \in 1..n
    BY <1>0, <2>1
  <2>3. Apply(f[k], s[k + 1]) \in Good
    BY <1>01, <2>2
  <2>4. g[k + 1] = Apply(f[k], s[k + 1]) /\ \A i \in 0..k : g[i] = f[i]
    OBVIOUS
  <2>5. \A i \in 0..k + 1 : i \in 0..k \/ i = k + 1
    OBVIOUS
  <2>6. g \in [0..k + 1 -> Good]
    <3>1. \A i \in 0..k + 1 : g[i] \in Good
      <4>. HIDE DEF g
      <4>. QED  BY <2>1, <2>3, <2>4, <2>5
    <3>. QED  BY <3>1
  <2>. HIDE DEF g
  <2>7. g[0] = b
    BY <2>1, <2>4 DEF Handled
  <2>8. ASSUME NEW i \in 1..k + 1 PROVE g[i] = Apply(g[i - 1], s[i])
    <3>1. CASE i \in 1..k
      <4>1. i \in 0..k /\ i - 1 \in 0..k
        BY <3>1
      <4>. QED  BY <2>1, <2>4, <3>1, <4>1 DEF Handled
    <3>2. CASE i = k + 1
      <4>1. i - 1 = k /\ k \in 0..k
        BY <3>2
      <4>. QED  BY <2>4, <3>2, <4>1
    <3>. QED  BY <3>1, <3>2
  <2>. QED  BY <2>6, <2>7, <2>8 DEF Handled
<1>3. n \in G
  <2>. HIDE DEF G
  <2>. QED  BY <1>0, <1>1, <1>2, InductiveSet
<1>4. PICK f \in [0..n -> Good] : Handled(f, b, s, n)
  BY <1>0, <1>3
<1>. DEFINE Def(h) == h = [i \in 0..n |-> IF i = 0 THEN b ELSE Apply(h[i - 1], s[i])]
            after == CHOOSE h : Def(h)
<1>5. Def(f)
  <2>1. ASSUME NEW i \in 0..n PROVE f[i] = IF i = 0 THEN b ELSE Apply(f[i - 1], s[i])
    <3>1. CASE i = 0
      BY <1>4, <3>1 DEF Handled
    <3>2. CASE i # 0
      <4>1. i \in 1..n
        BY <3>2
      <4>. QED  BY <1>4, <3>2, <4>1 DEF Handled
    <3>. QED  BY <3>1, <3>2
  <2>. QED  BY <2>1
<1>6. Def(after)
  <2>. HIDE DEF Def
  <2>. QED  BY <1>5
<1>7. HandledInOrder(b, s) = after[n]
  BY DEF HandledInOrder
<1>. HIDE DEF after
<1>. DEFINE K == {i \in Nat : i <= n => after[i] = f[i]}
<1>8. n \in K
  <2>1. 0 \in K
    BY <1>0, <1>5, <1>6
  <2>2. ASSUME NEW i \in Nat, i \in K PROVE i + 1 \in K
    <3>1. SUFFICES ASSUME i + 1 <= n PROVE after[i + 1] = f[i + 1]
      OBVIOUS
    <3>2. i + 1 \in 0..n /\ i + 1 # 0 /\ (i + 1) - 1 = i /\ i <= n
      BY <1>0, <3>1
    <3>3. after[i] = f[i]
      BY <2>2, <3>2
    <3>4. after[i + 1] = Apply(after[i], s[i + 1]) /\ f[i + 1] = Apply(f[i], s[i + 1])
      BY <1>5, <1>6, <3>2
    <3>. QED  BY <3>3, <3>4
  <2>. HIDE DEF K
  <2>. QED  BY <1>0, <2>1, <2>2, InductiveSet
<1>9. after[n] = f[n]
  BY <1>0, <1>8
<1>. QED  BY <1>4, <1>7, <1>9 DEF Good

LEMMA Joined ==
  ASSUME NEW S, NEW l \in Seq(S), NEW r \in Seq(S)
  PROVE  /\ l \o r \in Seq(S) /\ Len(l \o r) = Len(l) + Len(r)
         /\ \A j \in 1..(Len(l) + Len(r)) :
              (l \o r)[j] = IF j <= Len(l) THEN l[j] ELSE r[j - Len(l)]
OBVIOUS

LEMMA Taken ==
  ASSUME NEW S, NEW s \in Seq(S), NEW i \in DOMAIN s
  PROVE  LET t == RemoveAt(s, i)
         IN  /\ t \in Seq(S) /\ Len(t) = Len(s) - 1 /\ DOMAIN t = 1..(Len(s) - 1)
             /\ \A j \in 1..(Len(s) - 1) : t[j] = IF j < i THEN s[j] ELSE s[j + 1]
<1>. DEFINE t == RemoveAt(s, i)
            n == Len(s)
            left == SubSeq(s, 1, i - 1)
            right == SubSeq(s, i + 1, n)
<1>1. n \in Nat /\ i \in 1..n
  OBVIOUS
<1>2. /\ left \in Seq(S) /\ Len(left) = i - 1 /\ \A j \in 1..(i - 1) : left[j] = s[j]
      /\ right \in Seq(S) /\ Len(right) = n - i /\ \A j \in 1..(n - i) : right[j] = s[i + j]
  BY <1>1
<1>3. t = left \o right
  BY DEF RemoveAt
<1>. HIDE DEF t, left, right, n
<1>4. /\ t \in Seq(S) /\ Len(t) = n - 1 /\ DOMAIN t = 1..(n - 1)
      /\ \A j \in 1..(n - 1) : t[j] = IF j <= i - 1 THEN left[j] ELSE right[j - (i - 1)]
  <2>1. /\ t \in Seq(S) /\ Len(t) = Len(left) + Len(right)
        /\ \A j \in 1..(Len(left) + Len(right)) :
             t[j] = IF j <= Len(left) THEN left[j] ELSE right[j - Len(left)]
    BY <1>2, <1>3, Joined
  <2>2. Len(left) + Len(right) = n - 1
    BY <1>1, <1>2
  <2>. QED  BY <1>2, <2>1, <2>2
<1>5. ASSUME NEW j \in 1..(n - 1) PROVE t[j] = IF j < i THEN s[j] ELSE s[j + 1]
  <2>1. CASE j < i
    BY <1>1, <1>2, <1>4, <2>1
  <2>2. CASE j >= i
    <3>1. j - (i - 1) \in 1..(n - i) /\ i + (j - (i - 1)) = j + 1
      BY <1>1, <2>2
    <3>2. t[j] = right[j - (i - 1)]
      BY <1>1, <1>4, <2>2
    <3>3. right[j - (i - 1)] = s[j + 1]
      BY <1>2, <3>1
    <3>. QED  BY <1>1, <2>2, <3>2, <3>3
  <2>. QED  BY <1>1, <2>1, <2>2
<1>. QED  BY <1>4, <1>5 DEF t, n

(* A signal that no earlier one conflicts with may be handled first. *)
Clears(b, s, i) ==
  /\ \A j \in 1..(i - 1) :
       /\ Overtakes(s[i], s[j])
       /\ ~(<<s[i].kind, s[j].kind>> \in Pairs /\ s[i].key = s[j].key)
       /\ ~(s[j].kind = "cancelStage" /\ s[i].kind = "playerReport")
  /\ s[i].kind = "playerReport" => Fresh(b, s[i].key) = {}

LEMMA MoveFirst ==
  ASSUME NoRepetition, NEW b, BoardInv(b), NEW s \in Seq(Signals), NEW i \in DOMAIN s,
         Clears(b, s, i)
  PROVE  Alike(HandledInOrder(b, s), HandledInOrder(Apply(b, s[i]), RemoveAt(s, i)))
<1>. DEFINE y == s[i]
            t == RemoveAt(s, i)
            n == Len(s)
            Good == {c \in Boards : BoardInv(c)}
<1>1. n \in Nat /\ i \in 1..n /\ y \in Signals /\ \A j \in 1..n : s[j] \in Signals
  OBVIOUS
<1>2. /\ t \in Seq(Signals) /\ Len(t) = n - 1
      /\ \A j \in 1..(n - 1) : t[j] = IF j < i THEN s[j] ELSE s[j + 1]
  BY Taken
<1>3. BoardInv(Apply(b, y))
  BY <1>1, ApplyFits
<1>. HIDE DEF y, t, n
<1>4. PICK f \in [0..n -> Good] : Handled(f, b, s, n) /\ HandledInOrder(b, s) = f[n]
  BY HandledInSteps DEF n
<1>5. PICK g \in [0..(n - 1) -> Good] :
        Handled(g, Apply(b, y), t, n - 1) /\ HandledInOrder(Apply(b, y), t) = g[n - 1]
  BY <1>2, <1>3, HandledInSteps
<1>6. /\ f[0] = b /\ \A j \in 1..n : f[j] = Apply(f[j - 1], s[j])
      /\ \A j \in 0..n : BoardInv(f[j])
  BY <1>4 DEF Handled
<1>7. /\ g[0] = Apply(b, y) /\ \A j \in 1..(n - 1) : g[j] = Apply(g[j - 1], t[j])
      /\ \A j \in 0..(n - 1) : BoardInv(g[j])
  BY <1>5 DEF Handled
<1>. HIDE DEF Good
<1>. DEFINE Ahead(k) == f[k].reports = b.reports /\ Alike(Apply(f[k], y), g[k])
            G == {k \in Nat : /\ k < i => Ahead(k)
                              /\ k >= i /\ k <= n => Alike(f[k], g[k - 1])}
<1>8. 0 \in G
  <2>1. Ahead(0)
    BY <1>6, <1>7, AlikeAll
  <2>. HIDE DEF Ahead
  <2>. QED  BY <1>1, <2>1
<1>9. ASSUME NEW k \in Nat, k + 1 < i, Ahead(k) PROVE Ahead(k + 1)
  <2>. DEFINE x == s[k + 1]
              c == f[k]
  <2>1. /\ k \in 0..n /\ k \in 0..(n - 1) /\ k + 1 \in 0..n /\ k + 1 \in 1..(n - 1)
        /\ k + 1 \in 1..(i - 1) /\ k + 1 \in 1..n /\ (k + 1) - 1 = k
    BY <1>1, <1>9
  <2>2. x \in Signals /\ BoardInv(c) /\ f[k + 1] = Apply(c, x)
    BY <1>1, <1>6, <2>1
  <2>3. t[k + 1] = x /\ BoardInv(g[k]) /\ g[k + 1] = Apply(g[k], x)
    BY <1>2, <1>7, <1>9, <2>1
  <2>4. /\ Overtakes(y, x) /\ ~(<<y.kind, x.kind>> \in Pairs /\ y.key = x.key)
        /\ ~(x.kind = "cancelStage" /\ y.kind = "playerReport")
        /\ y.kind = "playerReport" => Fresh(b, y.key) = {}
    BY <2>1 DEF Clears, y
  <2>. HIDE DEF x, c
  <2>5. c.reports = b.reports
    BY <1>9 DEF c
  <2>6. y.kind = "playerReport" => Fresh(c, y.key) = {}
    BY <2>4, <2>5, SameReports
  <2>7. Alike(Apply(Apply(c, x), y), Apply(Apply(c, y), x))
    BY <1>1, <2>2, <2>4, <2>6, Commute
  <2>8. Alike(Apply(Apply(c, y), x), Apply(g[k], x))
    <3>1. BoardInv(Apply(c, y)) /\ Alike(Apply(c, y), g[k])
      BY <1>1, <1>9, <2>2, ApplyFits DEF c
    <3>. QED  BY <2>2, <2>3, <3>1, AlikeStays
  <2>9. Apply(c, x).reports = b.reports
    <3>1. Apply(c, x).reports = ReportsAfter(c, x)
      BY <2>2, Handles
    <3>. QED  BY <2>4, <2>5, <3>1 DEF ReportsAfter, Overtakes
  <2>. QED  BY <2>2, <2>3, <2>7, <2>8, <2>9, AlikeAll
<1>10. ASSUME NEW k \in Nat, k + 1 = i, Ahead(k) PROVE Alike(f[k + 1], g[k])
  <2>1. f[k + 1] = Apply(f[k], y)
    <3>1. k + 1 \in 1..n /\ (k + 1) - 1 = k
      BY <1>1, <1>10
    <3>. QED  BY <1>6, <1>10, <3>1 DEF y
  <2>. QED  BY <1>10, <2>1
<1>11. ASSUME NEW k \in Nat, k >= i, k + 1 <= n, Alike(f[k], g[k - 1])
       PROVE  Alike(f[k + 1], g[k])
  <2>1. /\ k \in 1..(n - 1) /\ k + 1 \in 1..n /\ (k + 1) - 1 = k /\ k \in 0..n
        /\ k - 1 \in 0..(n - 1) /\ ~(k < i)
    BY <1>1, <1>11
  <2>2. f[k + 1] = Apply(f[k], s[k + 1]) /\ s[k + 1] \in Signals /\ BoardInv(f[k])
    BY <1>1, <1>6, <2>1
  <2>3. t[k] = s[k + 1] /\ g[k] = Apply(g[k - 1], s[k + 1]) /\ BoardInv(g[k - 1])
    BY <1>2, <1>7, <2>1
  <2>. QED  BY <1>11, <2>2, <2>3, AlikeStays
<1>12. ASSUME NEW k \in Nat, k \in G PROVE k + 1 \in G
  <2>. HIDE DEF Ahead
  <2>1. (k + 1) - 1 = k
    OBVIOUS
  <2>2. k + 1 < i => Ahead(k + 1)
    BY <1>1, <1>9, <1>12
  <2>3. k + 1 = i => Alike(f[k + 1], g[k])
    BY <1>1, <1>10, <1>12
  <2>4. k + 1 > i /\ k + 1 <= n => Alike(f[k + 1], g[k])
    BY <1>1, <1>11, <1>12
  <2>5. k + 1 >= i /\ k + 1 <= n => Alike(f[k + 1], g[(k + 1) - 1])
    BY <1>1, <2>1, <2>3, <2>4
  <2>. QED  BY <2>2, <2>5
<1>13. n \in G
  <2>. HIDE DEF G
  <2>. QED  BY <1>1, <1>8, <1>12, InductiveSet
<1>14. Alike(f[n], g[n - 1])
  BY <1>1, <1>13
<1>15. Alike(HandledInOrder(b, s), HandledInOrder(Apply(b, y), t))
  BY <1>4, <1>5, <1>14
<1>. QED  BY <1>15 DEF y, t

(* The rest of a buffer without conflicts has none. *)
LEMMA OrderlyStays ==
  ASSUME NEW b, BoardInv(b), NEW s \in Seq(Signals), NEW i \in DOMAIN s, Orderly(b, s)
  PROVE  Orderly(Apply(b, s[i]), RemoveAt(s, i))
<1>. DEFINE y == s[i]
            t == RemoveAt(s, i)
            n == Len(s)
            c == Apply(b, y)
            At(j) == IF j < i THEN j ELSE j + 1
<1>1. n \in Nat /\ i \in 1..n /\ DOMAIN s = 1..n /\ y \in Signals /\ \A j \in 1..n : s[j] \in Signals
  OBVIOUS
<1>2. DOMAIN t = 1..(n - 1) /\ \A j \in 1..(n - 1) : t[j] = s[At(j)]
  <2>1. DOMAIN t = 1..(n - 1) /\ \A j \in 1..(n - 1) : t[j] = IF j < i THEN s[j] ELSE s[j + 1]
    BY Taken
  <2>. HIDE DEF t, n
  <2>. QED  BY <2>1
<1>3. \A j \in 1..(n - 1) : At(j) \in 1..n /\ At(j) # i
  BY <1>1
<1>4. \A j, k \in 1..(n - 1) : j < k => At(j) < At(k)
  BY <1>1
<1>5. BoardInv(c) /\ c.reports = ReportsAfter(b, y)
  BY <1>1, ApplyFits, Handles
<1>. HIDE DEF t, n, c, At
<1>6. \A j, k \in DOMAIN s : j < k =>
        /\ ~(<<s[k].kind, s[j].kind>> \in Pairs /\ s[j].key = s[k].key)
        /\ ~(s[j].kind = "cancelStage" /\ s[k].kind = "playerReport")
        /\ ~(/\ s[j].kind = "playerReport" /\ s[k].kind = "playerReport"
             /\ s[j].key = s[k].key)
  BY DEF Orderly
<1>7. \A j \in DOMAIN s : s[j].kind = "playerReport" => Fresh(b, s[j].key) = {}
  BY DEF Orderly
<1>8. \A j, k \in DOMAIN t : j < k =>
        /\ ~(<<t[k].kind, t[j].kind>> \in Pairs /\ t[j].key = t[k].key)
        /\ ~(t[j].kind = "cancelStage" /\ t[k].kind = "playerReport")
        /\ ~(/\ t[j].kind = "playerReport" /\ t[k].kind = "playerReport"
             /\ t[j].key = t[k].key)
  BY <1>1, <1>2, <1>3, <1>4, <1>6
<1>9. ASSUME NEW j \in DOMAIN t, t[j].kind = "playerReport" PROVE Fresh(c, t[j].key) = {}
  <2>. DEFINE z == s[At(j)]
  <2>1. At(j) \in 1..n /\ At(j) # i /\ t[j] = z
    BY <1>2, <1>3
  <2>2. z \in Signals /\ z.kind = "playerReport" /\ Fresh(b, z.key) = {}
    BY <1>1, <1>7, <1>9, <2>1
  <2>3. CASE y.kind # "playerReport"
    <3>1. c.reports = b.reports
      BY <1>5, <2>3 DEF ReportsAfter
    <3>2. Fresh(c, z.key) = Fresh(b, z.key)
      BY <3>1, SameReports
    <3>. QED  BY <2>1, <2>2, <3>2
  <2>4. CASE y.kind = "playerReport"
    <3>1. y \in ReportSignals /\ z \in ReportSignals
      BY <1>1, <2>2, <2>4, KindsOfSignals
    <3>2. y.key # z.key
      <4>1. At(j) < i \/ i < At(j)
        BY <1>1, <2>1
      <4>. QED  BY <1>1, <1>6, <2>1, <2>2, <2>4, <4>1
    <3>3. Fresh(b, y.key) = {}
      BY <1>1, <1>7, <2>4
    <3>4. b \in Boards /\ c \in Boards /\ z.key \in Players
      BY <1>5, <3>1 DEF BoardInv, ReportSignals
    <3>5. c.reports = Append(b.reports, Told(y))
      BY <1>5, <2>4 DEF ReportsAfter
    <3>. HIDE DEF y, z
    <3>6. NewEntry(c, z.key) = NewEntry(b, z.key)
      BY <3>1, <3>2, <3>3, <3>4, <3>5, EntriesAfterReport
    <3>7. NewEntry(c, z.key).status = "waiting"
      BY <2>2, <3>6 DEF NewEntry
    <3>. QED  BY <2>1, <3>4, <3>7, NewEntryFits
  <2>. QED  BY <2>3, <2>4
<1>10. Orderly(c, t)
  BY <1>8, <1>9 DEF Orderly
<1>. QED  BY <1>10 DEF c, t

(* While an orderly buffer is drained, what is left of it comes to what    *)
(* the order of arrival would have come to.                                *)
DrainInv ==
  mode = "draining" /\ orderly =>
    Orderly(board, buffer) /\ Alike(HandledInOrder(board, buffer), inOrder)

LEMMA DrainStep ==
  ASSUME NoRepetition
  PROVE  TypeOK /\ VerdictFits /\ DrainInv /\ [Next]_stageVars => DrainInv'
<1>. SUFFICES ASSUME TypeOK, VerdictFits, DrainInv, [Next]_stageVars PROVE DrainInv'
  OBVIOUS
<1>1. BoardInv(board) /\ buffer \in Seq(Signals)
  BY BoardTypes DEF TypeOK
<1>2. CASE Sends
  <2>1. PICK signal \in Signals : Deliver(signal)
    BY <1>2, SendsDeliver
  <2>. QED  BY <2>1 DEF Deliver, DrainInv
<1>3. CASE FirstTask
  <2>1. inOrder' = HandledInOrder(board, buffer) /\ orderly' = Orderly(board, buffer)
        /\ board' = board /\ buffer' = buffer
    BY <1>3 DEF FirstTask
  <2>. QED  BY <2>1, AlikeAll DEF DrainInv
<1>4. ASSUME NEW i \in DOMAIN buffer, DrainNext(i) PROVE DrainInv'
  <2>. SUFFICES ASSUME orderly
                PROVE  Orderly(board', buffer') /\ Alike(HandledInOrder(board', buffer'), inOrder)
    BY <1>4 DEF DrainNext, DrainInv
  <2>1. /\ mode = "draining" /\ board' = Apply(board, buffer[i]) /\ buffer' = RemoveAt(buffer, i)
        /\ \A j \in DOMAIN buffer : /\ ~Before(buffer[j].kind, buffer[i].kind)
                                    /\ buffer[j].kind = buffer[i].kind => i <= j
    BY <1>4 DEF DrainNext
  <2>2. Orderly(board, buffer) /\ Alike(HandledInOrder(board, buffer), inOrder)
    BY <2>1 DEF DrainInv
  <2>3. Clears(board, buffer, i)
    <3>. SUFFICES ASSUME NEW j \in 1..(i - 1) PROVE Overtakes(buffer[i], buffer[j])
      <4>1. \A j \in 1..(i - 1) : j \in DOMAIN buffer /\ j < i
        BY <1>1
      <4>. QED  BY <2>2, <4>1 DEF Clears, Orderly
    <3>1. /\ j \in DOMAIN buffer /\ ~(i <= j) /\ buffer[i] \in Signals /\ buffer[j] \in Signals
      BY <1>1
    <3>. QED  BY <2>1, <3>1, RegisteredOrder
  <2>4. Alike(HandledInOrder(board, buffer), HandledInOrder(board', buffer'))
    BY <1>1, <2>1, <2>3, MoveFirst
  <2>5. Orderly(board', buffer')
    BY <1>1, <2>1, <2>2, OrderlyStays
  <2>. QED  BY <2>2, <2>4, <2>5, AlikeAll
<1>5. CASE Drained \/ NextRun
  BY <1>5 DEF Drained, NextRun, DrainInv
<1>6. CASE Tick
  BY <1>6 DEF Tick, DrainInv
<1>7. CASE UNCHANGED stageVars
  BY <1>7 DEF stageVars, DrainInv
<1>. QED  BY <1>2, <1>3, <1>4, <1>5, <1>6, <1>7 DEF Next, Sends

LEMMA DrainFitsOrder ==
  ASSUME TypeOK, VerdictFits, DrainInv PROVE OrderlyDrain
<1>. SUFFICES ASSUME mode = "draining", buffer = <<>>, orderly PROVE Verdicts(board) = Verdicts(inOrder)
  BY DEF OrderlyDrain
<1>1. BoardInv(board) /\ buffer \in Seq(Signals) /\ Len(buffer) = 0
  BY BoardTypes DEF TypeOK
<1>2. HandledInOrder(board, buffer) = board
  <2>1. PICK f : Handled(f, board, buffer, 0) /\ HandledInOrder(board, buffer) = f[0]
    BY <1>1, HandledInSteps
  <2>. QED  BY <2>1 DEF Handled
<1>. QED  BY <1>2, AlikeVerdicts DEF DrainInv

(* As long as no roster names a player twice, draining a buffer without    *)
(* conflicts in the order of registration comes to the same verdicts,      *)
(* gates and worktrees as handling every signal when it came in.           *)
THEOREM DrainsInOrder == NoRepetition => (Spec => []OrderlyDrain)
<1>. SUFFICES ASSUME NoRepetition PROVE Spec => []OrderlyDrain
  OBVIOUS
<1>. DEFINE Inv == TypeOK /\ VerdictFits /\ DrainInv
<1>1. Init => Inv
  BY StagesInit DEF Init, DrainInv
<1>2. Inv /\ [Next]_stageVars => Inv'
  BY StagesStep, DrainStep
<1>3. Inv => OrderlyDrain
  BY DrainFitsOrder
<1>. QED  BY <1>1, <1>2, <1>3, PTL DEF Spec
=============================================================================
