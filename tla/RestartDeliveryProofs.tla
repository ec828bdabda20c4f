------------------------- MODULE RestartDeliveryProofs -------------------------
(***************************************************************************)
(* RestartDelivery for any restarts, attempts and faults: the type         *)
(* invariant, that no attachment is served by two processes, and that the  *)
(* session keeps the promise of AttachmentLease.                           *)
(***************************************************************************)
EXTENDS RestartDelivery, SequenceTheorems, TLAPS

Sessions == [phase : {"detached", "attached", "draining"}, holder : Ids,
             fresh : BOOLEAN, claims : Ids]
Loops == [at : {"idle", "drainKill", "drainFlip", "spawning"}, entry : Ids, tries : 0..MaxSpawns]
Processes == [at : {"boot", "on", "deaf"}, att : Ids]
Entries == [at : {"new", "running", "delivered", "failed"}, tries : 0..MaxAttempts]
Attempts == [at : AttemptStates, id : Ids, heard : BOOLEAN]

LEMMA Bounds == /\ MaxAttempts \in Nat \ {0} /\ MaxSpawns \in Nat \ {0} /\ MaxClaims \in Nat \ {0}
                /\ Forced \subseteq Restarts
  BY RestartAssumption

LEMMA TypeOKParts ==
  TypeOK <=> /\ session \in Sessions /\ loop \in Loops /\ queue \in Seq(Ids)
             /\ procs \in Seq(Processes) /\ restart \in [Restarts -> Entries]
             /\ attempt \in [Restarts -> [1..MaxAttempts -> Attempts]]
  BY DEF TypeOK, Sessions, Loops, Processes, Entries, Attempts

-----------------------------------------------------------------------------
(* Sequences *)

(* What is left when one element is taken out. *)
LEMMA Removed ==
  ASSUME NEW S, NEW s \in Seq(S), NEW i \in DOMAIN s
  PROVE  /\ RemoveAt(s, i) \in Seq(S)
         /\ DOMAIN RemoveAt(s, i) = 1..(Len(s) - 1)
         /\ \A j \in 1..(Len(s) - 1) : RemoveAt(s, i)[j] = IF j < i THEN s[j] ELSE s[j + 1]
<1>1. i \in 1..Len(s) /\ Len(s) \in Nat /\ i \in Nat
  OBVIOUS
<1>2. SubSeq(s, 1, i - 1) \in Seq(S) /\ SubSeq(s, i + 1, Len(s)) \in Seq(S)
  BY <1>1
<1>3. /\ Len(SubSeq(s, 1, i - 1)) = i - 1
      /\ \A j \in 1..(i - 1) : SubSeq(s, 1, i - 1)[j] = s[j]
  BY <1>1
<1>4. /\ Len(SubSeq(s, i + 1, Len(s))) = Len(s) - i
      /\ \A j \in 1..(Len(s) - i) : SubSeq(s, i + 1, Len(s))[j] = s[i + j]
  BY <1>1
<1>5. RemoveAt(s, i) = SubSeq(s, 1, i - 1) \o SubSeq(s, i + 1, Len(s))
  BY DEF RemoveAt
<1>. DEFINE front == SubSeq(s, 1, i - 1)
            back == SubSeq(s, i + 1, Len(s))
<1>6. /\ front \o back \in Seq(S) /\ Len(front \o back) = Len(front) + Len(back)
      /\ \A j \in 1..(Len(front) + Len(back)) :
           (front \o back)[j] = IF j <= Len(front) THEN front[j] ELSE back[j - Len(front)]
  BY <1>2, ConcatProperties
<1>7. Len(front) = i - 1 /\ Len(back) = Len(s) - i
  BY <1>3, <1>4
<1>8. DOMAIN (front \o back) = 1..(Len(s) - 1)
  <2>. HIDE DEF front, back
  <2>1. Len(front \o back) = Len(s) - 1
    BY <1>1, <1>6, <1>7
  <2>2. DOMAIN (front \o back) = 1..Len(front \o back)
    BY <1>6, LenProperties
  <2>. QED  BY <2>1, <2>2
<1>9. ASSUME NEW j \in 1..(Len(s) - 1)
      PROVE  (front \o back)[j] = IF j < i THEN s[j] ELSE s[j + 1]
  <2>1. j \in 1..(Len(front) + Len(back)) /\ (j <= Len(front) <=> j < i)
    <3>. HIDE DEF front, back
    <3>. QED  BY <1>1, <1>7
  <2>2. CASE j < i
    BY <1>1, <1>3, <1>6, <2>1, <2>2
  <2>3. CASE ~(j < i)
    <3>1. j - Len(front) \in 1..(Len(s) - i) /\ i + (j - Len(front)) = j + 1
      <4>. HIDE DEF front, back
      <4>. QED  BY <1>1, <1>7, <2>3
    <3>2. (front \o back)[j] = back[j - Len(front)]
      BY <1>6, <2>1, <2>3
    <3>3. back[j - Len(front)] = s[i + (j - Len(front))]
      BY <1>4, <3>1
    <3>. QED  BY <2>3, <3>1, <3>2, <3>3
  <2>. QED  BY <2>2, <2>3
<1>. QED  BY <1>5, <1>6, <1>8, <1>9

-----------------------------------------------------------------------------
(* Types *)

LEMMA DetachedIsSession == ASSUME session \in Sessions PROVE Detached \in Sessions
  BY Bounds DEF Detached, Sessions, Ids

LEMMA GrantedIsSession ==
  ASSUME session \in Sessions, Grants
  PROVE  session' \in Sessions /\ session'.holder \in Ids /\ session'.holder = session.claims + 1
  BY Bounds DEF Grants, Sessions, Ids

LEMMA ProcessMoves ==
  ASSUME procs \in Seq(Processes), NEW i \in DOMAIN procs, NEW at \in {"boot", "on", "deaf"},
         NEW att \in Ids, Becomes(i, at, att)
  PROVE  procs' \in Seq(Processes)
  BY DEF Becomes, Processes

LEMMA AttemptSet ==
  ASSUME attempt \in [Restarts -> [1..MaxAttempts -> Attempts]],
         NEW r \in Restarts, NEW k \in 1..MaxAttempts, NEW a \in Attempts,
         attempt' = [attempt EXCEPT ![r][k] = a]
  PROVE  attempt' \in [Restarts -> [1..MaxAttempts -> Attempts]]
  OBVIOUS

LEMMA AttemptMoves ==
  ASSUME attempt \in [Restarts -> [1..MaxAttempts -> Attempts]],
         NEW r \in Restarts, NEW k \in 1..MaxAttempts, NEW at \in AttemptStates, NEW id \in Ids,
         Goes(r, k, at) \/ Works(r, k, at, id)
  PROVE  attempt' \in [Restarts -> [1..MaxAttempts -> Attempts]]
<1>1. attempt[r][k] \in Attempts
  OBVIOUS
<1>2. [attempt[r][k] EXCEPT !.at = at] \in Attempts
  BY <1>1 DEF Attempts
<1>3. [[attempt[r][k] EXCEPT !.at = at] EXCEPT !.id = id] \in Attempts
  BY <1>2 DEF Attempts
<1>4. CASE Goes(r, k, at)
  <2>1. attempt' = [attempt EXCEPT ![r][k] = [attempt[r][k] EXCEPT !.at = at]]
    BY <1>4 DEF Goes
  <2>. QED  BY <1>2, <2>1
<1>5. CASE Works(r, k, at, id)
  <2>1. attempt' = [attempt EXCEPT ![r][k] = [[attempt[r][k] EXCEPT !.at = at] EXCEPT !.id = id]]
    BY <1>5 DEF Works
  <2>. QED  BY <1>3, <2>1
<1>. QED  BY <1>4, <1>5

LEMMA NotRunIsAttempt == NotRun \in Attempts
  BY Bounds DEF NotRun, Attempts, AttemptStates, Ids

LEMMA EndedTypes ==
  ASSUME TypeOK, NEW r \in Restarts, NEW k \in 1..MaxAttempts,
         NEW outcome \in {"delivered", "failed"}, Ended(r, k, outcome)
  PROVE  /\ attempt' \in [Restarts -> [1..MaxAttempts -> Attempts]]
         /\ restart' \in [Restarts -> Entries]
<1>1. attempt' \in [Restarts -> [1..MaxAttempts -> Attempts]]
  BY NotRunIsAttempt, AttemptSet, TypeOKParts DEF Ended
<1>2. restart[r] \in Entries /\ [restart[r] EXCEPT !.at = outcome] \in Entries
  BY TypeOKParts DEF Entries
<1>. QED  BY <1>1, <1>2, TypeOKParts DEF Ended

LEMMA NextAttemptTypes ==
  ASSUME TypeOK, NEW r \in Restarts, restart[r].at = "running",
         NEW given \in [1..MaxAttempts -> Attempts], NextAttempt(r, given)
  PROVE  /\ attempt' \in [Restarts -> [1..MaxAttempts -> Attempts]]
         /\ restart' \in [Restarts -> Entries]
<1>1. restart[r] \in Entries /\ restart[r].tries \in 0..MaxAttempts
  BY TypeOKParts DEF Entries
<1>2. CASE restart[r].tries < MaxAttempts
  <2>1. restart[r].tries + 1 \in 1..MaxAttempts
    BY <1>1, <1>2, Bounds
  <2>2. [given EXCEPT ![restart[r].tries + 1].at = "look"] \in [1..MaxAttempts -> Attempts]
    <3>1. [given[restart[r].tries + 1] EXCEPT !.at = "look"] \in Attempts
      BY <2>1 DEF Attempts, AttemptStates
    <3>. QED  BY <3>1
  <2>3. [restart[r] EXCEPT !.tries = @ + 1] \in Entries
    BY <1>1, <2>1 DEF Entries
  <2>. QED  BY <1>2, <2>2, <2>3, TypeOKParts DEF NextAttempt
<1>3. CASE ~(restart[r].tries < MaxAttempts)
  <2>1. [restart[r] EXCEPT !.at = "failed"] \in Entries
    BY <1>1 DEF Entries
  <2>. QED  BY <1>3, <2>1, TypeOKParts DEF NextAttempt
<1>. QED  BY <1>2, <1>3

LEMMA TypesInit == Init => TypeOK
<1>. SUFFICES ASSUME Init PROVE TypeOK
  OBVIOUS
<1>1. 0 \in Ids /\ 1 \in Ids /\ 0 \in 0..MaxSpawns /\ 0 \in 0..MaxAttempts
  BY Bounds DEF Ids
<1>2. session \in Sessions
  BY <1>1 DEF Init, Sessions
<1>3. procs \in Seq(Processes)
  <2>1. [at |-> "on", att |-> 1] \in Processes
    BY <1>1 DEF Processes
  <2>2. <<>> \in Seq(Processes) /\ <<[at |-> "on", att |-> 1]>> \in Seq(Processes)
    BY <2>1
  <2>3. procs \in {<<>>, <<[at |-> "on", att |-> 1]>>}
    BY DEF Init
  <2>. QED  BY <2>2, <2>3
<1>4. loop \in Loops /\ queue \in Seq(Ids)
  BY <1>1 DEF Init, Idle, Loops
<1>5. restart \in [Restarts -> Entries]
  BY <1>1 DEF Init, Entries
<1>6. attempt \in [Restarts -> [1..MaxAttempts -> Attempts]]
  BY NotRunIsAttempt DEF Init
<1>. QED  BY <1>2, <1>3, <1>4, <1>5, <1>6, TypeOKParts

(* The steps of the session and its main loop. *)
LEMMA SessionTypes == ASSUME TypeOK, LeaseExpires \/ MainLoop PROVE TypeOK'
<1>1. /\ session \in Sessions /\ loop \in Loops /\ queue \in Seq(Ids)
      /\ procs \in Seq(Processes) /\ restart \in [Restarts -> Entries]
      /\ attempt \in [Restarts -> [1..MaxAttempts -> Attempts]]
  BY TypeOKParts
<1>2. Detached \in Sessions /\ RollsBack \in Sessions
  BY <1>1, DetachedIsSession DEF RollsBack
<1>3. loop.entry \in Ids /\ loop.tries \in 0..MaxSpawns
  BY <1>1 DEF Loops
<1>4. Idle \in Loops /\ [loop EXCEPT !.at = "drainKill"] \in Loops
      /\ [loop EXCEPT !.at = "drainFlip"] \in Loops
  <2>1. Idle \in Loops
    BY Bounds DEF Idle, Loops, Ids
  <2>. QED  BY <1>1, <2>1 DEF Loops
<1>5. Process(loop.entry) \in Processes /\ Append(procs, Process(loop.entry)) \in Seq(Processes)
  <2>1. Process(loop.entry) \in Processes
    BY <1>3 DEF Process, Processes
  <2>. QED  BY <1>1, <2>1
<1>6. UNCHANGED <<attempt, restart>>
  BY DEF MainLoop, LeaseExpires, ReapLease, DrainDue, DrainKill, DrainFlip, SpawnDue, SpawnProcess,
         SpawnTimesOut, SpawnFails
<1>7. session' \in Sessions
  <2>1. CASE LeaseExpires
    <3>1. session' = [session EXCEPT !.fresh = FALSE]
      BY <2>1 DEF LeaseExpires
    <3>. QED  BY <1>1, <3>1 DEF Sessions
  <2>2. CASE MainLoop
    BY <1>1, <1>2, <2>2 DEF MainLoop, ReapLease, DrainDue, DrainKill, DrainFlip, SpawnDue,
       SpawnProcess, SpawnTimesOut, SpawnFails
  <2>. QED  BY <2>1, <2>2
<1>8. loop' \in Loops
  <2>1. CASE SpawnDue
    <3>1. Head(queue) \in Ids
      BY <1>1, <2>1 DEF SpawnDue
    <3>. QED  BY <2>1, <3>1, Bounds DEF SpawnDue, Loops
  <2>2. CASE SpawnTimesOut
    <3>1. CASE loop.tries < MaxSpawns
      <4>1. loop.tries + 1 \in 0..MaxSpawns
        BY <1>3, <3>1, Bounds
      <4>. QED  BY <1>1, <2>2, <3>1, <4>1 DEF SpawnTimesOut, Loops
    <3>. QED  BY <1>4, <2>2, <3>1 DEF SpawnTimesOut
  <2>. QED  BY <1>1, <1>4, <2>1, <2>2 DEF MainLoop, LeaseExpires, ReapLease, DrainDue, DrainKill,
            DrainFlip, SpawnProcess, SpawnFails
<1>9. queue' \in Seq(Ids)
  <2>1. CASE SpawnDue
    BY <1>1, <2>1 DEF SpawnDue
  <2>. QED  BY <1>1, <2>1 DEF MainLoop, LeaseExpires, ReapLease, DrainDue, DrainKill, DrainFlip,
            SpawnProcess, SpawnTimesOut, SpawnFails
<1>10. procs' \in Seq(Processes)
  <2>1. <<>> \in Seq(Processes)
    OBVIOUS
  <2>2. KillsOne => procs' \in Seq(Processes)
    BY <1>1, Removed DEF KillsOne
  <2>. QED  BY <1>1, <1>5, <2>1, <2>2 DEF MainLoop, LeaseExpires, ReapLease, DrainDue, DrainKill, DrainFlip,
            SpawnDue, SpawnProcess, SpawnTimesOut, SpawnFails, Kills, Misses
<1>. QED  BY <1>1, <1>6, <1>7, <1>8, <1>9, <1>10 DEF TypeOK, Sessions, Loops, Processes, Entries,
          Attempts

(* The steps of the processes. *)
LEMMA AgentTypes == ASSUME TypeOK, NEW i \in DOMAIN procs, Agent(i) PROVE TypeOK'
<1>1. session \in Sessions /\ procs \in Seq(Processes)
  BY TypeOKParts
<1>2. session.holder \in Ids /\ 0 \in Ids
  BY <1>1, Bounds DEF Sessions, Ids
<1>3. UNCHANGED <<loop, queue, restart, attempt>>
  BY DEF Agent, Comes, Boot, Heartbeat, LosesLease, Ends
<1>4. session' \in Sessions
  <2>1. CASE Boot(i) \/ LosesLease(i)
    BY <1>1, <2>1, GrantedIsSession DEF Boot, LosesLease
  <2>2. CASE Heartbeat(i)
    <3>1. session' = [session EXCEPT !.fresh = TRUE]
      BY <2>2 DEF Heartbeat
    <3>. QED  BY <1>1, <3>1 DEF Sessions
  <2>3. CASE Ends(i)
    BY <1>1, <2>3, DetachedIsSession DEF Ends
  <2>. QED  BY <2>1, <2>2, <2>3 DEF Agent, Comes
<1>5. procs' \in Seq(Processes)
  <2>1. CASE Boot(i)
    <3>1. CASE Becomes(i, "on", session.holder)
      BY <1>1, <1>2, <3>1, ProcessMoves
    <3>2. CASE Becomes(i, "deaf", 0)
      BY <1>1, <1>2, <3>2, ProcessMoves
    <3>3. CASE Grants /\ Becomes(i, "on", session'.holder)
      BY <1>1, <3>3, GrantedIsSession, ProcessMoves
    <3>. QED  BY <2>1, <3>1, <3>2, <3>3 DEF Boot
  <2>2. CASE Heartbeat(i)
    BY <1>1, <2>2 DEF Heartbeat
  <2>3. CASE LosesLease(i)
    <3>1. CASE Becomes(i, "deaf", 0)
      BY <1>1, <1>2, <3>1, ProcessMoves
    <3>2. CASE Grants /\ Becomes(i, "on", session'.holder)
      BY <1>1, <3>2, GrantedIsSession, ProcessMoves
    <3>. QED  BY <2>3, <3>1, <3>2 DEF LosesLease
  <2>4. CASE Ends(i)
    BY <1>1, <2>4, Removed DEF Ends
  <2>. QED  BY <2>1, <2>2, <2>3, <2>4 DEF Agent, Comes
<1>. QED  BY <1>3, <1>4, <1>5 DEF TypeOK, Sessions, Processes

(* The steps of a restart. *)
LEMMA RestartTypes ==
  ASSUME TypeOK, NEW r \in Restarts, Submit(r) \/ CallFails(r) \/ TimesOut(r)
  PROVE  TypeOK'
<1>1. /\ attempt \in [Restarts -> [1..MaxAttempts -> Attempts]]
      /\ restart \in [Restarts -> Entries]
  BY TypeOKParts
<1>2. UNCHANGED <<session, loop, queue, procs>>
  BY DEF Submit, CallFails, TimesOut
<1>3. /\ attempt' \in [Restarts -> [1..MaxAttempts -> Attempts]]
      /\ restart' \in [Restarts -> Entries]
  <2>1. CASE Submit(r)
    <3>1. 1 \in 1..MaxAttempts /\ 0 \in Ids /\ "look" \in AttemptStates
      BY Bounds DEF Ids, AttemptStates
    <3>2. attempt' \in [Restarts -> [1..MaxAttempts -> Attempts]]
      BY <1>1, <2>1, <3>1, AttemptMoves DEF Submit
    <3>3. [at |-> "running", tries |-> 1] \in Entries
      BY Bounds DEF Entries
    <3>. QED  BY <1>1, <2>1, <3>2, <3>3 DEF Submit
  <2>2. CASE TimesOut(r)
    BY <1>1, <2>2, NextAttemptTypes DEF TimesOut
  <2>3. CASE CallFails(r)
    <3>. DEFINE k == restart[r].tries
                a == IF attempt[r][k].at \in {"kill", "flip"}
                       THEN [attempt[r][k] EXCEPT !.heard = FALSE] ELSE NotRun
                given == [attempt[r] EXCEPT ![k] = a]
    <3>1. NextAttempt(r, given) /\ restart[r].at = "running"
      BY <2>3 DEF CallFails
    <3>2. k \in 1..MaxAttempts => a \in Attempts
      <4>1. k \in 1..MaxAttempts => attempt[r][k] \in Attempts
        BY <1>1
      <4>. QED  BY <4>1, NotRunIsAttempt DEF Attempts
    <3>3. given \in [1..MaxAttempts -> Attempts]
      <4>. HIDE DEF a, k
      <4>. QED  BY <1>1, <3>2
    <3>. HIDE DEF given
    <3>. QED  BY <3>1, <3>3, NextAttemptTypes
  <2>. QED  BY <2>1, <2>2, <2>3
<1>. QED  BY <1>2, <1>3 DEF TypeOK, Entries, Attempts

LEMMA ActivityTypes ==
  ASSUME TypeOK, NEW r \in Restarts, NEW k \in 1..MaxAttempts, Activity(r, k)
  PROVE  TypeOK'
<1>1. /\ session \in Sessions /\ queue \in Seq(Ids) /\ procs \in Seq(Processes)
      /\ attempt \in [Restarts -> [1..MaxAttempts -> Attempts]]
      /\ restart \in [Restarts -> Entries]
  BY TypeOKParts
<1>2. attempt[r][k].id \in Ids /\ session.holder \in Ids /\ 0 \in Ids
  <2>1. attempt[r][k] \in Attempts
    BY <1>1
  <2>. QED  BY <1>1, <2>1, Bounds DEF Attempts, Sessions, Ids
<1>3. loop' = loop
  BY DEF Activity, Look, Detach, Relook, ForceGuards, ForceKill, ForceFlip, Claim, EnqueueSpawn, Returns
<1>4. session' \in Sessions
  <2>1. Detached \in Sessions
    BY <1>1, DetachedIsSession
  <2>2. Draining \in Sessions
    <3>1. Draining = [session EXCEPT !.phase = "draining"] \/ Draining = session
      BY <1>1 DEF Draining, Sessions
    <3>2. [session EXCEPT !.phase = "draining"] \in Sessions
      BY <1>1 DEF Sessions
    <3>. QED  BY <1>1, <3>1, <3>2
  <2>3. CASE Claim(r, k)
    BY <1>1, <2>3, GrantedIsSession DEF Claim
  <2>. QED  BY <1>1, <2>1, <2>2, <2>3 DEF Activity, Look, Detach, Relook, ForceGuards, ForceKill,
            ForceFlip, EnqueueSpawn, Returns
<1>5. procs' \in Seq(Processes)
  <2>1. <<>> \in Seq(Processes)
    OBVIOUS
  <2>2. KillsOne => procs' \in Seq(Processes)
    BY <1>1, Removed DEF KillsOne
  <2>. QED  BY <1>1, <2>1, <2>2 DEF Activity, Look, Detach, Relook, ForceGuards, ForceKill, ForceFlip, Claim,
            EnqueueSpawn, Returns, Kills, Misses
<1>6. queue' \in Seq(Ids)
  <2>1. CASE EnqueueSpawn(r, k)
    BY <1>1, <1>2, <2>1 DEF EnqueueSpawn
  <2>. QED  BY <1>1, <2>1 DEF Activity, Look, Detach, Relook, ForceGuards, ForceKill, ForceFlip, Claim,
            Returns
<1>7. /\ attempt' \in [Restarts -> [1..MaxAttempts -> Attempts]]
      /\ restart' \in [Restarts -> Entries]
  <2>1. ASSUME NEW at \in AttemptStates, Proceeds(r, k, at)
        PROVE  /\ attempt' \in [Restarts -> [1..MaxAttempts -> Attempts]]
               /\ restart' \in [Restarts -> Entries]
    BY <1>1, <1>2, <2>1, AttemptMoves DEF Proceeds
  <2>2. ASSUME NEW outcome \in {"delivered", "failed"}, Ended(r, k, outcome)
        PROVE  /\ attempt' \in [Restarts -> [1..MaxAttempts -> Attempts]]
               /\ restart' \in [Restarts -> Entries]
    BY <2>2, EndedTypes
  <2>3. ASSUME NEW at \in AttemptStates, NEW id \in Ids, Works(r, k, at, id), UNCHANGED restart
        PROVE  /\ attempt' \in [Restarts -> [1..MaxAttempts -> Attempts]]
               /\ restart' \in [Restarts -> Entries]
    BY <1>1, <2>3, AttemptMoves
  <2>4. {"claim", "detach", "relook", "force", "kill", "flip", "spawn", "return"} \subseteq AttemptStates
    BY DEF AttemptStates
  <2>5. CASE Look(r, k)
    BY <1>1, <2>1, <2>4, <2>5 DEF Look, Sessions
  <2>6. CASE Detach(r, k)
    BY <2>1, <2>4, <2>6 DEF Detach
  <2>7. CASE Relook(r, k)
    BY <1>2, <2>1, <2>2, <2>3, <2>4, <2>7 DEF Relook
  <2>8. CASE ForceGuards(r, k)
    BY <2>1, <2>4, <2>8 DEF ForceGuards
  <2>9. CASE ForceKill(r, k)
    BY <1>1, <2>1, <2>2, <2>4, <2>9 DEF ForceKill
  <2>10. CASE ForceFlip(r, k)
    BY <2>1, <2>2, <2>4, <2>10 DEF ForceFlip
  <2>11. CASE Claim(r, k)
    BY <1>1, <2>2, <2>3, <2>4, <2>11, GrantedIsSession DEF Claim
  <2>12. CASE EnqueueSpawn(r, k)
    BY <2>1, <2>4, <2>12 DEF EnqueueSpawn
  <2>13. CASE Returns(r, k)
    BY <2>2, <2>13 DEF Returns
  <2>. QED  BY <2>5, <2>6, <2>7, <2>8, <2>9, <2>10, <2>11, <2>12, <2>13 DEF Activity
<1>. QED  BY <1>3, <1>4, <1>5, <1>6, <1>7 DEF TypeOK, Sessions, Processes, Entries, Attempts

LEMMA TypesStep == ASSUME TypeOK, [Next]_restartVars PROVE TypeOK'
<1>1. CASE UNCHANGED restartVars
  BY <1>1 DEF restartVars, TypeOK
<1>2. CASE Next
  BY <1>2, SessionTypes, AgentTypes, RestartTypes, ActivityTypes DEF Next
<1>. QED  BY <1>1, <1>2

(* Every reachable state is type correct. *)
THEOREM RestartTypeCorrect == Spec => []TypeOK
  BY TypesInit, TypesStep, PTL DEF Spec

-----------------------------------------------------------------------------
(* One agent per lease.  An attachment a restart claimed is spawned for    *)
(* once: the attempt that claimed it holds it until it is queued, the      *)
(* queue until it is dispatched, the main loop until the process starts,   *)
(* and the process while it boots and serves.  All that is held is apart,  *)
(* so no two processes boot for one attachment, and a process renews the   *)
(* attachment it was spawned for or gets one of its own.                   *)

Live(i) == procs[i].at \in {"boot", "on"}
Spawning == loop.at = "spawning"
Claimed(r, k) == attempt[r][k].at = "spawn"

(* What is held was minted before. *)
Minted ==
  /\ \A i \in DOMAIN procs : Live(i) => procs[i].att \in 1..session.claims
  /\ \A n \in DOMAIN queue : queue[n] \in 1..session.claims
  /\ Spawning => loop.entry \in 1..session.claims
  /\ \A r \in Restarts, k \in 1..MaxAttempts :
       Claimed(r, k) => attempt[r][k].id \in 1..session.claims

ProcessesApart ==
  /\ \A i, j \in DOMAIN procs : i # j /\ Live(i) /\ Live(j) => procs[i].att # procs[j].att
  /\ \A i \in DOMAIN procs, n \in DOMAIN queue : Live(i) => procs[i].att # queue[n]
  /\ \A i \in DOMAIN procs : Live(i) /\ Spawning => procs[i].att # loop.entry
  /\ \A i \in DOMAIN procs, r \in Restarts, k \in 1..MaxAttempts :
       Live(i) /\ Claimed(r, k) => procs[i].att # attempt[r][k].id

EntriesApart ==
  /\ \A m, n \in DOMAIN queue : m # n => queue[m] # queue[n]
  /\ \A n \in DOMAIN queue : Spawning => queue[n] # loop.entry
  /\ \A n \in DOMAIN queue, r \in Restarts, k \in 1..MaxAttempts :
       Claimed(r, k) => queue[n] # attempt[r][k].id

AttemptsApart ==
  /\ \A r \in Restarts, k \in 1..MaxAttempts :
       Spawning /\ Claimed(r, k) => loop.entry # attempt[r][k].id
  /\ \A r, q \in Restarts, k, l \in 1..MaxAttempts :
       <<r, k>> # <<q, l>> /\ Claimed(r, k) /\ Claimed(q, l) => attempt[r][k].id # attempt[q][l].id

Apart == Minted /\ ProcessesApart /\ EntriesApart /\ AttemptsApart
OneInv == "spawnTimeout" \notin ills => Apart

LEMMA ClaimsNat == ASSUME TypeOK PROVE session.claims \in Nat /\ session.holder \in Nat
<1>1. session.claims \in Ids /\ session.holder \in Ids
  BY TypeOKParts DEF Sessions
<1>. QED  BY <1>1, Bounds DEF Ids

LEMMA ApartInit == Init => Apart
<1>. SUFFICES ASSUME Init PROVE Apart
  OBVIOUS
<1>1. ~Spawning /\ queue = <<>> /\ session.claims = 1
  BY DEF Init, Idle, Spawning
<1>2. \A r \in Restarts, k \in 1..MaxAttempts : ~Claimed(r, k)
  BY DEF Init, NotRun, Claimed
<1>3. DOMAIN procs \subseteq {1} /\ \A i \in DOMAIN procs : procs[i].att = 1
  BY DEF Init
<1>4. DOMAIN queue = {}
  BY <1>1
<1>. QED  BY <1>1, <1>2, <1>3, <1>4 DEF Apart, Minted, ProcessesApart, EntriesApart, AttemptsApart

(* A step that claims nothing and hands nothing on keeps what is held apart: *)
(* processes end, entries and attempts are given up.                         *)
NothingClaimed ==
  \A r \in Restarts, k \in 1..MaxAttempts :
    Claimed(r, k)' => Claimed(r, k) /\ attempt'[r][k].id = attempt[r][k].id
LEMMA NothingNew ==
  ASSUME TypeOK, TypeOK', Apart, session'.claims >= session.claims, UNCHANGED queue,
         procs' = procs \/ procs' = <<>>,
         Spawning' => Spawning /\ loop'.entry = loop.entry,
         NothingClaimed
  PROVE  Apart'
<1>1. session.claims \in Nat /\ session'.claims \in Nat
      /\ 1..session.claims \subseteq 1..session'.claims
  <2>1. session.claims \in Nat /\ session'.claims \in Nat
    BY ClaimsNat, Bounds DEF TypeOK, Ids
  <2>. QED  BY <2>1
<1>2. \A i \in DOMAIN procs' : i \in DOMAIN procs /\ procs'[i] = procs[i] /\ Live(i)' = Live(i)
  BY DEF Live
<1>3. Minted'
  BY <1>1, <1>2 DEF Apart, Minted, NothingClaimed
<1>4. ProcessesApart'
  BY <1>2 DEF Apart, ProcessesApart, NothingClaimed
<1>5. EntriesApart'
  BY DEF Apart, EntriesApart, NothingClaimed
<1>6. AttemptsApart'
  BY DEF Apart, AttemptsApart, NothingClaimed
<1>. QED  BY <1>3, <1>4, <1>5, <1>6 DEF Apart

LEMMA GoesClaimsNothing ==
  ASSUME TypeOK, NEW r \in Restarts, NEW k \in 1..MaxAttempts,
         NEW at \in AttemptStates \ {"spawn"}, Goes(r, k, at)
  PROVE  NothingClaimed
  BY TypeOKParts DEF NothingClaimed, Claimed, Goes

LEMMA EndedClaimsNothing ==
  ASSUME TypeOK, NEW r \in Restarts, NEW k \in 1..MaxAttempts, NEW outcome, Ended(r, k, outcome)
  PROVE  NothingClaimed
  BY TypeOKParts DEF NothingClaimed, Claimed, Ended, NotRun

LEMMA WorksClaimsNothing ==
  ASSUME TypeOK, NEW r \in Restarts, NEW k \in 1..MaxAttempts,
         NEW at \in AttemptStates \ {"spawn"}, NEW id, Works(r, k, at, id)
  PROVE  NothingClaimed
<1>1. attempt' = [attempt EXCEPT ![r][k] = [[attempt[r][k] EXCEPT !.at = at] EXCEPT !.id = id]]
  BY DEF Works
<1>. DEFINE a == [[attempt[r][k] EXCEPT !.at = at] EXCEPT !.id = id]
<1>2. attempt[r][k] \in Attempts
  BY TypeOKParts
<1>3. a.at = at
  BY <1>2 DEF Attempts
<1>4. attempt' = [attempt EXCEPT ![r][k] = a]
  BY <1>1
<1>. HIDE DEF a
<1>. QED  BY <1>3, <1>4, TypeOKParts DEF NothingClaimed, Claimed

LEMMA NextAttemptClaimsNothing ==
  ASSUME TypeOK, NEW r \in Restarts, NEW given \in [1..MaxAttempts -> Attempts],
         \A k \in 1..MaxAttempts : given[k].at = "spawn" => given[k] = attempt[r][k],
         NextAttempt(r, given)
  PROVE  NothingClaimed
<1>1. CASE restart[r].tries < MaxAttempts
  <2>. DEFINE next == restart[r].tries + 1
              again == [given EXCEPT ![next].at = "look"]
  <2>1. attempt' = [attempt EXCEPT ![r] = again]
    BY <1>1 DEF NextAttempt
  <2>2. \A k \in 1..MaxAttempts : again[k].at = "spawn" => again[k] = attempt[r][k]
    <3>1. ASSUME NEW k \in 1..MaxAttempts, again[k].at = "spawn" PROVE again[k] = attempt[r][k]
      <4>1. CASE k = next
        <5>1. again[k] = [given[k] EXCEPT !.at = "look"] /\ given[k] \in Attempts
          BY <4>1
        <5>2. again[k].at = "look"
          BY <5>1 DEF Attempts
        <5>. QED  BY <3>1, <5>2
      <4>2. CASE k # next
        BY <3>1, <4>2
      <4>. QED  BY <4>1, <4>2
    <3>. QED  BY <3>1
  <2>. HIDE DEF again
  <2>. QED  BY <2>1, <2>2, TypeOKParts DEF NothingClaimed, Claimed
<1>2. CASE ~(restart[r].tries < MaxAttempts)
  <2>1. attempt' = [attempt EXCEPT ![r] = given]
    BY <1>2 DEF NextAttempt
  <2>. QED  BY <2>1, TypeOKParts DEF NothingClaimed, Claimed
<1>. QED  BY <1>1, <1>2

(* The main loop takes the first entry off the queue. *)
LEMMA SpawnDueApart == ASSUME TypeOK, TypeOK', Apart, SpawnDue PROVE Apart'
<1>1. /\ queue \in Seq(Ids) /\ queue # <<>> /\ queue' = Tail(queue)
      /\ loop' = [at |-> "spawning", entry |-> Head(queue), tries |-> 1]
      /\ UNCHANGED <<session, procs, restart, attempt>>
  BY TypeOKParts DEF SpawnDue
<1>2. /\ 1 \in DOMAIN queue /\ loop'.entry = queue[1] /\ Spawning'
      /\ \A n \in DOMAIN queue' : n + 1 \in DOMAIN queue /\ n + 1 # 1 /\ queue'[n] = queue[n + 1]
  BY <1>1 DEF Spawning
<1>3. \A m, n \in DOMAIN queue' : m # n => m + 1 # n + 1
  BY <1>1
<1>4. /\ \A i : Live(i)' = Live(i)
      /\ \A r, k : Claimed(r, k)' = Claimed(r, k)
  BY <1>1 DEF Live, Claimed
<1>5. Minted'
  BY <1>1, <1>2, <1>4 DEF Apart, Minted
<1>6. ProcessesApart'
  BY <1>1, <1>2, <1>4 DEF Apart, ProcessesApart
<1>7. EntriesApart'
  BY <1>1, <1>2, <1>3, <1>4 DEF Apart, EntriesApart
<1>8. AttemptsApart'
  BY <1>1, <1>2, <1>4 DEF Apart, AttemptsApart, EntriesApart
<1>. QED  BY <1>5, <1>6, <1>7, <1>8 DEF Apart

(* The process is started with the attachment of the entry. *)
LEMMA SpawnProcessApart == ASSUME TypeOK, TypeOK', Apart, SpawnProcess PROVE Apart'
<1>1. /\ procs \in Seq(Processes) /\ UNCHANGED <<session, queue, restart, attempt>>
      /\ Spawning /\ ~Spawning'
  BY TypeOKParts DEF SpawnProcess, Spawning, Idle
<1>2. \A r, k : Claimed(r, k)' = Claimed(r, k)
  BY <1>1 DEF Claimed
<1>3. \A i \in DOMAIN procs' : \/ i \in DOMAIN procs /\ procs'[i] = procs[i]
                               \/ i = Len(procs) + 1 /\ procs'[i].att = loop.entry
  BY <1>1 DEF SpawnProcess, Process
<1>4. \A i \in DOMAIN procs' : i \notin DOMAIN procs => procs'[i].att = loop.entry
  BY <1>3
<1>5. \A i \in DOMAIN procs : i \in DOMAIN procs' /\ procs'[i] = procs[i] => Live(i)' = Live(i)
  BY DEF Live
<1>6. Minted'
  BY <1>1, <1>2, <1>3, <1>5 DEF Apart, Minted
<1>7. ProcessesApart'
  BY <1>1, <1>2, <1>3, <1>5 DEF Apart, ProcessesApart, EntriesApart, AttemptsApart
<1>8. EntriesApart' /\ AttemptsApart'
  BY <1>1, <1>2 DEF Apart, EntriesApart, AttemptsApart
<1>. QED  BY <1>6, <1>7, <1>8 DEF Apart

LEMMA ProcessEnds ==
  ASSUME TypeOK, Apart, NEW i \in DOMAIN procs, procs' = RemoveAt(procs, i),
         UNCHANGED <<queue, loop, attempt>>, session'.claims = session.claims
  PROVE  Apart'
<1>. DEFINE old(j) == IF j < i THEN j ELSE j + 1
<1>1. procs \in Seq(Processes)
  BY TypeOKParts
<1>2. /\ DOMAIN procs' = 1..(Len(procs) - 1)
      /\ \A j \in 1..(Len(procs) - 1) : procs'[j] = IF j < i THEN procs[j] ELSE procs[j + 1]
  BY <1>1, Removed
<1>3. /\ \A j \in DOMAIN procs' : old(j) \in DOMAIN procs
      /\ \A j, l \in DOMAIN procs' : j # l => old(j) # old(l)
  BY <1>1, <1>2
<1>4. \A j \in DOMAIN procs' : procs'[j] = procs[old(j)]
  BY <1>2
<1>5. \A j \in DOMAIN procs' : Live(j)' = Live(old(j))
  BY <1>4 DEF Live
<1>. HIDE DEF old
<1>6. Minted'
  BY <1>3, <1>4, <1>5 DEF Apart, Minted, Spawning, Claimed
<1>7. ProcessesApart'
  BY <1>3, <1>4, <1>5 DEF Apart, ProcessesApart, Spawning, Claimed
<1>8. EntriesApart' /\ AttemptsApart'
  BY DEF Apart, EntriesApart, AttemptsApart, Spawning, Claimed
<1>. QED  BY <1>6, <1>7, <1>8 DEF Apart

LEMMA SessionApart ==
  ASSUME TypeOK, TypeOK', OneInv, LeaseExpires \/ MainLoop
  PROVE  OneInv'
<1>. SUFFICES ASSUME "spawnTimeout" \notin ills' PROVE Apart'
  BY DEF OneInv
<1>1. "spawnTimeout" \notin ills /\ ~SpawnTimesOut
  BY DEF LeaseExpires, MainLoop, ReapLease, DrainDue, DrainKill, DrainFlip, SpawnDue, SpawnProcess,
     SpawnTimesOut, SpawnFails, Misses, Kills, KillsOne, Ill, Sound
<1>2. Apart
  BY <1>1 DEF OneInv
<1>3. CASE SpawnDue
  BY <1>2, <1>3, SpawnDueApart
<1>4. CASE SpawnProcess
  BY <1>2, <1>4, SpawnProcessApart
<1>5. CASE DrainKill /\ KillsOne
  <2>1. UNCHANGED <<session, queue, attempt>>
    BY <1>5 DEF DrainKill
  <2>2. CASE loop' = loop
    BY <1>2, <1>5, <2>1, <2>2, ProcessEnds DEF KillsOne
  <2>3. CASE procs' \in {procs, <<>>}
    <3>1. ~Spawning /\ ~Spawning'
      <4>1. loop \in Loops /\ loop.at = "drainKill"
        BY <1>5, TypeOKParts DEF DrainKill
      <4>. QED  BY <1>5, <4>1 DEF DrainKill, Spawning, Loops
    <3>2. NothingClaimed /\ session'.claims >= session.claims
      BY <2>1, ClaimsNat DEF NothingClaimed, Claimed
    <3>. QED  BY <1>2, <2>1, <2>3, <3>1, <3>2, NothingNew
  <2>. QED  BY <1>5, <2>2, <2>3 DEF DrainKill, Kills, Misses
<1>6. CASE ~SpawnDue /\ ~SpawnProcess /\ ~(DrainKill /\ KillsOne)
  <2>1. UNCHANGED <<queue, attempt>> /\ (procs' = procs \/ procs' = <<>>)
    BY <1>1, <1>6 DEF LeaseExpires, MainLoop, ReapLease, DrainDue, DrainKill, DrainFlip, SpawnFails,
       Misses, Kills
  <2>2. Spawning' => Spawning /\ loop'.entry = loop.entry
    <3>1. CASE LeaseExpires \/ ReapLease
      BY <3>1 DEF LeaseExpires, ReapLease, Spawning
    <3>2. CASE DrainDue \/ DrainKill \/ DrainFlip \/ SpawnFails
      <4>1. loop \in Loops
        BY TypeOKParts
      <4>. QED  BY <3>2, <4>1 DEF DrainDue, DrainKill, DrainFlip, SpawnFails, Spawning, Idle, Loops
    <3>. QED  BY <1>1, <1>6, <3>1, <3>2 DEF MainLoop
  <2>3. session'.claims >= session.claims
    <3>1. Detached.claims = session.claims /\ RollsBack.claims = session.claims
      BY DEF Detached, RollsBack
    <3>2. session'.claims = session.claims
      <4>1. CASE LeaseExpires
        <5>1. session' = [session EXCEPT !.fresh = FALSE] /\ session \in Sessions
          BY <4>1, TypeOKParts DEF LeaseExpires
        <5>. QED  BY <5>1 DEF Sessions
      <4>. QED  BY <1>1, <1>6, <3>1, <4>1 DEF MainLoop, ReapLease, DrainDue, DrainKill, DrainFlip,
                SpawnFails
    <3>. QED  BY <3>2, ClaimsNat
  <2>4. NothingClaimed
    BY <2>1 DEF NothingClaimed, Claimed
  <2>. QED  BY <1>2, <2>1, <2>2, <2>3, <2>4, NothingNew
<1>. QED  BY <1>3, <1>4, <1>5, <1>6

(* A process keeps its attachment or gives it up. *)
LEMMA ProcessKeeps ==
  ASSUME TypeOK, Apart, NEW i \in DOMAIN procs, NEW at, NEW att, Becomes(i, at, att),
         at = "deaf" \/ (Live(i) /\ att = procs[i].att),
         UNCHANGED <<queue, loop, attempt>>, session'.claims = session.claims
  PROVE  Apart'
<1>1. /\ procs \in Seq(Processes) /\ procs' = [procs EXCEPT ![i] = [at |-> at, att |-> att]]
  BY TypeOKParts DEF Becomes
<1>2. DOMAIN procs' = DOMAIN procs
  BY <1>1
<1>3. \A j \in DOMAIN procs : Live(j)' => Live(j) /\ procs'[j].att = procs[j].att
  BY <1>1 DEF Live
<1>4. Minted'
  BY <1>2, <1>3 DEF Apart, Minted, Spawning, Claimed
<1>5. ProcessesApart'
  BY <1>2, <1>3 DEF Apart, ProcessesApart, Spawning, Claimed
<1>6. EntriesApart' /\ AttemptsApart'
  BY DEF Apart, EntriesApart, AttemptsApart, Spawning, Claimed
<1>. QED  BY <1>4, <1>5, <1>6 DEF Apart

(* A process gets an attachment of its own. *)
LEMMA ProcessGets ==
  ASSUME TypeOK, Apart, NEW i \in DOMAIN procs, Grants, Becomes(i, "on", session'.holder),
         UNCHANGED <<queue, loop, attempt>>
  PROVE  Apart'
<1>1. /\ procs \in Seq(Processes)
      /\ procs' = [procs EXCEPT ![i] = [at |-> "on", att |-> session'.holder]]
  BY TypeOKParts DEF Becomes
<1>2. /\ session.claims \in Nat /\ session'.claims = session.claims + 1
      /\ session'.holder = session.claims + 1
  BY ClaimsNat DEF Grants
<1>3. /\ 1..session.claims \subseteq 1..session'.claims /\ session'.holder \in 1..session'.claims
      /\ session'.holder \notin 1..session.claims
  BY <1>2
<1>4. DOMAIN procs' = DOMAIN procs /\ procs'[i].att = session'.holder
  BY <1>1
<1>5. \A j \in DOMAIN procs : j # i => procs'[j] = procs[j] /\ Live(j)' = Live(j)
  BY <1>1 DEF Live
<1>6. Minted'
  BY <1>3, <1>4, <1>5 DEF Apart, Minted, Spawning, Claimed
<1>7. ProcessesApart'
  <2>1. \A j \in DOMAIN procs : j # i /\ Live(j)' => procs'[j].att # session'.holder
    BY <1>3, <1>5 DEF Apart, Minted
  <2>2. \A n \in DOMAIN queue : queue[n] # session'.holder
    BY <1>3 DEF Apart, Minted
  <2>3. Spawning => loop.entry # session'.holder
    BY <1>3 DEF Apart, Minted
  <2>4. \A r \in Restarts, k \in 1..MaxAttempts :
          Claimed(r, k) => attempt[r][k].id # session'.holder
    BY <1>3 DEF Apart, Minted
  <2>. QED  BY <1>4, <1>5, <2>1, <2>2, <2>3, <2>4 DEF Apart, ProcessesApart, Spawning, Claimed
<1>8. EntriesApart' /\ AttemptsApart'
  BY DEF Apart, EntriesApart, AttemptsApart, Spawning, Claimed
<1>. QED  BY <1>6, <1>7, <1>8 DEF Apart

LEMMA AgentApart ==
  ASSUME TypeOK, TypeOK', OneInv, NEW i \in DOMAIN procs, Agent(i)
  PROVE  OneInv'
<1>. SUFFICES ASSUME "spawnTimeout" \notin ills' PROVE Apart'
  BY DEF OneInv
<1>1. Apart /\ UNCHANGED <<loop, queue, attempt>>
  BY DEF Agent, Comes, Boot, Heartbeat, LosesLease, Ends, Ill, OneInv
<1>2. CASE Boot(i)
  <2>1. CASE Renews(procs[i].att) /\ Becomes(i, "on", session.holder) /\ session' = session
    <3>1. Live(i) /\ session.holder = procs[i].att
      BY <1>2, <2>1 DEF Boot, Live, Renews
    <3>. QED  BY <1>1, <2>1, <3>1, ProcessKeeps
  <2>2. CASE Becomes(i, "deaf", 0) /\ session' = session
    <3>1. Becomes(i, "deaf", 0) /\ session'.claims = session.claims
      BY <2>2
    <3>. QED  BY <1>1, <3>1, ProcessKeeps
  <2>3. CASE Grants /\ Becomes(i, "on", session'.holder)
    BY <1>1, <2>3, ProcessGets
  <2>. QED  BY <1>2, <2>1, <2>2, <2>3 DEF Boot
<1>3. CASE LosesLease(i)
  <2>1. CASE Becomes(i, "deaf", 0) /\ session' = session
    <3>1. Becomes(i, "deaf", 0) /\ session'.claims = session.claims
      BY <2>1
    <3>. QED  BY <1>1, <3>1, ProcessKeeps
  <2>2. CASE Grants /\ Becomes(i, "on", session'.holder)
    BY <1>1, <2>2, ProcessGets
  <2>. QED  BY <1>3, <2>1, <2>2 DEF LosesLease
<1>4. CASE Heartbeat(i)
  <2>1. procs' = procs /\ session' = [session EXCEPT !.fresh = TRUE] /\ session \in Sessions
    BY <1>4, TypeOKParts DEF Heartbeat
  <2>2. session'.claims = session.claims
    BY <2>1 DEF Sessions
  <2>3. NothingClaimed /\ (Spawning' => Spawning /\ loop'.entry = loop.entry)
    BY <1>1 DEF NothingClaimed, Claimed, Spawning
  <2>. QED  BY <1>1, <2>1, <2>2, <2>3, ClaimsNat, NothingNew
<1>5. CASE Ends(i)
  <2>1. session'.claims = session.claims
    BY <1>5 DEF Ends, Detached
  <2>. QED  BY <1>1, <1>5, <2>1, ProcessEnds DEF Ends
<1>. QED  BY <1>2, <1>3, <1>4, <1>5 DEF Agent, Comes

(* A restart is granted an attachment nobody holds yet. *)
LEMMA ClaimApart ==
  ASSUME TypeOK, Apart, NEW r \in Restarts, NEW k \in 1..MaxAttempts, Grants,
         ~Claimed(r, k), Works(r, k, "spawn", session'.holder),
         UNCHANGED <<loop, queue, procs>>
  PROVE  Apart'
<1>. DEFINE new == session.claims + 1
<1>1. /\ session.claims \in Nat /\ session'.claims = new /\ session'.holder = new
  BY ClaimsNat DEF Grants
<1>2. 1..session.claims \subseteq 1..session'.claims /\ new \in 1..session'.claims
      /\ new \notin 1..session.claims
  BY <1>1
<1>3. /\ attempt'[r][k].id = new
      /\ \A q \in Restarts, l \in 1..MaxAttempts :
           <<q, l>> # <<r, k>> => attempt'[q][l] = attempt[q][l]
  <2>1. attempt' = [attempt EXCEPT ![r][k] = [[attempt[r][k] EXCEPT !.at = "spawn"] EXCEPT !.id = new]]
    BY <1>1 DEF Works
  <2>. DEFINE a == [[attempt[r][k] EXCEPT !.at = "spawn"] EXCEPT !.id = new]
  <2>2. attempt[r][k] \in Attempts
    BY TypeOKParts
  <2>3. a.id = new
    BY <2>2 DEF Attempts
  <2>4. attempt' = [attempt EXCEPT ![r][k] = a]
    BY <2>1
  <2>. HIDE DEF a, new
  <2>. QED  BY <2>3, <2>4, TypeOKParts
<1>4. \A q \in Restarts, l \in 1..MaxAttempts : Claimed(q, l)' =>
        \/ q = r /\ l = k
        \/ <<q, l>> # <<r, k>> /\ Claimed(q, l) /\ attempt'[q][l].id = attempt[q][l].id
  BY <1>3 DEF Claimed
<1>. HIDE DEF new
<1>5. Minted'
  BY <1>1, <1>2, <1>3, <1>4 DEF Apart, Minted, Live, Spawning
<1>6. ProcessesApart'
  BY <1>2, <1>3, <1>4 DEF Apart, Minted, ProcessesApart, Live, Spawning
<1>7. EntriesApart'
  BY <1>2, <1>3, <1>4 DEF Apart, Minted, EntriesApart, Spawning
<1>8. AttemptsApart'
  <2>1. \A q \in Restarts, l \in 1..MaxAttempts : Claimed(q, l) => attempt[q][l].id # new
    BY <1>2 DEF Apart, Minted
  <2>2. Spawning => loop.entry # new
    BY <1>2 DEF Apart, Minted
  <2>. QED  BY <1>3, <1>4, <2>1, <2>2 DEF Apart, AttemptsApart, Spawning
<1>. QED  BY <1>5, <1>6, <1>7, <1>8 DEF Apart

(* A restart hands its attachment to the queue. *)
LEMMA EnqueueApart ==
  ASSUME TypeOK, Apart, NEW r \in Restarts, NEW k \in 1..MaxAttempts, EnqueueSpawn(r, k)
  PROVE  Apart'
<1>1. /\ queue \in Seq(Ids) /\ queue' = Append(queue, attempt[r][k].id) /\ Claimed(r, k)
      /\ UNCHANGED <<session, loop, procs>>
  BY TypeOKParts DEF EnqueueSpawn, At, Claimed
<1>2. NothingClaimed /\ ~Claimed(r, k)'
  <2>1. Goes(r, k, "return")
    BY DEF EnqueueSpawn, Proceeds
  <2>2. attempt[r][k] \in Attempts /\ attempt'[r][k] = [attempt[r][k] EXCEPT !.at = "return"]
    BY <2>1, TypeOKParts DEF Goes
  <2>3. attempt'[r][k].at = "return"
    BY <2>2 DEF Attempts
  <2>. QED  BY <2>1, <2>3, GoesClaimsNothing DEF Claimed, AttemptStates
<1>3. attempt[r][k].id \in Ids
  <2>1. attempt[r][k] \in Attempts
    BY TypeOKParts
  <2>. QED  BY <2>1 DEF Attempts
<1>4. \A n \in DOMAIN queue' : \/ n \in DOMAIN queue /\ queue'[n] = queue[n]
                               \/ n = Len(queue) + 1 /\ queue'[n] = attempt[r][k].id
  BY <1>1, <1>3
<1>5. \A q \in Restarts, l \in 1..MaxAttempts : Claimed(q, l)' => <<q, l>> # <<r, k>>
  BY <1>2
<1>6. Minted'
  BY <1>1, <1>2, <1>4 DEF Apart, Minted, NothingClaimed, Live, Spawning
<1>7. ProcessesApart'
  BY <1>1, <1>2, <1>4 DEF Apart, ProcessesApart, NothingClaimed, Live, Spawning
<1>8. EntriesApart'
  BY <1>1, <1>2, <1>4, <1>5 DEF Apart, EntriesApart, AttemptsApart, NothingClaimed, Spawning
<1>9. AttemptsApart'
  BY <1>1, <1>2 DEF Apart, AttemptsApart, NothingClaimed, Spawning
<1>. QED  BY <1>6, <1>7, <1>8, <1>9 DEF Apart

LEMMA ActivityApart ==
  ASSUME TypeOK, TypeOK', OneInv, NEW r \in Restarts, NEW k \in 1..MaxAttempts, Activity(r, k)
  PROVE  OneInv'
<1>. SUFFICES ASSUME "spawnTimeout" \notin ills' PROVE Apart'
  BY DEF OneInv
<1>1. Apart
  BY DEF Activity, Look, Detach, Relook, ForceGuards, ForceKill, ForceFlip, Claim, EnqueueSpawn, Returns,
     Ill, Sound, Kills, KillsOne, Misses, OneInv
<1>2. CASE EnqueueSpawn(r, k)
  BY <1>1, <1>2, EnqueueApart
<1>3. CASE Claim(r, k) /\ Grants /\ Works(r, k, "spawn", session'.holder)
  <2>1. ~Claimed(r, k) /\ UNCHANGED <<loop, queue, procs>>
    BY <1>3 DEF Claim, At, Claimed
  <2>. QED  BY <1>1, <1>3, <2>1, ClaimApart
<1>4. CASE ForceKill(r, k) /\ KillsOne /\ UNCHANGED <<attempt, restart>>
  BY <1>1, <1>4, ProcessEnds DEF ForceKill, KillsOne
<1>5. CASE /\ ~EnqueueSpawn(r, k)
           /\ ~(Claim(r, k) /\ Grants /\ Works(r, k, "spawn", session'.holder))
           /\ ~(ForceKill(r, k) /\ KillsOne /\ UNCHANGED <<attempt, restart>>)
  <2>1. UNCHANGED <<loop, queue>> /\ (procs' = procs \/ procs' = <<>>)
    BY <1>5 DEF Activity, Look, Detach, Relook, ForceGuards, ForceKill, ForceFlip, Claim, Returns, Kills,
       Misses
  <2>2. session'.claims = session.claims
    <3>1. Draining.claims = session.claims /\ Detached.claims = session.claims
      BY TypeOKParts DEF Draining, Detached, Sessions
    <3>. QED  BY <1>5, <3>1 DEF Activity, Look, Detach, Relook, ForceGuards, ForceKill, ForceFlip, Claim,
              Returns
  <2>3. NothingClaimed
    <3>1. ASSUME NEW at \in {"claim", "detach", "relook", "kill", "flip"}, Proceeds(r, k, at)
          PROVE  NothingClaimed
      BY <3>1, GoesClaimsNothing DEF Proceeds, AttemptStates
    <3>2. ASSUME NEW outcome, Ended(r, k, outcome) PROVE NothingClaimed
      BY <3>2, EndedClaimsNothing
    <3>3. CASE Look(r, k)
      <4>1. session.phase \in {"detached", "attached", "draining"}
        BY TypeOKParts DEF Sessions
      <4>. QED  BY <3>1, <3>3, <4>1 DEF Look
    <3>4. CASE Relook(r, k)
      <4>1. CASE Works(r, k, "force", session.holder)
        BY <4>1, WorksClaimsNothing DEF AttemptStates
      <4>. QED  BY <3>1, <3>2, <3>4, <4>1 DEF Relook
    <3>5. CASE Detach(r, k) \/ ForceGuards(r, k)
      BY <3>1, <3>5 DEF Detach, ForceGuards
    <3>6. CASE ForceKill(r, k) \/ ForceFlip(r, k)
      BY <1>5, <3>1, <3>2, <3>6 DEF ForceKill, ForceFlip
    <3>7. CASE Claim(r, k) \/ Returns(r, k)
      BY <1>5, <3>2, <3>7 DEF Claim, Returns
    <3>. QED  BY <1>5, <3>3, <3>4, <3>5, <3>6, <3>7 DEF Activity
  <2>4. Spawning' => Spawning /\ loop'.entry = loop.entry
    BY <2>1 DEF Spawning
  <2>. QED  BY <1>1, <2>1, <2>2, <2>3, <2>4, ClaimsNat, NothingNew
<1>. QED  BY <1>2, <1>3, <1>4, <1>5

LEMMA RestartApart ==
  ASSUME TypeOK, TypeOK', OneInv, NEW r \in Restarts, Submit(r) \/ CallFails(r) \/ TimesOut(r)
  PROVE  OneInv'
<1>. SUFFICES ASSUME "spawnTimeout" \notin ills' PROVE Apart'
  BY DEF OneInv
<1>1. Apart /\ UNCHANGED <<session, loop, queue, procs>>
  BY DEF Submit, CallFails, TimesOut, Ill, OneInv
<1>2. CASE Submit(r)
  <2>1. NothingClaimed
    BY <1>2, Bounds, GoesClaimsNothing DEF Submit, AttemptStates
  <2>. QED  BY <1>1, <2>1, ClaimsNat, NothingNew DEF Spawning
<1>3. CASE TimesOut(r)
  <2>1. attempt[r] \in [1..MaxAttempts -> Attempts] /\ NextAttempt(r, attempt[r])
    BY <1>3, TypeOKParts DEF TimesOut
  <2>2. NothingClaimed
    BY <2>1, NextAttemptClaimsNothing
  <2>. QED  BY <1>1, <2>2, ClaimsNat, NothingNew DEF Spawning
<1>4. CASE CallFails(r)
  <2>. DEFINE k == restart[r].tries
              a == IF attempt[r][k].at \in {"kill", "flip"}
                     THEN [attempt[r][k] EXCEPT !.heard = FALSE] ELSE NotRun
              given == [attempt[r] EXCEPT ![k] = a]
  <2>1. NextAttempt(r, given)
    BY <1>4 DEF CallFails
  <2>2. attempt[r] \in [1..MaxAttempts -> Attempts]
    BY TypeOKParts
  <2>3. k \in 1..MaxAttempts => a \in Attempts /\ a.at # "spawn"
    <3>1. CASE k \in 1..MaxAttempts /\ attempt[r][k].at \in {"kill", "flip"}
      <4>1. attempt[r][k] \in Attempts /\ a = [attempt[r][k] EXCEPT !.heard = FALSE]
        BY <2>2, <3>1
      <4>. QED  BY <3>1, <4>1 DEF Attempts
    <3>2. CASE ~(attempt[r][k].at \in {"kill", "flip"})
      BY <3>2, NotRunIsAttempt DEF NotRun
    <3>. QED  BY <3>1, <3>2
  <2>4. /\ given \in [1..MaxAttempts -> Attempts]
        /\ \A l \in 1..MaxAttempts : given[l].at = "spawn" => given[l] = attempt[r][l]
    <3>. HIDE DEF a, k
    <3>. QED  BY <2>2, <2>3
  <2>. HIDE DEF given
  <2>5. NothingClaimed
    BY <2>1, <2>4, NextAttemptClaimsNothing
  <2>. QED  BY <1>1, <2>5, ClaimsNat, NothingNew DEF Spawning
<1>. QED  BY <1>2, <1>3, <1>4

LEMMA OneStep == ASSUME TypeOK, TypeOK', OneInv, [Next]_restartVars PROVE OneInv'
<1>1. CASE UNCHANGED restartVars
  BY <1>1 DEF restartVars, OneInv, Apart, Minted, ProcessesApart, EntriesApart, AttemptsApart, Live,
     Spawning, Claimed
<1>2. CASE Next
  BY <1>2, SessionApart, AgentApart, RestartApart, ActivityApart DEF Next
<1>. QED  BY <1>1, <1>2

(* No attachment is served by two processes, for any restarts, attempts    *)
(* and faults but a spawn that timed out.                                  *)
THEOREM OneAgentAtATime == Spec => []OneAgentPerLease
<1>1. Init => OneInv
  BY ApartInit DEF OneInv
<1>2. TypeOK /\ TypeOK' /\ OneInv /\ [Next]_restartVars => OneInv'
  BY OneStep
<1>3. ASSUME TypeOK, OneInv PROVE OneAgentPerLease
  <2>. SUFFICES ASSUME NEW i \in DOMAIN procs, NEW j \in DOMAIN procs, i # j,
                       procs[i].at = "on", procs[i] = procs[j]
                PROVE  "spawnTimeout" \in ills
    BY DEF OneAgentPerLease
  <2>. QED  BY <1>3 DEF OneInv, Apart, ProcessesApart, Live
<1>. QED  BY <1>1, <1>2, <1>3, RestartTypeCorrect, PTL DEF Spec

-----------------------------------------------------------------------------
(* The abstract lease.  A step keeps the holder, whose lease may be renewed *)
(* or run out, leaves the session detached, or claims it.                  *)

Keeps == session'.holder = session.holder /\ session'.claims = session.claims

LEMMA KeepingImplements ==
  ASSUME session \in Sessions, session' \in Sessions, Keeps
  PROVE  [Lease!LeaseNext]_(Lease!leaseVars)
<1>1. session'.holder = session.holder /\ session'.claims = session.claims
  BY DEF Keeps
<1>2. session.fresh \in BOOLEAN /\ session'.fresh \in BOOLEAN
  BY DEF Sessions
<1>3. CASE session.holder = 0 \/ session'.fresh = session.fresh
  BY <1>1, <1>2, <1>3 DEF Lease!leaseVars
<1>4. CASE session.holder # 0 /\ session'.fresh /\ ~session.fresh
  <2>1. Lease!Renew
    BY <1>1, <1>4 DEF Lease!Renew
  <2>. QED  BY <2>1 DEF Lease!LeaseNext
<1>5. CASE session.holder # 0 /\ ~session'.fresh /\ session.fresh
  <2>1. Lease!Expire
    BY <1>1, <1>5 DEF Lease!Expire
  <2>. QED  BY <2>1 DEF Lease!LeaseNext
<1>. QED  BY <1>2, <1>3, <1>4, <1>5

LEMMA DetachingImplements ==
  ASSUME session' = Detached
  PROVE  [Lease!LeaseNext]_(Lease!leaseVars)
<1>1. session'.holder = 0 /\ session'.claims = session.claims
  BY DEF Detached
<1>2. CASE session.holder = 0
  BY <1>1, <1>2 DEF Lease!leaseVars
<1>3. CASE session.holder # 0
  <2>1. Lease!Revoke
    BY <1>1, <1>3 DEF Lease!Revoke
  <2>. QED  BY <2>1 DEF Lease!LeaseNext
<1>. QED  BY <1>2, <1>3

LEMMA ClaimingImplements ==
  ASSUME session \in Sessions, Grants
  PROVE  [Lease!LeaseNext]_(Lease!leaseVars)
<1>1. /\ session'.holder = session.claims + 1 /\ session'.fresh = TRUE
      /\ session'.claims = session.claims + 1
  BY DEF Grants
<1>2. session.holder = 0 \/ (session.holder # 0 /\ ~session.fresh)
  BY DEF Grants, Free
<1>3. Lease!Grant
  BY <1>1, <1>2 DEF Lease!Grant
<1>. QED  BY <1>3 DEF Lease!LeaseNext

(* What a step does to the session. *)
LEMMA KeepsDetachesOrClaims ==
  ASSUME TypeOK, [Next]_restartVars
  PROVE  Keeps \/ session' = Detached \/ Grants
<1>0. session \in Sessions
  BY TypeOKParts
<1>1. CASE UNCHANGED restartVars
  BY <1>1 DEF restartVars, Keeps
<1>2. ASSUME session' = session PROVE Keeps
  BY <1>2 DEF Keeps
<1>3. CASE LeaseExpires
  BY <1>0, <1>3 DEF LeaseExpires, Keeps, Sessions
<1>4. CASE MainLoop
  BY <1>2, <1>4 DEF MainLoop, ReapLease, DrainDue, DrainKill, DrainFlip, SpawnDue, SpawnProcess,
     SpawnTimesOut, SpawnFails, RollsBack
<1>5. ASSUME NEW i \in DOMAIN procs, Agent(i) PROVE Keeps \/ session' = Detached \/ Grants
  <2>1. CASE Heartbeat(i)
    BY <1>0, <2>1 DEF Heartbeat, Keeps, Sessions
  <2>. QED  BY <1>2, <1>5, <2>1 DEF Agent, Comes, Boot, LosesLease, Ends
<1>6. ASSUME NEW r \in Restarts, Submit(r) \/ CallFails(r) \/ TimesOut(r) PROVE Keeps
  BY <1>2, <1>6 DEF Submit, CallFails, TimesOut
<1>7. ASSUME NEW r \in Restarts, NEW k \in 1..MaxAttempts, Activity(r, k)
      PROVE  Keeps \/ session' = Detached \/ Grants
  <2>1. CASE Detach(r, k)
    <3>1. CASE session' = Draining
      <4>. DEFINE phase == IF session.phase = "attached" THEN "draining" ELSE session.phase
      <4>1. session' = [session EXCEPT !.phase = phase]
        BY <3>1 DEF Draining
      <4>. QED  BY <1>0, <4>1 DEF Keeps, Sessions
    <3>. QED  BY <1>2, <2>1, <3>1 DEF Detach
  <2>2. CASE ForceFlip(r, k)
    BY <1>2, <2>2 DEF ForceFlip
  <2>. QED  BY <1>2, <1>7, <2>1, <2>2 DEF Activity, Look, Relook, ForceGuards, ForceKill, Claim,
            EnqueueSpawn, Returns
<1>. QED  BY <1>1, <1>3, <1>4, <1>5, <1>6, <1>7 DEF Next

(* Restarts, their retries and the processes they spawn never admit a      *)
(* second holder to a session whose lease is kept.                         *)
THEOREM RestartsKeepTheLease == Spec => KeepsLease
<1>1. ASSUME TypeOK, TypeOK', [Next]_restartVars PROVE [Lease!LeaseNext]_(Lease!leaseVars)
  <2>1. session \in Sessions /\ session' \in Sessions
    BY <1>1 DEF TypeOK, Sessions
  <2>2. Keeps \/ session' = Detached \/ Grants
    BY <1>1, KeepsDetachesOrClaims
  <2>. QED  BY <2>1, <2>2, KeepingImplements, DetachingImplements, ClaimingImplements
<1>. QED  BY <1>1, RestartTypeCorrect, PTL DEF Spec, KeepsLease
=============================================================================
