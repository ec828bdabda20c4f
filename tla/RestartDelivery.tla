---------------------------- MODULE RestartDelivery ----------------------------
(***************************************************************************)
(* Restarts of one player: the deliverRestart activity (activities/        *)
(* outbox.ts), run for entries of several outboxes at once and retried as a *)
(* whole, against the session it works on (workflows/session.ts), which    *)
(* dispatches the spawn it ends with, and the agent processes of the       *)
(* player, that claim the attachment they were spawned for.                *)
(*                                                                         *)
(* Restarts come from the restart tool, or from a daemon that restores     *)
(* what it takes for orphans on boot (reconcile/orphans.ts): those are not *)
(* forced.  One machine is modelled.  Attachments are numbered in the      *)
(* order they are minted; phase attached stands for processing and         *)
(* awaiting as well, detached for booting.  A session that is destroyed    *)
(* meanwhile ends the restart, and is left out.                            *)
(***************************************************************************)
EXTENDS Integers, Sequences, FiniteSets, SequencesExt

CONSTANTS
  Restarts,      \* the restart entries
  Forced,        \* those with force
  MaxAttempts,   \* attempts of deliverRestart
  MaxSpawns,     \* attempts of spawnProcess
  MaxClaims,     \* bound on attachments
  MaxIlls        \* bound on what goes wrong

ASSUME RestartAssumption ==
  /\ Forced \subseteq Restarts
  /\ {MaxAttempts, MaxSpawns, MaxClaims} \subseteq Nat \ {0}
  /\ MaxIlls \in Nat

VARIABLES
  session,   \* phase, holder of the attachment, whether its lease is fresh, claims so far
  loop,      \* the main loop of the session: where it is, the entry it dispatches
  queue,     \* the spawn entries in its outbox
  procs,     \* the agent processes of the player
  restart,   \* the restart entries
  attempt,   \* the attempts of each, those that were given up included
  ills       \* the kinds of things that went wrong so far

restartVars == <<session, loop, queue, procs, restart, attempt, ills>>

Ill(kind) == /\ kind \notin ills /\ Cardinality(ills) < MaxIlls
             /\ ills' = ills \cup {kind}
Sound == UNCHANGED ills

Idle == [at |-> "idle", entry |-> 0, tries |-> 0]
NotRun == [at |-> "off", id |-> 0, heard |-> TRUE]

-----------------------------------------------------------------------------
(* The session *)

Detached == [phase |-> "detached", holder |-> 0, fresh |-> FALSE, claims |-> session.claims]

(* claimAttachment without the id it expects: over no one, or a lease that *)
(* ran out.                                                                *)
Free == session.holder = 0 \/ ~session.fresh
Grants == /\ Free
          /\ session.claims < MaxClaims
          /\ session' = [phase |-> "attached", holder |-> session.claims + 1, fresh |-> TRUE,
                         claims |-> session.claims + 1]

RenewsAny(id) == session.holder # 0 /\ session.fresh
Renews(id) == session.holder # 0 /\ session.holder = id /\ session.fresh

(* Nobody renews the lease any more, or who should is held up. *)
Serving == {i \in DOMAIN procs : procs[i] = [at |-> "on", att |-> session.holder]}
LeaseExpires ==
  /\ session.holder # 0 /\ session.fresh
  /\ session' = [session EXCEPT !.fresh = FALSE]
  /\ IF Serving = {} THEN Sound ELSE Ill("stall")
  /\ UNCHANGED <<loop, queue, procs, restart, attempt>>

ReapLease ==
  /\ loop.at = "idle"
  /\ session.holder # 0 /\ ~session.fresh
  /\ session' = Detached
  /\ UNCHANGED <<loop, queue, procs, restart, attempt, ills>>

(* hardTerminateAttachment kills the processes of the player it finds, one *)
(* after the other; some may not have come up yet or survive, or the       *)
(* activity fails.                                                         *)
KillsOne == (\E i \in DOMAIN procs : procs' = RemoveAt(procs, i)) /\ Sound
Kills == procs' = <<>> /\ Sound
Misses == /\ UNCHANGED procs
          /\ Ill("killMisses") \/ ("killMisses" \in ills /\ Sound)

(* The drain deadline: the kill, awaited, then detached whatever happened. *)
DrainDue ==
  /\ loop.at = "idle"
  /\ session.phase = "draining"
  /\ loop' = [loop EXCEPT !.at = "drainKill"]
  /\ UNCHANGED <<session, queue, procs, restart, attempt, ills>>
DrainKill ==
  /\ loop.at = "drainKill"
  /\ \/ KillsOne /\ UNCHANGED loop
     \/ /\ Kills \/ Misses \/ (UNCHANGED procs /\ Ill("killThrows"))
        /\ loop' = [loop EXCEPT !.at = "drainFlip"]
  /\ UNCHANGED <<session, queue, restart, attempt>>
DrainFlip ==
  /\ loop.at = "drainFlip"
  /\ session' = Detached
  /\ loop' = Idle
  /\ UNCHANGED <<queue, procs, restart, attempt, ills>>

(* The dispatch of a spawn entry, which carries an attachment and is not   *)
(* taken for a duplicate whatever the phase (#676).                        *)
SpawnDue ==
  /\ loop.at = "idle"
  /\ queue # <<>>
  /\ loop' = [at |-> "spawning", entry |-> Head(queue), tries |-> 1]
  /\ queue' = Tail(queue)
  /\ UNCHANGED <<session, procs, restart, attempt, ills>>

Process(att) == [at |-> "boot", att |-> att]
SkipsAttached(att) == session.phase = "attached"
SkipsDuplicate(att) == att = 0 /\ session.phase = "attached"
SpawnProcess ==
  /\ loop.at = "spawning"
  /\ procs' = IF SkipsDuplicate(loop.entry) THEN procs ELSE Append(procs, Process(loop.entry))
  /\ loop' = Idle
  /\ UNCHANGED <<session, queue, restart, attempt, ills>>

(* An attempt that times out may have started the process.                 *)
RollsBack == IF session.holder = loop.entry THEN Detached ELSE session
SpawnTimesOut ==
  /\ loop.at = "spawning"
  /\ Ill("spawnTimeout")
  /\ procs' \in {procs, Append(procs, Process(loop.entry))}
  /\ IF loop.tries < MaxSpawns
       THEN loop' = [loop EXCEPT !.tries = @ + 1] /\ UNCHANGED session
       ELSE loop' = Idle /\ session' = RollsBack
  /\ UNCHANGED <<queue, restart, attempt>>
SpawnFails ==
  /\ loop.at = "spawning"
  /\ Ill("spawnFails")
  /\ loop' = Idle
  /\ session' = RollsBack
  /\ UNCHANGED <<queue, procs, restart, attempt>>

-----------------------------------------------------------------------------
(* The agent processes *)

(* A process claims with the id it was spawned with: it renews, is refused *)
(* and stays behind without a poller, or claims afresh.                    *)
Becomes(i, at, att) == procs' = [procs EXCEPT ![i] = [at |-> at, att |-> att]]
Boot(i) ==
  /\ procs[i].at = "boot"
  /\ \/ /\ Renews(procs[i].att)
        /\ Becomes(i, "on", session.holder)
        /\ session' = session
     \/ /\ ~Renews(procs[i].att) /\ ~Free
        /\ Becomes(i, "deaf", 0)
        /\ session' = session
     \/ /\ Grants
        /\ Becomes(i, "on", session'.holder)
  /\ UNCHANGED <<loop, queue, restart, attempt, ills>>

AnyHeartbeat(i) == session.holder # 0
Accepted(i) == session.holder # 0 /\ session.holder = procs[i].att
Heartbeat(i) ==
  /\ procs[i].at = "on"
  /\ Accepted(i)
  /\ session' = [session EXCEPT !.fresh = TRUE]
  /\ UNCHANGED <<loop, queue, procs, restart, attempt, ills>>

(* The phase watcher sees that the lease is lost: reconnect claims what is *)
(* free and gives up against another holder.                               *)
LosesLease(i) ==
  /\ procs[i].at = "on"
  /\ session.holder # procs[i].att
  /\ \/ session.holder # 0 /\ Becomes(i, "deaf", 0) /\ UNCHANGED session
     \/ session.holder = 0 /\ Grants /\ Becomes(i, "on", session'.holder)
  /\ UNCHANGED <<loop, queue, restart, attempt, ills>>

(* A process ends, and if it can, tells the session (adapterExited). *)
Ends(i) ==
  /\ Ill("crash")
  /\ procs' = RemoveAt(procs, i)
  /\ session' \in {session, IF procs[i].at = "on" /\ Accepted(i) THEN Detached ELSE session}
  /\ UNCHANGED <<loop, queue, restart, attempt>>

-----------------------------------------------------------------------------
(* deliverRestart.  A call that fails ends the attempt, with its effect or *)
(* without it, as the attempt may fail before it goes on to the next; the  *)
(* next attempt starts from the beginning.  One that outlasts its timeout  *)
(* goes on beside the next.                                                *)

At(r, k, at) == attempt[r][k].at = at
Goes(r, k, at) == attempt' = [attempt EXCEPT ![r][k].at = at]
Current(r, k) == restart[r].at = "running" /\ restart[r].tries = k

(* How an attempt ends, if it is not one that was given up. *)
Ended(r, k, outcome) ==
  /\ attempt' = [attempt EXCEPT ![r][k] = NotRun]
  /\ restart' = IF Current(r, k) THEN [restart EXCEPT ![r].at = outcome] ELSE restart
Proceeds(r, k, at) == Goes(r, k, at) /\ UNCHANGED restart
Works(r, k, at, id) == attempt' = [attempt EXCEPT ![r][k].at = at, ![r][k].id = id]

Submit(r) ==
  /\ restart[r].at = "new"
  /\ restart' = [restart EXCEPT ![r] = [at |-> "running", tries |-> 1]]
  /\ Goes(r, 1, "look")
  /\ UNCHANGED <<session, loop, queue, procs, ills>>

Look(r, k) ==
  /\ At(r, k, "look")
  /\ Proceeds(r, k, CASE session.phase = "detached" -> "claim"
                      [] session.phase = "attached" -> "detach"
                      [] session.phase = "draining" -> "relook")
  /\ UNCHANGED <<session, loop, queue, procs, ills>>

(* requestDetach is best effort. *)
Draining == [session EXCEPT !.phase = IF @ = "attached" THEN "draining" ELSE @]
Detach(r, k) ==
  /\ At(r, k, "detach")
  /\ Proceeds(r, k, "relook")
  /\ \/ session' = Draining /\ Sound
     \/ session' = session /\ Ill("call")
  /\ UNCHANGED <<loop, queue, procs>>

Relook(r, k) ==
  /\ At(r, k, "relook")
  /\ \/ session.phase = "detached" /\ Proceeds(r, k, "claim")
     \/ session.phase # "detached" /\ r \notin Forced /\ Ended(r, k, "failed")
     \/ /\ session.phase # "detached" /\ r \in Forced
        /\ Works(r, k, "force", session.holder)
        /\ UNCHANGED restart
  /\ UNCHANGED <<session, loop, queue, procs, ills>>

(* forceDetach: the guard on the id it expects; the kill, awaited; the     *)
(* guard again (#798).  The handler goes on though its caller is gone.     *)
Expected(r, k) == session.holder # 0 /\ session.holder = attempt[r][k].id
ForceGuards(r, k) ==
  /\ At(r, k, "force")
  /\ Proceeds(r, k, IF Expected(r, k) THEN "kill" ELSE "claim")
  /\ UNCHANGED <<session, loop, queue, procs, ills>>
ForceKill(r, k) ==
  /\ At(r, k, "kill")
  /\ \/ KillsOne /\ UNCHANGED <<attempt, restart>>
     \/ (Kills \/ Misses) /\ Proceeds(r, k, "flip")
     \/ UNCHANGED procs /\ Ill("killThrows") /\ Ended(r, k, "failed")
  /\ UNCHANGED <<session, loop, queue>>
ForceFlip(r, k) ==
  /\ At(r, k, "flip")
  /\ session' = IF Expected(r, k) THEN Detached ELSE session
  /\ IF attempt[r][k].heard THEN Proceeds(r, k, "claim") ELSE Ended(r, k, "failed")
  /\ UNCHANGED <<loop, queue, procs, ills>>

Claim(r, k) ==
  /\ At(r, k, "claim")
  /\ \/ /\ Grants
        /\ Works(r, k, "spawn", session'.holder)
        /\ UNCHANGED restart
     \/ ~Free /\ Ended(r, k, "failed") /\ UNCHANGED session
  /\ UNCHANGED <<loop, queue, procs, ills>>

EnqueueSpawn(r, k) ==
  /\ At(r, k, "spawn")
  /\ queue' = Append(queue, attempt[r][k].id)
  /\ Proceeds(r, k, "return")
  /\ UNCHANGED <<session, loop, procs, ills>>
Returns(r, k) ==
  /\ At(r, k, "return")
  /\ Ended(r, k, "delivered")
  /\ UNCHANGED <<session, loop, queue, procs, ills>>

NextAttempt(r, given) ==
  IF restart[r].tries < MaxAttempts
    THEN /\ restart' = [restart EXCEPT ![r].tries = @ + 1]
         /\ attempt' = [attempt EXCEPT ![r] = [given EXCEPT ![restart[r].tries + 1].at = "look"]]
    ELSE /\ restart' = [restart EXCEPT ![r].at = "failed"]
         /\ attempt' = [attempt EXCEPT ![r] = given]

CallFails(r) ==
  LET k == restart[r].tries
      handled == attempt[r][k].at \in {"kill", "flip"}
  IN  /\ restart[r].at = "running"
      /\ Ill("call")
      /\ NextAttempt(r, [attempt[r] EXCEPT ![k] =
           IF handled THEN [attempt[r][k] EXCEPT !.heard = FALSE] ELSE NotRun])
      /\ UNCHANGED <<session, loop, queue, procs>>
TimesOut(r) ==
  /\ restart[r].at = "running"
  /\ Ill("timeout")
  /\ NextAttempt(r, attempt[r])
  /\ UNCHANGED <<session, loop, queue, procs>>

-----------------------------------------------------------------------------
(* The player is served by an agent, or was left by one. *)
Init ==
  /\ \E agents \in {<<>>, <<[at |-> "on", att |-> 1]>>}, held \in BOOLEAN :
       /\ agents # <<>> => held
       /\ procs = agents
       /\ session = IF held THEN [phase |-> "attached", holder |-> 1, fresh |-> TRUE, claims |-> 1]
                    ELSE [phase |-> "detached", holder |-> 0, fresh |-> FALSE, claims |-> 1]
  /\ loop = Idle
  /\ queue = <<>>
  /\ restart = [r \in Restarts |-> [at |-> "new", tries |-> 0]]
  /\ attempt = [r \in Restarts |-> [k \in 1..MaxAttempts |-> NotRun]]
  /\ ills = {}

MainLoop == ReapLease \/ DrainDue \/ DrainKill \/ DrainFlip \/ SpawnDue
            \/ SpawnProcess \/ SpawnTimesOut \/ SpawnFails
Activity(r, k) ==
  \/ Look(r, k) \/ Detach(r, k) \/ Relook(r, k)
  \/ ForceGuards(r, k) \/ ForceKill(r, k) \/ ForceFlip(r, k)
  \/ Claim(r, k) \/ EnqueueSpawn(r, k) \/ Returns(r, k)
Comes(i) == Boot(i) \/ Heartbeat(i) \/ LosesLease(i)
Agent(i) == Comes(i) \/ Ends(i)
MaxProcesses == 8   \* more than ever run

Next ==
  \/ MainLoop \/ LeaseExpires
  \/ \E i \in DOMAIN procs : Agent(i)
  \/ \E r \in Restarts : \/ Submit(r) \/ CallFails(r) \/ TimesOut(r)
                         \/ \E k \in 1..MaxAttempts : Activity(r, k)

Spec == Init /\ [][Next]_restartVars

(* The worker runs the session and the attempts, agents come up and send   *)
(* heartbeats, and a lease nobody renews runs out.                         *)
Fairness ==
  /\ WF_restartVars(MainLoop)
  /\ WF_restartVars(Serving = {} /\ LeaseExpires)
  /\ \A r \in Restarts, k \in 1..MaxAttempts : WF_restartVars(Activity(r, k))
  /\ \A i \in 1..MaxProcesses : WF_restartVars(i \in DOMAIN procs /\ Comes(i))
FairSpec == Spec /\ Fairness

-----------------------------------------------------------------------------
(* Properties *)

Ids == 0..MaxClaims
AttemptStates == {"off", "look", "detach", "relook", "force", "kill", "flip", "claim",
                  "spawn", "return"}

(* What the session, its main loop, the processes and the attempts may be. *)
TypeOK ==
  /\ session \in [phase : {"detached", "attached", "draining"}, holder : Ids,
                  fresh : BOOLEAN, claims : Ids]
  /\ loop \in [at : {"idle", "drainKill", "drainFlip", "spawning"}, entry : Ids,
               tries : 0..MaxSpawns]
  /\ queue \in Seq(Ids)
  /\ procs \in Seq([at : {"boot", "on", "deaf"}, att : Ids])
  /\ restart \in [Restarts -> [at : {"new", "running", "delivered", "failed"},
                               tries : 0..MaxAttempts]]
  /\ attempt \in [Restarts -> [1..MaxAttempts -> [at : AttemptStates, id : Ids,
                                                 heard : BOOLEAN]]]

(* Whatever restarts, processes and the main loop do, and however they     *)
(* overlap, the session's attachment changes as AttachmentLease allows.    *)
(* It is held when the model begins, so the promise is one about steps.    *)
Lease == INSTANCE AttachmentLease WITH
           holder <- session.holder,
           expired <- session.holder # 0 /\ ~session.fresh,
           granted <- session.claims
KeepsLease == [][Lease!LeaseNext]_(Lease!leaseVars)

(* Two processes never serve one attachment, whatever restarts overlap,    *)
(* retry or are overtaken by an attempt that was given up - unless a spawn *)
(* timed out and was tried again.  The claim a process makes on its boot,  *)
(* with the id it was spawned with, is what keeps them apart.              *)
OneAgentPerLease ==
  \A i, j \in DOMAIN procs :
    i # j /\ procs[i].at = "on" /\ procs[i] = procs[j] => "spawnTimeout" \in ills

(* Once a restart has been delivered the player is served in the end,      *)
(* though leases run out, kills find no process and another restart works  *)
(* on the same session.  A restart that fails after it asked for a detach, *)
(* an agent that ends and a call or a spawn that fails are excepted: those *)
(* may turn out the agent that came, and nothing brings up another.        *)
Undisturbed == /\ \A r \in Restarts : restart[r].at # "failed"
               /\ ills \subseteq {"stall", "killMisses"}
Revived ==
  (\E r \in Restarts : restart[r].at = "delivered") ~> (Serving # {} \/ ~Undisturbed)

(* No attachment is held for ever by nobody: its process comes up, or the  *)
(* lease runs out and is reaped, whatever fails.  An agent that lost its   *)
(* lease does not keep the next one alive with its heartbeats.             *)
NobodyHoldsForever ==
  (session.holder # 0 /\ Serving = {}) ~> (session.holder = 0 \/ Serving # {})
=============================================================================
