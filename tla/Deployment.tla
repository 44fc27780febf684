------------------------------ MODULE Deployment ------------------------------
(***************************************************************************)
(* One blue/green release: BlueGreenChoreographer over the Docker Compose  *)
(* driver and the nginx gateway, while the executors of both slots start,  *)
(* crash, claim and finish on their own.                                   *)
(*                                                                         *)
(* A step of the choreographer is one driver operation, a short sequence   *)
(* of commands (at).  Every command may fail, before or after its effect;  *)
(* a failed step is answered by what the choreographer remembers (run),    *)
(* not by what the slots are.  The worker-role row is RoleRow with its     *)
(* epoch; WorkerLease shows how the processes implement it.                *)
(***************************************************************************)
EXTENDS Naturals

CONSTANTS
    OldEpoch,        \* request.old_activation_epoch
    PauseAuthorized, \* request.admission_pause_authorized
    MaxCrashes       \* bound: executor crashes during the release

ASSUME DeploymentAssumption ==
    OldEpoch \in Nat \ {0} /\ PauseAuthorized \in BOOLEAN /\ MaxCrashes \in Nat

VARIABLES
    mode,     \* deploy, abort or rollback: which method is running
    step, at, \* DeploymentStepName in progress, and its next command
    run,      \* local variables of deploy()
    include,  \* the two gateway files the controller owns
    running,  \* what nginx has loaded of them
    api,      \* the API and front ends of each slot, by their environment file
    workers,  \* the executor container of each slot, likewise
    hold,     \* epoch of the activation an executor process took, or 0
    role,     \* the worker-role row
    attempt,  \* an Attempt claimed by each slot
    killed,   \* slots whose Attempt was cut off by a stop or a recreation
    crashes

gatewayVars == <<include, running>>
plantVars   == <<api, workers, hold, role, attempt, killed>>
vars == <<mode, step, at, run, gatewayVars, plantVars, crashes>>

Slots == {"old", "candidate"}

Gateway == [slot : Slots, admission : {"open", "paused"}]

DeploySteps ==
    {"validate_prechecks", "locked_expand_migration", "start_candidate_standby",
     "candidate_readiness", "isolated_smoke", "bidirectional_queue_contract",
     "pause_admission", "old_workers_draining", "old_claims_zero", "gateway_switch",
     "candidate_activation", "stable_origin_smoke", "soak", "stop_old_compute"}

AbortSteps == {"abort_old_workers_active", "abort_candidate_standby"}

RollbackSteps ==
    {"rollback_old_api_readiness", "rollback_gateway", "rollback_candidate_draining",
     "rollback_candidate_claims_zero", "rollback_candidate_fenced",
     "rollback_old_activation", "rollback_fail_lost_attempts"}

DeploymentStepName == DeploySteps \cup AbortSteps \cup RollbackSteps \cup {"resume_admission"}

\* What deploy() remembers: which steps returned, the candidate's epoch, and
\* whether every recovery step succeeded.
Locals == [candidate_started : BOOLEAN, old_workers_draining : BOOLEAN,
           admission_paused : BOOLEAN, gateway : BOOLEAN,
           candidate_epoch : Nat, ok : BOOLEAN]

RoleRecord == [owner : Slots \cup {"none"}, state : {"standby", "active", "draining"},
               live : BOOLEAN, epoch : Nat]

\* Every variable keeps its type.
DeployTypeOK ==
    /\ mode \in {"deploy", "abort", "rollback"}
    /\ step \in DeploymentStepName \cup {"done"} /\ at \in 1..3
    /\ run \in Locals
    /\ include \in Gateway /\ running \in Gateway
    /\ api \in [Slots -> {"stopped", "standby", "active"}]
    /\ workers \in [Slots -> {"stopped", "standby", "active"}]
    /\ hold \in [Slots -> Nat]
    /\ role \in RoleRecord
    /\ attempt \in [Slots -> {"none", "running", "orphaned", "expired"}]
    /\ killed \subseteq Slots
    /\ crashes \in 0..MaxCrashes

Init ==
    /\ mode = "deploy" /\ step = "validate_prechecks" /\ at = 1
    /\ run = [candidate_started |-> FALSE, old_workers_draining |-> FALSE,
              admission_paused |-> FALSE, gateway |-> FALSE, candidate_epoch |-> 0, ok |-> TRUE]
    /\ include = [slot |-> "old", admission |-> "open"] /\ running = include
    /\ api = [s \in Slots |-> IF s = "old" THEN "active" ELSE "stopped"]
    /\ workers = [s \in Slots |-> IF s = "old" THEN "active" ELSE "stopped"]
    /\ hold = [s \in Slots |-> IF s = "old" THEN OldEpoch ELSE 0]
    /\ role = [owner |-> "old", state |-> "active", live |-> TRUE, epoch |-> OldEpoch]
    /\ attempt \in {[s \in Slots |-> "none"], [s \in Slots |-> IF s = "old" THEN "running" ELSE "none"]}
    /\ killed = {} /\ crashes = 0
-----------------------------------------------------------------------------
(* The choreographer's sequence. *)

\* Mutant of DeployNext: the candidate is activated before the gateway switches.
DeployNextActivatesFirst(s) ==
    CASE s = "validate_prechecks"       -> "locked_expand_migration"
      [] s = "locked_expand_migration"  -> "start_candidate_standby"
      [] s = "start_candidate_standby"  -> "candidate_readiness"
      [] s = "candidate_readiness"      -> "isolated_smoke"
      [] s = "isolated_smoke"           -> "bidirectional_queue_contract"
      [] s = "pause_admission"          -> "old_workers_draining"
      [] s = "old_workers_draining"     -> "old_claims_zero"
      [] s = "old_claims_zero"          -> "candidate_activation"
      [] s = "candidate_activation"     -> "gateway_switch"
      [] s = "gateway_switch"           -> "stable_origin_smoke"
      [] s = "stable_origin_smoke"      -> "soak"
      [] s = "soak"                     -> "stop_old_compute"
      [] OTHER -> IF s = "stop_old_compute" /\ run.admission_paused
                  THEN "resume_admission" ELSE "done"

\* The step after one that returned, in deploy().
DeployNext(s) ==
    CASE s = "validate_prechecks"       -> "locked_expand_migration"
      [] s = "locked_expand_migration"  -> "start_candidate_standby"
      [] s = "start_candidate_standby"  -> "candidate_readiness"
      [] s = "candidate_readiness"      -> "isolated_smoke"
      [] s = "isolated_smoke"           -> "bidirectional_queue_contract"
      [] s = "pause_admission"          -> "old_workers_draining"
      [] s = "old_workers_draining"     -> "old_claims_zero"
      [] s = "old_claims_zero"          -> "gateway_switch"
      [] s = "gateway_switch"           -> "candidate_activation"
      [] s = "candidate_activation"     -> "stable_origin_smoke"
      [] s = "stable_origin_smoke"      -> "soak"
      [] s = "soak"                     -> "stop_old_compute"
      [] OTHER -> IF s = "stop_old_compute" /\ run.admission_paused
                  THEN "resume_admission" ELSE "done"

\* The recovery step that follows, whether or not the one before it succeeded:
\* a failed drain is answered by fencing, and so is a drain that did not end.
RecoveryNext(s, good) ==
    CASE s = "abort_old_workers_active"       -> "abort_candidate_standby"
      [] s = "rollback_old_api_readiness"     -> "rollback_gateway"
      [] s = "rollback_gateway"               -> "rollback_candidate_draining"
      [] s = "rollback_candidate_draining"    -> IF good THEN "rollback_candidate_claims_zero"
                                                 ELSE "rollback_candidate_fenced"
      [] s = "rollback_candidate_claims_zero" -> IF good THEN "rollback_old_activation"
                                                 ELSE "rollback_candidate_fenced"
      [] s = "rollback_candidate_fenced"      -> "rollback_old_activation"
      [] s = "rollback_old_activation"        -> "rollback_fail_lost_attempts"
      [] OTHER -> IF s # "resume_admission" /\ run.admission_paused
                  THEN "resume_admission" ELSE "done"

\* _abort_before_switch undoes the steps that returned.
AbortFirst ==
    CASE run.old_workers_draining -> "abort_old_workers_active"
      [] ~run.old_workers_draining /\ run.candidate_started -> "abort_candidate_standby"
      [] OTHER -> IF run.admission_paused THEN "resume_admission" ELSE "done"

\* The step ends well; locals are what deploy() assigns after it.
Returns(locals) ==
    /\ at' = 1 /\ run' = locals /\ mode' = mode
    /\ step' = IF mode = "deploy" THEN DeployNext(step) ELSE RecoveryNext(step, TRUE)

\* _StepFailed: the first failure starts the abort or the rollback, later ones
\* are remembered.  A candidate that does not drain in time is not a failure.
Raises ==
    /\ at' = 1
    /\ IF mode = "deploy"
       THEN /\ mode' = IF run.gateway THEN "rollback" ELSE "abort"
            /\ step' = IF run.gateway THEN "rollback_old_api_readiness" ELSE AbortFirst
            /\ run' = run
       ELSE /\ mode' = mode
            /\ step' = RecoveryNext(step, FALSE)
            /\ run' = [run EXCEPT !.ok = @ /\ step = "rollback_candidate_claims_zero"]

NextCommand == at' = at + 1 /\ UNCHANGED <<mode, step, run>>

\* Any step may fail before it has an effect, or time out.
Fails ==
    /\ step # "done"
    /\ Raises
    /\ UNCHANGED <<gatewayVars, plantVars, crashes>>
-----------------------------------------------------------------------------
(* The driver's commands.  "The row shows" is _wait_worker_epoch. *)

\* Mutant of RowShows: whatever epoch the slot has.
RowShowsAnyEpoch(s, state, epoch) == role.owner = s /\ role.state = state /\ role.live

RowShows(s, state, epoch) == role = [owner |-> s, state |-> state, live |-> TRUE, epoch |-> epoch]

\* docker compose kill --signal: the handler may fail unseen, and without a live
\* lease it has no effect.
Signalled(s, from, to) ==
    \/ role' = role
    \/ /\ hold[s] # 0 /\ role.live /\ role.state = from
       /\ role' = [role EXCEPT !.state = to]

\* The executor of s is stopped or replaced: a graceful stop may finish the
\* Attempt and release the role, a kill does neither.
Ended(s, graceful, container) ==
    /\ workers' = [workers EXCEPT ![s] = container]
    /\ hold' = [hold EXCEPT ![s] = 0]
    /\ \/ role' = role
       \/ /\ graceful /\ hold[s] # 0
          /\ role' = [role EXCEPT !.owner = "none", !.state = "standby", !.live = FALSE]
    /\ \/ /\ attempt[s] # "running"
          /\ UNCHANGED <<attempt, killed>>
       \/ /\ attempt[s] = "running" /\ graceful
          /\ attempt' = [attempt EXCEPT ![s] = "none"]
          /\ UNCHANGED killed
       \/ /\ attempt[s] = "running"
          /\ attempt' = [attempt EXCEPT ![s] = "orphaned"]
          /\ killed' = killed \cup {s}

\* A command of a longer operation: it is followed by the next one, or fails
\* after its effect.
Command == NextCommand \/ Raises

ReadSteps == {"validate_prechecks", "locked_expand_migration", "candidate_readiness",
              "isolated_smoke", "stable_origin_smoke", "soak", "old_claims_zero",
              "abort_candidate_standby", "rollback_old_api_readiness",
              "rollback_candidate_claims_zero"}

\* What the steps that only look must see to return.
PrechecksPass ==
    /\ include = [slot |-> "old", admission |-> "open"]
    /\ api["old"] = "active" /\ RowShows("old", "active", OldEpoch)
CandidateReady == api["candidate"] = "standby" /\ workers["candidate"] = "standby"
IsolatedSmoke == api["candidate"] # "stopped"
StableOriginSmoke == running = [include EXCEPT !.slot = "candidate"] /\ api["candidate"] # "stopped"
CandidateSoaks == api["candidate"] = "standby" /\ RowShows("candidate", "active", role.epoch)
OldApiReady == api["old"] = "active"
ClaimsZero(s) == attempt[s] = "none"

Observed ==
    CASE step = "validate_prechecks" -> PrechecksPass
      [] step \in {"candidate_readiness", "abort_candidate_standby"} -> CandidateReady
      [] step = "isolated_smoke" -> IsolatedSmoke
      [] step = "stable_origin_smoke" -> StableOriginSmoke
      [] step = "soak" -> CandidateSoaks
      [] step = "old_claims_zero" -> ClaimsZero("old")
      [] step = "rollback_old_api_readiness" -> OldApiReady
      [] step = "rollback_candidate_claims_zero" -> ClaimsZero("candidate")
      [] OTHER -> TRUE

Reads ==
    /\ step \in ReadSteps /\ Observed
    /\ Returns(run)
    /\ UNCHANGED <<gatewayVars, plantVars, crashes>>

StartCandidateStandby ==
    /\ step = "start_candidate_standby"
    /\ api' = [api EXCEPT !["candidate"] = "standby"]
    /\ workers' = [workers EXCEPT !["candidate"] = "standby"]
    /\ Returns([run EXCEPT !.candidate_started = TRUE]) \/ Raises
    /\ UNCHANGED <<gatewayVars, hold, role, attempt, killed, crashes>>

\* _require_queue_policy: an incompatible pair needs a paused admission.
QueueContract ==
    /\ step = "bidirectional_queue_contract"
    /\ \/ step' = "old_workers_draining"
       \/ PauseAuthorized /\ step' = "pause_admission"
    /\ at' = 1
    /\ UNCHANGED <<mode, run, gatewayVars, plantVars, crashes>>

\* Replace one file, reload nginx and look.  nginx loads both files and every
\* upstream must resolve.
Written(new) ==
    /\ api[new.slot] # "stopped"
    /\ include' = new /\ running' = new

\* A failed write: refused, replaced but not reloaded, restored with or without
\* a reload, or not restored.
WriteFails(new) ==
    /\ include' \in {include, new}
    /\ running' \in {running, new} \cup {include'}
    /\ running' # running => api[running'.slot] # "stopped"

\* _set_admission, which only looks when the file already says so.
SetAdmission(to, locals) ==
    LET new == [include EXCEPT !.admission = to] IN
    /\ \/ /\ include # new /\ Written(new) /\ Returns(locals)
       \/ /\ include # new /\ WriteFails(new) /\ Raises
       \/ /\ include = new /\ running.admission = to /\ api[running.slot] # "stopped"
          /\ UNCHANGED gatewayVars /\ Returns(locals)
    /\ UNCHANGED <<plantVars, crashes>>

PauseAdmission ==
    /\ step = "pause_admission"
    /\ SetAdmission("paused", [run EXCEPT !.admission_paused = TRUE])

ResumeAdmission ==
    /\ step = "resume_admission"
    /\ SetAdmission("open", run)

\* _switch_gateway, forwards and back.
SwitchGateway(target, locals) ==
    LET new == [include EXCEPT !.slot = target] IN
    /\ \/ Written(new) /\ Returns(locals)
       \/ WriteFails(new) /\ Raises
    /\ UNCHANGED <<plantVars, crashes>>

GatewaySwitch ==
    /\ step = "gateway_switch"
    /\ SwitchGateway("candidate", [run EXCEPT !.gateway = TRUE])

RollbackGateway ==
    /\ step = "rollback_gateway"
    /\ SwitchGateway("old", run)

\* begin_*_workers_draining and restore_old_workers_active: signal, then wait
\* for the row.
SignalAndWait(s, from, to, epoch, locals) ==
    /\ \/ at = 1 /\ Signalled(s, from, to) /\ Command
       \/ at = 2 /\ RowShows(s, to, epoch) /\ role' = role /\ Returns(locals)
    /\ UNCHANGED <<gatewayVars, api, workers, hold, attempt, killed, crashes>>

OldWorkersDraining ==
    /\ step = "old_workers_draining"
    /\ SignalAndWait("old", "active", "draining", OldEpoch,
                     [run EXCEPT !.old_workers_draining = TRUE])

AbortOldWorkersActive ==
    /\ step = "abort_old_workers_active"
    /\ SignalAndWait("old", "draining", "active", OldEpoch, run)

RollbackCandidateDraining ==
    /\ step = "rollback_candidate_draining"
    /\ SignalAndWait("candidate", "active", "draining", OldEpoch + 1, run)

\* activate_*_workers: the other slot is stopped, this one started with its
\* active environment, and the row must show the epoch after the one known.
Promote(s, other, epoch, locals) ==
    /\ \/ at = 1 /\ Ended(other, TRUE, "stopped") /\ Command
       \/ at = 2 /\ Ended(s, TRUE, "active") /\ Command
       \/ /\ at = 3 /\ RowShows(s, "active", epoch) /\ Returns(locals)
          /\ UNCHANGED <<workers, hold, role, attempt, killed>>
    /\ UNCHANGED <<gatewayVars, api, crashes>>

CandidateActivation ==
    /\ step = "candidate_activation"
    /\ Promote("candidate", "old", OldEpoch + 1, [run EXCEPT !.candidate_epoch = OldEpoch + 1])

\* authority_epoch is the candidate's epoch when deploy() got to know it.
AuthorityEpoch == IF run.candidate_epoch # 0 THEN run.candidate_epoch ELSE OldEpoch

\* Mutant of RollbackOldActivation: the candidate is not stopped first.
RollbackUnstopped ==
    /\ step = "rollback_old_activation"
    /\ \/ at = 1 /\ Command /\ UNCHANGED <<workers, hold, role, attempt, killed>>
       \/ at = 2 /\ Ended("old", TRUE, "active") /\ Command
       \/ /\ at = 3 /\ RowShows("old", "active", AuthorityEpoch + 1) /\ Returns(run)
          /\ UNCHANGED <<workers, hold, role, attempt, killed>>
    /\ UNCHANGED <<gatewayVars, api, crashes>>

RollbackOldActivation ==
    /\ step = "rollback_old_activation"
    /\ Promote("old", "candidate", AuthorityEpoch + 1, run)

\* Mutant of RollbackCandidateFenced: nobody waits for the leases.
RollbackCandidateKilled ==
    /\ step = "rollback_candidate_fenced"
    /\ Ended("candidate", FALSE, "stopped") /\ Returns(run)
    /\ UNCHANGED <<gatewayVars, api, crashes>>

\* fence_candidate_and_wait_for_lease_expiry: killed, and slept for longer than
\* the role's and the Attempts' leases.
RollbackCandidateFenced ==
    /\ step = "rollback_candidate_fenced"
    /\ \/ /\ at = 1 /\ Ended("candidate", FALSE, "stopped") /\ Command
       \/ /\ at = 2 /\ Returns(run)
          /\ role' = IF role.owner = "candidate" THEN [role EXCEPT !.live = FALSE] ELSE role
          /\ attempt' = [attempt EXCEPT !["candidate"] = IF @ = "orphaned" THEN "expired" ELSE @]
          /\ UNCHANGED <<workers, hold, killed>>
    /\ UNCHANGED <<gatewayVars, api, crashes>>

\* Mutant of StopOldCompute: a state the table of containers does not know.
StopOldComputeExited ==
    /\ step = "stop_old_compute"
    /\ api' = [api EXCEPT !["old"] = "exited"]
    /\ Returns(run) \/ Raises
    /\ UNCHANGED <<gatewayVars, workers, hold, role, attempt, killed, crashes>>

StopOldCompute ==
    /\ step = "stop_old_compute"
    /\ api' = [api EXCEPT !["old"] = "stopped"]
    /\ Returns(run) \/ Raises
    /\ UNCHANGED <<gatewayVars, workers, hold, role, attempt, killed, crashes>>

\* fail_lost_candidate_attempts runs the reaper in the old API's container.
RollbackFailLostAttempts ==
    /\ step = "rollback_fail_lost_attempts"
    /\ api["old"] # "stopped"
    /\ attempt' = [s \in Slots |-> IF attempt[s] = "expired" THEN "none" ELSE attempt[s]]
    /\ Returns(run) \/ Raises
    /\ UNCHANGED <<gatewayVars, api, workers, hold, role, killed, crashes>>
-----------------------------------------------------------------------------
(* The executors, PostgreSQL and time. *)

choreography == <<mode, step, at, run>>

\* Mutant of Activate: a role is taken only once it was released.
ActivateReleased(s) ==
    /\ workers[s] = "active" /\ hold[s] = 0 /\ role.state = "standby"
    /\ role' = [owner |-> s, state |-> "active", live |-> TRUE, epoch |-> role.epoch + 1]
    /\ hold' = [hold EXCEPT ![s] = role.epoch + 1]
    /\ UNCHANGED <<choreography, gatewayVars, api, workers, attempt, killed, crashes>>

\* A process of an active container takes the role when nobody holds it.
Activate(s) ==
    /\ workers[s] = "active" /\ hold[s] = 0 /\ ~role.live
    /\ role' = [owner |-> s, state |-> "active", live |-> TRUE, epoch |-> role.epoch + 1]
    /\ hold' = [hold EXCEPT ![s] = role.epoch + 1]
    /\ UNCHANGED <<choreography, gatewayVars, api, workers, attempt, killed, crashes>>

ClaimNext(s) ==
    /\ hold[s] # 0 /\ role.live /\ role.state = "active" /\ attempt[s] = "none"
    /\ attempt' = [attempt EXCEPT ![s] = "running"]
    /\ UNCHANGED <<choreography, gatewayVars, api, workers, hold, role, killed, crashes>>

\* Without the role a commit is refused.
Finish(s) ==
    /\ attempt[s] = "running" /\ role.live
    /\ attempt' = [attempt EXCEPT ![s] = "none"]
    /\ UNCHANGED <<choreography, gatewayVars, api, workers, hold, role, killed, crashes>>

\* The process dies and its container is restarted; what it held is left.
Crash(s) ==
    /\ hold[s] # 0 /\ crashes < MaxCrashes
    /\ crashes' = crashes + 1
    /\ hold' = [hold EXCEPT ![s] = 0]
    /\ attempt' = [attempt EXCEPT ![s] = IF @ = "running" THEN "orphaned" ELSE @]
    /\ UNCHANGED <<choreography, gatewayVars, api, workers, role, killed>>

\* A lease that nobody renews in time.  Its process is gone; or it is up, with a
\* heartbeat thread that died of a database error or was late, and then it never
\* takes the role again.
RoleLapses ==
    /\ role.live
    /\ role' = [role EXCEPT !.live = FALSE]
    /\ UNCHANGED <<choreography, gatewayVars, api, workers, hold, attempt, killed, crashes>>

\* A renewal sent before the expiry arrives after it.
RenewedLate(s) ==
    /\ hold[s] # 0 /\ ~role.live
    /\ role' = [role EXCEPT !.live = TRUE]
    /\ UNCHANGED <<choreography, gatewayVars, api, workers, hold, attempt, killed, crashes>>

\* The Attempt's process is gone, or its renewals are late or refused.
AttemptLapses(s) ==
    /\ attempt[s] \in {"running", "orphaned"}
    /\ attempt' = [attempt EXCEPT ![s] = "expired"]
    /\ UNCHANGED <<choreography, gatewayVars, api, workers, hold, role, killed, crashes>>

\* An executor's loop fails the Attempts whose lease expired.
Reap(s) ==
    /\ attempt[s] = "expired" /\ \E t \in Slots : hold[t] # 0
    /\ attempt' = [attempt EXCEPT ![s] = "none"]
    /\ UNCHANGED <<choreography, gatewayVars, api, workers, hold, role, killed, crashes>>
-----------------------------------------------------------------------------
Forward ==
    \/ StartCandidateStandby \/ QueueContract \/ PauseAdmission \/ OldWorkersDraining
    \/ GatewaySwitch \/ CandidateActivation \/ StopOldCompute \/ ResumeAdmission

Recover ==
    \/ AbortOldWorkersActive \/ RollbackGateway \/ RollbackCandidateDraining
    \/ RollbackCandidateFenced \/ RollbackOldActivation \/ RollbackFailLostAttempts

Choreographer == Reads \/ Fails \/ Forward \/ Recover

Executors ==
    \/ \E s \in Slots : Activate(s) \/ ClaimNext(s) \/ Finish(s) \/ Crash(s)
    \/ \E s \in Slots : RenewedLate(s) \/ AttemptLapses(s) \/ Reap(s)
    \/ RoleLapses

Next == Choreographer \/ Executors

Spec == Init /\ [][Next]_vars
-----------------------------------------------------------------------------
DeploymentOutcome ==
    IF step # "done" THEN "NONE" ELSE
    CASE mode = "deploy"    -> "DEPLOYED"
      [] mode = "abort"     -> IF run.ok THEN "ABORTED" ELSE "ABORT_FAILED"
      [] mode = "rollback"  -> IF run.ok THEN "ROLLED_BACK" ELSE "ROLLBACK_FAILED"

\* The executors of the two slots are never up with the active environment
\* together, whichever command failed halfway.
OneSlotWorks == ~(workers["old"] = "active" /\ workers["candidate"] = "active")

\* Until the gateway has switched the release costs nothing: it has cut off no
\* Attempt, and the candidate has not held the role.
DrainBeforeSwitch == ~run.gateway => killed = {} /\ role.owner # "candidate"

\* A release that reports success is one: routing, admission and the role are
\* the candidate's at a higher epoch, and it cut off no Attempt of the old slot.
DeployedIsTrue ==
    DeploymentOutcome = "DEPLOYED" =>
      /\ include = [slot |-> "candidate", admission |-> "open"] /\ running = include
      /\ workers = [s \in Slots |-> IF s = "old" THEN "stopped" ELSE "active"]
      /\ role.owner # "old" /\ role.epoch > OldEpoch
      /\ "old" \notin killed

\* A rollback that reports success is one: routing, admission and the role are
\* the old slot's at a higher epoch than any the candidate was known to have,
\* and the candidate's lost Attempts were failed.
RolledBackIsTrue ==
    DeploymentOutcome = "ROLLED_BACK" =>
      /\ include = [slot |-> "old", admission |-> "open"] /\ running = include
      /\ workers = [s \in Slots |-> IF s = "old" THEN "active" ELSE "stopped"]
      /\ role.owner # "candidate" /\ role.epoch > AuthorityEpoch
      /\ attempt["candidate"] = "none"

\* The role row changes as WorkerLease and RunQueue have it.
Row == INSTANCE RoleRow WITH
    Owners <- Slots, NoOwner <- "none",
    role   <- [owner |-> role.owner, state |-> role.state, live |-> role.live]

RowSteps == [][Row!Next]_<<role.owner, role.state, role.live>>
-----------------------------------------------------------------------------
\* Every operation of the driver ends, by its timeout if need be; containers are
\* restarted, and the lease of a process that is gone expires.  Nobody else is
\* fair.
FairReleaseSpec ==
    /\ Spec
    /\ WF_vars(Choreographer)
    /\ WF_vars(RoleLapses /\ \A s \in Slots : hold[s] = 0)
    /\ \A s \in Slots : WF_vars(Activate(s))

\* A release ends, and one that reports success settles: the slot it routes to
\* executes, or its executor took the role, is still up and let the lease lapse,
\* which nothing restarts.
ReleaseSettles ==
    []<>(/\ step = "done"
         /\ DeploymentOutcome \in {"DEPLOYED", "ROLLED_BACK"} =>
              \/ RowShows(running.slot, "active", role.epoch)
              \/ hold[running.slot] = role.epoch /\ ~role.live)

\* "Containment failure instead of claiming clean abort": an abort that reports
\* none leaves the old slot routed, admitting, and its executor not draining.
AbortIsClean ==
    DeploymentOutcome = "ABORTED" =>
      /\ include = [slot |-> "old", admission |-> "open"] /\ running = include
      /\ role.state # "draining"
=============================================================================
