-------------------------- MODULE DeploymentProofs --------------------------
(***************************************************************************)
(* Theorems about a blue/green release, for every epoch it starts from and *)
(* any number of executor crashes.                                         *)
(***************************************************************************)
EXTENDS Deployment, TLAPS

BeforeSwitch ==
    {"validate_prechecks", "locked_expand_migration", "start_candidate_standby",
     "candidate_readiness", "isolated_smoke", "bidirectional_queue_contract",
     "pause_admission", "old_workers_draining", "old_claims_zero", "gateway_switch"}
BeforePause ==
    {"validate_prechecks", "locked_expand_migration", "start_candidate_standby",
     "candidate_readiness", "isolated_smoke", "bidirectional_queue_contract", "pause_admission"}
AfterActivation == {"stable_origin_smoke", "soak", "stop_old_compute", "resume_admission", "done"}
Last == {"resume_admission", "done"}

StepInv ==
    /\ mode = "deploy" =>
         /\ step \in BeforeSwitch \cup AfterActivation \cup {"candidate_activation"}
         /\ run.gateway <=> step \notin BeforeSwitch
         /\ step \in BeforePause => ~run.admission_paused
         /\ step = "resume_admission" => run.admission_paused
    /\ mode = "abort" => step \in AbortSteps \cup Last /\ ~run.gateway
    /\ mode = "rollback" =>
         /\ step \in RollbackSteps \cup Last /\ run.gateway
         /\ step = "resume_admission" => run.admission_paused

PlantInv ==
    /\ \A s \in Slots : hold[s] # 0 =>
         workers[s] = "active" /\ role.owner = s /\ role.state # "standby"
    /\ role.epoch >= OldEpoch
    /\ run.candidate_epoch \in {0, OldEpoch + 1}
    /\ run.candidate_epoch # 0 => role.epoch > OldEpoch

NotActivated == ~run.gateway \/ (step = "candidate_activation" /\ at \in {1, 2})

SlotInv ==
    /\ OneSlotWorks
    /\ NotActivated => workers["candidate"] # "active" /\ role.owner # "candidate"
    /\ ~run.gateway \/ (step = "candidate_activation" /\ at = 1) => killed = {}
    /\ step = "candidate_activation" /\ at \in {2, 3} => workers["old"] = "stopped"
    /\ step = "candidate_activation" /\ at = 3 => workers["candidate"] = "active"
    /\ step = "rollback_old_activation" /\ at \in {2, 3} => workers["candidate"] = "stopped"
    /\ step = "rollback_old_activation" /\ at = 3 => workers["old"] = "active"
    /\ step = "rollback_candidate_fenced" /\ at = 2 =>
         workers["candidate"] = "stopped" /\ attempt["candidate"] # "running"

FilesInv ==
    /\ mode = "deploy" =>
         /\ running = include
         /\ include.slot = IF run.gateway THEN "candidate" ELSE "old"
         /\ step = "done" => include.admission = "open"
    /\ ~run.admission_paused /\ mode # "abort" =>
         include.admission = "open" /\ running.admission = "open"
    /\ mode = "rollback" /\ run.ok /\ step \notin {"rollback_old_api_readiness", "rollback_gateway"} =>
         /\ running = include /\ include.slot = "old"
         /\ step = "done" => include.admission = "open"

Drained(s) == attempt[s] # "running" /\ (hold[s] # 0 => role.state = "draining")

DeployInv ==
    /\ mode = "deploy" /\ role.epoch = OldEpoch =>
         /\ step = "old_claims_zero" /\ hold["old"] # 0 => role.state = "draining"
         /\ step \in {"gateway_switch", "candidate_activation"} => Drained("old") /\ "old" \notin killed
    /\ mode = "deploy" /\ step = "candidate_activation" /\ role.owner = "candidate" /\ role.epoch = OldEpoch + 1 =>
         "old" \notin killed
    /\ mode = "deploy" /\ step \in AfterActivation =>
         /\ workers["old"] = "stopped" /\ workers["candidate"] = "active"
         /\ role.owner # "old" /\ role.epoch > OldEpoch /\ "old" \notin killed

Overtaken ==
    role.epoch > AuthorityEpoch /\ (role.epoch = AuthorityEpoch + 1 => role.owner # "old")

Lost == attempt["candidate"] \in {"none", "expired"}

RollbackInv ==
    mode = "rollback" /\ run.ok =>
      /\ step = "rollback_candidate_claims_zero" =>
           Overtaken \/ (hold["candidate"] # 0 => role.state = "draining")
      /\ step = "rollback_old_activation" =>
           Overtaken \/ (Lost /\ (hold["candidate"] # 0 => role.state = "draining"))
      /\ step \in {"rollback_fail_lost_attempts", "resume_admission", "done"} =>
           /\ workers["old"] = "active" /\ workers["candidate"] = "stopped"
           /\ role.owner # "candidate" /\ role.epoch > AuthorityEpoch
           /\ Lost
      /\ step \in Last => attempt["candidate"] = "none"

IInv == DeployTypeOK /\ StepInv /\ PlantInv /\ SlotInv /\ FilesInv /\ DeployInv /\ RollbackInv
-----------------------------------------------------------------------------
\* The two sequences, step by step.
LEMMA Sequence ==
    /\ DeployNext("validate_prechecks") = "locked_expand_migration"
    /\ DeployNext("locked_expand_migration") = "start_candidate_standby"
    /\ DeployNext("start_candidate_standby") = "candidate_readiness"
    /\ DeployNext("candidate_readiness") = "isolated_smoke"
    /\ DeployNext("isolated_smoke") = "bidirectional_queue_contract"
    /\ DeployNext("pause_admission") = "old_workers_draining"
    /\ DeployNext("old_workers_draining") = "old_claims_zero"
    /\ DeployNext("old_claims_zero") = "gateway_switch"
    /\ DeployNext("gateway_switch") = "candidate_activation"
    /\ DeployNext("candidate_activation") = "stable_origin_smoke"
    /\ DeployNext("stable_origin_smoke") = "soak"
    /\ DeployNext("soak") = "stop_old_compute"
    /\ DeployNext("stop_old_compute") = IF run.admission_paused THEN "resume_admission" ELSE "done"
    /\ DeployNext("resume_admission") = "done"
  BY DEF DeployNext

LEMMA RecoverySequence ==
    /\ RecoveryNext("abort_old_workers_active", TRUE) = "abort_candidate_standby"
    /\ RecoveryNext("abort_candidate_standby", TRUE) = IF run.admission_paused THEN "resume_admission" ELSE "done"
    /\ RecoveryNext("rollback_old_api_readiness", TRUE) = "rollback_gateway"
    /\ RecoveryNext("rollback_gateway", TRUE) = "rollback_candidate_draining"
    /\ RecoveryNext("rollback_candidate_draining", TRUE) = "rollback_candidate_claims_zero"
    /\ RecoveryNext("rollback_candidate_claims_zero", TRUE) = "rollback_old_activation"
    /\ RecoveryNext("rollback_candidate_fenced", TRUE) = "rollback_old_activation"
    /\ RecoveryNext("rollback_old_activation", TRUE) = "rollback_fail_lost_attempts"
    /\ RecoveryNext("rollback_fail_lost_attempts", TRUE) = IF run.admission_paused THEN "resume_admission" ELSE "done"
    /\ RecoveryNext("resume_admission", TRUE) = "done"
  BY DEF RecoveryNext

LEMMA RecoveryGoesOn ==
    /\ RecoveryNext("abort_old_workers_active", FALSE) = "abort_candidate_standby"
    /\ RecoveryNext("abort_candidate_standby", FALSE) = IF run.admission_paused THEN "resume_admission" ELSE "done"
    /\ RecoveryNext("rollback_old_api_readiness", FALSE) = "rollback_gateway"
    /\ RecoveryNext("rollback_gateway", FALSE) = "rollback_candidate_draining"
    /\ RecoveryNext("rollback_candidate_draining", FALSE) = "rollback_candidate_fenced"
    /\ RecoveryNext("rollback_candidate_claims_zero", FALSE) = "rollback_candidate_fenced"
    /\ RecoveryNext("rollback_candidate_fenced", FALSE) = "rollback_old_activation"
    /\ RecoveryNext("rollback_old_activation", FALSE) = "rollback_fail_lost_attempts"
    /\ RecoveryNext("rollback_fail_lost_attempts", FALSE) = IF run.admission_paused THEN "resume_admission" ELSE "done"
    /\ RecoveryNext("resume_admission", FALSE) = "done"
  BY DEF RecoveryNext

LEMMA AbortFirstStep ==
    AbortFirst \in AbortSteps \cup {IF run.admission_paused THEN "resume_admission" ELSE "done"}
  BY DEF AbortFirst, AbortSteps

-----------------------------------------------------------------------------
\* A step that raised leaves the deploy sequence; in a rollback only a candidate
\* that did not drain is no failure.
LEMMA Raised ==
    ASSUME DeployTypeOK, StepInv, step # "done", Raises
    PROVE  /\ mode' \in {"abort", "rollback"} /\ at' = 1
           /\ step' \in DeploymentStepName \cup {"done"} /\ run' \in Locals
           /\ run' = [run EXCEPT !.ok = run'.ok]
           /\ StepInv'
           /\ mode' = "rollback" /\ run'.ok =>
                \/ step' = "rollback_old_api_readiness"
                \/ /\ mode = "rollback" /\ run.ok /\ step' = "rollback_candidate_fenced"
                   /\ step = "rollback_candidate_claims_zero"
<1>1. CASE mode = "deploy"
  <2>1. /\ run' = run /\ at' = 1
        /\ run.gateway => mode' = "rollback" /\ step' = "rollback_old_api_readiness"
        /\ ~run.gateway => mode' = "abort" /\ step' = AbortFirst
    BY <1>1 DEF Raises
  <2>2. AbortFirst \in AbortSteps \cup Last
    BY AbortFirstStep DEF Last
  <2>3. run \in Locals /\ run.gateway \in BOOLEAN
    BY DEF DeployTypeOK, Locals
  <2>4. run' = [run EXCEPT !.ok = run'.ok]
    BY <2>1, <2>3 DEF Locals
  <2>. QED
    BY <2>1, <2>2, <2>3, <2>4 DEF StepInv, DeploymentStepName, AbortSteps, RollbackSteps, Last
<1>2. CASE mode \in {"abort", "rollback"}
  <2>1. /\ mode' = mode /\ at' = 1 /\ step' = RecoveryNext(step, FALSE)
        /\ run' = [run EXCEPT !.ok = @ /\ step = "rollback_candidate_claims_zero"]
    BY <1>2 DEF Raises
  <2>2. run \in Locals
    BY DEF DeployTypeOK
  <2>3. /\ run' \in Locals /\ run' = [run EXCEPT !.ok = run'.ok]
        /\ run'.ok => run.ok /\ step = "rollback_candidate_claims_zero"
        /\ run'.gateway = run.gateway /\ run'.admission_paused = run.admission_paused
    BY <2>1, <2>2 DEF Locals
  <2>4. /\ mode = "abort" => step' \in AbortSteps \cup Last
        /\ mode = "rollback" => step' \in RollbackSteps \cup Last
        /\ step' = "resume_admission" => run.admission_paused
        /\ step = "rollback_candidate_claims_zero" => step' = "rollback_candidate_fenced"
    BY <1>2, <2>1, RecoveryGoesOn DEF StepInv, AbortSteps, RollbackSteps, Last
  <2>. QED
    BY <1>2, <2>1, <2>3, <2>4 DEF StepInv, DeploymentStepName, AbortSteps, RollbackSteps, Last
<1>. QED
  BY <1>1, <1>2 DEF DeployTypeOK

\* A command that is followed by another one of its step.
LEMMA Continued ==
    ASSUME DeployTypeOK, StepInv, at \in {1, 2}, NextCommand
    PROVE  /\ mode' = mode /\ step' = step /\ run' = run
           /\ at' = at + 1 /\ at' \in 1..3
           /\ StepInv'
  BY DEF DeployTypeOK, NextCommand, StepInv

\* A step that returned in the deploy sequence.
LEMMA ReturnedForward ==
    ASSUME DeployTypeOK, StepInv, mode = "deploy", NEW locals \in Locals, Returns(locals),
           step \notin {"done", "bidirectional_queue_contract"},
           locals.gateway = (run.gateway \/ step = "gateway_switch"),
           locals.admission_paused = (run.admission_paused \/ step = "pause_admission")
    PROVE  /\ mode' = "deploy" /\ at' = 1 /\ run' = locals /\ step' = DeployNext(step)
           /\ StepInv'
           /\ step' \in DeploymentStepName \cup {"done"}
<1>1. mode' = "deploy" /\ at' = 1 /\ run' = locals /\ step' = DeployNext(step)
  BY DEF Returns
<1>2. /\ step' \in BeforeSwitch \cup AfterActivation \cup {"candidate_activation"}
      /\ step' \notin BeforeSwitch <=> (step \notin BeforeSwitch \/ step = "gateway_switch")
      /\ step' \in BeforePause => step \in BeforePause \ {"pause_admission"}
      /\ step' = "resume_admission" => run.admission_paused
  BY <1>1, Sequence DEF StepInv, BeforeSwitch, BeforePause, AfterActivation, Last
<1>3. step = "gateway_switch" => step \in BeforeSwitch
  BY DEF BeforeSwitch
<1>4. step = "pause_admission" => step \in BeforePause
  BY DEF BeforePause
<1>5. StepInv'
  <2>1. run'.gateway <=> step' \notin BeforeSwitch
    BY <1>1, <1>2, <1>3 DEF StepInv
  <2>2. step' \in BeforePause => ~run'.admission_paused
    BY <1>1, <1>2, <1>4 DEF StepInv
  <2>. QED
    BY <1>1, <1>2, <2>1, <2>2 DEF StepInv
<1>. QED
  BY <1>1, <1>2, <1>5
  DEF DeploymentStepName, DeploySteps, BeforeSwitch, AfterActivation

\* A step that returned while the release is undone.
LEMMA ReturnedBack ==
    ASSUME DeployTypeOK, StepInv, mode \in {"abort", "rollback"}, step # "done", Returns(run)
    PROVE  /\ mode' = mode /\ at' = 1 /\ run' = run /\ step' = RecoveryNext(step, TRUE)
           /\ StepInv'
           /\ step' \in DeploymentStepName \cup {"done"}
<1>1. mode' = mode /\ at' = 1 /\ run' = run /\ step' = RecoveryNext(step, TRUE)
  BY DEF Returns
<1>2. /\ mode = "abort" => step' \in AbortSteps \cup Last
      /\ mode = "rollback" => step' \in RollbackSteps \cup Last
      /\ step' = "resume_admission" => run.admission_paused
  BY <1>1, RecoverySequence DEF StepInv, AbortSteps, RollbackSteps, Last
<1>. QED
  BY <1>1, <1>2 DEF StepInv, DeploymentStepName, AbortSteps, RollbackSteps, Last
\* What is left to show of a command that raised: the plant it leaves behind.
LEMMA RaisedKeeps ==
    ASSUME IInv, step # "done", Raises, DeployTypeOK', PlantInv', OneSlotWorks',
           ~run.gateway => workers'["candidate"] # "active" /\ role'.owner # "candidate" /\ killed' = {},
           run.gateway /\ ~run.admission_paused => include'.admission = "open" /\ running'.admission = "open",
           step = "rollback_candidate_claims_zero" => UNCHANGED gatewayVars
    PROVE  IInv'
<1>1. DeployTypeOK /\ StepInv /\ FilesInv
  BY DEF IInv
<1>2. /\ mode' \in {"abort", "rollback"} /\ at' = 1 /\ StepInv'
      /\ run'.gateway = run.gateway /\ run'.admission_paused = run.admission_paused
      /\ mode' = "rollback" /\ run'.ok =>
           \/ step' = "rollback_old_api_readiness"
           \/ /\ mode = "rollback" /\ run.ok /\ step' = "rollback_candidate_fenced"
              /\ step = "rollback_candidate_claims_zero"
  BY <1>1, Raised DEF DeployTypeOK, Locals
<1>3. step' # "candidate_activation"
  BY <1>2 DEF StepInv, AbortSteps, RollbackSteps, Last
<1>4. SlotInv'
  BY <1>2, <1>3 DEF SlotInv, NotActivated
<1>5. FilesInv'
  BY <1>1, <1>2 DEF FilesInv, StepInv, gatewayVars
<1>6. DeployInv'
  BY <1>2 DEF DeployInv
<1>7. RollbackInv'
  BY <1>2 DEF RollbackInv, Last
<1>. QED
  BY <1>2, <1>4, <1>5, <1>6, <1>7 DEF IInv

LEMMA FailsKeeps == ASSUME IInv, Fails PROVE IInv'
<1>1. UNCHANGED <<include, running, api, workers, hold, role, attempt, killed, crashes>>
  BY DEF Fails, gatewayVars, plantVars
<1>2. DeployTypeOK /\ StepInv /\ PlantInv /\ SlotInv /\ FilesInv /\ step # "done" /\ Raises
  BY DEF IInv, Fails
<1>3. /\ step' \in DeploymentStepName \cup {"done"} /\ at' = 1 /\ run' \in Locals
      /\ mode' \in {"abort", "rollback"} /\ run' = [run EXCEPT !.ok = run'.ok]
  BY <1>2, Raised
<1>4. DeployTypeOK'
  BY <1>1, <1>2, <1>3 DEF DeployTypeOK
<1>5. run'.candidate_epoch = run.candidate_epoch
  BY <1>2, <1>3 DEF DeployTypeOK, Locals
<1>6. PlantInv'
  BY <1>1, <1>2, <1>5 DEF PlantInv
<1>7. OneSlotWorks'
  BY <1>1, <1>2 DEF SlotInv, OneSlotWorks
<1>8. mode = "abort" \/ ~run.admission_paused => mode = "abort" \/ (include.admission = "open" /\ running.admission = "open")
  BY <1>2 DEF FilesInv
<1>9. mode = "abort" => ~run.gateway
  BY <1>2 DEF StepInv
<1>. QED
  BY <1>1, <1>2, <1>4, <1>6, <1>7, <1>8, <1>9, RaisedKeeps DEF SlotInv, NotActivated, gatewayVars

\* Steps that do not move the choreographer.
LEMMA Unmoved ==
    ASSUME StepInv, FilesInv, UNCHANGED <<choreography, gatewayVars>>
    PROVE  StepInv' /\ FilesInv'
  BY DEF StepInv, FilesInv, choreography, gatewayVars

LEMMA ActivateKeeps == ASSUME IInv, NEW s \in Slots, Activate(s) PROVE IInv'
<1>1. DeployTypeOK /\ StepInv /\ PlantInv /\ SlotInv /\ FilesInv /\ DeployInv /\ RollbackInv
  BY DEF IInv
<1>2. /\ UNCHANGED <<mode, step, at, run, include, running, api, workers, attempt, killed, crashes>>
      /\ UNCHANGED <<choreography, gatewayVars>>
      /\ workers[s] = "active" /\ hold[s] = 0
      /\ role' = [owner |-> s, state |-> "active", live |-> TRUE, epoch |-> role.epoch + 1]
      /\ hold' = [hold EXCEPT ![s] = role.epoch + 1]
  BY DEF Activate, choreography, gatewayVars
<1>3. DeployTypeOK'
  BY <1>1, <1>2 DEF DeployTypeOK, RoleRecord
<1>4. \A t \in Slots : hold[t] = 0
  BY <1>1, <1>2 DEF PlantInv, SlotInv, OneSlotWorks, Slots
<1>5. hold \in [Slots -> Nat] /\ role.epoch \in Nat
  BY <1>1 DEF DeployTypeOK, RoleRecord
<1>6. \A t \in Slots : hold'[t] # 0 => t = s
  BY <1>2, <1>4, <1>5
<1>7. PlantInv'
  BY <1>1, <1>2, <1>5, <1>6, DeploymentAssumption DEF PlantInv
<1>8. SlotInv'
  BY <1>1, <1>2 DEF SlotInv, NotActivated, OneSlotWorks, Slots
<1>9. s = "old" \/ s = "candidate"
  BY DEF Slots
<1>10. DeployInv'
  BY <1>1, <1>2, <1>5, <1>9, DeploymentAssumption DEF PlantInv, DeployInv, Drained
<1>11. RollbackInv'
  <2>1. AuthorityEpoch' = AuthorityEpoch /\ role.epoch >= AuthorityEpoch
    BY <1>1, <1>2, <1>5, DeploymentAssumption DEF AuthorityEpoch, PlantInv
  <2>2. AuthorityEpoch \in Nat
    BY <1>1, DeploymentAssumption DEF AuthorityEpoch, DeployTypeOK, Locals
  <2>3. CASE s = "candidate"
    <3>1. Overtaken' /\ workers["candidate"] = "active"
      BY <1>2, <1>5, <2>1, <2>2, <2>3 DEF Overtaken
    <3>. QED
      BY <1>1, <1>2, <3>1 DEF RollbackInv, Last
  <2>4. CASE s = "old"
    <3>1. hold'["candidate"] = 0 /\ (Overtaken => Overtaken') /\ (Lost => Lost')
      BY <1>2, <1>5, <1>6, <2>1, <2>2, <2>4 DEF Overtaken, Lost, Slots
    <3>2. role'.owner = "old" /\ role'.epoch = role.epoch + 1
      BY <1>2, <2>4
    <3>. QED
      BY <1>1, <1>2, <1>5, <2>1, <2>2, <3>1, <3>2 DEF RollbackInv
  <2>. QED
    BY <1>9, <2>3, <2>4
<1>. QED
  BY <1>1, <1>2, <1>3, <1>7, <1>8, <1>10, <1>11, Unmoved DEF IInv

\* Steps of the executors that leave the role and the containers alone.
LEMMA AttemptKeeps ==
    ASSUME IInv, DeployTypeOK', UNCHANGED <<choreography, gatewayVars, api, workers, hold, role, killed>>,
           \A s \in Slots : attempt'[s] = "running" =>
             attempt[s] = "running" \/ (hold[s] # 0 /\ role.state = "active"),
           attempt["candidate"] = "expired" => attempt'["candidate"] \in {"none", "expired"},
           attempt["candidate"] = "none" => attempt'["candidate"] \in {"none", "running"}
    PROVE  IInv'
<1>1. DeployTypeOK /\ StepInv /\ PlantInv /\ SlotInv /\ FilesInv /\ DeployInv /\ RollbackInv
  BY DEF IInv
<1>2. UNCHANGED <<mode, step, at, run, include, running, workers, hold, role, killed>>
  BY DEF choreography, gatewayVars
<1>3. "old" \in Slots /\ "candidate" \in Slots
  BY DEF Slots
<1>4. PlantInv'
  BY <1>1, <1>2 DEF PlantInv
<1>5. SlotInv'
  <2>1. step = "rollback_candidate_fenced" /\ at = 2 => attempt'["candidate"] # "running"
    BY <1>1, <1>3 DEF SlotInv, PlantInv
  <2>. QED
    BY <1>1, <1>2, <2>1 DEF SlotInv, NotActivated, OneSlotWorks
<1>6. DeployInv'
  BY <1>1, <1>2, <1>3 DEF DeployInv, Drained
<1>7. RollbackInv'
  <2>1. AuthorityEpoch' = AuthorityEpoch /\ Overtaken' = Overtaken
    BY <1>2 DEF AuthorityEpoch, Overtaken
  <2>2. hold["candidate"] = 0 \/ role.state = "draining" => (Lost => Lost')
    BY <1>3 DEF Lost
  <2>3. workers["candidate"] = "stopped" => hold["candidate"] = 0
    BY <1>1, <1>3 DEF PlantInv
  <2>4. hold["candidate"] = 0 /\ attempt["candidate"] = "none" => attempt'["candidate"] = "none"
    BY <1>3
  <2>. QED
    BY <1>1, <1>2, <2>1, <2>2, <2>3, <2>4 DEF RollbackInv, Last
<1>. QED
  BY <1>1, <1>4, <1>5, <1>6, <1>7, Unmoved DEF IInv

LEMMA ExecutorsKeep ==
    ASSUME IInv, NEW s \in Slots, ClaimNext(s) \/ Finish(s) \/ AttemptLapses(s) \/ Reap(s)
    PROVE  IInv'
<1>1. DeployTypeOK /\ DeployTypeOK'
  BY DEF IInv, DeployTypeOK, ClaimNext, Finish, AttemptLapses, Reap, choreography, gatewayVars
<1>2. UNCHANGED <<choreography, gatewayVars, api, workers, hold, role, killed>>
  BY DEF ClaimNext, Finish, AttemptLapses, Reap
<1>3. attempt \in [Slots -> {"none", "running", "orphaned", "expired"}]
  BY <1>1 DEF DeployTypeOK
<1>4. /\ \A t \in Slots : attempt'[t] = "running" =>
           attempt[t] = "running" \/ (hold[t] # 0 /\ role.state = "active")
      /\ \A t \in Slots : attempt[t] = "expired" => attempt'[t] \in {"none", "expired"}
      /\ \A t \in Slots : attempt[t] = "none" => attempt'[t] \in {"none", "running"}
  BY <1>3 DEF ClaimNext, Finish, AttemptLapses, Reap
<1>. QED
  BY <1>1, <1>2, <1>4, AttemptKeeps DEF Slots

LEMMA CrashKeeps == ASSUME IInv, NEW s \in Slots, Crash(s) PROVE IInv'
<1>1. DeployTypeOK /\ StepInv /\ PlantInv /\ SlotInv /\ FilesInv /\ DeployInv /\ RollbackInv
  BY DEF IInv
<1>2. /\ UNCHANGED <<mode, step, at, run, include, running, api, workers, role, killed>>
      /\ UNCHANGED <<choreography, gatewayVars>>
      /\ hold' = [hold EXCEPT ![s] = 0] /\ crashes' = crashes + 1 /\ crashes < MaxCrashes
      /\ attempt' = [attempt EXCEPT ![s] = IF @ = "running" THEN "orphaned" ELSE @]
  BY DEF Crash, choreography, gatewayVars
<1>3. DeployTypeOK'
  BY <1>1, <1>2, DeploymentAssumption DEF DeployTypeOK
<1>4. \A t \in Slots : hold'[t] # 0 => hold[t] # 0 /\ hold'[t] = hold[t]
  BY <1>1, <1>2 DEF DeployTypeOK
<1>5. \A t \in Slots : /\ attempt'[t] = "running" => attempt[t] = "running"
                       /\ attempt[t] \in {"none", "expired"} => attempt'[t] = attempt[t]
  BY <1>1, <1>2 DEF DeployTypeOK
<1>6. "old" \in Slots /\ "candidate" \in Slots
  BY DEF Slots
<1>7. PlantInv'
  BY <1>1, <1>2, <1>4 DEF PlantInv
<1>8. SlotInv'
  BY <1>1, <1>2, <1>5, <1>6 DEF SlotInv, NotActivated, OneSlotWorks
<1>9. DeployInv'
  BY <1>1, <1>2, <1>4, <1>5, <1>6 DEF DeployInv, Drained
<1>10. RollbackInv'
  BY <1>1, <1>2, <1>4, <1>5, <1>6 DEF RollbackInv, Overtaken, AuthorityEpoch, Lost
<1>. QED
  BY <1>1, <1>2, <1>3, <1>7, <1>8, <1>9, <1>10, Unmoved DEF IInv

\* The lease of the role runs out, or is renewed after all.
LEMMA LeaseKeeps ==
    ASSUME IInv, RoleLapses \/ \E s \in Slots : RenewedLate(s)
    PROVE  IInv'
<1>1. DeployTypeOK /\ StepInv /\ PlantInv /\ SlotInv /\ FilesInv /\ DeployInv /\ RollbackInv
  BY DEF IInv
<1>2. /\ UNCHANGED <<mode, step, at, run, include, running, api, workers, hold, attempt, killed, crashes>>
      /\ UNCHANGED <<choreography, gatewayVars>>
      /\ \E live \in BOOLEAN : role' = [role EXCEPT !.live = live]
  BY DEF RoleLapses, RenewedLate, choreography, gatewayVars
<1>3. DeployTypeOK' /\ role'.owner = role.owner /\ role'.epoch = role.epoch /\ role'.state = role.state
  BY <1>1, <1>2 DEF DeployTypeOK, RoleRecord
<1>4. PlantInv'
  BY <1>1, <1>2, <1>3 DEF PlantInv
<1>5. SlotInv'
  BY <1>1, <1>2, <1>3 DEF SlotInv, NotActivated, OneSlotWorks
<1>6. DeployInv'
  BY <1>1, <1>2, <1>3 DEF DeployInv, Drained
<1>7. RollbackInv'
  BY <1>1, <1>2, <1>3 DEF RollbackInv, Overtaken, AuthorityEpoch, Lost
<1>. QED
  BY <1>1, <1>2, <1>3, <1>4, <1>5, <1>6, <1>7, Unmoved DEF IInv
-----------------------------------------------------------------------------
(* The steps of the choreographer. *)

LEMMA ReadsKeeps == ASSUME IInv, Reads PROVE IInv'
<1>1. DeployTypeOK /\ StepInv /\ PlantInv /\ SlotInv /\ FilesInv /\ DeployInv /\ RollbackInv
  BY DEF IInv
<1>2. /\ UNCHANGED <<include, running, api, workers, hold, role, attempt, killed, crashes>>
      /\ step \in ReadSteps /\ Observed /\ Returns(run)
  BY DEF Reads, gatewayVars, plantVars
<1>3. step \notin {"done", "bidirectional_queue_contract", "gateway_switch", "pause_admission",
                   "resume_admission", "candidate_activation"}
  BY <1>2 DEF ReadSteps
<1>4. run \in Locals /\ run.gateway \in BOOLEAN /\ run.admission_paused \in BOOLEAN
  BY <1>1 DEF DeployTypeOK, Locals
<1>5. CASE mode = "deploy"
  <2>1. /\ mode' = "deploy" /\ at' = 1 /\ run' = run /\ step' = DeployNext(step) /\ StepInv'
        /\ step' \in DeploymentStepName \cup {"done"}
    BY <1>1, <1>2, <1>3, <1>4, <1>5, ReturnedForward
  <2>2. /\ step' \notin {"candidate_activation", "resume_admission", "done"}
        /\ step' = "gateway_switch" => step = "old_claims_zero"
        /\ step' # "old_claims_zero"
        /\ step' \in AfterActivation => step \in AfterActivation
        /\ step' = "gateway_switch" => step \in BeforeSwitch
    BY <1>1, <1>2, <1>5, <2>1, Sequence DEF ReadSteps, StepInv, AfterActivation, BeforeSwitch, Last
  <2>3. DeployTypeOK' /\ PlantInv' /\ FilesInv'
    BY <1>1, <1>2, <1>5, <2>1, <2>2 DEF DeployTypeOK, PlantInv, FilesInv
  <2>4. SlotInv'
    BY <1>1, <1>2, <1>3, <1>5, <2>1, <2>2 DEF SlotInv, NotActivated, OneSlotWorks
  <2>5. DeployInv'
    <3>1. step = "old_claims_zero" => attempt["old"] = "none" /\ killed = {}
      BY <1>1, <1>2, <1>5 DEF Observed, ClaimsZero, SlotInv, StepInv, BeforeSwitch
    <3>. QED
      BY <1>1, <1>2, <1>5, <2>1, <2>2, <3>1 DEF DeployInv, Drained
  <2>6. RollbackInv'
    BY <2>1 DEF RollbackInv
  <2>. QED
    BY <2>1, <2>3, <2>4, <2>5, <2>6 DEF IInv
<1>6. CASE mode \in {"abort", "rollback"}
  <2>1. mode' = mode /\ at' = 1 /\ run' = run /\ StepInv' /\ step' \in DeploymentStepName \cup {"done"}
    BY <1>1, <1>2, <1>3, <1>6, ReturnedBack
  <2>2. /\ mode = "rollback" => step \in {"rollback_old_api_readiness", "rollback_candidate_claims_zero"}
        /\ step = "rollback_old_api_readiness" => step' = "rollback_gateway"
        /\ step = "rollback_candidate_claims_zero" => step' = "rollback_old_activation"
    BY <1>1, <1>2, <1>3, <1>6, ReturnedBack, RecoverySequence DEF ReadSteps, StepInv, RollbackSteps, Last
  <2>3. step' # "candidate_activation"
    BY <1>6, <2>1 DEF StepInv, AbortSteps, RollbackSteps, Last
  <2>4. DeployTypeOK' /\ PlantInv'
    <3>1. DeployTypeOK'
      BY <1>1, <1>2, <1>4, <1>6, <2>1 DEF DeployTypeOK
    <3>2. PlantInv'
      BY <1>1, <1>2, <2>1 DEF PlantInv
    <3>. QED
      BY <3>1, <3>2
  <2>5. FilesInv'
    BY <1>1, <1>2, <1>6, <2>1, <2>2 DEF FilesInv
  <2>6. SlotInv'
    <3>1. NotActivated' = (NotActivated /\ ~run.gateway)
      BY <1>4, <2>1, <2>3 DEF NotActivated
    <3>. QED
      BY <1>1, <1>2, <2>1, <2>3, <3>1 DEF SlotInv, NotActivated, OneSlotWorks
  <2>7. DeployInv'
    BY <1>6, <2>1 DEF DeployInv
  <2>8. RollbackInv'
    <3>1. step = "rollback_candidate_claims_zero" => attempt["candidate"] = "none"
      BY <1>2 DEF Observed, ClaimsZero
    <3>. QED
      BY <1>1, <1>2, <1>6, <2>1, <2>2, <3>1
      DEF RollbackInv, Overtaken, AuthorityEpoch, Lost, Last
  <2>. QED
    BY <2>1, <2>4, <2>5, <2>6, <2>7, <2>8 DEF IInv
<1>. QED
  BY <1>1, <1>5, <1>6 DEF DeployTypeOK

LEMMA QueueContractKeeps == ASSUME IInv, QueueContract PROVE IInv'
<1>1. DeployTypeOK /\ StepInv /\ PlantInv /\ SlotInv /\ FilesInv /\ DeployInv /\ RollbackInv
  BY DEF IInv
<1>2. /\ UNCHANGED <<mode, run, include, running, api, workers, hold, role, attempt, killed, crashes>>
      /\ step = "bidirectional_queue_contract" /\ at' = 1
      /\ step' \in {"old_workers_draining", "pause_admission"}
  BY DEF QueueContract, gatewayVars, plantVars
<1>3. mode = "deploy" /\ ~run.gateway /\ ~run.admission_paused
  BY <1>1, <1>2 DEF DeployTypeOK, StepInv, BeforeSwitch, BeforePause, AbortSteps, RollbackSteps, Last
<1>4. DeployTypeOK'
  BY <1>1, <1>2 DEF DeployTypeOK, DeploymentStepName, DeploySteps
<1>5. StepInv'
  BY <1>2, <1>3 DEF StepInv, BeforeSwitch, BeforePause
<1>6. PlantInv' /\ SlotInv' /\ FilesInv'
  BY <1>1, <1>2, <1>3 DEF PlantInv, SlotInv, FilesInv, NotActivated, OneSlotWorks
<1>7. DeployInv' /\ RollbackInv'
  BY <1>1, <1>2, <1>3 DEF DeployInv, RollbackInv, AfterActivation, Last
<1>. QED
  BY <1>4, <1>5, <1>6, <1>7 DEF IInv

LEMMA StartCandidateStandbyKeeps == ASSUME IInv, StartCandidateStandby PROVE IInv'
<1>. DEFINE locals == [run EXCEPT !.candidate_started = TRUE]
<1>1. DeployTypeOK /\ StepInv /\ PlantInv /\ SlotInv /\ FilesInv /\ DeployInv /\ RollbackInv
  BY DEF IInv
<1>2. /\ UNCHANGED <<include, running, hold, role, attempt, killed, crashes>>
      /\ step = "start_candidate_standby"
      /\ api' = [api EXCEPT !["candidate"] = "standby"]
      /\ workers' = [workers EXCEPT !["candidate"] = "standby"]
      /\ Returns(locals) \/ Raises
  BY DEF StartCandidateStandby, gatewayVars
<1>3. mode = "deploy" /\ ~run.gateway /\ run \in Locals
  BY <1>1, <1>2 DEF DeployTypeOK, StepInv, BeforeSwitch, AbortSteps, RollbackSteps, Last
<1>4. /\ locals \in Locals /\ locals.gateway = run.gateway
      /\ locals.admission_paused = run.admission_paused
      /\ locals.candidate_epoch = run.candidate_epoch
  BY <1>3 DEF Locals
<1>5. /\ workers["candidate"] # "active" /\ role.owner # "candidate" /\ killed = {}
      /\ workers'["candidate"] = "standby" /\ workers'["old"] = workers["old"]
      /\ workers' \in [Slots -> {"stopped", "standby", "active"}]
      /\ api' \in [Slots -> {"stopped", "standby", "active"}]
  BY <1>1, <1>2, <1>3 DEF DeployTypeOK, SlotInv, NotActivated, Slots
<1>6. OneSlotWorks'
  BY <1>5 DEF OneSlotWorks
<1>7. \A s \in Slots : hold[s] # 0 => workers'[s] = "active"
  BY <1>1, <1>5 DEF PlantInv, Slots
<1>8. CASE Returns(locals)
  <2>1. /\ mode' = "deploy" /\ at' = 1 /\ run' = locals /\ step' = "candidate_readiness" /\ StepInv'
    BY <1>1, <1>2, <1>3, <1>4, <1>8, ReturnedForward, Sequence DEF Locals
  <2>2. DeployTypeOK'
    BY <1>1, <1>2, <1>4, <1>5, <2>1 DEF DeployTypeOK, DeploymentStepName, DeploySteps
  <2>3. PlantInv' /\ SlotInv' /\ FilesInv'
    BY <1>1, <1>2, <1>3, <1>4, <1>5, <1>6, <1>7, <2>1 DEF PlantInv, SlotInv, FilesInv, NotActivated
  <2>4. DeployInv' /\ RollbackInv'
    BY <2>1 DEF DeployInv, RollbackInv, AfterActivation, Last
  <2>. QED
    BY <2>1, <2>2, <2>3, <2>4 DEF IInv
<1>9. CASE Raises
  <2>1. /\ step' \in DeploymentStepName \cup {"done"} /\ at' = 1 /\ run' \in Locals
        /\ mode' \in {"abort", "rollback"} /\ run'.candidate_epoch = run.candidate_epoch
    BY <1>1, <1>2, <1>9, Raised DEF Locals
  <2>2. DeployTypeOK'
    BY <1>1, <1>2, <1>5, <2>1 DEF DeployTypeOK
  <2>3. PlantInv'
    BY <1>1, <1>2, <1>7, <2>1 DEF PlantInv
  <2>. QED
    BY <1>2, <1>3, <1>5, <1>6, <1>9, <2>2, <2>3, RaisedKeeps
<1>. QED
  BY <1>2, <1>8, <1>9
\* What a failed write of a gateway file can leave.
LEMMA WriteFailsKeeps ==
    ASSUME IInv, NEW new \in Gateway, WriteFails(new), UNCHANGED <<plantVars, crashes>>,
           step \notin {"done", "rollback_candidate_claims_zero"}, Raises,
           run.gateway /\ ~run.admission_paused => new.admission = include.admission
    PROVE  IInv'
<1>1. DeployTypeOK /\ StepInv /\ PlantInv /\ SlotInv /\ FilesInv
  BY DEF IInv
<1>2. /\ UNCHANGED <<api, workers, hold, role, attempt, killed, crashes>>
      /\ include' \in {include, new} /\ running' \in {running, new, include}
  BY DEF WriteFails, plantVars
<1>3. /\ mode' \in {"abort", "rollback"} /\ at' = 1 /\ run' \in Locals
      /\ step' \in DeploymentStepName \cup {"done"}
      /\ run'.candidate_epoch = run.candidate_epoch
  BY <1>1, Raised DEF DeployTypeOK, Locals
<1>4. DeployTypeOK'
  BY <1>1, <1>2, <1>3 DEF DeployTypeOK
<1>5. PlantInv' /\ OneSlotWorks'
  BY <1>1, <1>2, <1>3 DEF PlantInv, SlotInv, OneSlotWorks
<1>6. run.gateway => mode # "abort"
  BY <1>1 DEF StepInv
<1>7. run.gateway /\ ~run.admission_paused => include'.admission = "open" /\ running'.admission = "open"
  BY <1>1, <1>2, <1>6 DEF FilesInv
<1>8. ~run.gateway => workers'["candidate"] # "active" /\ role'.owner # "candidate" /\ killed' = {}
  BY <1>1, <1>2 DEF SlotInv, NotActivated
<1>. QED
  BY <1>4, <1>5, <1>7, <1>8, RaisedKeeps

\* What the files and the sequence say when neither the plant nor a slot changes.
LEMMA WrittenKeeps ==
    ASSUME IInv, UNCHANGED <<plantVars, crashes>>, DeployTypeOK', StepInv', FilesInv', mode' = mode, at' = 1,
           \/ run' = run
           \/ run' = [run EXCEPT !.admission_paused = TRUE]
           \/ /\ run' = [run EXCEPT !.gateway = TRUE]
              /\ step = "gateway_switch" /\ step' = "candidate_activation",
           step' = "candidate_activation" => step = "gateway_switch",
           step' = "gateway_switch" => step = "gateway_switch",
           step' = "old_claims_zero" => step = "old_claims_zero",
           step = "gateway_switch" => ~run.gateway,
           step' \in AfterActivation => step \in AfterActivation,
           mode = "rollback" => \/ step' \notin {"rollback_candidate_claims_zero", "rollback_old_activation",
                                                 "rollback_fail_lost_attempts", "resume_admission", "done"}
                                \/ step = "resume_admission" /\ step' = "done"
    PROVE  IInv'
<1>1. PlantInv /\ SlotInv /\ DeployInv /\ RollbackInv /\ run \in Locals
  BY DEF IInv, DeployTypeOK
<1>. /\ run'.candidate_epoch = run.candidate_epoch /\ run'.ok = run.ok
     /\ run'.gateway = run.gateway \/ (step = "gateway_switch" /\ step' = "candidate_activation")
  BY <1>1 DEF Locals
<1>2. UNCHANGED <<api, workers, hold, role, attempt, killed, crashes>>
  BY DEF plantVars
<1>3. PlantInv'
  BY <1>1, <1>2 DEF PlantInv
<1>4. SlotInv'
  BY <1>1, <1>2 DEF SlotInv, NotActivated, OneSlotWorks
<1>5. DeployInv'
  BY <1>1, <1>2 DEF DeployInv, SlotInv, NotActivated, Drained
<1>6. RollbackInv'
  BY <1>1, <1>2 DEF RollbackInv, AuthorityEpoch, Lost, Last
<1>. QED
  BY <1>3, <1>4, <1>5, <1>6 DEF IInv

LEMMA PauseAdmissionKeeps == ASSUME IInv, PauseAdmission PROVE IInv'
<1>. DEFINE new == [include EXCEPT !.admission = "paused"]
            locals == [run EXCEPT !.admission_paused = TRUE]
<1>1. DeployTypeOK /\ StepInv /\ FilesInv
  BY DEF IInv
<1>2. step = "pause_admission" /\ SetAdmission("paused", locals) /\ UNCHANGED <<plantVars, crashes>>
  BY DEF PauseAdmission, SetAdmission
<1>3. mode = "deploy" /\ ~run.gateway /\ run \in Locals
  BY <1>1, <1>2 DEF DeployTypeOK, StepInv, BeforeSwitch, AbortSteps, RollbackSteps, Last
<1>4. new \in Gateway /\ include \in Gateway /\ running = include /\ new.slot = include.slot
  BY <1>1, <1>3 DEF DeployTypeOK, FilesInv, Gateway
<1>5. /\ locals \in Locals /\ locals.gateway = run.gateway /\ locals.admission_paused = TRUE
      /\ locals.candidate_epoch = run.candidate_epoch /\ locals.ok = run.ok
  BY <1>3 DEF Locals
<1>6. CASE WriteFails(new) /\ Raises
  BY <1>2, <1>3, <1>4, <1>6, WriteFailsKeeps
<1>7. CASE /\ Returns(locals)
           /\ Written(new) \/ (include = new /\ UNCHANGED gatewayVars)
  <2>1. include' = new /\ running' = new
    BY <1>4, <1>7 DEF Written, gatewayVars
  <2>2. /\ mode' = "deploy" /\ at' = 1 /\ run' = locals /\ step' = "old_workers_draining" /\ StepInv'
    BY <1>1, <1>2, <1>3, <1>5, <1>7, ReturnedForward, Sequence DEF Locals
  <2>3. DeployTypeOK'
    BY <1>1, <1>2, <1>4, <1>5, <2>1, <2>2 DEF DeployTypeOK, plantVars, DeploymentStepName, DeploySteps
  <2>4. FilesInv'
    BY <1>1, <1>3, <1>4, <1>5, <2>1, <2>2 DEF FilesInv
  <2>. QED
    BY <1>2, <1>3, <1>5, <2>2, <2>3, <2>4, WrittenKeeps DEF AfterActivation, Last
<1>. QED
  BY <1>2, <1>6, <1>7 DEF SetAdmission

LEMMA ResumeAdmissionKeeps == ASSUME IInv, ResumeAdmission PROVE IInv'
<1>. DEFINE new == [include EXCEPT !.admission = "open"]
<1>1. DeployTypeOK /\ StepInv /\ FilesInv
  BY DEF IInv
<1>2. step = "resume_admission" /\ SetAdmission("open", run) /\ UNCHANGED <<plantVars, crashes>>
  BY DEF ResumeAdmission, SetAdmission
<1>3. /\ run \in Locals /\ (run.gateway => run.admission_paused)
      /\ run.gateway \in BOOLEAN /\ run.admission_paused \in BOOLEAN
  BY <1>1, <1>2 DEF DeployTypeOK, StepInv, Locals
<1>4. new \in Gateway /\ include \in Gateway /\ new.slot = include.slot /\ new.admission = "open"
  BY <1>1 DEF DeployTypeOK, Gateway
<1>5. CASE WriteFails(new) /\ Raises
  BY <1>2, <1>3, <1>4, <1>5, WriteFailsKeeps
<1>6. CASE /\ Returns(run)
           /\ Written(new) \/ (include = new /\ running.admission = "open" /\ UNCHANGED gatewayVars)
  <2>1. include' = new /\ running' \in {new, running} /\ running'.admission = "open"
        /\ (running = include => running' = new)
    BY <1>4, <1>6 DEF Written, gatewayVars
  <2>2. /\ mode' = mode /\ at' = 1 /\ run' = run /\ step' = "done" /\ StepInv'
    <3>1. CASE mode = "deploy"
      BY <1>1, <1>2, <1>3, <1>6, <3>1, ReturnedForward, Sequence
    <3>2. CASE mode \in {"abort", "rollback"}
      BY <1>1, <1>2, <1>6, <3>2, ReturnedBack, RecoverySequence
    <3>. QED
      BY <1>1, <3>1, <3>2 DEF DeployTypeOK
  <2>3. DeployTypeOK'
    BY <1>1, <1>2, <1>3, <1>4, <2>1, <2>2 DEF DeployTypeOK, plantVars
  <2>4. FilesInv'
    BY <1>1, <1>2, <1>4, <2>1, <2>2 DEF FilesInv
  <2>. QED
    BY <1>2, <2>2, <2>3, <2>4, WrittenKeeps DEF AfterActivation, Last
<1>. QED
  BY <1>2, <1>5, <1>6 DEF SetAdmission

LEMMA GatewaySwitchKeeps == ASSUME IInv, GatewaySwitch PROVE IInv'
<1>. DEFINE new == [include EXCEPT !.slot = "candidate"]
            locals == [run EXCEPT !.gateway = TRUE]
<1>1. DeployTypeOK /\ StepInv /\ FilesInv
  BY DEF IInv
<1>2. step = "gateway_switch" /\ SwitchGateway("candidate", locals) /\ UNCHANGED <<plantVars, crashes>>
  BY DEF GatewaySwitch, SwitchGateway
<1>3. mode = "deploy" /\ ~run.gateway /\ run \in Locals
  BY <1>1, <1>2 DEF DeployTypeOK, StepInv, BeforeSwitch, AbortSteps, RollbackSteps, Last
<1>4. new \in Gateway /\ include \in Gateway /\ new.slot = "candidate" /\ new.admission = include.admission
  BY <1>1 DEF DeployTypeOK, Gateway, Slots
<1>5. /\ locals \in Locals /\ locals.gateway = TRUE /\ locals.admission_paused = run.admission_paused
      /\ locals.candidate_epoch = run.candidate_epoch /\ locals.ok = run.ok
  BY <1>3 DEF Locals
<1>6. CASE WriteFails(new) /\ Raises
  BY <1>2, <1>3, <1>4, <1>6, WriteFailsKeeps
<1>7. CASE Written(new) /\ Returns(locals)
  <2>1. include' = new /\ running' = new
    BY <1>7 DEF Written
  <2>2. /\ mode' = "deploy" /\ at' = 1 /\ run' = locals /\ step' = "candidate_activation" /\ StepInv'
    BY <1>1, <1>2, <1>3, <1>5, <1>7, ReturnedForward, Sequence DEF Locals
  <2>3. DeployTypeOK'
    BY <1>1, <1>2, <1>4, <1>5, <2>1, <2>2 DEF DeployTypeOK, plantVars, DeploymentStepName, DeploySteps
  <2>4. FilesInv'
    BY <1>1, <1>3, <1>4, <1>5, <2>1, <2>2 DEF FilesInv
  <2>. QED
    BY <1>2, <1>3, <1>5, <2>2, <2>3, <2>4, WrittenKeeps DEF AfterActivation, Last
<1>. QED
  BY <1>2, <1>6, <1>7 DEF SwitchGateway

LEMMA RollbackGatewayKeeps == ASSUME IInv, RollbackGateway PROVE IInv'
<1>. DEFINE new == [include EXCEPT !.slot = "old"]
<1>1. DeployTypeOK /\ StepInv /\ FilesInv
  BY DEF IInv
<1>2. step = "rollback_gateway" /\ SwitchGateway("old", run) /\ UNCHANGED <<plantVars, crashes>>
  BY DEF RollbackGateway, SwitchGateway
<1>3. mode = "rollback" /\ run \in Locals
  BY <1>1, <1>2
  DEF DeployTypeOK, StepInv, BeforeSwitch, AfterActivation, AbortSteps, Last
<1>4. new \in Gateway /\ include \in Gateway /\ new.slot = "old" /\ new.admission = include.admission
  BY <1>1 DEF DeployTypeOK, Gateway, Slots
<1>5. CASE WriteFails(new) /\ Raises
  BY <1>2, <1>4, <1>5, WriteFailsKeeps
<1>6. CASE Written(new) /\ Returns(run)
  <2>1. include' = new /\ running' = new
    BY <1>6 DEF Written
  <2>2. /\ mode' = "rollback" /\ at' = 1 /\ run' = run /\ step' = "rollback_candidate_draining" /\ StepInv'
    BY <1>1, <1>2, <1>3, <1>6, ReturnedBack, RecoverySequence
  <2>3. DeployTypeOK'
    BY <1>1, <1>2, <1>3, <1>4, <2>1, <2>2 DEF DeployTypeOK, plantVars, DeploymentStepName, RollbackSteps
  <2>4. FilesInv'
    BY <1>1, <1>3, <1>4, <2>1, <2>2 DEF FilesInv
  <2>. QED
    BY <1>2, <1>3, <2>2, <2>3, <2>4, WrittenKeeps DEF AfterActivation, Last
<1>. QED
  BY <1>2, <1>5, <1>6 DEF SwitchGateway
\* A stop, a kill or a recreation of an executor, and what it leaves behind.
EndsAs(s, container) == Ended(s, TRUE, container) \/ Ended(s, FALSE, container)

LEMMA EndedLeaves ==
    ASSUME DeployTypeOK, PlantInv, NEW s \in Slots, NEW container \in {"stopped", "active"},
           EndsAs(s, container)
    PROVE  /\ workers' = [workers EXCEPT ![s] = container] /\ workers'[s] = container
           /\ workers' \in [Slots -> {"stopped", "standby", "active"}]
           /\ hold' = [hold EXCEPT ![s] = 0] /\ hold' \in [Slots -> Nat] /\ hold'[s] = 0
           /\ role' \in RoleRecord /\ role'.epoch = role.epoch
           /\ role'.owner \in {role.owner, "none"}
           /\ hold[s] = 0 => role' = role
           /\ attempt' \in [Slots -> {"none", "running", "orphaned", "expired"}]
           /\ killed' \in SUBSET Slots
           /\ attempt'[s] # "running"
           /\ attempt[s] # "running" => attempt' = attempt /\ killed' = killed
           /\ \A t \in Slots \ {s} : /\ workers'[t] = workers[t] /\ hold'[t] = hold[t]
                                     /\ attempt'[t] = attempt[t] /\ (t \in killed' <=> t \in killed)
           /\ \A t \in Slots : hold'[t] # 0 =>
                hold[t] # 0 /\ workers'[t] = "active" /\ role'.owner = t /\ role'.state = role.state
<1>1. /\ workers' = [workers EXCEPT ![s] = container]
      /\ hold' = [hold EXCEPT ![s] = 0]
      /\ \/ role' = role
         \/ /\ hold[s] # 0
            /\ role' = [role EXCEPT !.owner = "none", !.state = "standby", !.live = FALSE]
      /\ \/ /\ attempt[s] # "running"
            /\ UNCHANGED <<attempt, killed>>
         \/ /\ attempt[s] = "running"
            /\ attempt' = [attempt EXCEPT ![s] = "none"] /\ killed' = killed
         \/ /\ attempt[s] = "running"
            /\ attempt' = [attempt EXCEPT ![s] = "orphaned"]
            /\ killed' = killed \cup {s}
  BY DEF EndsAs, Ended
<1>2. /\ workers \in [Slots -> {"stopped", "standby", "active"}] /\ hold \in [Slots -> Nat]
      /\ attempt \in [Slots -> {"none", "running", "orphaned", "expired"}]
      /\ role \in RoleRecord /\ killed \subseteq Slots
  BY DEF DeployTypeOK
<1>3. /\ role' \in RoleRecord /\ role'.epoch = role.epoch /\ role'.owner \in {role.owner, "none"}
      /\ hold[s] = 0 => role' = role
  BY <1>1, <1>2 DEF RoleRecord
<1>4. \A t \in Slots : hold'[t] # 0 => t # s /\ hold[t] # 0 /\ hold[s] = 0
  BY <1>1, <1>2 DEF PlantInv
<1>5. \A t \in Slots : hold'[t] # 0 =>
        hold[t] # 0 /\ workers'[t] = "active" /\ role'.owner = t /\ role'.state = role.state
  BY <1>1, <1>2, <1>3, <1>4 DEF PlantInv
<1>6. /\ attempt' \in [Slots -> {"none", "running", "orphaned", "expired"}]
      /\ killed' \in SUBSET Slots /\ attempt'[s] # "running"
      /\ attempt[s] # "running" => attempt' = attempt /\ killed' = killed
  BY <1>1, <1>2
<1>7. \A t \in Slots \ {s} : /\ workers'[t] = workers[t] /\ hold'[t] = hold[t]
                             /\ attempt'[t] = attempt[t] /\ (t \in killed' <=> t \in killed)
  BY <1>1, <1>2
<1>8. /\ workers' \in [Slots -> {"stopped", "standby", "active"}] /\ workers'[s] = container
      /\ hold' \in [Slots -> Nat] /\ hold'[s] = 0
  BY <1>1, <1>2
<1>. QED
  BY <1>1, <1>3, <1>5, <1>6, <1>7, <1>8

\* A command after which its step goes on or raises.
LEMMA CommandControls ==
    ASSUME IInv, Command, at \in {1, 2}, step # "done"
    PROVE  /\ at' \in 1..3 /\ step' \in DeploymentStepName \cup {"done"} /\ run' \in Locals
           /\ mode' \in {"deploy", "abort", "rollback"}
           /\ run'.candidate_epoch = run.candidate_epoch
<1>1. DeployTypeOK /\ StepInv /\ run \in Locals
  BY DEF IInv, DeployTypeOK
<1>2. CASE NextCommand
  BY <1>1, <1>2, Continued DEF DeployTypeOK
<1>3. CASE Raises
  BY <1>1, <1>3, Raised DEF Locals
<1>. QED
  BY <1>2, <1>3 DEF Command

LEMMA StopOldComputeKeeps == ASSUME IInv, StopOldCompute PROVE IInv'
<1>1. DeployTypeOK /\ StepInv /\ PlantInv /\ SlotInv /\ FilesInv /\ DeployInv /\ RollbackInv
  BY DEF IInv
<1>2. /\ UNCHANGED <<include, running, workers, hold, role, attempt, killed, crashes>>
      /\ step = "stop_old_compute" /\ api' = [api EXCEPT !["old"] = "stopped"]
      /\ Returns(run) \/ Raises
  BY DEF StopOldCompute, gatewayVars
<1>3. /\ mode = "deploy" /\ run.gateway /\ run \in Locals
      /\ run.gateway \in BOOLEAN /\ run.admission_paused \in BOOLEAN
  BY <1>1, <1>2 DEF DeployTypeOK, StepInv, BeforeSwitch, AbortSteps, RollbackSteps, Last, Locals
<1>4. api' \in [Slots -> {"stopped", "standby", "active"}]
  BY <1>1, <1>2 DEF DeployTypeOK, Slots
<1>5. ~run.admission_paused => include.admission = "open" /\ running.admission = "open"
  BY <1>1, <1>3 DEF FilesInv
<1>6. CASE Returns(run)
  <2>1. /\ mode' = "deploy" /\ at' = 1 /\ run' = run /\ StepInv'
        /\ step' = IF run.admission_paused THEN "resume_admission" ELSE "done"
    BY <1>1, <1>2, <1>3, <1>6, ReturnedForward, Sequence
  <2>2. DeployTypeOK'
    BY <1>1, <1>2, <1>4, <2>1 DEF DeployTypeOK, DeploymentStepName
  <2>3. PlantInv' /\ FilesInv'
    BY <1>1, <1>2, <1>3, <1>5, <2>1 DEF PlantInv, FilesInv
  <2>4. SlotInv'
    BY <1>1, <1>2, <1>3, <2>1 DEF SlotInv, NotActivated, OneSlotWorks
  <2>5. DeployInv' /\ RollbackInv'
    BY <1>1, <1>2, <1>3, <2>1 DEF DeployInv, RollbackInv, AfterActivation
  <2>. QED
    BY <2>1, <2>2, <2>3, <2>4, <2>5 DEF IInv
<1>7. CASE Raises
  <2>1. /\ step' \in DeploymentStepName \cup {"done"} /\ at' = 1 /\ run' \in Locals
        /\ mode' \in {"abort", "rollback"} /\ run'.candidate_epoch = run.candidate_epoch
    BY <1>1, <1>2, <1>3, <1>7, Raised DEF Locals
  <2>2. DeployTypeOK'
    BY <1>1, <1>2, <1>4, <2>1 DEF DeployTypeOK
  <2>3. PlantInv' /\ OneSlotWorks'
    BY <1>1, <1>2, <2>1 DEF PlantInv, SlotInv, OneSlotWorks
  <2>. QED
    BY <1>2, <1>3, <1>5, <1>7, <2>2, <2>3, RaisedKeeps
<1>. QED
  BY <1>2, <1>6, <1>7

LEMMA RollbackFailLostAttemptsKeeps == ASSUME IInv, RollbackFailLostAttempts PROVE IInv'
<1>1. DeployTypeOK /\ StepInv /\ PlantInv /\ SlotInv /\ FilesInv /\ DeployInv /\ RollbackInv
  BY DEF IInv
<1>2. /\ UNCHANGED <<include, running, api, workers, hold, role, killed, crashes>>
      /\ step = "rollback_fail_lost_attempts"
      /\ attempt' = [s \in Slots |-> IF attempt[s] = "expired" THEN "none" ELSE attempt[s]]
      /\ Returns(run) \/ Raises
  BY DEF RollbackFailLostAttempts, gatewayVars
<1>3. mode = "rollback" /\ run.gateway /\ run \in Locals
  BY <1>1, <1>2 DEF DeployTypeOK, StepInv, BeforeSwitch, AfterActivation, AbortSteps, Last
<1>4. attempt' \in [Slots -> {"none", "running", "orphaned", "expired"}]
  BY <1>1, <1>2 DEF DeployTypeOK
<1>5. ~run.admission_paused => include.admission = "open" /\ running.admission = "open"
  BY <1>1, <1>3 DEF FilesInv
<1>6. Lost => attempt'["candidate"] = "none"
  BY <1>2 DEF Lost, Slots
<1>7. CASE Returns(run)
  <2>1. /\ mode' = "rollback" /\ at' = 1 /\ run' = run /\ StepInv'
        /\ step' = IF run.admission_paused THEN "resume_admission" ELSE "done"
    BY <1>1, <1>2, <1>3, <1>7, ReturnedBack, RecoverySequence
  <2>2. DeployTypeOK'
    BY <1>1, <1>2, <1>4, <2>1 DEF DeployTypeOK, DeploymentStepName
  <2>3. PlantInv' /\ FilesInv'
    BY <1>1, <1>2, <1>3, <1>5, <2>1 DEF PlantInv, FilesInv
  <2>4. SlotInv'
    BY <1>1, <1>2, <1>3, <2>1 DEF SlotInv, NotActivated, OneSlotWorks
  <2>5. DeployInv' /\ RollbackInv'
    BY <1>1, <1>2, <1>3, <1>6, <2>1 DEF DeployInv, RollbackInv, AuthorityEpoch, Lost
  <2>. QED
    BY <2>1, <2>2, <2>3, <2>4, <2>5 DEF IInv
<1>8. CASE Raises
  <2>1. /\ step' \in DeploymentStepName \cup {"done"} /\ at' = 1 /\ run' \in Locals
        /\ mode' \in {"abort", "rollback"} /\ run'.candidate_epoch = run.candidate_epoch
    BY <1>1, <1>2, <1>3, <1>8, Raised DEF Locals
  <2>2. DeployTypeOK'
    BY <1>1, <1>2, <1>4, <2>1 DEF DeployTypeOK
  <2>3. PlantInv' /\ OneSlotWorks'
    BY <1>1, <1>2, <2>1 DEF PlantInv, SlotInv, OneSlotWorks
  <2>. QED
    BY <1>2, <1>3, <1>5, <1>8, <2>2, <2>3, RaisedKeeps
<1>. QED
  BY <1>2, <1>7, <1>8
\* A signal changes the state of the row, nothing else.
LEMMA SignalKeeps ==
    ASSUME IInv, NEW s \in Slots, NEW from, NEW to \in {"active", "draining"}, Signalled(s, from, to),
           UNCHANGED <<include, running, api, workers, hold, attempt, killed, crashes>>,
           at = 1, Command,
           step \in {"old_workers_draining", "abort_old_workers_active", "rollback_candidate_draining"},
           mode = "deploy" => step = "old_workers_draining"
    PROVE  IInv'
<1>1. DeployTypeOK /\ StepInv /\ PlantInv /\ SlotInv /\ FilesInv /\ run \in Locals
  BY DEF IInv, DeployTypeOK
<1>2. /\ role' \in RoleRecord /\ role'.owner = role.owner /\ role'.live = role.live
      /\ role'.epoch = role.epoch /\ role'.state \in {role.state, to}
  BY <1>1 DEF Signalled, DeployTypeOK, RoleRecord
<1>3. /\ at' \in 1..3 /\ step' \in DeploymentStepName \cup {"done"} /\ run' \in Locals
      /\ mode' \in {"deploy", "abort", "rollback"} /\ run'.candidate_epoch = run.candidate_epoch
  BY CommandControls
<1>4. DeployTypeOK'
  BY <1>1, <1>2, <1>3 DEF DeployTypeOK
<1>5. PlantInv'
  BY <1>1, <1>2, <1>3 DEF PlantInv
<1>6. OneSlotWorks'
  BY <1>1 DEF SlotInv, OneSlotWorks
<1>7. CASE NextCommand
  <2>1. mode' = mode /\ step' = step /\ run' = run /\ at' = 2 /\ StepInv'
    BY <1>1, <1>7, Continued
  <2>2. SlotInv'
    BY <1>1, <1>2, <2>1 DEF SlotInv, NotActivated, OneSlotWorks
  <2>3. FilesInv'
    BY <1>1, <2>1 DEF FilesInv
  <2>4. DeployInv' /\ RollbackInv'
    BY <2>1 DEF DeployInv, RollbackInv, AfterActivation, Last
  <2>. QED
    BY <1>4, <1>5, <2>1, <2>2, <2>3, <2>4 DEF IInv
<1>8. CASE Raises
  <2>1. run.gateway => mode # "abort"
    BY <1>1 DEF StepInv
  <2>2. run.gateway /\ ~run.admission_paused => include'.admission = "open" /\ running'.admission = "open"
    BY <1>1, <2>1 DEF FilesInv
  <2>3. ~run.gateway => workers'["candidate"] # "active" /\ role'.owner # "candidate" /\ killed' = {}
    BY <1>1, <1>2 DEF SlotInv, NotActivated
  <2>. QED
    BY <1>4, <1>5, <1>6, <1>8, <2>2, <2>3, RaisedKeeps
<1>. QED
  BY <1>7, <1>8 DEF Command

LEMMA OldWorkersDrainingKeeps == ASSUME IInv, OldWorkersDraining PROVE IInv'
<1>. DEFINE locals == [run EXCEPT !.old_workers_draining = TRUE]
<1>1. DeployTypeOK /\ StepInv /\ PlantInv /\ SlotInv /\ FilesInv /\ run \in Locals
  BY DEF IInv, DeployTypeOK
<1>2. /\ step = "old_workers_draining"
      /\ UNCHANGED <<include, running, api, workers, hold, attempt, killed, crashes>>
      /\ \/ at = 1 /\ Signalled("old", "active", "draining") /\ Command
         \/ at = 2 /\ RowShows("old", "draining", OldEpoch) /\ role' = role /\ Returns(locals)
  BY DEF OldWorkersDraining, SignalAndWait, gatewayVars
<1>3. mode = "deploy" /\ ~run.gateway
  BY <1>1, <1>2 DEF DeployTypeOK, StepInv, BeforeSwitch, AbortSteps, RollbackSteps, Last
<1>4. CASE at = 1 /\ Signalled("old", "active", "draining") /\ Command
  BY <1>2, <1>4, SignalKeeps DEF Slots
<1>5. CASE at = 2 /\ RowShows("old", "draining", OldEpoch) /\ role' = role /\ Returns(locals)
  <2>1. /\ locals \in Locals /\ locals.gateway = run.gateway
        /\ locals.admission_paused = run.admission_paused
        /\ locals.candidate_epoch = run.candidate_epoch
    BY <1>1 DEF Locals
  <2>2. /\ mode' = "deploy" /\ at' = 1 /\ run' = locals /\ step' = "old_claims_zero" /\ StepInv'
    BY <1>1, <1>2, <1>3, <1>5, <2>1, ReturnedForward, Sequence DEF Locals
  <2>3. DeployTypeOK'
    BY <1>1, <1>2, <1>5, <2>1, <2>2 DEF DeployTypeOK, DeploymentStepName, DeploySteps
  <2>4. PlantInv' /\ SlotInv' /\ FilesInv'
    BY <1>1, <1>2, <1>3, <1>5, <2>1, <2>2
    DEF PlantInv, SlotInv, FilesInv, NotActivated, OneSlotWorks
  <2>5. DeployInv' /\ RollbackInv'
    BY <1>5, <2>2 DEF RowShows, DeployInv, RollbackInv, AfterActivation, Last
  <2>. QED
    BY <2>2, <2>3, <2>4, <2>5 DEF IInv
<1>. QED
  BY <1>2, <1>4, <1>5

LEMMA AbortOldWorkersActiveKeeps == ASSUME IInv, AbortOldWorkersActive PROVE IInv'
<1>1. DeployTypeOK /\ StepInv /\ PlantInv /\ SlotInv /\ FilesInv /\ run \in Locals
  BY DEF IInv, DeployTypeOK
<1>2. /\ step = "abort_old_workers_active"
      /\ UNCHANGED <<include, running, api, workers, hold, attempt, killed, crashes>>
      /\ \/ at = 1 /\ Signalled("old", "draining", "active") /\ Command
         \/ at = 2 /\ role' = role /\ Returns(run)
  BY DEF AbortOldWorkersActive, SignalAndWait, gatewayVars
<1>3. mode = "abort"
  BY <1>1, <1>2
  DEF DeployTypeOK, StepInv, BeforeSwitch, AfterActivation, RollbackSteps, Last
<1>4. CASE at = 1 /\ Signalled("old", "draining", "active") /\ Command
  BY <1>2, <1>3, <1>4, SignalKeeps DEF Slots
<1>5. CASE at = 2 /\ role' = role /\ Returns(run)
  <2>1. /\ mode' = "abort" /\ at' = 1 /\ run' = run /\ step' = "abort_candidate_standby" /\ StepInv'
    BY <1>1, <1>2, <1>3, <1>5, ReturnedBack, RecoverySequence
  <2>2. DeployTypeOK'
    BY <1>1, <1>2, <1>5, <2>1 DEF DeployTypeOK, DeploymentStepName, AbortSteps
  <2>3. PlantInv' /\ SlotInv' /\ FilesInv'
    BY <1>1, <1>2, <1>3, <1>5, <2>1 DEF PlantInv, SlotInv, FilesInv, NotActivated, OneSlotWorks
  <2>4. DeployInv' /\ RollbackInv'
    BY <2>1 DEF DeployInv, RollbackInv
  <2>. QED
    BY <2>1, <2>2, <2>3, <2>4 DEF IInv
<1>. QED
  BY <1>2, <1>4, <1>5

LEMMA RollbackCandidateDrainingKeeps == ASSUME IInv, RollbackCandidateDraining PROVE IInv'
<1>1. DeployTypeOK /\ StepInv /\ PlantInv /\ SlotInv /\ FilesInv /\ run \in Locals
  BY DEF IInv, DeployTypeOK
<1>2. /\ step = "rollback_candidate_draining"
      /\ UNCHANGED <<include, running, api, workers, hold, attempt, killed, crashes>>
      /\ \/ at = 1 /\ Signalled("candidate", "active", "draining") /\ Command
         \/ /\ at = 2 /\ RowShows("candidate", "draining", OldEpoch + 1)
            /\ role' = role /\ Returns(run)
  BY DEF RollbackCandidateDraining, SignalAndWait, gatewayVars
<1>3. mode = "rollback"
  BY <1>1, <1>2
  DEF DeployTypeOK, StepInv, BeforeSwitch, AfterActivation, AbortSteps, Last
<1>4. CASE at = 1 /\ Signalled("candidate", "active", "draining") /\ Command
  BY <1>2, <1>3, <1>4, SignalKeeps DEF Slots
<1>5. CASE /\ at = 2 /\ RowShows("candidate", "draining", OldEpoch + 1)
           /\ role' = role /\ Returns(run)
  <2>1. /\ mode' = "rollback" /\ at' = 1 /\ run' = run /\ StepInv'
        /\ step' = "rollback_candidate_claims_zero"
    BY <1>1, <1>2, <1>3, <1>5, ReturnedBack, RecoverySequence
  <2>2. DeployTypeOK'
    BY <1>1, <1>2, <1>5, <2>1 DEF DeployTypeOK, DeploymentStepName, RollbackSteps
  <2>3. PlantInv' /\ SlotInv' /\ FilesInv'
    BY <1>1, <1>2, <1>3, <1>5, <2>1 DEF PlantInv, SlotInv, FilesInv, NotActivated, OneSlotWorks
  <2>4. DeployInv' /\ RollbackInv'
    BY <1>5, <2>1 DEF RowShows, DeployInv, RollbackInv, Last
  <2>. QED
    BY <2>1, <2>2, <2>3, <2>4 DEF IInv
<1>. QED
  BY <1>2, <1>4, <1>5
\* A stop or recreation that raised, after the gateway has switched.
LEMMA EndedRaises ==
    ASSUME IInv, NEW s \in Slots, NEW container \in {"stopped", "active"},
           EndsAs(s, container),
           UNCHANGED <<include, running, api, crashes>>, run.gateway, at \in {1, 2},
           step \notin {"done", "rollback_candidate_claims_zero"}, Raises, OneSlotWorks'
    PROVE  IInv'
<1>1. DeployTypeOK /\ StepInv /\ PlantInv /\ SlotInv /\ FilesInv
  BY DEF IInv
<1>2. /\ workers' \in [Slots -> {"stopped", "standby", "active"}] /\ hold' \in [Slots -> Nat]
      /\ role' \in RoleRecord /\ role'.epoch = role.epoch
      /\ attempt' \in [Slots -> {"none", "running", "orphaned", "expired"}]
      /\ killed' \in SUBSET Slots
      /\ \A t \in Slots : hold'[t] # 0 =>
           hold[t] # 0 /\ workers'[t] = "active" /\ role'.owner = t /\ role'.state = role.state
  BY <1>1, EndedLeaves
<1>3. /\ at' \in 1..3 /\ step' \in DeploymentStepName \cup {"done"} /\ run' \in Locals
      /\ mode' \in {"deploy", "abort", "rollback"} /\ run'.candidate_epoch = run.candidate_epoch
  BY CommandControls DEF Command
<1>4. DeployTypeOK'
  BY <1>1, <1>2, <1>3 DEF DeployTypeOK
<1>5. PlantInv'
  BY <1>1, <1>2, <1>3 DEF PlantInv
<1>6. ~run.admission_paused => include'.admission = "open" /\ running'.admission = "open"
  BY <1>1 DEF FilesInv, StepInv
<1>. QED
  BY <1>4, <1>5, <1>6, RaisedKeeps

\* The same, when the operation goes on: type, sequence, plant and files.
LEMMA EndedContinues ==
    ASSUME IInv, NEW s \in Slots, NEW container \in {"stopped", "active"},
           EndsAs(s, container),
           UNCHANGED <<include, running, api, crashes>>, at \in {1, 2},
           step # "done", NextCommand
    PROVE  /\ mode' = mode /\ step' = step /\ run' = run /\ at' = at + 1
           /\ DeployTypeOK' /\ StepInv' /\ PlantInv' /\ FilesInv'
<1>1. DeployTypeOK /\ StepInv /\ PlantInv /\ FilesInv
  BY DEF IInv
<1>2. /\ workers' \in [Slots -> {"stopped", "standby", "active"}] /\ hold' \in [Slots -> Nat]
      /\ role' \in RoleRecord /\ role'.epoch = role.epoch
      /\ attempt' \in [Slots -> {"none", "running", "orphaned", "expired"}]
      /\ killed' \in SUBSET Slots
      /\ \A t \in Slots : hold'[t] # 0 =>
           hold[t] # 0 /\ workers'[t] = "active" /\ role'.owner = t /\ role'.state = role.state
  BY <1>1, EndedLeaves
<1>3. mode' = mode /\ step' = step /\ run' = run /\ at' = at + 1 /\ at' \in 1..3 /\ StepInv'
  BY <1>1, Continued
<1>4. DeployTypeOK'
  BY <1>1, <1>2, <1>3 DEF DeployTypeOK
<1>5. PlantInv'
  BY <1>1, <1>2, <1>3 DEF PlantInv
<1>6. FilesInv'
  BY <1>1, <1>3 DEF FilesInv
<1>. QED
  BY <1>3, <1>4, <1>5, <1>6

LEMMA CandidateActivationKeeps == ASSUME IInv, CandidateActivation PROVE IInv'
<1>. DEFINE locals == [run EXCEPT !.candidate_epoch = OldEpoch + 1]
<1>1. DeployTypeOK /\ StepInv /\ PlantInv /\ SlotInv /\ FilesInv /\ DeployInv
  BY DEF IInv
<1>2. /\ step = "candidate_activation" /\ UNCHANGED <<include, running, api, crashes>>
      /\ \/ at = 1 /\ EndsAs("old", "stopped") /\ Command
         \/ at = 2 /\ EndsAs("candidate", "active") /\ Command
         \/ /\ at = 3 /\ RowShows("candidate", "active", OldEpoch + 1) /\ Returns(locals)
            /\ UNCHANGED <<workers, hold, role, attempt, killed>>
  BY DEF CandidateActivation, Promote, EndsAs, gatewayVars
<1>3. /\ mode = "deploy" /\ run.gateway /\ run \in Locals
      /\ run.gateway \in BOOLEAN /\ run.admission_paused \in BOOLEAN
  BY <1>1, <1>2 DEF DeployTypeOK, StepInv, BeforeSwitch, AbortSteps, RollbackSteps, Last, Locals
<1>4. "old" \in Slots /\ "candidate" \in Slots
  BY DEF Slots
<1>5. CASE at = 1 /\ EndsAs("old", "stopped") /\ Command
  <2>1. /\ workers'["old"] = "stopped" /\ workers'["candidate"] = workers["candidate"]
        /\ role'.owner \in {role.owner, "none"} /\ role'.epoch = role.epoch
        /\ hold'["old"] = 0 /\ attempt'["old"] # "running"
        /\ attempt["old"] # "running" => killed' = killed
    BY <1>1, <1>4, <1>5, EndedLeaves
  <2>2. OneSlotWorks'
    BY <2>1 DEF OneSlotWorks
  <2>3. workers["candidate"] # "active" /\ role.owner # "candidate"
    BY <1>2, <1>5, <1>1 DEF SlotInv, NotActivated
  <2>4. CASE NextCommand
    <3>1. /\ mode' = mode /\ step' = step /\ run' = run /\ at' = 2
          /\ DeployTypeOK' /\ StepInv' /\ PlantInv' /\ FilesInv'
      BY <1>2, <1>4, <1>5, <2>4, EndedContinues
    <3>2. SlotInv'
      BY <1>2, <1>3, <2>1, <2>2, <2>3, <3>1 DEF SlotInv, NotActivated
    <3>3. DeployInv' /\ RollbackInv'
      BY <1>1, <1>2, <1>3, <2>1, <2>3, <3>1
      DEF DeployInv, RollbackInv, Drained, AfterActivation, Last
    <3>. QED
      BY <3>1, <3>2, <3>3 DEF IInv
  <2>5. CASE Raises
    BY <1>2, <1>3, <1>4, <1>5, <2>2, <2>5, EndedRaises
  <2>. QED
    BY <1>5, <2>4, <2>5 DEF Command
<1>6. CASE at = 2 /\ EndsAs("candidate", "active") /\ Command
  <2>1. /\ workers["old"] = "stopped" /\ workers["candidate"] # "active" /\ role.owner # "candidate"
    BY <1>1, <1>2, <1>6 DEF SlotInv, NotActivated
  <2>2. hold["candidate"] = 0
    BY <1>1, <1>4, <2>1 DEF PlantInv
  <2>3. /\ workers'["candidate"] = "active" /\ workers'["old"] = "stopped" /\ role' = role
        /\ hold'["old"] = hold["old"] /\ attempt'["old"] = attempt["old"]
        /\ ("old" \in killed' <=> "old" \in killed)
    BY <1>1, <1>4, <1>6, <2>1, <2>2, EndedLeaves
  <2>4. OneSlotWorks'
    BY <2>3 DEF OneSlotWorks
  <2>5. CASE NextCommand
    <3>1. /\ mode' = mode /\ step' = step /\ run' = run /\ at' = 3
          /\ DeployTypeOK' /\ StepInv' /\ PlantInv' /\ FilesInv'
      BY <1>2, <1>4, <1>6, <2>5, EndedContinues
    <3>2. SlotInv'
      BY <1>2, <1>3, <2>3, <2>4, <3>1 DEF SlotInv, NotActivated
    <3>3. DeployInv' /\ RollbackInv'
      BY <1>1, <1>2, <1>3, <2>1, <2>3, <3>1
      DEF DeployInv, RollbackInv, Drained, AfterActivation, Last
    <3>. QED
      BY <3>1, <3>2, <3>3 DEF IInv
  <2>6. CASE Raises
    BY <1>2, <1>3, <1>4, <1>6, <2>4, <2>6, EndedRaises
  <2>. QED
    BY <1>6, <2>5, <2>6 DEF Command
<1>7. CASE /\ at = 3 /\ RowShows("candidate", "active", OldEpoch + 1) /\ Returns(locals)
           /\ UNCHANGED <<workers, hold, role, attempt, killed>>
  <2>1. /\ locals \in Locals /\ locals.gateway = run.gateway
        /\ locals.admission_paused = run.admission_paused
        /\ locals.candidate_epoch = OldEpoch + 1
    <3>1. OldEpoch + 1 \in Nat
      BY DeploymentAssumption
    <3>. QED
      BY <1>3, <3>1 DEF Locals
  <2>2. /\ mode' = "deploy" /\ at' = 1 /\ run' = locals /\ step' = "stable_origin_smoke" /\ StepInv'
    BY <1>1, <1>2, <1>3, <1>7, <2>1, ReturnedForward, Sequence DEF Locals
  <2>3. DeployTypeOK'
    BY <1>1, <1>2, <1>7, <2>1, <2>2 DEF DeployTypeOK, DeploymentStepName, DeploySteps
  <2>4. role.owner = "candidate" /\ role.epoch = OldEpoch + 1
    BY <1>7 DEF RowShows
  <2>5. workers["old"] = "stopped" /\ workers["candidate"] = "active" /\ "old" \notin killed
    BY <1>1, <1>2, <1>3, <1>7, <2>4 DEF SlotInv, DeployInv
  <2>6. PlantInv' /\ FilesInv'
    BY <1>1, <1>2, <1>3, <1>7, <2>1, <2>2, <2>4, DeploymentAssumption DEF PlantInv, FilesInv
  <2>7. SlotInv'
    BY <1>1, <1>2, <1>3, <1>7, <2>1, <2>2 DEF SlotInv, NotActivated, OneSlotWorks
  <2>8. DeployInv' /\ RollbackInv'
    BY <1>7, <2>2, <2>4, <2>5, DeploymentAssumption DEF DeployInv, RollbackInv
  <2>. QED
    BY <2>2, <2>3, <2>6, <2>7, <2>8 DEF IInv
<1>. QED
  BY <1>2, <1>5, <1>6, <1>7

LEMMA RollbackOldActivationKeeps == ASSUME IInv, RollbackOldActivation PROVE IInv'
<1>1. DeployTypeOK /\ StepInv /\ PlantInv /\ SlotInv /\ FilesInv /\ RollbackInv
  BY DEF IInv
<1>2. /\ step = "rollback_old_activation" /\ UNCHANGED <<include, running, api, crashes>>
      /\ \/ at = 1 /\ EndsAs("candidate", "stopped") /\ Command
         \/ at = 2 /\ EndsAs("old", "active") /\ Command
         \/ /\ at = 3 /\ RowShows("old", "active", AuthorityEpoch + 1) /\ Returns(run)
            /\ UNCHANGED <<workers, hold, role, attempt, killed>>
  BY DEF RollbackOldActivation, Promote, EndsAs, gatewayVars
<1>3. mode = "rollback" /\ run.gateway /\ run \in Locals
  BY <1>1, <1>2 DEF DeployTypeOK, StepInv, BeforeSwitch, AfterActivation, AbortSteps, Last
<1>4. "old" \in Slots /\ "candidate" \in Slots /\ AuthorityEpoch \in Nat /\ role.epoch \in Nat
  BY <1>1, <1>3, DeploymentAssumption
  DEF Slots, AuthorityEpoch, Locals, DeployTypeOK, RoleRecord
<1>5. CASE at = 1 /\ EndsAs("candidate", "stopped") /\ Command
  <2>1. /\ workers'["candidate"] = "stopped" /\ workers'["old"] = workers["old"]
        /\ role'.owner \in {role.owner, "none"} /\ role'.epoch = role.epoch
        /\ hold'["candidate"] = 0
        /\ attempt["candidate"] # "running" => attempt' = attempt
    BY <1>1, <1>4, <1>5, EndedLeaves
  <2>2. OneSlotWorks'
    BY <2>1 DEF OneSlotWorks
  <2>3. CASE NextCommand
    <3>1. /\ mode' = mode /\ step' = step /\ run' = run /\ at' = 2
          /\ DeployTypeOK' /\ StepInv' /\ PlantInv' /\ FilesInv'
      BY <1>2, <1>4, <1>5, <2>3, EndedContinues
    <3>2. SlotInv'
      BY <1>2, <1>3, <2>1, <2>2, <3>1 DEF SlotInv, NotActivated
    <3>3. (Overtaken => Overtaken') /\ (Lost => Lost')
      BY <2>1, <3>1 DEF Overtaken, Lost, AuthorityEpoch
    <3>4. DeployInv' /\ RollbackInv'
      BY <1>1, <1>2, <1>3, <2>1, <3>1, <3>3 DEF DeployInv, RollbackInv, Last
    <3>. QED
      BY <3>1, <3>2, <3>4 DEF IInv
  <2>4. CASE Raises
    BY <1>2, <1>3, <1>4, <1>5, <2>2, <2>4, EndedRaises
  <2>. QED
    BY <1>5, <2>3, <2>4 DEF Command
<1>6. CASE at = 2 /\ EndsAs("old", "active") /\ Command
  <2>1. workers["candidate"] = "stopped"
    BY <1>1, <1>2, <1>6 DEF SlotInv
  <2>2. hold["candidate"] = 0
    BY <1>1, <1>4, <2>1 DEF PlantInv
  <2>3. /\ workers'["old"] = "active" /\ workers'["candidate"] = "stopped"
        /\ role'.owner \in {role.owner, "none"} /\ role'.epoch = role.epoch
        /\ hold'["candidate"] = 0 /\ attempt'["candidate"] = attempt["candidate"]
    BY <1>1, <1>4, <1>6, <2>1, <2>2, EndedLeaves
  <2>4. OneSlotWorks'
    BY <2>3 DEF OneSlotWorks
  <2>5. CASE NextCommand
    <3>1. /\ mode' = mode /\ step' = step /\ run' = run /\ at' = 3
          /\ DeployTypeOK' /\ StepInv' /\ PlantInv' /\ FilesInv'
      BY <1>2, <1>4, <1>6, <2>5, EndedContinues
    <3>2. SlotInv'
      BY <1>2, <1>3, <2>3, <2>4, <3>1 DEF SlotInv, NotActivated
    <3>3. (Overtaken => Overtaken') /\ (Lost => Lost')
      BY <2>3, <3>1 DEF Overtaken, Lost, AuthorityEpoch
    <3>4. DeployInv' /\ RollbackInv'
      BY <1>1, <1>2, <1>3, <2>3, <3>1, <3>3 DEF DeployInv, RollbackInv, Last
    <3>. QED
      BY <3>1, <3>2, <3>4 DEF IInv
  <2>6. CASE Raises
    BY <1>2, <1>3, <1>4, <1>6, <2>4, <2>6, EndedRaises
  <2>. QED
    BY <1>6, <2>5, <2>6 DEF Command
<1>7. CASE /\ at = 3 /\ RowShows("old", "active", AuthorityEpoch + 1) /\ Returns(run)
           /\ UNCHANGED <<workers, hold, role, attempt, killed>>
  <2>1. /\ mode' = "rollback" /\ at' = 1 /\ run' = run /\ step' = "rollback_fail_lost_attempts" /\ StepInv'
    BY <1>1, <1>2, <1>3, <1>7, ReturnedBack, RecoverySequence
  <2>2. DeployTypeOK'
    BY <1>1, <1>2, <1>3, <1>7, <2>1 DEF DeployTypeOK, DeploymentStepName, RollbackSteps
  <2>3. role.owner = "old" /\ role.epoch = AuthorityEpoch + 1 /\ ~Overtaken
    BY <1>4, <1>7 DEF RowShows, Overtaken
  <2>4. workers["candidate"] = "stopped" /\ workers["old"] = "active" /\ (run.ok => Lost)
    BY <1>1, <1>2, <1>3, <1>7, <2>3 DEF SlotInv, RollbackInv
  <2>5. PlantInv' /\ SlotInv' /\ FilesInv'
    BY <1>1, <1>2, <1>3, <1>7, <2>1 DEF PlantInv, SlotInv, FilesInv, NotActivated, OneSlotWorks
  <2>6. AuthorityEpoch' = AuthorityEpoch /\ (Lost => Lost')
    BY <1>7, <2>1 DEF AuthorityEpoch, Lost
  <2>7. DeployInv' /\ RollbackInv'
    BY <1>4, <1>7, <2>1, <2>3, <2>4, <2>6 DEF DeployInv, RollbackInv, Last
  <2>. QED
    BY <2>1, <2>2, <2>5, <2>7 DEF IInv
<1>. QED
  BY <1>2, <1>5, <1>6, <1>7

LEMMA RollbackCandidateFencedKeeps == ASSUME IInv, RollbackCandidateFenced PROVE IInv'
<1>1. DeployTypeOK /\ StepInv /\ PlantInv /\ SlotInv /\ FilesInv /\ RollbackInv
  BY DEF IInv
<1>2. /\ step = "rollback_candidate_fenced" /\ UNCHANGED <<include, running, api, crashes>>
      /\ \/ at = 1 /\ EndsAs("candidate", "stopped") /\ Command
         \/ /\ at = 2 /\ Returns(run)
            /\ role' = IF role.owner = "candidate" THEN [role EXCEPT !.live = FALSE] ELSE role
            /\ attempt' = [attempt EXCEPT !["candidate"] = IF @ = "orphaned" THEN "expired" ELSE @]
            /\ UNCHANGED <<workers, hold, killed>>
  BY DEF RollbackCandidateFenced, EndsAs, gatewayVars
<1>3. mode = "rollback" /\ run.gateway /\ run \in Locals
  BY <1>1, <1>2 DEF DeployTypeOK, StepInv, BeforeSwitch, AfterActivation, AbortSteps, Last
<1>4. "old" \in Slots /\ "candidate" \in Slots
  BY DEF Slots
<1>5. CASE at = 1 /\ EndsAs("candidate", "stopped") /\ Command
  <2>1. /\ workers'["candidate"] = "stopped" /\ workers'["old"] = workers["old"]
        /\ attempt'["candidate"] # "running"
    BY <1>1, <1>4, <1>5, EndedLeaves
  <2>2. OneSlotWorks'
    BY <2>1 DEF OneSlotWorks
  <2>3. CASE NextCommand
    <3>1. /\ mode' = mode /\ step' = step /\ run' = run /\ at' = 2
          /\ DeployTypeOK' /\ StepInv' /\ PlantInv' /\ FilesInv'
      BY <1>2, <1>4, <1>5, <2>3, EndedContinues
    <3>2. SlotInv'
      BY <1>2, <1>3, <2>1, <2>2, <3>1 DEF SlotInv, NotActivated
    <3>3. DeployInv' /\ RollbackInv'
      BY <1>2, <1>3, <3>1 DEF DeployInv, RollbackInv, Last
    <3>. QED
      BY <3>1, <3>2, <3>3 DEF IInv
  <2>4. CASE Raises
    BY <1>2, <1>3, <1>4, <1>5, <2>2, <2>4, EndedRaises
  <2>. QED
    BY <1>5, <2>3, <2>4 DEF Command
<1>6. CASE /\ at = 2 /\ Returns(run)
           /\ role' = IF role.owner = "candidate" THEN [role EXCEPT !.live = FALSE] ELSE role
           /\ attempt' = [attempt EXCEPT !["candidate"] = IF @ = "orphaned" THEN "expired" ELSE @]
           /\ UNCHANGED <<workers, hold, killed>>
  <2>1. /\ mode' = "rollback" /\ at' = 1 /\ run' = run /\ step' = "rollback_old_activation" /\ StepInv'
    BY <1>1, <1>2, <1>3, <1>6, ReturnedBack, RecoverySequence
  <2>2. workers["candidate"] = "stopped" /\ attempt["candidate"] # "running"
    BY <1>1, <1>2, <1>6 DEF SlotInv
  <2>3. hold["candidate"] = 0
    BY <1>1, <1>4, <2>2 DEF PlantInv
  <2>4. /\ role' \in RoleRecord /\ role'.owner = role.owner /\ role'.epoch = role.epoch
        /\ role.owner # "candidate" => role' = role
    BY <1>1, <1>6 DEF DeployTypeOK, RoleRecord
  <2>5. /\ attempt' \in [Slots -> {"none", "running", "orphaned", "expired"}] /\ Lost'
    BY <1>1, <1>4, <1>6, <2>2 DEF DeployTypeOK, Lost
  <2>6. DeployTypeOK'
    BY <1>1, <1>2, <1>3, <1>6, <2>1, <2>4, <2>5 DEF DeployTypeOK, DeploymentStepName, RollbackSteps
  <2>7. PlantInv'
    BY <1>1, <1>6, <2>1, <2>3, <2>4 DEF PlantInv
  <2>8. SlotInv' /\ FilesInv'
    BY <1>1, <1>2, <1>3, <1>6, <2>1 DEF SlotInv, FilesInv, NotActivated, OneSlotWorks
  <2>9. DeployInv' /\ RollbackInv'
    BY <1>6, <2>1, <2>3, <2>5 DEF DeployInv, RollbackInv, Last
  <2>. QED
    BY <2>1, <2>6, <2>7, <2>8, <2>9 DEF IInv
<1>. QED
  BY <1>2, <1>5, <1>6
-----------------------------------------------------------------------------
(* The theorems. *)

LEMMA InitIInv == ASSUME Init PROVE IInv
<1>1. DeployTypeOK
  BY DeploymentAssumption
  DEF Init, DeployTypeOK, DeploymentStepName, DeploySteps, Locals, Gateway, Slots, RoleRecord
<1>2. StepInv
  BY DEF Init, StepInv, BeforeSwitch, BeforePause
<1>3. PlantInv /\ SlotInv
  BY DeploymentAssumption
  DEF Init, PlantInv, SlotInv, OneSlotWorks, NotActivated, Slots
<1>4. FilesInv /\ DeployInv /\ RollbackInv
  BY DEF Init, FilesInv, DeployInv, RollbackInv, AfterActivation, Last
<1>. QED
  BY <1>1, <1>2, <1>3, <1>4 DEF IInv

LEMMA NextIInv == ASSUME IInv, [Next]_vars PROVE IInv'
<1>1. CASE Forward
  BY <1>1, StartCandidateStandbyKeeps, QueueContractKeeps, PauseAdmissionKeeps, OldWorkersDrainingKeeps,
     GatewaySwitchKeeps, CandidateActivationKeeps, StopOldComputeKeeps, ResumeAdmissionKeeps
  DEF Forward
<1>2. CASE Recover
  BY <1>2, AbortOldWorkersActiveKeeps, RollbackGatewayKeeps, RollbackCandidateDrainingKeeps,
     RollbackCandidateFencedKeeps, RollbackOldActivationKeeps, RollbackFailLostAttemptsKeeps
  DEF Recover
<1>3. CASE Executors
  BY <1>3, ActivateKeeps, ExecutorsKeep, CrashKeeps, LeaseKeeps DEF Executors
<1>4. CASE UNCHANGED vars
  BY <1>4
  DEF vars, gatewayVars, plantVars, IInv, DeployTypeOK, StepInv, PlantInv, SlotInv, FilesInv,
      DeployInv, RollbackInv, NotActivated, OneSlotWorks, Drained, Overtaken, AuthorityEpoch, Lost
<1>. QED
  BY <1>1, <1>2, <1>3, <1>4, ReadsKeeps, FailsKeeps DEF Next, Choreographer

LEMMA ReleaseInvariant == Spec => []IInv
  BY InitIInv, NextIInv, PTL DEF Spec

\* Every variable of a release keeps its type (DeployTypeOK).
THEOREM DeployTypeCorrect == Spec => []DeployTypeOK
<1>1. IInv => DeployTypeOK
  BY DEF IInv
<1>. QED
  BY <1>1, ReleaseInvariant, PTL

\* Whatever command of the choreographer fails, before or after its effect, the
\* executors of both slots are never up together (OneSlotWorks).
THEOREM SlotsExclude == Spec => []OneSlotWorks
<1>1. IInv => OneSlotWorks
  BY DEF IInv, SlotInv
<1>. QED
  BY <1>1, ReleaseInvariant, PTL

\* Before the gateway has switched no Attempt was cut off and the candidate never
\* held the role (DrainBeforeSwitch).
THEOREM SwitchAfterDrain == Spec => []DrainBeforeSwitch
<1>1. IInv => DrainBeforeSwitch
  BY DEF IInv, SlotInv, NotActivated, DrainBeforeSwitch
<1>. QED
  BY <1>1, ReleaseInvariant, PTL

LEMMA Outcomes ==
    ASSUME DeployTypeOK
    PROVE  /\ DeploymentOutcome = "DEPLOYED" => mode = "deploy" /\ step = "done"
           /\ DeploymentOutcome = "ROLLED_BACK" => mode = "rollback" /\ step = "done" /\ run.ok
<1>1. step # "done" => DeploymentOutcome = "NONE"
  BY DEF DeploymentOutcome
<1>2. step = "done" /\ mode = "deploy" => DeploymentOutcome = "DEPLOYED"
  BY DEF DeploymentOutcome
<1>3. step = "done" /\ mode = "abort" => DeploymentOutcome = IF run.ok THEN "ABORTED" ELSE "ABORT_FAILED"
  BY DEF DeploymentOutcome
<1>4. step = "done" /\ mode = "rollback" =>
        DeploymentOutcome = IF run.ok THEN "ROLLED_BACK" ELSE "ROLLBACK_FAILED"
  BY DEF DeploymentOutcome
<1>5. mode \in {"deploy", "abort", "rollback"}
  BY DEF DeployTypeOK
<1>. QED
  BY <1>1, <1>2, <1>3, <1>4, <1>5

\* The outcome DEPLOYED is true of the gateway, the containers and the role, for
\* any number of executor crashes (DeployedIsTrue).
THEOREM DeployedHolds == Spec => []DeployedIsTrue
<1>1. ASSUME IInv PROVE DeployedIsTrue
  <2>. SUFFICES ASSUME DeploymentOutcome = "DEPLOYED" PROVE DeployedIsTrue
    BY DEF DeployedIsTrue
  <2>1. mode = "deploy" /\ step = "done"
    BY <1>1, Outcomes DEF IInv
  <2>2. run.gateway /\ step \in AfterActivation
    BY <1>1, <2>1 DEF IInv, StepInv, BeforeSwitch, AfterActivation, Last
  <2>3. include = [slot |-> "candidate", admission |-> "open"] /\ running = include
    BY <1>1, <2>1, <2>2 DEF IInv, FilesInv, DeployTypeOK, Gateway
  <2>4. workers = [s \in Slots |-> IF s = "old" THEN "stopped" ELSE "active"]
    BY <1>1, <2>1, <2>2 DEF IInv, DeployInv, DeployTypeOK, Slots
  <2>. QED
    BY <1>1, <2>1, <2>2, <2>3, <2>4 DEF IInv, DeployInv, DeployedIsTrue
<1>. QED
  BY <1>1, ReleaseInvariant, PTL

\* The outcome ROLLED_BACK is true of the gateway, the containers, the role and
\* the candidate's Attempts (RolledBackIsTrue).
THEOREM RolledBackHolds == Spec => []RolledBackIsTrue
<1>1. ASSUME IInv PROVE RolledBackIsTrue
  <2>. SUFFICES ASSUME DeploymentOutcome = "ROLLED_BACK" PROVE RolledBackIsTrue
    BY DEF RolledBackIsTrue
  <2>1. mode = "rollback" /\ step = "done" /\ run.ok
    BY <1>1, Outcomes DEF IInv
  <2>2. include = [slot |-> "old", admission |-> "open"] /\ running = include
    BY <1>1, <2>1 DEF IInv, FilesInv, DeployTypeOK, Gateway
  <2>3. /\ workers["old"] = "active" /\ workers["candidate"] = "stopped"
        /\ role.owner # "candidate" /\ role.epoch > AuthorityEpoch
        /\ attempt["candidate"] = "none"
    BY <1>1, <2>1 DEF IInv, RollbackInv, Last
  <2>4. workers = [s \in Slots |-> IF s = "old" THEN "active" ELSE "stopped"]
    BY <1>1, <2>3 DEF IInv, DeployTypeOK, Slots
  <2>. QED
    BY <2>2, <2>3, <2>4 DEF RolledBackIsTrue
<1>. QED
  BY <1>1, ReleaseInvariant, PTL

\* A change of "live" is an expiry or a late renewal.
LEMMA LeasedRow ==
    ASSUME DeployTypeOK, NEW no \in BOOLEAN, role' = [role EXCEPT !.live = no]
    PROVE  /\ role.live /\ no = FALSE => Row!Expire
           /\ ~role.live /\ role.state # "standby" /\ no = TRUE => Row!LateRenewal
<1>1. role \in RoleRecord
  BY DEF DeployTypeOK
<1>2. role'.owner = role.owner /\ role'.state = role.state /\ role'.live = no
  BY <1>1 DEF RoleRecord
<1>3. [owner |-> role'.owner, state |-> role'.state, live |-> role'.live]
        = [owner |-> role.owner, state |-> role.state, live |-> no]
  BY <1>2
<1>. DEFINE shown == [owner |-> role.owner, state |-> role.state, live |-> role.live]
<1>4. /\ shown \in [owner : {role.owner}, state : {role.state}, live : {role.live}]
      /\ shown.owner = role.owner /\ shown.state = role.state
  OBVIOUS
<1>6. [shown EXCEPT !.live = no] = [owner |-> role.owner, state |-> role.state, live |-> no]
  <2>. HIDE DEF shown
  <2>. QED
    BY <1>4
<1>. QED
  BY <1>3, <1>6 DEF Row!Expire, Row!LateRenewal, shown

LEMMA EndedRow ==
    ASSUME IInv, NEW s \in Slots, NEW container, EndsAs(s, container)
    PROVE  \/ Row!Next
           \/ UNCHANGED <<role.owner, role.state, role.live>>
<1>1. \/ role' = role
      \/ hold[s] # 0 /\ role' = [role EXCEPT !.owner = "none", !.state = "standby", !.live = FALSE]
  BY DEF EndsAs, Ended
<1>2. hold[s] # 0 => role.state # "standby"
  BY DEF IInv, PlantInv
<1>3. role \in RoleRecord
  BY DEF IInv, DeployTypeOK
<1>4. CASE role' = role
  BY <1>4
<1>5. CASE hold[s] # 0 /\ role' = [role EXCEPT !.owner = "none", !.state = "standby", !.live = FALSE]
  <2>1. Row!Release
    BY <1>2, <1>3, <1>5 DEF Row!Release, Row!Standby, RoleRecord
  <2>. QED
    BY <2>1 DEF Row!Next
<1>. QED
  BY <1>1, <1>4, <1>5

\* The choreographer's signals, stops and fencing, and the executors' own steps,
\* change the role row only as module RoleRow has it (RowSteps).
THEOREM RowStepsHold == Spec => RowSteps
<1>. DEFINE row == <<role.owner, role.state, role.live>>
<1>1. ASSUME IInv, [Next]_vars PROVE [Row!Next]_row
  <2>1. role \in RoleRecord
    BY <1>1 DEF IInv, DeployTypeOK
  <2>2. ASSUME NEW s \in Slots, Activate(s) PROVE Row!Next
    <3>1. Row!Activate(s)
      BY <2>1, <2>2 DEF Activate, Row!Activate, RoleRecord
    <3>. QED
      BY <3>1 DEF Row!Next
  <2>3. ASSUME RoleLapses PROVE Row!Next
    <3>1. Row!Expire
      BY <1>1, <2>3, LeasedRow DEF RoleLapses, IInv
    <3>. QED
      BY <3>1 DEF Row!Next
  <2>13. ASSUME NEW s \in Slots, RenewedLate(s) PROVE Row!Next
    <3>1. Row!LateRenewal
      BY <1>1, <2>13, LeasedRow DEF RenewedLate, IInv, PlantInv
    <3>. QED
      BY <3>1 DEF Row!Next
  <2>4. ASSUME NEW s \in Slots, Signalled(s, "active", "draining") \/ Signalled(s, "draining", "active")
        PROVE  Row!Next \/ UNCHANGED row
    <3>1. Row!Drain \/ Row!Resume \/ role' = role
      BY <2>1, <2>4 DEF Signalled, Row!Drain, Row!Resume, RoleRecord
    <3>. QED
      BY <3>1 DEF Row!Next
  <2>5. ASSUME RollbackCandidateFenced PROVE Row!Next \/ UNCHANGED row
    <3>1. \/ EndsAs("candidate", "stopped")
          \/ role' = role
          \/ role' = [role EXCEPT !.live = FALSE]
      BY <2>5 DEF RollbackCandidateFenced, EndsAs
    <3>2. role' = [role EXCEPT !.live = FALSE] => Row!Expire \/ UNCHANGED row
      <4>1. ~role.live => [role EXCEPT !.live = FALSE] = role
        BY <2>1 DEF RoleRecord
      <4>. QED
        BY <1>1, <4>1, LeasedRow DEF IInv
    <3>. QED
      BY <1>1, <3>1, <3>2, EndedRow DEF Row!Next, Slots
  <2>6. ASSUME CandidateActivation \/ RollbackOldActivation PROVE Row!Next \/ UNCHANGED row
    <3>1. \/ EndsAs("candidate", "stopped") \/ EndsAs("candidate", "active")
          \/ EndsAs("old", "stopped") \/ EndsAs("old", "active") \/ role' = role
      BY <2>6 DEF CandidateActivation, RollbackOldActivation, Promote, EndsAs
    <3>. QED
      BY <1>1, <3>1, EndedRow DEF Slots
  <2>7. ASSUME OldWorkersDraining \/ AbortOldWorkersActive \/ RollbackCandidateDraining
        PROVE  Row!Next \/ UNCHANGED row
    <3>1. \/ \E s \in Slots : Signalled(s, "active", "draining") \/ Signalled(s, "draining", "active")
          \/ role' = role
      BY <2>7
      DEF OldWorkersDraining, AbortOldWorkersActive, RollbackCandidateDraining, SignalAndWait, Slots
    <3>. QED
      BY <2>4, <3>1
  <2>8. ASSUME \/ Reads \/ Fails \/ StartCandidateStandby \/ QueueContract \/ PauseAdmission
               \/ GatewaySwitch \/ StopOldCompute \/ ResumeAdmission \/ RollbackGateway
               \/ RollbackFailLostAttempts
        PROVE  role' = role
    BY <2>8
    DEF Reads, Fails, StartCandidateStandby, QueueContract, PauseAdmission, GatewaySwitch, StopOldCompute,
        ResumeAdmission, RollbackGateway, RollbackFailLostAttempts, SetAdmission, SwitchGateway, plantVars
  <2>9. ASSUME NEW s \in Slots, ClaimNext(s) \/ Finish(s) \/ Crash(s) \/ AttemptLapses(s) \/ Reap(s)
        PROVE  role' = role
    BY <2>9 DEF ClaimNext, Finish, Crash, AttemptLapses, Reap
  <2>10. CASE UNCHANGED vars
    BY <2>10 DEF vars, plantVars
  <2>11. CASE Choreographer
    BY <2>5, <2>6, <2>7, <2>8, <2>11 DEF Choreographer, Forward, Recover
  <2>12. CASE Executors
    BY <2>2, <2>3, <2>9, <2>12, <2>13 DEF Executors
  <2>. QED
    BY <1>1, <2>10, <2>11, <2>12 DEF Next
<1>. QED
  BY <1>1, ReleaseInvariant, PTL DEF Spec, RowSteps
=============================================================================
