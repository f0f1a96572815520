------------------------------ MODULE Deployment ------------------------------
(* Cloud deployments (cloud/deployment.ts, cloud/oci/client.ts and the routes   *)
(* of api/infrastructure.ts): one state machine per deployment drives a cloud   *)
(* instance from launch to a model endpoint, on a record that survives a crash. *)
(*                                                                              *)
(* A machine stands at the await it waits for.  The cloud is a sequence of      *)
(* instances, each with the deployment's token in its name.  Every deployment   *)
(* reaches its instance through the one tunnel port: a probe is answered when   *)
(* any instance runs.                                                           *)
EXTENDS Naturals, Sequences, FiniteSets

CONSTANTS DpIds,        \* deployments
          MaxMachines,  \* bound: state machines ever run
          MaxInstances, \* bound: instances ever created
          MaxDpLives    \* bound: processes

\* The store holds finitely many deployments.
ASSUME DpIdsAssumption == IsFiniteSet(DpIds)

VARIABLES
  dpRec,    \* the store: state, instanceId; "none" before start, "gone" once lost
  dpMach,   \* machines: of, pc, inst (their rec.instanceId)
  dpAsked,  \* cancelled: the state each cancel was acknowledged in
  dpCloud,  \* instances: token, state
  dpUp,     \* resumeAll has run in this process
  dpLives,  \* processes so far
  dpMixed,  \* ghost: deployments that had two machines at once
  dpLeaked  \* ghost: instances whose termination failed

dpVars == <<dpRec, dpMach, dpAsked, dpCloud, dpUp, dpLives, dpMixed, dpLeaked>>
dpEnv == <<dpUp, dpLives>>

Terminal == {"READY", "FAILED", "CANCELLED"}
NotStored == {"none", "gone"}
DeploymentInit ==
  /\ dpRec = [d \in DpIds |-> [state |-> "none", inst |-> 0]]
  /\ dpMach = <<>> /\ dpCloud = <<>> /\ dpUp = FALSE /\ dpLives = 1
  /\ dpAsked = [d \in DpIds |-> "no"]
  /\ dpMixed = {} /\ dpLeaked = {}

MachinesOf(d) == {m \in DOMAIN dpMach : dpMach[m].of = d /\ dpMach[m].pc # "over"}
MachineAt(m, pc) == m \in DOMAIN dpMach /\ dpMach[m].pc = pc
Mine(m) == dpMach[m].of
Reachable == \E i \in DOMAIN dpCloud : dpCloud[i].state = "running"

(* ----- A step of a machine ------------------------------------------------------ *)
(* patch, and the await the machine stands at next; a record that vanished halts  *)
(* the machine.                                                                   *)
Patch(m, state, inst, pc) ==
  LET d == Mine(m) IN
  IF dpRec[d].state \in NotStored
  THEN dpMach' = [dpMach EXCEPT ![m].pc = "over"] /\ UNCHANGED dpRec
  ELSE /\ dpRec' = [dpRec EXCEPT ![d] = [state |-> state, inst |-> inst]]
       /\ dpMach' = [dpMach EXCEPT ![m].pc = pc, ![m].inst = inst]
Wait(m, pc) == dpMach' = [dpMach EXCEPT ![m].pc = pc] /\ UNCHANGED dpRec
\* Mutant: the boundary before the inference test is not checked.
UncheckedAtHealth(m, A) == IF dpAsked[Mine(m)] # "no" /\ ~MachineAt(m, "HEALTH_CHECK") THEN Wait(m, "unwind") ELSE A
(* throwIfCancelled, then what follows it.                                        *)
Checked(m, A) == IF dpAsked[Mine(m)] # "no" THEN Wait(m, "unwind") ELSE A

(* The instance is known and written down: wait for it to run, or let its         *)
(* bootstrap install, unless a cancel came.                                       *)
KnownAs(m, inst, running) ==
  IF ~running THEN Patch(m, "PREPARING", inst, "poll")
  ELSE IF dpAsked[Mine(m)] # "no" THEN Patch(m, dpRec[Mine(m)].state, inst, "unwind")
  ELSE Patch(m, "INSTALLING_RUNTIME", inst, "INSTALLING_RUNTIME")
Stored(m) == dpRec[Mine(m)].inst

(* ----- Routes ------------------------------------------------------------------- *)
(* start: the record is durable and the machine validates before it returns.      *)
DeploymentStart(d) ==
  /\ dpRec[d].state = "none" /\ Len(dpMach) < MaxMachines
  /\ dpRec' = [dpRec EXCEPT ![d].state = "VALIDATING"]
  /\ dpMach' = Append(dpMach, [of |-> d, pc |-> "validate", inst |-> 0])
  /\ UNCHANGED <<dpAsked, dpCloud, dpEnv, dpMixed, dpLeaked>>
(* cancel                                                                         *)
DeploymentCancel(d) ==
  /\ dpRec[d].state \notin Terminal \cup NotStored
  /\ dpAsked' = [dpAsked EXCEPT ![d] = IF @ = "no" THEN dpRec[d].state ELSE @]
  /\ UNCHANGED <<dpRec, dpMach, dpCloud, dpEnv, dpMixed, dpLeaked>>

(* resumeAll: one machine for every record that is not terminal, those that a     *)
(* deployment of this process already drives included.                            *)
Resumed(d) ==
  LET r == dpRec[d] IN
  [of |-> d, inst |-> r.inst,
   pc |-> IF r.state = "VALIDATING" THEN "validate" ELSE IF r.inst # 0 THEN "lookup" ELSE "list"]
DeploymentBoot(order) ==
  LET open == {d \in DpIds : dpRec[d].state \notin Terminal \cup NotStored} IN
  /\ ~dpUp /\ dpUp' = TRUE
  /\ order \in [1..Cardinality(open) -> open] /\ {order[k] : k \in DOMAIN order} = open
  /\ Len(dpMach) + Len(order) <= MaxMachines
  /\ dpMach' = dpMach \o [k \in DOMAIN order |-> Resumed(order[k])]
  /\ dpMixed' = dpMixed \cup {d \in open : MachinesOf(d) # {}}
  /\ UNCHANGED <<dpRec, dpAsked, dpCloud, dpLives, dpLeaked>>
(* The process is lost, and with it the machines and every cancel.               *)
DeploymentCrash ==
  /\ dpLives < MaxDpLives /\ dpLives' = dpLives + 1 /\ dpUp' = FALSE
  /\ dpMach' = [m \in DOMAIN dpMach |-> [dpMach[m] EXCEPT !.pc = "over"]]
  /\ dpAsked' = [d \in DpIds |-> "no"]
  /\ UNCHANGED <<dpRec, dpCloud, dpMixed, dpLeaked>>
(* A store that cannot be read is an empty one.                                   *)
StoreLost(d) ==
  /\ dpRec[d].state \notin NotStored /\ dpRec' = [dpRec EXCEPT ![d].state = "gone"]
  /\ UNCHANGED <<dpMach, dpAsked, dpCloud, dpEnv, dpMixed, dpLeaked>>

(* ----- The state machine -------------------------------------------------------- *)
CredentialsValidated(m) ==
  /\ MachineAt(m, "validate")
  /\ Checked(m, IF dpMach[m].inst # 0 THEN Wait(m, "lookup") ELSE Patch(m, "PREPARING", Stored(m), "list"))
LookedUp(m) ==
  /\ MachineAt(m, "lookup")
  /\ LET i == dpMach[m].inst IN
     IF dpCloud[i].state = "terminated" THEN Patch(m, "PREPARING", Stored(m), "list")
     ELSE KnownAs(m, Stored(m), dpCloud[i].state = "running")
(* launchInstance looks for a live instance of this token first.                  *)
InstancesListed(m) ==
  /\ MachineAt(m, "list")
  /\ LET mine == {i \in DOMAIN dpCloud : dpCloud[i].token = Mine(m) /\ dpCloud[i].state # "terminated"} IN
     IF mine = {} THEN Wait(m, "create")
     ELSE \E i \in mine : KnownAs(m, i, dpCloud[i].state = "running")
(* The request reached the cloud; its answer is the next step, or is lost.        *)
Created(m) ==
  /\ MachineAt(m, "create") /\ Len(dpCloud) < MaxInstances
  /\ dpCloud' = Append(dpCloud, [token |-> Mine(m), state |-> "provisioning"])
  /\ dpMach' = [dpMach EXCEPT ![m].pc = "answer", ![m].inst = Len(dpCloud) + 1]
  /\ UNCHANGED <<dpRec, dpAsked, dpEnv, dpMixed, dpLeaked>>
InstanceLaunched(m) == MachineAt(m, "answer") /\ KnownAs(m, dpMach[m].inst, FALSE)
(* pollUntilRunning                                                               *)
InstancePolled(m) ==
  /\ MachineAt(m, "poll")
  /\ \/ Checked(m, FALSE)
     \/ dpAsked[Mine(m)] = "no" /\ dpCloud[dpMach[m].inst].state = "running" /\ KnownAs(m, Stored(m), TRUE)
(* waitForRuntimeHealth and the probes between: each is answered by the tunnel.   *)
After == [INSTALLING_RUNTIME |-> "DOWNLOADING_MODEL", DOWNLOADING_MODEL |-> "VERIFYING_MODEL",
          VERIFYING_MODEL |-> "STARTING_SERVER", STARTING_SERVER |-> "HEALTH_CHECK",
          HEALTH_CHECK |-> "INFERENCE_TEST"]
TunnelProbed(m) ==
  /\ m \in DOMAIN dpMach /\ dpMach[m].pc \in DOMAIN After
  /\ Reachable
  /\ LET next == After[dpMach[m].pc] IN Checked(m, Patch(m, next, Stored(m), next))
(* A wait for health is broken off at its next probe.                             *)
WaitBroken(m) ==
  /\ \E pc \in {"INSTALLING_RUNTIME", "DOWNLOADING_MODEL", "STARTING_SERVER"} : MachineAt(m, pc)
  /\ Checked(m, FALSE)
Inferred(m) ==
  /\ MachineAt(m, "INFERENCE_TEST") /\ Reachable
  /\ Patch(m, "CONNECTING_BRAIN", Stored(m), "CONNECTING_BRAIN")
Connected(m) == MachineAt(m, "CONNECTING_BRAIN") /\ Patch(m, "READY", Stored(m), "over")

(* Any await may throw: the deployment fails, the instance is left as it is.      *)
Failed(m) ==
  /\ m \in DOMAIN dpMach /\ dpMach[m].pc \notin {"over", "unwind"}
  /\ Patch(m, "FAILED", Stored(m), "over")
(* The clean-up of a cancelled deployment; a failure of it is swallowed.          *)
Unwound(m, done) ==
  LET i == dpMach[m].inst IN
  /\ MachineAt(m, "unwind") /\ (i = 0 => done) /\ UNCHANGED <<dpAsked, dpEnv, dpMixed>>
  /\ dpCloud' = IF i # 0 /\ done THEN [dpCloud EXCEPT ![i].state = "terminated"] ELSE dpCloud
  /\ dpLeaked' = IF done THEN dpLeaked ELSE dpLeaked \cup {i}
  /\ Patch(m, "CANCELLED", Stored(m), "over")

MachineSteps(m) ==
  /\ \/ CredentialsValidated(m) \/ LookedUp(m) \/ InstancesListed(m) \/ InstanceLaunched(m) \/ InstancePolled(m)
     \/ TunnelProbed(m) \/ WaitBroken(m) \/ Inferred(m) \/ Connected(m) \/ Failed(m)
  /\ UNCHANGED <<dpAsked, dpCloud, dpEnv, dpMixed, dpLeaked>>

(* ----- The cloud ---------------------------------------------------------------- *)
InstanceRuns(i) ==
  /\ dpCloud[i].state = "provisioning" /\ dpCloud' = [dpCloud EXCEPT ![i].state = "running"]
  /\ UNCHANGED <<dpRec, dpMach, dpAsked, dpEnv, dpMixed, dpLeaked>>
InstanceDies(i) ==
  /\ dpCloud[i].state # "terminated" /\ dpCloud' = [dpCloud EXCEPT ![i].state = "terminated"]
  /\ UNCHANGED <<dpRec, dpMach, dpAsked, dpEnv, dpMixed, dpLeaked>>

DeploymentNext ==
  \/ \E d \in DpIds : DeploymentStart(d) \/ DeploymentCancel(d) \/ StoreLost(d)
  \/ \E n \in 0..Cardinality(DpIds) : \E order \in [1..n -> DpIds] : DeploymentBoot(order)
  \/ DeploymentCrash
  \/ \E m \in DOMAIN dpMach : MachineSteps(m) \/ Created(m) \/ Unwound(m, TRUE) \/ Unwound(m, FALSE)
  \/ \E i \in DOMAIN dpCloud : InstanceRuns(i) \/ InstanceDies(i)

DeploymentSpec == DeploymentInit /\ [][DeploymentNext]_dpVars
-----------------------------------------------------------------------------

\* A cancellation acknowledged before the inference test is honoured, whatever
\* await it falls into.
EarlyCancelHonoured ==
  \A d \in DpIds : dpRec[d].state = "READY" /\ d \notin dpMixed =>
    dpAsked[d] \in {"no", "INFERENCE_TEST", "CONNECTING_BRAIN"}

\* The launch is idempotent: over crashes and resumptions, a deployment driven
\* by one machine at a time has at most one live instance.
OneInstance ==
  \A d \in DpIds : d \notin dpMixed =>
    Cardinality({i \in DOMAIN dpCloud : dpCloud[i].token = d /\ dpCloud[i].state # "terminated"}) <= 1

\* "Cancelled by the user; the instance was terminated": nothing of the
\* deployment is left in the cloud, unless the termination failed.
CancelCleansUp ==
  \A d \in DpIds : dpRec[d].state = "CANCELLED" /\ d \notin dpMixed =>
    \A i \in DOMAIN dpCloud : dpCloud[i].token = d /\ i \notin dpLeaked => dpCloud[i].state = "terminated"

\* Nothing runs in the cloud that nobody asked for: one instance at most, none
\* after a cancellation, and no deployment goes on over one (deployment.ts).
CloudIsAsAsked == EarlyCancelHonoured /\ OneInstance /\ CancelCleansUp
=============================================================================
