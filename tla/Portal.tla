--------------------------------- MODULE Portal ---------------------------------
(***************************************************************************)
(* The portal that owns the worker VMs, as CheckStatusCluster,             *)
(* CheckErrorStatusCluster, PerformScaleUp and PerformScaleDown            *)
(* (core/utils/utils.go) use it: the cluster has a status, a scale request *)
(* starts a job, one job runs at a time, and a job ends in SUCCEEDED or in *)
(* ERROR.  Besides the auto repairer, the auto scaler posts requests.      *)
(*                                                                         *)
(* The answer to a status query need not show the status: it may be no     *)
(* JSON, a 401 (the token is read once per call and expires), a list of 25 *)
(* without the cluster, or a status that the code does not know.  Both     *)
(* checks then return FALSE.                                               *)
(***************************************************************************)
EXTENDS Integers, FiniteSets

CONSTANTS
    Workers,      \* names of worker nodes, used or not
    MinSize,      \* min_node_group_size of autoscaling-configmap
    MaxSize,      \* max_node_group_size of autoscaling-configmap
    MaxAutoJobs,  \* bound: jobs of the auto scaler
    MaxFailures,  \* bound: jobs that end in ERROR
    MayLapse,     \* whether answers may fail to show the status
    NoJob         \* not a job

ASSUME PortalAssumption ==
    /\ IsFiniteSet(Workers)
    /\ MinSize \in Nat /\ MaxSize \in Nat
    /\ MaxAutoJobs \in Nat /\ MaxFailures \in Nat
    /\ MayLapse \in BOOLEAN

\* "own" tells the jobs of the replacement under way from everyone else's.
Job == [kind : {"up", "down"}, worker : Workers, own : BOOLEAN]

ASSUME NoJobAssumption == NoJob \notin Job

VARIABLES
    workers,    \* the worker nodes there are
    status,     \* the status of the cluster
    readable,   \* whether the answers show it
    job,        \* the job that runs, NoJob unless status is SCALING
    autoJobs,   \* jobs of the auto scaler so far
    failures    \* failed jobs so far

portalVars == <<workers, status, readable, job, autoJobs, failures>>

Statuses == {"SUCCEEDED", "SCALING", "ERROR"}

PortalTypeOK ==
    /\ workers \subseteq Workers
    /\ status \in Statuses /\ readable \in BOOLEAN
    /\ job \in Job \union {NoJob}
    /\ autoJobs \in 0 .. MaxAutoJobs /\ failures \in 0 .. MaxFailures

PortalInit ==
    /\ workers \in SUBSET Workers
    /\ status = "SUCCEEDED" /\ readable = TRUE
    /\ job = NoJob
    /\ autoJobs = 0 /\ failures = 0

\* CheckStatusCluster and CheckErrorStatusCluster, and a mutant of the latter
Succeeded == readable /\ status = "SUCCEEDED"
InFailure == readable /\ status = "FAILED"
InError == readable /\ status = "ERROR"

Accept(kind, w, own) ==
    /\ status # "SCALING"
    /\ status' = "SCALING"
    /\ job' = [kind |-> kind, worker |-> w, own |-> own]
    /\ UNCHANGED workers

\* PerformScaleUp with a worker count of one.  Whether the portal started the
\* job or refused it is in the response, which the caller does not look at.
PerformScaleUp ==
    /\ \/ \E w \in Workers \ workers : Accept("up", w, TRUE)
       \/ UNCHANGED <<workers, status, job>>
    /\ UNCHANGED <<readable, autoJobs, failures>>

PerformScaleDown(w) ==
    /\ \/ Accept("down", w, TRUE)
       \/ UNCHANGED <<workers, status, job>>
    /\ UNCHANGED <<readable, autoJobs, failures>>

\* The auto scaler keeps the number of workers within the limits.
AutoScale ==
    /\ autoJobs < MaxAutoJobs /\ status = "SUCCEEDED"
    /\ \/ /\ Cardinality(workers) < MaxSize
          /\ \E w \in Workers \ workers : Accept("up", w, FALSE)
       \/ /\ Cardinality(workers) > MinSize
          /\ \E w \in workers : Accept("down", w, FALSE)
    /\ autoJobs' = autoJobs + 1
    /\ UNCHANGED <<readable, failures>>

Applied(j) ==
    IF j.kind = "up" THEN workers \union {j.worker} ELSE workers \ {j.worker}

JobSucceeds ==
    /\ job # NoJob
    /\ workers' = Applied(job)
    /\ status' = "SUCCEEDED" /\ job' = NoJob
    /\ UNCHANGED <<readable, autoJobs, failures>>

\* A failed job may or may not have done its work.
JobFails ==
    /\ job # NoJob /\ failures < MaxFailures
    /\ workers' \in {workers, Applied(job)}
    /\ status' = "ERROR" /\ job' = NoJob
    /\ failures' = failures + 1
    /\ UNCHANGED <<readable, autoJobs>>

\* The job goes on, but the process that asked for it is gone.
Disown ==
    /\ job' = IF job = NoJob THEN NoJob ELSE [job EXCEPT !.own = FALSE]
    /\ UNCHANGED <<workers, status, readable, autoJobs, failures>>

\* The answers stop showing the status, or show it again.
Lapse ==
    /\ MayLapse
    /\ readable' = ~readable
    /\ UNCHANGED <<workers, status, job, autoJobs, failures>>
=============================================================================
