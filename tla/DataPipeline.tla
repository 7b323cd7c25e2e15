---------------------------- MODULE DataPipeline ----------------------------
(***************************************************************************)
(* The jobs of the analytics pipeline (data-pipeline.service): started by  *)
(* an administrator, at work in the background on the metrics table,       *)
(* paused and resumed in between.  A job works through UNITS units: the    *)
(* batches of an ETL job, the days of a backfill, the buckets of an        *)
(* aggregation.  The table holds one row per bucket (a unique index).      *)
(***************************************************************************)
EXTENDS Integers, Sequences, FiniteSets

CONSTANTS
    UNITS,            \* units of a job
    CUTOFF,           \* a cleanup deletes the rows of the buckets up to this one
    MaxPipelineJobs,  \* bound on jobs started
    MaxPipelineFaults \* bound on errors of the database

VARIABLES
    pipelineJobs,     \* the jobs, in the order they were started
    activeJobs,       \* the map from an id to the job kept under it
    metricRows,       \* the buckets with a row
    sameMillisecond,  \* the kind of job started last, until anything else happens
    overrun,          \* history: units each job finished since it was paused
    pipelineFaults

vars == <<pipelineJobs, activeJobs, metricRows, sameMillisecond, overrun, pipelineFaults>>

JobKinds == {"etl", "backfill", "aggregation", "cleanup"}
Status == {"running", "completed", "failed", "paused"}
JobNumbers == 1 .. Len(pipelineJobs)
Units == 1 .. UNITS

TypeOK ==
    /\ \A j \in JobNumbers : pipelineJobs[j].status \in Status /\ pipelineJobs[j].kind \in JobKinds
    /\ metricRows \subseteq Units

Init ==
    /\ pipelineJobs = <<>> /\ activeJobs = <<>> /\ overrun = <<>>
    /\ metricRows = {} /\ sameMillisecond = "none" /\ pipelineFaults = 0

\* A job's id is its kind and the millisecond: a second one of the same kind in
\* the same millisecond takes the first one's place in the map.
Start(kind, reuse) ==
    LET id == IF reuse THEN pipelineJobs[Len(pipelineJobs)].id ELSE Len(activeJobs) + 1
        number == Len(pipelineJobs) + 1
    IN /\ number <= MaxPipelineJobs
       /\ reuse => sameMillisecond = kind
       /\ pipelineJobs' = Append(pipelineJobs,
              [kind |-> kind, id |-> id, status |-> "running", pc |-> "work", unit |-> 1,
               processed |-> 0, failed |-> 0, found |-> FALSE])
       /\ activeJobs' = IF reuse THEN [activeJobs EXCEPT ![id] = number] ELSE Append(activeJobs, number)
       /\ overrun' = Append(overrun, 0)
       /\ sameMillisecond' = kind
       /\ UNCHANGED <<metricRows, pipelineFaults>>

StartEtlJob(reuse) == Start("etl", reuse)
StartBackfillJob(reuse) == Start("backfill", reuse)
StartAggregationJob(reuse) == Start("aggregation", reuse)
StartCleanupJob(reuse) == Start("cleanup", reuse)

PauseJob(id) ==
    LET j == activeJobs[id] IN
    /\ pipelineJobs[j].status = "running"
    /\ pipelineJobs' = [pipelineJobs EXCEPT ![j].status = "paused"]
    /\ overrun' = [overrun EXCEPT ![j] = 0]
    /\ sameMillisecond' = "none"
    /\ UNCHANGED <<activeJobs, metricRows, pipelineFaults>>

ResumeJob(id) ==
    LET j == activeJobs[id] IN
    /\ pipelineJobs[j].status = "paused"
    /\ pipelineJobs' = [pipelineJobs EXCEPT ![j].status = "running"]
    /\ sameMillisecond' = "none"
    /\ UNCHANGED <<activeJobs, metricRows, overrun, pipelineFaults>>

\* The end of a unit: the next one, the wait of a paused job, or the end of the
\* job, which is COMPLETED also when it was paused during its last unit.  Only the
\* loops of ETL and backfill look at the pause.
UnitDone(job, ok) ==
    LET counted == IF ok THEN [job EXCEPT !.processed = @ + 1, !.unit = @ + 1]
                   ELSE [job EXCEPT !.failed = @ + 1, !.unit = @ + 1]
    IN IF job.unit = UNITS THEN [counted EXCEPT !.status = "completed", !.pc = "done"]
       ELSE IF job.status = "paused" /\ job.kind \in {"etl", "backfill"} THEN [counted EXCEPT !.pc = "wait"]
       ELSE [counted EXCEPT !.pc = "work"]

Working(j, kind) == pipelineJobs[j].kind = kind /\ pipelineJobs[j].pc = "work"

Advance(j, job) ==
    /\ pipelineJobs' = [pipelineJobs EXCEPT ![j] = job]
    /\ overrun' = IF pipelineJobs[j].status = "paused" /\ job.unit > pipelineJobs[j].unit
                  THEN [overrun EXCEPT ![j] = @ + 1] ELSE overrun
    /\ sameMillisecond' = "none"
    /\ UNCHANGED activeJobs

ProcessEtlBatch(j) ==
    /\ Working(j, "etl")
    /\ Advance(j, UnitDone(pipelineJobs[j], TRUE))
    /\ UNCHANGED <<metricRows, pipelineFaults>>

\* Mutant: the unit before the pause is done again.
WaitRepeats(j) ==
    /\ pipelineJobs[j].pc = "wait"
    /\ pipelineJobs[activeJobs[pipelineJobs[j].id]].status # "paused"
    /\ Advance(j, [pipelineJobs[j] EXCEPT !.pc = "work", !.unit = @ - 1])
    /\ UNCHANGED <<metricRows, pipelineFaults>>

\* waitForResume looks the job up by its id.
WaitForResume(j) ==
    /\ pipelineJobs[j].pc = "wait"
    /\ pipelineJobs[activeJobs[pipelineJobs[j].id]].status # "paused"
    /\ Advance(j, [pipelineJobs[j] EXCEPT !.pc = "work"])
    /\ UNCHANGED <<metricRows, pipelineFaults>>

\* upsertMetric reads the row of the day and then saves it; a row that appeared
\* in between makes the insert fail, which the backfill counts and passes over.
BackfillRead(j) ==
    /\ Working(j, "backfill")
    /\ Advance(j, [pipelineJobs[j] EXCEPT !.pc = "save", !.found = pipelineJobs[j].unit \in metricRows])
    /\ UNCHANGED <<metricRows, pipelineFaults>>

BackfillSave(j) ==
    LET job == pipelineJobs[j]
        ok == job.found \/ job.unit \notin metricRows
    IN /\ job.kind = "backfill" /\ job.pc = "save"
       /\ metricRows' = metricRows \cup {job.unit}
       /\ Advance(j, UnitDone(job, ok))
       /\ UNCHANGED pipelineFaults

BackfillFails(j) ==
    /\ pipelineJobs[j].kind = "backfill" /\ pipelineJobs[j].pc = "save"
    /\ pipelineFaults < MaxPipelineFaults /\ pipelineFaults' = pipelineFaults + 1
    /\ Advance(j, UnitDone(pipelineJobs[j], FALSE))
    /\ UNCHANGED metricRows

\* An aggregation inserts one row per bucket: one that is there ends the job.
AggregateBucket(j) ==
    LET job == pipelineJobs[j] IN
    /\ Working(j, "aggregation")
    /\ metricRows' = metricRows \cup {job.unit}
    /\ Advance(j, IF job.unit \in metricRows THEN [job EXCEPT !.status = "failed", !.pc = "done"]
                  ELSE UnitDone(job, TRUE))
    /\ UNCHANGED pipelineFaults

CleanUp(j) ==
    /\ Working(j, "cleanup")
    /\ metricRows' = {u \in metricRows : u > CUTOFF}
    /\ Advance(j, [pipelineJobs[j] EXCEPT !.status = "completed", !.pc = "done",
                      !.processed = Cardinality(metricRows) - Cardinality(metricRows')])
    /\ UNCHANGED pipelineFaults

\* An error of the database ends an aggregation or a cleanup, paused or not.
JobFails(j) ==
    /\ pipelineJobs[j].kind \in {"aggregation", "cleanup"} /\ pipelineJobs[j].pc = "work"
    /\ pipelineFaults < MaxPipelineFaults /\ pipelineFaults' = pipelineFaults + 1
    /\ Advance(j, [pipelineJobs[j] EXCEPT !.status = "failed", !.pc = "done"])
    /\ UNCHANGED metricRows

Step(j) ==
    \/ ProcessEtlBatch(j) \/ WaitForResume(j) \/ BackfillRead(j) \/ BackfillSave(j)
    \/ BackfillFails(j) \/ AggregateBucket(j) \/ CleanUp(j) \/ JobFails(j)

Next ==
    \/ \E reuse \in BOOLEAN :
        \/ StartEtlJob(reuse) \/ StartBackfillJob(reuse)
        \/ StartAggregationJob(reuse) \/ StartCleanupJob(reuse)
    \/ \E id \in 1 .. Len(activeJobs) : PauseJob(id) \/ ResumeJob(id)
    \/ \E j \in JobNumbers : Step(j)

Spec == Init /\ [][Next]_vars

-----------------------------------------------------------------------------
\* However a job is paused and resumed, and whoever shares its id, one that is
\* COMPLETED has taken each unit once, and an ETL or backfill job finishes no more
\* than the unit it was in when it was paused.
JobsAreExact ==
    \A j \in JobNumbers :
        LET job == pipelineJobs[j] IN
        /\ job.kind # "cleanup" => job.processed + job.failed <= UNITS
        /\ job.kind # "cleanup" /\ job.status = "completed" => job.processed + job.failed = UNITS
        /\ job.kind \in {"etl", "backfill"} => overrun[j] <= 1
=============================================================================
