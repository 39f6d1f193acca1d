------------------------------- MODULE TestJobs -------------------------------
(***************************************************************************)
(* The three workflows of the skills workbench's job-run tests, one that   *)
(* completes, one that stays in Error and one that waits at a Work Center  *)
(* task, and "Cancel the Test Jobs" (skill_job_cleanup), the only way the  *)
(* test account has to end the last two.                                   *)
(***************************************************************************)
EXTENDS Naturals, FiniteSets

CONSTANTS
    Jobs, Cleanups,
    ListLimit           \* the limit of the cleanup's getJobs query

ASSUME ListAssumption == IsFiniteSet(Jobs) /\ ListLimit \in Nat

VARIABLES
    status,             \* of each job
    cleanup             \* [at, listed: open at its query, ids: what it cancels, says]

testVars == <<status, cleanup>>

SkillJobOpen == {"running", "error", "paused"}
Open == {j \in Jobs : status[j] \in SkillJobOpen}

InitJobs ==
    /\ status = [j \in Jobs |-> "not started"]
    /\ cleanup = [c \in Cleanups |-> [at |-> "not started", listed |-> {}, ids |-> {}, says |-> "nothing"]]

\* skill_job_plain completes, whether its echo failed or not; skill_job_error
\* stays in Error; skill_job_approval waits, which reads running
StartJob(j) ==
    /\ status[j] = "not started"
    /\ \E s \in {"complete", "error", "running"} : status' = [status EXCEPT ![j] = s]
    /\ UNCHANGED cleanup

\* An administrator completes the waiting task; the job may be paused, too
ByHand(j) ==
    /\ status[j] \in {"running", "paused"}
    /\ \E s \in {"complete", "running", "paused"} \ {status[j]} : status' = [status EXCEPT ![j] = s]
    /\ UNCHANGED cleanup

Is(c, step) == cleanup[c].at = step
Ends(c, what) == cleanup' = [cleanup EXCEPT ![c].at = "ended", ![c].says = what]

\* The query, and open_test_jobs: the ids again by name and status
ListOpen(c, failing) ==
    /\ Is(c, "not started") /\ UNCHANGED status
    /\ \/ \E ids \in SUBSET Open :
             /\ Cardinality(ids) = IF Cardinality(Open) <= ListLimit THEN Cardinality(Open) ELSE ListLimit
             /\ cleanup' = [cleanup EXCEPT ![c] = [at |-> IF ids = {} THEN "ended" ELSE "cancel", listed |-> Open, ids |-> ids,
                                                   says |-> IF ids = {} THEN "no open job" ELSE "nothing"]]
       \/ failing /\ Ends(c, "could not be read")

\* cancelJobs: a job that has ended in the meantime stays what it is. The workflow
\* does not read its resultMessage: a call that is accepted is taken to have
\* canceled every job it was given that was open. Mutant: a refused cancel ends as
\* a cancel.
RefusedIsCanceled(c, failing) ==
    /\ Is(c, "cancel") /\ failing /\ Ends(c, "canceled") /\ UNCHANGED status
Cancel(c, failing) ==
    /\ Is(c, "cancel")
    /\ \/ /\ status' = [j \in Jobs |-> IF j \in cleanup[c].ids \cap Open THEN "canceled" ELSE status[j]]
          /\ Ends(c, "canceled")
       \/ /\ failing /\ Ends(c, "refused")
          /\ \E some \in SUBSET (cleanup[c].ids \cap Open) :
                 status' = [j \in Jobs |-> IF j \in some THEN "canceled" ELSE status[j]]
=============================================================================
