------------------------------- MODULE SkillsLab -------------------------------
(***************************************************************************)
(* The skills eval suite's lab: a scratch router, the play that captures   *)
(* its baseline, the pushes and restores of the eval runs, and the test    *)
(* jobs with their cleanup.                                                *)
(***************************************************************************)
EXTENDS ScratchRuns, TestJobs

vars == <<env, playVars, runVars, testVars>>

Init == env \in Environments /\ InitRouter /\ InitRuns /\ InitJobs

\* A command of the play changes the router, too
Play ==
    /\ \/ PlayStep /\ proved' = FALSE /\ UNCHANGED <<at, says, taken>>
       \/ (NacmReady \/ StartPlay \/ EditOspf) /\ UNCHANGED runVars
    /\ UNCHANGED testVars

Run ==
    /\ \/ \E p \in Pushes : StartPush(p) \/ PushStep(p)
       \/ \E r \in Restores : StartRestore(r) \/ RestoreStep(r)
    /\ UNCHANGED testVars

Test ==
    /\ env.jobs
    /\ \/ \E j \in Jobs : StartJob(j) \/ ByHand(j)
       \/ \E c \in Cleanups : ListOpen(c, env.failing) \/ Cancel(c, env.failing)
    /\ UNCHANGED <<env, playVars, runVars>>

Next == Play \/ Run \/ Test

Spec == Init /\ [][Next]_vars

-----------------------------------------------------------------------------
(* Properties *)

\* The router took another hostname from a push
Renamed == \E p \in Pushes : <<"add", Probed>> \in taken[p].took

\* A configuration the eval runs may start from
Clean(config) ==
    /\ Readers \subseteq config
    /\ config \cap OspfLines \in {{}, OspfLines}
    /\ config \subseteq OwnLines
    /\ Probed \in config => unproved \/ Renamed

\* A restore that says restored leaves exactly the baseline, until the router is
\* touched again, whatever other runs did between its replace and its proof.
\* And the baseline holds both readers, OSPF whole or not at all, no line the play
\* knows nothing of and the router's own name, however often plays were cut short
\* and run again and whatever pushes put in or took away - unless it was captured
\* over foreign lines or beside a run, which nothing checks, the copy was cut
\* short, the probe's hostname was not seen put back, or a push renamed the router.
RestoredIsClean ==
    /\ proved => running = baseline
    /\ baseline # {} /\ sound => Clean(baseline)

\* What a run publishes is so. A push that says nothing was sent, refused,
\* rejected or stopped sent nothing; one that says changed had every line
\* taken, and one that lists rejections had not. A cleanup that says canceled
\* or that no job was open left none of the jobs that were open at its query,
\* up to the query's limit.
ReportsAreTrue ==
    /\ \A p \in Pushes :
          /\ says[p] \in {"nothing was sent", "forbidden lines", "rejected", "stopped before its card"} => ~taken[p].sent
          /\ says[p] = "changed" => taken[p].took = taken[p].asked
          /\ says[p] = "rejections" => taken[p].took # taken[p].asked
    /\ \A c \in Cleanups : cleanup[c].says \in {"canceled", "no open job"} =>
          \/ Cardinality(cleanup[c].listed) > ListLimit
          \/ \A j \in cleanup[c].listed : status[j] \notin SkillJobOpen
-----------------------------------------------------------------------------
(* The inductive invariant *)

Lines == OwnLines \cup Foreign
PlayTask == {"accounts", "rules", "check", "put back", "ospf", "remove", "capture", "ended"}
PlayState == [at : PlayTask, reader : {1, 2}, tries : Nat, clean : BOOLEAN, shown : BOOLEAN, alone : BOOLEAN]
PushTask == {"not started", "check", "group", "card", "send", "reply", "ended"}
RestoreTask == {"not started", "replace", "proof", "ended"}

Published == {"nothing", "forbidden lines", "nothing was sent", "stopped before its card", "rejected", "changed", "rejections",
              "could not apply, or could not say", "changed, reply unchecked", "no Rollback Done", "could not run the replace",
              "restored", "differs from the baseline"}
Ended == {"nothing", "canceled", "no open job", "refused", "could not be read"}

\* The router and the play, the runs, the test jobs
RouterType ==
    /\ env \in Environments /\ running \subseteq Lines /\ baseline \subseteq Lines
    /\ nacm \in {"starting", "open", "rules"} /\ wanted \in {"present", "absent"}
    /\ play \in PlayState
    /\ plays \in Nat /\ edits \in Nat /\ sound \in BOOLEAN /\ unproved \in BOOLEAN /\ proved \in BOOLEAN

RunType ==
    /\ at \in [Runs -> PushTask \cup RestoreTask]
    /\ \A p \in Pushes : at[p] \in PushTask
    /\ says \in [Runs -> Published]
    /\ taken \in [Pushes -> [asked : Proposals \cup {{}}, sent : BOOLEAN, took : SUBSET Edits]]
    /\ \A p \in Pushes : taken[p].took \subseteq taken[p].asked

JobType ==
    /\ status \in [Jobs -> {"not started", "complete", "canceled"} \cup SkillJobOpen]
    /\ cleanup \in [Cleanups -> [at : {"not started", "cancel", "ended"}, listed : SUBSET Jobs, ids : SUBSET Jobs, says : Ended]]

TypeOK == RouterType /\ RunType /\ JobType

\* The probe's hostname is in the router under the play that put it there, it was
\* not seen put back, or it is a push's; so it is in no other baseline
ProbeOK ==
    /\ Probed \in running => unproved \/ Renamed \/ At("put back")
    /\ Probed \in baseline => unproved \/ Renamed
    /\ At("put back") => play.clean \/ unproved \/ Renamed

\* What a play that is alone on the router has brought about so far
AloneOK ==
    play.alone =>
        /\ play.at \in {"rules", "check", "put back", "ospf", "remove", "capture"} => Readers \subseteq running
        /\ At("remove") => play.shown = (Loopback \in running)
        /\ At("capture") => running \cap OspfLines \in {{}, OspfLines}

\* A run says nothing before its end, and a push sends at one step, before which
\* the router has taken nothing of it
RunsOK ==
    \A p \in Pushes :
        /\ at[p] # "ended" => says[p] = "nothing"
        /\ ~taken[p].sent => taken[p].took = {}
        /\ at[p] \in {"not started", "check", "group", "card", "send"} => ~taken[p].sent

\* A cleanup that cancels was given every job its query found, up to the limit,
\* and a job it found never starts again
CleanupsOK ==
    \A c \in Cleanups :
        /\ \A j \in cleanup[c].listed : status[j] # "not started"
        /\ cleanup[c].at = "cancel" =>
               /\ cleanup[c].says = "nothing"
               /\ cleanup[c].ids = cleanup[c].listed \/ Cardinality(cleanup[c].listed) > ListLimit
        /\ cleanup[c].at = "not started" => cleanup[c].says = "nothing"

IInv ==
    /\ TypeOK /\ ProbeOK /\ AloneOK /\ RunsOK /\ CleanupsOK
    /\ RestoredIsClean /\ ReportsAreTrue
=============================================================================
