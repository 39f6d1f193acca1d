------------------------------ MODULE ScratchRuns ------------------------------
(***************************************************************************)
(* The runs of "Push to Scratch Router" and "Restore Scratch Router"       *)
(* (scratch_push, scratch_restore) on one router: an agent's lines, which  *)
(* an approver releases and nobody saves, and the replace that takes them  *)
(* away and proves it. Any number of runs are under way at once.           *)
(***************************************************************************)
EXTENDS ScratchRouter, FiniteSets

CONSTANTS
    Pushes, Restores,   \* the runs
    Foreign,            \* lines the play knows nothing of
    Proposals           \* what an agent may ask a push for

VARIABLES
    at,             \* where a run is
    says,           \* what an ended run publishes: outcome, error, changed or restored
    taken,          \* of each push, what it was asked for, that it was sent, and what the router took
    proved          \* the last thing known of the router is a restore's proof

runVars == <<at, says, taken, proved>>

ASSUME RunsAssumption == Pushes \cap Restores = {}

Runs == Pushes \cup Restores

\* A line as it is written or with a leading no. The accounts are all that the
\* forbidden lines keep of the play's own; OSPF and the hostname may be asked for.
Edits == {"add", "no"} \X (Foreign \cup OspfLines \cup {Probed})

ASSUME LinesAssumption == Foreign \cap OwnLines = {} /\ Proposals \subseteq (SUBSET Edits) \ {{}}

\* The lines that edits put in, and take away
Added(lines) == {line \in Foreign \cup OwnLines : <<"add", line>> \in lines}
Removed(lines) == {line \in Foreign \cup OwnLines : <<"no", line>> \in lines}

InitRuns ==
    /\ at = [r \in Runs |-> "not started"] /\ says = [r \in Runs |-> "nothing"]
    /\ taken = [p \in Pushes |-> [asked |-> {}, sent |-> FALSE, took |-> {}]] /\ proved = FALSE

IsAt(r, step) == at[r] = step
GoesOn(r, step) == at' = [at EXCEPT ![r] = step] /\ UNCHANGED says
Says(r, what) == at' = [at EXCEPT ![r] = "ended"] /\ says' = [says EXCEPT ![r] = what]
Fails(r, what) == env.failing /\ Says(r, what)

\* The router is changed: a proof no longer speaks of it, and a play is not alone
Touches == proved' = FALSE /\ play' = [play EXCEPT !.alone = FALSE]
Untouched == UNCHANGED <<running, play, proved>>
Rest == UNCHANGED <<env, baseline, nacm, wanted, plays, edits, sound, unproved>>

StartPush(p) ==
    /\ p \in env.runs /\ IsAt(p, "not started") /\ GoesOn(p, "check")
    /\ \E lines \in Proposals : taken' = [taken EXCEPT ![p].asked = lines]
    /\ Untouched /\ Rest

StartRestore(r) ==
    /\ r \in env.runs /\ IsAt(r, "not started") /\ GoesOn(r, "replace")
    /\ UNCHANGED taken /\ Untouched /\ Rest

-----------------------------------------------------------------------------
(* The push *)

\* scratch_push_plan: a forbidden line refuses the push before any card
CheckLines(p) ==
    /\ IsAt(p, "check")
    /\ GoesOn(p, "group") \/ Says(p, "forbidden lines") \/ Fails(p, "nothing was sent")
    /\ UNCHANGED taken /\ Untouched /\ Rest

\* The approvers' group joins the job, or nobody could release its card
AddGroup(p) ==
    /\ IsAt(p, "group")
    /\ GoesOn(p, "card") \/ Fails(p, "stopped before its card")
    /\ UNCHANGED taken /\ Untouched /\ Rest

Decide(p) ==
    /\ IsAt(p, "card")
    /\ GoesOn(p, "send") \/ Says(p, "rejected")
    /\ UNCHANGED taken /\ Untouched /\ Rest

\* The router takes what it was asked for or refuses some of it
Takes(p) ==
    \E some \in SUBSET taken[p].asked :
        /\ running' = (running \ Removed(some)) \cup Added(some)
        /\ taken' = [taken EXCEPT ![p].sent = TRUE, ![p].took = some]

\* send-config. Mutant: an answer that is lost ends where the push could not be
\* prepared.
LostIsUnsent(p) ==
    /\ IsAt(p, "send") /\ Takes(p) /\ Touches
    /\ GoesOn(p, "reply") \/ Fails(p, "nothing was sent")
    /\ Rest
Send(p) ==
    /\ IsAt(p, "send") /\ Takes(p) /\ Touches
    /\ GoesOn(p, "reply") \/ Fails(p, "could not apply, or could not say")
    /\ Rest

\* The router's reply names a line it refused
Rejected(p) == taken[p].took # taken[p].asked

ReadReply(p) ==
    /\ IsAt(p, "reply")
    /\ \/ ~Rejected(p) /\ Says(p, "changed")
       \/ Rejected(p) /\ Says(p, "rejections")
       \/ Fails(p, "changed, reply unchecked")
    /\ UNCHANGED taken /\ Untouched /\ Rest

-----------------------------------------------------------------------------
(* The restore *)

\* The router's answer to the replace has no Rollback Done
NotDone(r) == Says(r, "no Rollback Done")

\* configure replace bootflash:baseline.cfg force: done, or stopped anywhere on
\* the way; without a baseline it refuses
Replace(r) ==
    /\ IsAt(r, "replace")
    /\ \/ /\ baseline # {} /\ running' = baseline
          /\ GoesOn(r, "proof") \/ Fails(r, "could not run the replace")
       \/ /\ baseline # {} /\ env.failing
          /\ \E some \in SUBSET (running \cup baseline) : running' = (running \ some) \cup (some \cap baseline)
          /\ NotDone(r) \/ Says(r, "could not run the replace")
       \/ baseline = {} /\ NotDone(r) /\ UNCHANGED running
    /\ Touches
    /\ UNCHANGED taken /\ Rest

\* The two hashes
Differs == running # baseline

\* The baseline file and the running configuration, read back and compared. Mutant: Rollback Done is proof enough.
DoneIsProof(r) ==
    /\ IsAt(r, "proof") /\ Says(r, "restored") /\ proved' = TRUE
    /\ UNCHANGED <<running, play, taken>> /\ Rest
Prove(r) ==
    /\ IsAt(r, "proof")
    /\ \/ ~Differs /\ Says(r, "restored") /\ proved' = TRUE
       \/ Differs /\ Says(r, "differs from the baseline") /\ UNCHANGED proved
       \/ Fails(r, "could not run the replace") /\ UNCHANGED proved
    /\ UNCHANGED <<running, play, taken>> /\ Rest

PushStep(p) == CheckLines(p) \/ AddGroup(p) \/ Decide(p) \/ Send(p) \/ ReadReply(p)
RestoreStep(r) == Replace(r) \/ Prove(r)
=============================================================================
