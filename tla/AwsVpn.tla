-------------------------------- MODULE AwsVpn --------------------------------
(***************************************************************************)
(* The life of the lab's site-to-site VPN to AWS: the workflows Deploy,    *)
(* Hand Off, Tear Down and Tear Down Expired AWS VPN                       *)
(* (itential/workflows/build.py) over one Terraform state, one edge router *)
(* (dc1-wan01, the only open target) and the change request of each run a  *)
(* person started.  Nothing keeps two runs apart: they interleave between  *)
(* any two calls, and a card waits for as long as a person lets it.        *)
(*                                                                         *)
(* An action is one call to the Gateway, ServiceNow or Work Center with    *)
(* the pure tasks around it.  A call to the Gateway can throw, answer with *)
(* an error, or do its work and lose the answer; a job it stops leaves the *)
(* router's change to the revert timer.                                    *)
(***************************************************************************)
EXTENDS ChangeRequest

CONSTANTS
    Lifetimes,      \* what a Deploy may be asked for: hours, or Forever ("none")
    Forever,        \* the end time of a deployment that stays up
    Earlier,        \* the Deploy of before, whose deployment a behaviour may
                    \* start with
    None,           \* no block, no plan, no timer, no deployment
    MaxReloads      \* bound: how often the router reloads

ASSUME LifetimeAssumption == Lifetimes \subseteq (Nat \ {0}) \cup {Forever} /\ Forever \notin Nat
ASSUME BoundAssumption == MaxReloads \in Nat
ASSUME NamesAssumption == Earlier \notin Runs /\ None \notin Runs \cup {Earlier}

VARIABLES
    \* AWS: the Terraform state and the plans stored in its bucket
    aws,        \* [up, until, made, by, key]
    plan,       \* run -> the plan it made, or None
    \* the edge router
    running,    \* the AWS block of the running configuration: None or the
                \* deployment it points at
    startup,    \* the same for the saved configuration
    timer,      \* the pending change: None or who made it and what comes back
    reloads,    \* reloads so far
    \* job variables
    want,       \* Deploy's expires_at
    block,      \* the deployment whose block a Hand Off renders
    clean,      \* push_plan's nothing_to_remove
    now,        \* the hour
    \* history
    due,        \* the state version whose end time an expired run read
    sent,       \* the runs that asked for an apply or a push
    causes      \* how a block came to the router after a teardown's proof

cloud   == <<aws, plan>>
router  == <<running, startup, timer, reloads>>
inputs  == <<want, block, clean>>
history == <<due, sent, causes>>
vars    == <<env, change, cloud, router, inputs, now, history>>

Removers    == TearDowns \cup Expiries
Planners    == Deploys \cup Removers
Deployments == Deploys \cup {Earlier}
Versions    == Planners \cup {Earlier}       \* a state version is named for the run that wrote it
Times       == Nat \cup {Forever}
AwsState    == [up : {"none", "part", "up"}, until : Times, made : Deployments \cup {None},
                by : Versions, key : BOOLEAN]
StoredPlan  == [kind : {"deploy", "destroy"}, on : Versions, until : Times]
Pending     == [owner : HandOffs \cup Removers, back : Deployments \cup {None}]
Cause       == {"hand-off", "rollback", "timer", "reload"}

Torn(by)    == [up |-> "none", until |-> Forever, made |-> None, by |-> by, key |-> FALSE]
Deployed(u) == [up |-> "up", until |-> u, made |-> Earlier, by |-> Earlier, key |-> TRUE]

\* The tunnel to a deployment can come up: the box runs and holds its key
TunnelUp(d) == aws.up = "up" /\ aws.made = d /\ aws.key

Dead(d) == d # None /\ (aws.up = "none" \/ aws.made # d)

\* A teardown that proved the router clean and has not destroyed AWS yet
Proved(t) == at[t] \in {"planDestroy", "card2", "destroy"}

\* History: a block comes to the router behind a teardown's proof
Returns(cause) ==
    causes' = IF running' \notin {None, running} /\ (Dead(running') \/ \E t \in Removers : Proved(t))
              THEN causes \cup {cause} ELSE causes

-----------------------------------------------------------------------------
\* Nothing deployed, or a deployment of before, handed off or not
Init ==
    /\ env \in Environments
    /\ at = [j \in Runs |-> "start"]
    /\ chg = [j \in PersonRuns |-> "none"] /\ ending = [j \in Runs |-> "none"]
    /\ aws \in {Torn(Earlier)} \cup {Deployed(u) : u \in Lifetimes}
    /\ plan = [j \in Planners |-> None]
    /\ running \in {None} \cup {d \in {Earlier} : aws.up = "up"}
    /\ startup = running /\ timer = None /\ reloads = 0
    /\ want = [j \in Deploys |-> Forever] /\ block = [j \in HandOffs |-> None]
    /\ clean = [j \in Removers |-> FALSE]
    /\ now = 0
    /\ due = [j \in Expiries |-> None] /\ sent = {} /\ causes = {}

\* The outcomes of a Gateway call that only reads or computes
Failing(failed) == GatewayFails /\ failed

-----------------------------------------------------------------------------
(* terraform-run *)

\* A plan against the state as it is now, kept in the bucket
StorePlan(j, kind, until) ==
    plan' = [plan EXCEPT ![j] = [kind |-> kind, on |-> aws.by, until |-> until]]

Discard(j) == plan' = [plan EXCEPT ![j] = None]

Maker(j) == IF aws.made = None THEN j ELSE aws.made

\* What a plan makes of the state, and what it can leave when it stops part-way
Applied(j) == IF plan[j].kind = "destroy" THEN Torn(j)
              ELSE [aws EXCEPT !.up = "up", !.until = plan[j].until, !.by = j, !.made = Maker(j)]
PartWay(j) == {[aws EXCEPT !.up = "part", !.by = j, !.until = u, !.made = Maker(j)] : u \in {aws.until, plan[j].until}}

\* The approved plan: refused when the state moved since it was made
Fresh(j) == plan[j] # None /\ plan[j].on = aws.by

Apply(j, done, failed) ==
    /\ sent' = sent \cup {j}
    /\ \/ Fresh(j) /\ aws' = Applied(j) /\ Discard(j) /\ done
       \/ (GatewayFails \/ ~Fresh(j)) /\ UNCHANGED cloud /\ failed
       \/ /\ GatewayFails /\ Fresh(j)
          /\ aws' \in {Applied(j)} \cup (IF plan[j].kind = "destroy" /\ aws.up = "none" THEN {} ELSE PartWay(j))
          /\ UNCHANGED plan /\ failed

-----------------------------------------------------------------------------
(* Deploy AWS VPN *)

\* expires_from
EndOf(hours) == IF hours = Forever THEN Forever ELSE now + hours

\* The input gate, the end time and the input check: a refused input ends the
\* run before any change request (80, 8f, 81)
StartDeploy(j, hours) ==
    /\ At(j, "start") /\ j \in env.runs
    /\ \/ /\ want' = [want EXCEPT ![j] = EndOf(hours)]
          /\ Go(j, "open")
       \/ Failing(Go(j, "done")) /\ UNCHANGED want
    /\ UNCHANGED <<chg, ending, cloud, router, block, clean, now, history>>

Future(u) == u \in Nat => u > now

\* plan_facts, the reviewer's session and plan_review: advice on the card.  What
\* cannot be read, did not run or names what the plan has not got is left out
\* there, and the card comes all the same, on the plan that was stored
Review(j) == Go(j, "card") /\ UNCHANGED ending

\* 1d..6e: the service refuses an end time that is not in the future
PlanDeploy(j) ==
    /\ At(j, "plan")
    /\ \/ /\ Future(want[j])
          /\ StorePlan(j, "deploy", want[j])
          /\ Review(j)
       \/ /\ GatewayFails \/ ~Future(want[j])
          /\ Ends(j, "canceled", "done") /\ UNCHANGED plan
    /\ UNCHANGED <<chg, aws, router, inputs, now, history>>

\* 3e, 3f
ApplyDeploy(j) ==
    /\ At(j, "apply")
    /\ Apply(j, Go(j, "psk") /\ UNCHANGED ending, Ends(j, "failed", "done"))
    /\ UNCHANGED <<chg, router, inputs, now, due, causes>>

\* 4d, 4e: a key in place is kept
EnsureKey(j) ==
    /\ At(j, "psk")
    /\ \/ aws' = [aws EXCEPT !.key = aws.up # "none"] /\ Ends(j, "successful", "done")
       \/ Failing(aws' \in {aws, [aws EXCEPT !.key = aws.up # "none"]} /\ Ends(j, "failed", "done"))
    /\ UNCHANGED <<chg, plan, router, inputs, now, history>>

\* Mutant: a discard the Gateway answers with an error has no way on
DiscardDeadEnds(j) ==
    /\ At(j, "discard")
    /\ \/ Discard(j) /\ Go(j, "close")
       \/ GatewayFails /\ UNCHANGED plan /\ Go(j, "error")
    /\ UNCHANGED <<chg, ending, aws, router, inputs, now, history>>


\* 7a..70 and 72..76: the rejected plan, or the approved one ServiceNow did not
\* let in, is discarded; a discard that fails leaves it in the bucket
DiscardPlan(j) ==
    /\ At(j, "discard")
    /\ \/ Discard(j)
       \/ GatewayFails /\ UNCHANGED plan
    /\ Go(j, "close")
    /\ UNCHANGED <<chg, ending, aws, router, inputs, now, history>>

-----------------------------------------------------------------------------
(* The pushes under a revert timer: lab-edge-push and config-push-revert *)

\* `configure terminal revert timer` with a new block
SendUnderTimer(j, new) ==
    /\ timer = None
    /\ timer' = [owner |-> j, back |-> running]
    /\ running' = new
    /\ sent' = sent \cup {j}
    /\ Go(j, "answer")
    /\ UNCHANGED <<startup, reloads, ending>>

\* Nothing reached the router: the service could not run, a change is pending,
\* or the router refuses the lines
NothingSent(j, cannot, timedEnd) ==
    /\ GatewayFails \/ timer # None \/ cannot
    /\ Ends(j, "failed", timedEnd)
    /\ UNCHANGED <<router, sent>>

Own(j) == timer # None /\ timer.owner = j

\* Confirmed and saved, when the checks hold
Saved(j) == Own(j) /\ timer' = None /\ startup' = running /\ UNCHANGED <<running, reloads>>

RolledBack(j) == Own(j) /\ running' = timer.back /\ timer' = None /\ UNCHANGED <<startup, reloads>>

\* Confirmed and not saved
Unsaved(j) == Own(j) /\ timer' = None /\ UNCHANGED <<running, startup, reloads>>

\* Mutant: "confirmed" is enough, saved or not
ConfirmedIsEnough(j, holds, next, timedEnd) ==
    /\ At(j, "answer")
    /\ \/ holds /\ (Saved(j) \/ Unsaved(j)) /\ Go(j, next) /\ UNCHANGED ending
       \/ ~Own(j) /\ UNCHANGED router /\ Ends(j, "failed", timedEnd)
    /\ Returns("rollback")
    /\ UNCHANGED <<chg, cloud, inputs, now, due, sent>>


\* push_summary and revert_summary: only "saved" goes on, whatever the exit code
ReadPush(j, holds, next, timedEnd) ==
    /\ At(j, "answer")
    /\ \/ holds /\ Saved(j) /\ Go(j, next) /\ UNCHANGED ending
       \/ /\ \/ (GatewayFails \/ ~holds) /\ RolledBack(j)
             \/ GatewayFails /\ holds /\ (Saved(j) \/ Unsaved(j))    \* the answer lost, or not saved
             \/ GatewayFails /\ UNCHANGED router                     \* stopped: left to the timer
             \/ ~Own(j) /\ UNCHANGED router                          \* the timer was faster
          /\ Ends(j, "failed", timedEnd)
    /\ Returns("rollback")
    /\ UNCHANGED <<chg, cloud, inputs, now, due, sent>>

-----------------------------------------------------------------------------
(* Hand Off AWS VPN *)

Start(j) ==
    /\ At(j, "start") /\ j \in env.runs
    /\ Go(j, "open")
    /\ UNCHANGED <<chg, ending, cloud, router, inputs, now, history>>

\* NetBox's records against the target's: what is missing, differs or could not
\* be read is text on the card
ReadBack(j) ==
    /\ block' = [block EXCEPT ![j] = aws.made]
    /\ Go(j, "card") /\ UNCHANGED ending

\* batfish_summary: a failed check is a failure; a service that did not run, did
\* not exit 0 or answered without checks has proved nothing
BatfishVerdicts == {"pass"} \cup IF GatewayFails THEN {"fail", "not proven"} ELSE {}

\* f8..f7: only a failed check stops the run, with nothing sent
BatfishGate(j) ==
    \E verdict \in BatfishVerdicts :
        \/ verdict = "fail" /\ Ends(j, "canceled", "done") /\ UNCHANGED block
        \/ verdict # "fail" /\ ReadBack(j)

\* 1b..69: the deployed outputs, the AWS monitor, the router's prerequisites and
\* the render, then Batfish and NetBox; the monitor is ready only when the box runs
PrepareHandOff(j) ==
    /\ At(j, "read")
    /\ \/ TunnelUp(aws.made) /\ BatfishGate(j)
       \/ /\ GatewayFails \/ ~TunnelUp(aws.made)
          /\ Ends(j, "canceled", "done") /\ UNCHANGED block
    /\ UNCHANGED <<chg, cloud, router, want, clean, now, history>>

\* 7c: exactly the approved block; one already in place is only saved
PushBlock(j) ==
    /\ At(j, "send")
    /\ \/ /\ running = block[j] /\ timer = None
          /\ startup' = running /\ sent' = sent \cup {j}
          /\ Go(j, "verify")
          /\ UNCHANGED <<ending, running, timer, reloads>>
       \/ running # block[j] /\ SendUnderTimer(j, block[j])
       \/ NothingSent(j, FALSE, "done")
    /\ Returns("hand-off")
    /\ UNCHANGED <<chg, cloud, inputs, now, due>>

\* The push proves a fresh tunnel before it is confirmed
ReadHandOff(j) == ReadPush(j, TunnelUp(block[j]), "verify", "done")

\* e0..ef: every signal up passes
Verify(j) ==
    /\ At(j, "verify")
    /\ \/ TunnelUp(running) /\ Ends(j, "successful", "done")
       \/ (GatewayFails \/ ~TunnelUp(running)) /\ Ends(j, "failed", "done")
    /\ UNCHANGED <<chg, cloud, router, inputs, now, history>>

-----------------------------------------------------------------------------
(* Tear Down AWS VPN and Tear Down Expired AWS VPN *)

\* Mutant: an end time is up an hour early
EndsWithinTheHour(u) == u \in Nat /\ u <= now + 1


\* expiry_due
TimeUp(u) == u \in Nat /\ u <= now

\* d1..d9: the hourly run; the outputs of a part of a deployment may be empty
ReadEndTime(j) ==
    /\ At(j, "start") /\ j \in env.runs
    /\ \/ /\ aws.up # "none" /\ TimeUp(aws.until)
          /\ due' = [due EXCEPT ![j] = aws.by]
          /\ Go(j, "before")
       \/ /\ GatewayFails \/ aws.up # "up" \/ ~TimeUp(aws.until)
          /\ Go(j, "done") /\ UNCHANGED due
    /\ UNCHANGED <<chg, ending, cloud, router, inputs, now, sent, causes>>

\* Mutant: every removal is pushed, also when the router has nothing to remove
ReadNothingBefore(j) ==
    /\ At(j, "before")
    /\ \/ Go(j, IF j \in TearDowns THEN "card" ELSE "remove") /\ UNCHANGED <<ending, clean>>
       \/ Failing(Ends(j, "canceled", "task")) /\ UNCHANGED clean
    /\ UNCHANGED <<chg, cloud, router, want, block, now, history>>


\* 1a..14: the read before, the removal lines and config-push-revert's check
ReadBefore(j) ==
    /\ At(j, "before")
    /\ \/ /\ clean' = [clean EXCEPT ![j] = running = None]
          /\ Go(j, IF j \in TearDowns THEN "card" ELSE "remove")
          /\ UNCHANGED ending
       \/ Failing(Ends(j, "canceled", "task")) /\ UNCHANGED clean
    /\ UNCHANGED <<chg, cloud, router, want, block, now, history>>

\* e4, 3a..3b: nothing to remove goes to the proof; IOS refuses the lines that
\* remove what is not there
RemoveBlock(j) ==
    /\ At(j, "remove")
    /\ \/ /\ clean[j] /\ Go(j, "prove")
          /\ UNCHANGED <<ending, router, sent>>
       \/ ~clean[j] /\ running # None /\ SendUnderTimer(j, None)
       \/ ~clean[j] /\ NothingSent(j, running = None, "task")
    /\ UNCHANGED <<chg, cloud, inputs, now, due, causes>>

\* The checks config-push-revert holds are other sessions', never the tunnel
ReadRemoval(j) == ReadPush(j, TRUE, "prove", "task")

\* Mutant: what the read before found is the proof
ProvedBefore(j) ==
    /\ At(j, "prove")
    /\ Go(j, "planDestroy")
    /\ UNCHANGED <<chg, ending, cloud, router, inputs, now, history>>


\* Mutant: a proof that fails ends a timed run with nobody told
ProofFailsQuietly(j) ==
    /\ At(j, "prove")
    /\ \/ running = None /\ Go(j, "planDestroy") /\ UNCHANGED ending
       \/ (GatewayFails \/ running # None) /\ Ends(j, "failed", "done")
    /\ UNCHANGED <<chg, cloud, router, inputs, now, history>>


\* 4a..4e: lab-edge absent, after the removal
ProveGone(j) ==
    /\ At(j, "prove")
    /\ \/ running = None /\ Go(j, "planDestroy") /\ UNCHANGED ending
       \/ (GatewayFails \/ running # None) /\ Ends(j, "failed", "task")
    /\ UNCHANGED <<chg, cloud, router, inputs, now, history>>

\* 5a..5e
PlanDestroy(j) ==
    /\ At(j, "planDestroy")
    /\ \/ /\ StorePlan(j, "destroy", Forever)
          /\ Go(j, IF j \in TearDowns THEN "card2" ELSE "destroy")
          /\ UNCHANGED ending
       \/ Failing(Ends(j, "failed", "task")) /\ UNCHANGED plan
    /\ UNCHANGED <<chg, aws, router, inputs, now, history>>

\* 6a..6f
Destroy(j) ==
    /\ At(j, "destroy")
    /\ Apply(j, Go(j, "left") /\ UNCHANGED ending, Ends(j, "failed", "task"))
    /\ UNCHANGED <<chg, router, inputs, now, due, causes>>

\* 61..66: the state read, which must be empty
ReadLeft(j) ==
    /\ At(j, "left")
    /\ \/ aws.up = "none" /\ Ends(j, "successful", "done")
       \/ (GatewayFails \/ aws.up # "none") /\ Ends(j, "failed", "task")
    /\ UNCHANGED <<chg, cloud, router, inputs, now, history>>

\* a2..a8: the rejected destroy is discarded; the run still ends successful
RejectDestroy(j) ==
    /\ At(j, "discard2")
    /\ Discard(j) \/ (GatewayFails /\ UNCHANGED plan)
    /\ Ends(j, "successful", "done")
    /\ UNCHANGED <<chg, aws, router, inputs, now, history>>

\* f0: somebody has seen the Work Center task of a timed teardown
SeeTask(j) ==
    /\ At(j, "task")
    /\ Go(j, "done")
    /\ UNCHANGED <<chg, ending, cloud, router, inputs, now, history>>

-----------------------------------------------------------------------------
(* The cards and the change request *)

Rest == <<cloud, router, inputs, now, history>>

\* The first card: an approval schedules the change, a rejection discards what
\* Deploy planned and changes nothing
Decide(j) ==
    /\ At(j, "card")
    /\ \/ Go(j, "schedule") /\ UNCHANGED ending
       \/ /\ ending' = [ending EXCEPT ![j] = "rejected"]
          /\ Go(j, IF j \in Deploys THEN "discard" ELSE "close")
    /\ UNCHANGED <<chg, Rest>>

\* Tear Down's second card; a work note ServiceNow refuses stops nothing
DecideDestroy(j) ==
    /\ At(j, "card2")
    /\ Go(j, "destroy") \/ Go(j, "discard2")
    /\ UNCHANGED <<chg, ending, Rest>>

First(j)    == IF j \in Deploys THEN "plan" ELSE IF j \in HandOffs THEN "read" ELSE "before"
Approved(j) == IF j \in Deploys THEN "apply" ELSE IF j \in HandOffs THEN "send" ELSE "remove"
Refused(j)  == IF j \in Deploys THEN "discard" ELSE "close"

Change(j) == /\ \/ OpenChange(j, First(j))
                \/ ScheduleChange(j, Refused(j))
                \/ ImplementChange(j, Approved(j), Refused(j))
                \/ CloseFirst(j) \/ CloseSecond(j) \/ FixCard(j)
             /\ UNCHANGED Rest

Fix(j) == CloseFixCard(j) /\ UNCHANGED Rest

-----------------------------------------------------------------------------
(* The router and the clock *)

\* The revert timer runs out before the change is confirmed; a service that is
\* not stopped decides before that
TimerFires ==
    /\ timer # None /\ GatewayFails
    /\ running' = timer.back /\ timer' = None
    /\ Returns("timer")
    /\ UNCHANGED <<change, cloud, startup, reloads, inputs, now, due, sent>>

Reload ==
    /\ reloads < MaxReloads /\ reloads' = reloads + 1
    /\ running' = startup /\ timer' = None
    /\ Returns("reload")
    /\ UNCHANGED <<change, cloud, startup, inputs, now, due, sent>>

Tick == now < env.hours /\ now' = now + 1 /\ UNCHANGED <<change, cloud, router, inputs, history>>

-----------------------------------------------------------------------------
DeployStep(j)   == PlanDeploy(j) \/ ApplyDeploy(j) \/ EnsureKey(j) \/ DiscardPlan(j)
HandOffStep(j)  == PrepareHandOff(j) \/ PushBlock(j) \/ ReadHandOff(j) \/ Verify(j)
TearDownStep(j) == ReadBefore(j) \/ RemoveBlock(j) \/ ReadRemoval(j) \/ ProveGone(j) \/ PlanDestroy(j)
                   \/ Destroy(j) \/ ReadLeft(j) \/ RejectDestroy(j)

\* What the job engine runs by itself
Step(j) == /\ \/ j \in Deploys /\ DeployStep(j)
              \/ j \in HandOffs /\ HandOffStep(j)
              \/ j \in Removers /\ TearDownStep(j)
              \/ j \in PersonRuns /\ Change(j)
           /\ UNCHANGED env

\* What people and the schedule start and decide
People == \/ \E j \in Deploys, hours \in Lifetimes : StartDeploy(j, hours)
          \/ \E j \in HandOffs \cup TearDowns : Start(j)
          \/ \E j \in Expiries : ReadEndTime(j) \/ SeeTask(j)
          \/ \E j \in PersonRuns : Decide(j) \/ Fix(j)
          \/ \E j \in TearDowns : DecideDestroy(j)

Around == People \/ TimerFires \/ Reload \/ Tick

Next == \/ \E j \in Runs : Step(j)
        \/ Around /\ UNCHANGED env

Spec == Init /\ [][Next]_vars

\* The job engine goes on with what it can; people and the schedule may never
FairSpec == Spec /\ \A j \in Runs : WF_vars(Step(j))

-----------------------------------------------------------------------------
(* Properties *)

Task == {"start", "open", "plan", "read", "before", "card", "schedule", "implement", "apply", "psk",
         "discard", "send", "remove", "answer", "verify", "prove", "planDestroy", "card2", "destroy",
         "left", "discard2", "task", "close", "close2", "fix",
         "fix card"} \cup Over

TypeOK ==
    /\ env \in Environments
    /\ at \in [Runs -> Task]
    /\ chg \in [PersonRuns -> ChangeState] /\ ending \in [Runs -> Kind]
    /\ aws \in AwsState /\ plan \in [Planners -> StoredPlan \cup {None}]
    /\ running \in Deployments \cup {None} /\ startup \in Deployments \cup {None}
    /\ timer \in Pending \cup {None} /\ reloads \in 0 .. MaxReloads
    /\ want \in [Deploys -> Times] /\ block \in [HandOffs -> Deployments \cup {None}]
    /\ clean \in [Removers -> BOOLEAN] /\ now \in 0 .. env.hours
    /\ due \in [Expiries -> Versions \cup {None}] /\ sent \subseteq Runs /\ causes \subseteq Cause

\* Router first, AWS second: the router holds a block that points at nothing
\* only when it came there behind a teardown's proof: by a Hand Off, by the
\* rollback of another push, by the revert timer or by a reload.
DeadBlockHasACause == Dead(running) => causes # {}

\* R5: no run applies or sends anything before ServiceNow has its change in
\* Implement, and a change that is canceled changed nothing.
TouchedUnderImplement ==
    \A j \in PersonRuns \cap sent : chg[j] \in {"Implement", "Review", "Closed"}

\* A run that is over has closed its change, or left a task to finish it by
\* hand, or lost ServiceNow's answer to the create and did nothing at all; it
\* leaves an open change with no task only where the Gateway's runner, which writes
\* the task's page, failed.
FinishedRunsSettleTheirChange ==
    \A j \in PersonRuns : at[j] \in {"done", "unwritten"} =>
        \/ chg[j] \in {"none", "Closed", "Canceled"}
        \/ chg[j] = "New" /\ ending[j] = "none" /\ j \notin sent
        \/ at[j] = "unwritten" /\ RunnerFails

Passed(until) == until \in Nat /\ until <= now

\* Tear Down Expired destroys a deployment only when its end time has passed, or
\* when a Deploy gave it another end time after the run read it.
TimedDestroyWasDue ==
    [][\A e \in Expiries : aws'.by = e /\ aws.by # e => Passed(aws.until) \/ aws.by # due[e]]_vars

\* Every decided run ends: the engine alone takes it from the approval or the
\* rejection to workflow_end, to the next card or to a task for a person.
DecidedRunsEnd ==
    \A j \in PersonRuns : at[j] \in {"schedule", "discard"} ~> at[j] \in Over \cup {"fix card", "card2"}

\* A timed teardown that found the time up destroys AWS, or opens a Work Center
\* task, or finds that a newer state is no longer the one it read.
DueRunsSettle ==
    \A e \in Expiries : at[e] = "before" ~> aws.up = "none" \/ at[e] = "task" \/ aws.by # due[e]

\* With services that work, and no Hand Off and no other teardown beside it, an
\* approved removal always comes to the destroy's card, whatever it found on the
\* router: it pushes no line that removes what is not there.
HealthyTearDownGoesOn ==
    \A t \in TearDowns :
        at[t] = "remove" /\ ~GatewayFails /\ env.runs \subseteq Deploys \cup {t} ~> at[t] = "card2"

\* A Hand Off that ends successful survives a reload of the router: what it
\* verified on the running configuration is what is saved, unless another Hand
\* Off was pushing.
HandedOffIsSaved ==
    [][\A h \in HandOffs : /\ ending[h] = "none" /\ ending'[h] = "successful"
                           /\ sent \cap HandOffs = {h}
                           => startup = running]_vars

\* Claimed by Tear Down Expired's description: only a deployment whose end time
\* has passed is destroyed.
TimedOnlyWhenPassed ==
    [][\A e \in Expiries : aws'.by = e /\ aws.by # e => Passed(aws.until)]_vars

\* Claimed by Tear Down's outcome "torn down": nothing of the router's block is
\* left when the run says so.
TornDownIsTrue ==
    [][\A t \in TearDowns : at[t] = "left" /\ ending'[t] = "successful" => running = None]_vars

-----------------------------------------------------------------------------
(* The inductive invariant *)

\* The tasks of a run: before its change is open, before it is approved, and from
\* the approval to its end
Unopened == {"start", "open"}
Asking   == {"plan", "read", "before", "card", "schedule"}
Removing == {"send", "remove", "answer", "prove", "planDestroy", "card2", "destroy"}
Touching == {"apply", "psk", "verify", "left", "discard2"} \cup Removing
Early    == {"New", "Scheduled", "Implement"}

\* The tasks of a run before it writes the state
Unwritten == Unopened \cup Asking \cup {"implement", "apply"} \cup Removing

\* The change stands where the run does, and only an approved run sends anything
ChangeOK(j) ==
    /\ at[j] # "task"
    /\ at[j] \in Unopened => chg[j] = "none" /\ ending[j] = "none" /\ j \notin sent
    /\ at[j] \in Asking => chg[j] = "New" /\ ending[j] = "none" /\ j \notin sent
    /\ at[j] = "implement" => chg[j] = "Scheduled" /\ ending[j] = "none" /\ j \notin sent
    /\ at[j] \in Touching => chg[j] = "Implement" /\ ending[j] = "none"
    /\ at[j] = "discard" => chg[j] \in Early /\ ending[j] \in {"rejected", "canceled"} /\ j \notin sent
    /\ at[j] = "close" => IF TwoSteps(j) THEN chg[j] = "Implement"
                          ELSE chg[j] \in Early /\ ending[j] # "none" /\ j \notin sent
    /\ at[j] = "close2" => TwoSteps(j) /\ chg[j] = "Review"
    /\ at[j] = "unwritten" => RunnerFails
    /\ at[j] \in {"fix", "fix card", "fixed", "unwritten"} =>
          IF TwoSteps(j) THEN chg[j] \in {"Implement", "Review", "Closed"}
                      ELSE chg[j] \in Early \cup {"Canceled"} /\ j \notin sent
    /\ at[j] = "done" => IF TwoSteps(j) THEN chg[j] = "Closed"
                         ELSE /\ j \notin sent
                              /\ chg[j] = "Canceled" \/ (ending[j] = "none" /\ chg[j] \in {"none", "New"})

\* A Deploy's plan builds, a teardown's destroys
PlanOK(j) == plan[j] # None => plan[j].kind = IF j \in Deploys THEN "deploy" ELSE "destroy"

\* A run writes the state once: before it does, no version is its own
WrittenOnce(j) ==
    at[j] \in Unwritten => aws.by # j /\ \A e \in Expiries : due[e] # j

\* The state version whose end time was read keeps that end time
DueOK(e) == due[e] = aws.by => Passed(aws.until)

\* A block behind a teardown's proof, or one that points at nothing, has a cause
RouterFirst ==
    /\ aws.up = "none" <=> aws.made = None
    /\ Dead(running) => causes # {}
    /\ \A t \in Removers : Proved(t) /\ running # None => causes # {}

\* From its push to its verdict, what a lone Hand Off saved is what the router
\* runs, or would run again, unless a teardown removes it
HandedOK(h) ==
    at[h] = "verify" /\ sent \cap HandOffs = {h} =>
        /\ running \in {startup, None}
        /\ timer # None => timer.back \in {startup, None}

IInv ==
    /\ TypeOK
    /\ \A j \in PersonRuns : ChangeOK(j)
    /\ \A j \in Planners : PlanOK(j) /\ WrittenOnce(j)
    /\ \A e \in Expiries : DueOK(e)
    /\ RouterFirst
    /\ \A h \in HandOffs : HandedOK(h)
=============================================================================
