----------------------------- MODULE WatchedVpn -----------------------------
(***************************************************************************)
(* The Drift and Cost Watch beside the request tools and the people who    *)
(* start AWS VPN workflows: who proposes or starts what, on readings that  *)
(* the others' runs make old.                                              *)
(***************************************************************************)
EXTENDS RequestTools, DriftWatch

vars == <<env, control, aws, runs, requestVars, watchVars>>

Init == RunsInit /\ RequestInit /\ WatchInit

Step(j) == /\ \/ j \in Requests /\ RequestStep(j) /\ UNCHANGED watchVars
              \/ j \in Checks /\ CheckStep(j) /\ UNCHANGED requestVars
           /\ UNCHANGED env

\* What people, the agents they talk to and the schedule start and decide
Decisions ==
    /\ \/ \E q \in Requests, kind \in {"deploy", "tear-down"} : Ask(q, kind) /\ UNCHANGED watchVars
       \/ \E c \in Checks : (StartCheck(c) \/ DecideProposal(c) \/ SeeDrift(c)) /\ UNCHANGED requestVars
       \/ \E p \in People, kind \in Kind : PersonStarts(p, kind) /\ UNCHANGED <<requestVars, watchVars>>
       \/ \E s \in Starters : RunEnds(s) /\ UNCHANGED <<requestVars, watchVars>>
    /\ UNCHANGED env

Around == (Drifts \/ Ages \/ Passes \/ Removed) /\ UNCHANGED <<env, requestVars, watchVars>>

Next == (\E j \in Jobs : Step(j)) \/ Decisions \/ Around

Spec == Init /\ [][Next]_vars

\* The job engine goes on with what it can; nobody has to decide anything
FairSpec == Spec /\ \A j \in Jobs : WF_vars(Step(j))

-----------------------------------------------------------------------------
(* Properties *)

Task    == {"start", "address", "id", "answer", "check", "gate",
            "list", "agent", "card", "trigger", "task", "done"}
Outcome == {"nothing", "nothing was started", "started, id unread", "started", "started, no answer",
            "not checked", "drift", "nothing to propose", "another runs", "a change runs",
            "rejected", "not started"}
Wish    == {"none", "deploy", "tear-down"}

TypeOK ==
    /\ env \in Environments
    /\ at \in [Jobs -> Task] /\ said \in [Jobs -> Outcome]
    /\ aws \in Deployment /\ (aws.up \/ aws = Gone) /\ runs \in [Starters -> Run]
    /\ wish \in [Requests -> Wish] /\ unanswered \subseteq Requests
    /\ found \in [Checks -> BOOLEAN] /\ early \in BOOLEAN
    /\ proposal \in [Checks -> Wish]
    \* a redeploy is proposed for drift alone
    /\ \A c \in Checks : proposal[c] = "deploy" => found[c]

\* The Watch has at most one card open: a proposal, or the card of a run an
\* approved proposal started - however its runs overlap, although each counts
\* the running jobs minutes before it opens its own.
OneOpenCard ==
    Cardinality({c \in Checks : At(c, "card") \/ At(c, "trigger") \/ runs[c].open}) <= 1

\* When no Check is under way and one of them found drift, somebody was told, by
\* the task or by a card - unless two Checks overlapped before either had told
\* anybody and made way for one another.
HiddenOnlyTogether ==
    (\A c \in Checks : ~Running(c)) /\ (\E c \in Checks : found[c]) /\ (\A c \in Checks : ~Told(c)) => early

\* Drift that a Check found comes before a person, whatever cannot be read, runs
\* beside it or is answered by the agent: a task, a card, or another Check that
\* was running.
DriftIsTold ==
    \A c \in Checks : at[c] = "gate" /\ found[c] ~> at[c] \in {"card", "task"} \/ said[c] = "another runs"

\* One wish starts one run: the agent that is told nothing was started and asks
\* again starts no second one - unless the first start's answer was lost.
OneRunPerWish ==
    Cardinality({q \in Requests : runs[q].kind # "none"}) > 1 => unanswered # {}

-----------------------------------------------------------------------------
(* The inductive invariant *)

\* A Check has found no other one running and no change under way, and is on its way
\* to its card, at it, or has started the card's run
Proposes(c) == at[c] \in {"agent", "address", "card", "trigger"} \/ runs[c].open

\* Two Checks never both propose: each counted the other while it was running, or
\* the run it had started
OneProposer == \A c, o \in Checks : Proposes(c) /\ Proposes(o) => c = o

\* A Check proposes something only from its answer on and says something only at its
\* end, and a drift it found is told there unless it made way for another Check
CheckOK(c) ==
    /\ at[c] \in {"start", "check"} => proposal[c] = "none"
    /\ at[c] \notin {"task", "done"} => said[c] = "nothing"
    /\ at[c] = "task" => said[c] = "drift"
    /\ found[c] => /\ at[c] \notin {"start", "check"}
                   /\ at[c] = "done" => Told(c) \/ said[c] = "another runs"

\* Who made way for a Check that had told somebody did not make way for nothing
MadeWay == (\E c \in Checks : said[c] = "another runs") /\ ~early => \E o \in Checks : Told(o) \/ At(o, "trigger")

\* A request is pursued from the wish on until it is told that nothing was started
Pursued(q) == at[q] # "start" /\ ~Refused(q)
OnePursued == \A q, o \in Requests : Pursued(q) /\ Pursued(o) => q = o

\* What is told of a request is true but for the start whose answer was lost
RequestOK(q) ==
    /\ Refused(q) => at[q] = "done"
    /\ at[q] \in {"start", "address", "trigger"} => runs[q].kind = "none"
    /\ runs[q].kind # "none" => Pursued(q) \/ q \in unanswered

IInv ==
    /\ TypeOK
    /\ OneProposer
    /\ \A c \in Checks : CheckOK(c)
    /\ MadeWay
    /\ OnePursued
    /\ \A q \in Requests : RequestOK(q)
=============================================================================
