--------------------------- MODULE WatchedVpnProofs ---------------------------
(***************************************************************************)
(* Theorems about WatchedVpn, RequestTools, DriftWatch and EndpointRuns,   *)
(* for any number of requests, Checks and people.  The argument is the     *)
(* inductive invariant IInv of WatchedVpn: who proposes, what a Check has  *)
(* told and for whom it made way, and which request is pursued.            *)
(***************************************************************************)
EXTENDS WatchedVpn, FiniteSetTheorems, TLAPS

-----------------------------------------------------------------------------
\* A set in which any two elements are equal has at most one.
LEMMA AtMostOne ==
    ASSUME NEW S, \A x, y \in S : x = y
    PROVE  Cardinality(S) \in {0, 1}
<1>1. CASE S = {}
  BY <1>1, FS_EmptySet
<1>2. ASSUME NEW x \in S PROVE Cardinality(S) = 1
  <2>1. S = {x}
    OBVIOUS
  <2> QED
    BY <2>1, FS_Singleton
<1> QED
  BY <1>1, <1>2

\* The steps of a request, of a Check, and of everything else.
RequestDoes(q) == RequestStep(q) \/ \E kind \in {"deploy", "tear-down"} : Ask(q, kind)
CheckDoes(c)   == CheckStep(c) \/ StartCheck(c) \/ DecideProposal(c) \/ SeeDrift(c)
RunsGoOn       == (\E p \in People, kind \in Kind : PersonStarts(p, kind)) \/ (\E s \in Starters : RunEnds(s))

\* The steps of the system by who takes them.
LEMMA NextCases ==
    ASSUME Next
    PROVE  /\ env' = env
           /\ \/ \E q \in Requests : RequestDoes(q) /\ UNCHANGED watchVars
              \/ \E c \in Checks : CheckDoes(c) /\ UNCHANGED requestVars
              \/ RunsGoOn /\ UNCHANGED <<requestVars, watchVars>>
              \/ (Drifts \/ Ages \/ Passes \/ Removed) /\ UNCHANGED <<requestVars, watchVars>>
  BY DEF Next, Step, Decisions, Around, RequestDoes, CheckDoes, RunsGoOn

\* Everybody is one of the jobs or of the starters, and nobody is two of them.
LEMMA Who == /\ Requests \subseteq Jobs /\ Checks \subseteq Jobs /\ Jobs \subseteq Starters /\ People \subseteq Starters
             /\ Requests \cap Checks = {} /\ Jobs \cap People = {}
  BY JobAssumption DEF Jobs, Starters

\* A step of one job leaves every other job, and the run it started, alone.
Apart(j) == /\ \A i \in Jobs \ {j} : at'[i] = at[i] /\ said'[i] = said[i]
            /\ \A s \in Starters \ {j} : runs'[s] = runs[s]

-----------------------------------------------------------------------------
\* Where a job goes and what it says.
LEMMA JobsType == TypeOK /\ Next => at' \in [Jobs -> Task] /\ said' \in [Jobs -> Outcome]
<1> DEFINE Typed == at' \in [Jobs -> Task] /\ said' \in [Jobs -> Outcome]
<1> SUFFICES ASSUME TypeOK, Next PROVE Typed
  OBVIOUS
<1>a. at \in [Jobs -> Task] /\ said \in [Jobs -> Outcome]
  BY DEF TypeOK
<1>b. /\ "start" \in Task /\ "address" \in Task /\ "id" \in Task /\ "answer" \in Task /\ "check" \in Task /\ "gate" \in Task
      /\ "list" \in Task /\ "agent" \in Task /\ "card" \in Task /\ "trigger" \in Task /\ "task" \in Task /\ "done" \in Task
  BY DEF Task
<1>c. /\ "nothing was started" \in Outcome /\ "started, id unread" \in Outcome /\ "started" \in Outcome
      /\ "started, no answer" \in Outcome /\ "not checked" \in Outcome /\ "drift" \in Outcome
      /\ "nothing to propose" \in Outcome /\ "another runs" \in Outcome /\ "a change runs" \in Outcome
      /\ "rejected" \in Outcome /\ "not started" \in Outcome
  BY DEF Outcome
<1>d. ASSUME NEW j, NEW t \in Task, GoesOn(j, t) PROVE Typed
  BY <1>a, <1>d DEF GoesOn, Go
<1>e. ASSUME NEW j, NEW what \in Outcome, NEW t \in Task, Says(j, what, t) PROVE Typed
  BY <1>a, <1>e DEF Says, Go
<1>1. ASSUME NEW q \in Requests, RequestDoes(q) PROVE Typed
  BY <1>1, <1>b, <1>c, <1>d, <1>e DEF RequestDoes, RequestStep, Ask, ReadAddress, Trigger, ReadId, Answer
<1>2. ASSUME NEW c \in Checks, CheckDoes(c) PROVE Typed
  <2>1. CASE StartCheck(c) \/ DecideProposal(c) \/ SeeDrift(c) \/ CheckDrift(c)
    BY <2>1, <1>b, <1>c, <1>d, <1>e DEF StartCheck, DecideProposal, SeeDrift, CheckDrift
  <2>2. CASE Gate(c) \/ ListRunning(c)
    BY <2>2, <1>b, <1>c, <1>d, <1>e DEF Gate, ListRunning, DriftOpensTask
  <2>3. CASE AgentProposes(c)
    BY <2>3, <1>b, <1>c, <1>d, <1>e DEF AgentProposes, DriftOpensTask
  <2>4. CASE FindAddress(c) \/ StartProposal(c)
    BY <2>4, <1>b, <1>c, <1>d, <1>e DEF FindAddress, StartProposal
  <2> QED
    BY <1>2, <2>1, <2>2, <2>3, <2>4 DEF CheckDoes, CheckStep
<1>3. ASSUME RunsGoOn \/ Drifts \/ Ages \/ Passes \/ Removed PROVE Typed
  BY <1>3, <1>a DEF RunsGoOn, PersonStarts, RunEnds, Drifts, Ages, Passes, Removed, control
<1> QED
  BY <1>1, <1>2, <1>3, NextCases

\* The deployment is one, or gone.
LEMMA AwsType == TypeOK /\ Next => aws' \in Deployment /\ (aws'.up \/ aws' = Gone)
<1> SUFFICES ASSUME TypeOK, Next PROVE aws' \in Deployment /\ (aws'.up \/ aws' = Gone)
  OBVIOUS
<1>a. aws \in Deployment /\ (aws.up \/ aws = Gone)
  BY DEF TypeOK
<1>b. Gone \in Deployment /\ Gone.end = "none"
  BY DEF Gone, Deployment
<1>c. \A end \in {"none", "later"} : Fresh(end) \in Deployment /\ Fresh(end).up
  BY DEF Fresh, Gone, Deployment
<1>1. ASSUME NEW q \in Requests, RequestDoes(q) PROVE UNCHANGED aws
  BY <1>1 DEF RequestDoes, RequestStep, Ask, ReadAddress, Trigger, ReadId, Answer
<1>2. ASSUME NEW c \in Checks, CheckDoes(c) PROVE UNCHANGED aws
  BY <1>2 DEF CheckDoes, CheckStep, CheckDrift, Gate, ListRunning, AgentProposes, FindAddress, StartProposal,
     StartCheck, DecideProposal, SeeDrift
<1>3. ASSUME RunsGoOn PROVE aws' \in {aws, Gone, Fresh("none"), Fresh("later")}
  BY <1>3 DEF RunsGoOn, PersonStarts, RunEnds
<1>4. ASSUME Drifts \/ Ages \/ Passes \/ Removed PROVE aws' \in Deployment /\ (aws'.up \/ aws' = Gone)
  BY <1>4, <1>a, <1>b DEF Drifts, Ages, Passes, Removed, Deployment
<1> QED
  BY <1>1, <1>2, <1>3, <1>4, <1>a, <1>b, <1>c, NextCases

\* Who started what.
LEMMA RunsType == TypeOK /\ Next => runs' \in [Starters -> Run]
<1> SUFFICES ASSUME TypeOK, Next PROVE runs' \in [Starters -> Run]
  OBVIOUS
<1>a. /\ runs \in [Starters -> Run] /\ wish \in [Requests -> Wish] /\ proposal \in [Checks -> Wish]
  BY DEF TypeOK
<1>b. \A kind \in Wish \cup Kind : [kind |-> kind, open |-> TRUE] \in Run
  BY DEF Wish, Kind, Run
<1>c. ASSUME NEW s, NEW kind \in Wish \cup Kind, StartRun(s, kind) PROVE runs' \in [Starters -> Run]
  BY <1>a, <1>b, <1>c DEF StartRun
<1>1. ASSUME NEW q \in Requests, RequestDoes(q) PROVE runs' \in [Starters -> Run]
  BY <1>1, <1>a, <1>c DEF RequestDoes, RequestStep, Ask, ReadAddress, Trigger, ReadId, Answer
<1>2. ASSUME NEW c \in Checks, CheckDoes(c) PROVE runs' \in [Starters -> Run]
  BY <1>2, <1>a, <1>c DEF CheckDoes, CheckStep, CheckDrift, Gate, ListRunning, AgentProposes, FindAddress, StartProposal,
     StartCheck, DecideProposal, SeeDrift
<1>3. ASSUME NEW s \in Starters, RunEnds(s) PROVE runs' \in [Starters -> Run]
  <2>1. [runs[s] EXCEPT !.open = FALSE] \in Run
    BY <1>a DEF Run
  <2> QED
    BY <1>3, <1>a, <2>1 DEF RunEnds
<1>4. ASSUME NEW p \in People, NEW kind \in Kind, PersonStarts(p, kind) PROVE runs' \in [Starters -> Run]
  BY <1>4, <1>c DEF PersonStarts
<1>5. ASSUME Drifts \/ Ages \/ Passes \/ Removed PROVE UNCHANGED runs
  BY <1>5 DEF Drifts, Ages, Passes, Removed
<1> QED
  BY <1>1, <1>2, <1>3, <1>4, <1>5, <1>a, NextCases DEF RunsGoOn

\* What a request wants, and what a Check found and proposes.
LEMMA OwnType == TypeOK /\ Next => /\ wish' \in [Requests -> Wish] /\ unanswered' \subseteq Requests
                                   /\ found' \in [Checks -> BOOLEAN] /\ early' \in BOOLEAN
                                   /\ proposal' \in [Checks -> Wish]
<1> SUFFICES ASSUME TypeOK, Next
             PROVE  /\ wish' \in [Requests -> Wish] /\ unanswered' \subseteq Requests
                    /\ found' \in [Checks -> BOOLEAN] /\ early' \in BOOLEAN
                    /\ proposal' \in [Checks -> Wish]
  OBVIOUS
<1>a. /\ wish \in [Requests -> Wish] /\ unanswered \subseteq Requests
      /\ found \in [Checks -> BOOLEAN] /\ early \in BOOLEAN /\ proposal \in [Checks -> Wish] /\ aws \in Deployment
  BY DEF TypeOK
<1>b. "deploy" \in Wish /\ "tear-down" \in Wish
  BY DEF Wish
<1>1. ASSUME NEW q \in Requests, RequestDoes(q) PROVE wish' \in [Requests -> Wish] /\ unanswered' \subseteq Requests
  BY <1>1, <1>a, <1>b DEF RequestDoes, RequestStep, Ask, ReadAddress, Trigger, ReadId, Answer, requestVars
<1>2. ASSUME NEW c \in Checks, CheckDoes(c) PROVE early' \in BOOLEAN /\ found' \in [Checks -> BOOLEAN]
  <2>1. CASE ListRunning(c)
    <3>1. (\A o \in Others(c) : ~Told(o)) \in BOOLEAN
      OBVIOUS
    <3>2. UNCHANGED found /\ early' \in {early, early \/ \A o \in Others(c) : ~Told(o)}
      BY <2>1 DEF ListRunning
    <3> QED
      BY <3>1, <3>2, <1>a
  <2>2. CASE CheckDrift(c)
    <3>1. aws.drifted \in BOOLEAN
      BY <1>a DEF Deployment
    <3>2. UNCHANGED early /\ (UNCHANGED found \/ found' = [found EXCEPT ![c] = aws.drifted])
      BY <2>2 DEF CheckDrift
    <3> QED
      BY <3>1, <3>2, <1>a
  <2>3. CASE ~ListRunning(c) /\ ~CheckDrift(c)
    BY <1>2, <2>3, <1>a DEF CheckDoes, CheckStep, Gate, AgentProposes, FindAddress, StartProposal,
       StartCheck, DecideProposal, SeeDrift, watchVars
  <2> QED
    BY <2>1, <2>2, <2>3
<1>3. ASSUME NEW c \in Checks, CheckDoes(c) PROVE proposal' \in [Checks -> Wish]
  BY <1>3, <1>a, <1>b DEF CheckDoes, CheckStep, CheckDrift, Gate, ListRunning, AgentProposes, Menu, FindAddress, StartProposal,
     StartCheck, DecideProposal, SeeDrift, watchVars
<1> QED
  BY <1>1, <1>2, <1>3, <1>a, NextCases DEF watchVars, requestVars

-----------------------------------------------------------------------------
\* Requests and Checks leave one another, and all other starters, alone.
LEMMA RequestsApart == ASSUME TypeOK, NEW q \in Requests, RequestDoes(q) PROVE Apart(q)
<1>a. at \in [Jobs -> Task] /\ said \in [Jobs -> Outcome] /\ runs \in [Starters -> Run]
  BY DEF TypeOK
<1> QED
  BY <1>a DEF Apart, RequestDoes, RequestStep, Ask, ReadAddress, Trigger, ReadId, Answer, GoesOn, Says, Go, StartRun

\* A check moves no other job, and finds and proposes for itself only.
LEMMA ChecksApart ==
    ASSUME TypeOK, NEW c \in Checks, CheckDoes(c)
    PROVE  Apart(c) /\ \A o \in Checks \ {c} : found'[o] = found[o] /\ proposal'[o] = proposal[o]
<1>a. at \in [Jobs -> Task] /\ said \in [Jobs -> Outcome] /\ runs \in [Starters -> Run]
  BY DEF TypeOK
<1>1. \A s \in Starters \ {c} : runs'[s] = runs[s]
  BY <1>a DEF CheckDoes, CheckStep, CheckDrift, Gate, ListRunning, AgentProposes, FindAddress, StartProposal,
     StartCheck, DecideProposal, SeeDrift, StartRun
<1>2. ASSUME NEW what, NEW t, GoesOn(c, t) \/ Says(c, what, t)
      PROVE  \A i \in Jobs \ {c} : at'[i] = at[i] /\ said'[i] = said[i]
  BY <1>2, <1>a DEF GoesOn, Says, Go
<1>3. \A i \in Jobs \ {c} : at'[i] = at[i] /\ said'[i] = said[i]
  <2>1. CASE CheckDrift(c) \/ Gate(c) \/ ListRunning(c)
    BY <2>1, <1>2 DEF CheckDrift, Gate, ListRunning, DriftOpensTask
  <2>2. CASE AgentProposes(c)
    BY <2>2, <1>2 DEF AgentProposes, DriftOpensTask
  <2>3. CASE FindAddress(c) \/ StartProposal(c) \/ StartCheck(c) \/ DecideProposal(c) \/ SeeDrift(c)
    BY <2>3, <1>2 DEF FindAddress, StartProposal, StartCheck, DecideProposal, SeeDrift
  <2> QED
    BY <2>1, <2>2, <2>3 DEF CheckDoes, CheckStep
<1>4. \A o \in Checks \ {c} : found'[o] = found[o] /\ proposal'[o] = proposal[o]
  <2>a. found \in [Checks -> BOOLEAN] /\ proposal \in [Checks -> Wish]
    BY DEF TypeOK
  <2> QED
    BY <2>a DEF CheckDoes, CheckStep, CheckDrift, Gate, ListRunning, AgentProposes, FindAddress, StartProposal,
       StartCheck, DecideProposal, SeeDrift, watchVars
<1> QED
  BY <1>1, <1>3, <1>4 DEF Apart

\* What people, time and the started runs do leaves every job alone: a run a job
\* started stays what it is and ends at most.
LEMMA OthersApart ==
    ASSUME TypeOK, RunsGoOn \/ Drifts \/ Ages \/ Passes \/ Removed
    PROVE  /\ at' = at /\ said' = said
           /\ \A j \in Jobs : runs'[j].kind = runs[j].kind /\ (runs'[j].open => runs[j].open)
<1>a. runs \in [Starters -> Run] /\ Jobs \subseteq Starters /\ Jobs \cap People = {}
  BY Who DEF TypeOK
<1>1. ASSUME NEW p \in People, NEW kind, PersonStarts(p, kind) PROVE \A j \in Jobs : runs'[j] = runs[j]
  BY <1>1, <1>a DEF PersonStarts, StartRun
<1>2. ASSUME NEW s \in Starters, RunEnds(s), NEW j \in Jobs
      PROVE  runs'[j].kind = runs[j].kind /\ (runs'[j].open => runs[j].open)
  BY <1>2, <1>a DEF RunEnds, Run
<1>3. ASSUME Drifts \/ Ages \/ Passes \/ Removed PROVE runs' = runs
  BY <1>3 DEF Drifts, Ages, Passes, Removed
<1>4. at' = at /\ said' = said
  BY DEF RunsGoOn, PersonStarts, RunEnds, Drifts, Ages, Passes, Removed, control
<1> QED
  BY <1>1, <1>2, <1>3, <1>4 DEF RunsGoOn

-----------------------------------------------------------------------------
\* Whatever a Check does next it says at its end, and there it tells of a drift it
\* found or makes way.
LEMMA CheckKeepsOK ==
    ASSUME TypeOK, NEW c \in Checks, CheckOK(c), CheckDoes(c)
    PROVE  CheckOK(c)' /\ (proposal'[c] = "deploy" => found'[c])
<1>a. /\ at \in [Jobs -> Task] /\ said \in [Jobs -> Outcome] /\ c \in Jobs
      /\ found \in [Checks -> BOOLEAN] /\ proposal \in [Checks -> Wish]
      /\ proposal[c] = "deploy" => found[c]
  BY Who DEF TypeOK
<1> USE <1>a DEF CheckOK, GoesOn, Says, Go, At, Told, watchVars, DriftOpensTask
<1>1. CASE StartCheck(c) \/ DecideProposal(c) \/ SeeDrift(c)
  BY <1>1 DEF StartCheck, DecideProposal, SeeDrift
<1>2. CASE CheckDrift(c)
  BY <1>2 DEF CheckDrift
<1>3. CASE Gate(c)
  BY <1>3 DEF Gate
<1>4. CASE ListRunning(c)
  BY <1>4 DEF ListRunning
<1>5. CASE AgentProposes(c)
  BY <1>5 DEF AgentProposes, Menu
<1>6. CASE FindAddress(c) \/ StartProposal(c)
  BY <1>6 DEF FindAddress, StartProposal
<1> QED
  BY <1>1, <1>2, <1>3, <1>4, <1>5, <1>6 DEF CheckDoes, CheckStep

\* Every step keeps what is said of each check.
LEMMA CheckStepOK == IInv /\ Next => \A c \in Checks : CheckOK(c)' /\ (proposal'[c] = "deploy" => found'[c])
<1> SUFFICES ASSUME IInv, Next, NEW c \in Checks PROVE CheckOK(c)' /\ (proposal'[c] = "deploy" => found'[c])
  OBVIOUS
<1>a. TypeOK /\ CheckOK(c) /\ c \in Jobs /\ (proposal[c] = "deploy" => found[c])
  BY Who DEF IInv, TypeOK
<1>1. ASSUME UNCHANGED <<at[c], said[c], found[c], proposal[c]>>
      PROVE  CheckOK(c)' /\ (proposal'[c] = "deploy" => found'[c])
  BY <1>1, <1>a DEF CheckOK, Told, At
<1>2. ASSUME NEW q \in Requests, RequestDoes(q), UNCHANGED watchVars PROVE UNCHANGED <<at[c], said[c], found[c], proposal[c]>>
  BY <1>2, <1>a, RequestsApart, Who DEF Apart, watchVars
<1>3. ASSUME NEW o \in Checks \ {c}, CheckDoes(o) PROVE UNCHANGED <<at[c], said[c], found[c], proposal[c]>>
  BY <1>3, <1>a, ChecksApart DEF Apart
<1>4. ASSUME RunsGoOn \/ Drifts \/ Ages \/ Passes \/ Removed, UNCHANGED watchVars
      PROVE  UNCHANGED <<at[c], said[c], found[c], proposal[c]>>
  BY <1>4, <1>a, OthersApart DEF watchVars
<1> QED
  BY <1>1, <1>2, <1>3, <1>4, <1>a, CheckKeepsOK, NextCases

\* Every step keeps the shape of every variable.
LEMMA TypeStep == IInv /\ Next => TypeOK'
  BY NextCases, JobsType, AwsType, RunsType, OwnType, CheckStepOK DEF TypeOK, IInv

\* A Check gets to propose only past the list of running jobs, with no other one and
\* no change on it.
LEMMA ProposerStep == IInv /\ Next => OneProposer'
<1> SUFFICES ASSUME IInv, Next PROVE OneProposer'
  OBVIOUS
<1>a. /\ TypeOK /\ OneProposer /\ Checks \subseteq Jobs /\ Checks \subseteq Starters
      /\ at \in [Jobs -> Task] /\ runs \in [Starters -> Run]
  BY Who DEF IInv, TypeOK
<1>1. ASSUME \A c \in Checks : Proposes(c)' => Proposes(c) PROVE OneProposer'
  BY <1>1, <1>a DEF OneProposer
<1>2. ASSUME NEW q \in Requests, RequestDoes(q) PROVE \A c \in Checks : Proposes(c)' => Proposes(c)
  BY <1>2, <1>a, RequestsApart, Who DEF Apart, Proposes
<1>3. ASSUME RunsGoOn \/ Drifts \/ Ages \/ Passes \/ Removed PROVE \A c \in Checks : Proposes(c)' => Proposes(c)
  BY <1>3, <1>a, OthersApart DEF Proposes
<1>4. ASSUME NEW c \in Checks, CheckDoes(c) PROVE OneProposer'
  <2>1. \A o \in Checks \ {c} : Proposes(o)' <=> Proposes(o)
    BY <1>4, <1>a, ChecksApart DEF Apart, Proposes
  <2>2. Proposes(c)' => Proposes(c) \/ (ListRunning(c) /\ Others(c) = {} /\ InFlight = {})
    <3>1. CASE ListRunning(c)
      BY <3>1, <1>a DEF ListRunning, Proposes, GoesOn, Says, Go, DriftOpensTask
    <3>2. CASE AgentProposes(c) \/ FindAddress(c) \/ StartProposal(c) \/ DecideProposal(c)
      BY <3>2 DEF AgentProposes, FindAddress, StartProposal, DecideProposal, Proposes, At
    <3>3. CASE StartCheck(c) \/ SeeDrift(c) \/ CheckDrift(c)
      BY <3>3, <1>a DEF StartCheck, SeeDrift, CheckDrift, Proposes, GoesOn, Says, Go
    <3>4. CASE Gate(c)
      BY <3>4, <1>a DEF Gate, Proposes, GoesOn, Says, Go, DriftOpensTask
    <3> QED
      BY <1>4, <3>1, <3>2, <3>3, <3>4 DEF CheckDoes, CheckStep
  <2>3. ASSUME Others(c) = {}, InFlight = {} PROVE \A o \in Checks \ {c} : ~Proposes(o)
    BY <2>3, <1>a DEF Others, InFlight, Listed, Running, Proposes
  <2> QED
    BY <2>1, <2>2, <2>3, <1>a DEF OneProposer
<1> QED
  BY <1>1, <1>2, <1>3, <1>4, NextCases

\* A Check that has told somebody, or is about to start what it told, stays so.
LEMMA MadeWayStep == IInv /\ Next => MadeWay'
<1> SUFFICES ASSUME IInv, Next PROVE MadeWay'
  OBVIOUS
<1>a. /\ TypeOK /\ MadeWay /\ Checks \subseteq Jobs /\ (\A c \in Checks : CheckOK(c))
      /\ at \in [Jobs -> Task] /\ said \in [Jobs -> Outcome]
  BY Who DEF IInv, TypeOK
<1> DEFINE Tells(c) == Told(c) \/ At(c, "trigger")
<1>1. ASSUME \A c \in Checks : at'[c] = at[c] /\ said'[c] = said[c], UNCHANGED early PROVE MadeWay'
  BY <1>1, <1>a DEF MadeWay, Told, At
<1>2. ASSUME NEW q \in Requests, RequestDoes(q), UNCHANGED watchVars PROVE MadeWay'
  <2>1. \A c \in Checks : at'[c] = at[c] /\ said'[c] = said[c]
    BY <1>2, <1>a, RequestsApart, Who DEF Apart
  <2> QED
    BY <2>1, <1>1, <1>2 DEF watchVars
<1>3. ASSUME RunsGoOn \/ Drifts \/ Ages \/ Passes \/ Removed, UNCHANGED watchVars PROVE MadeWay'
  BY <1>3, <1>1, <1>a, OthersApart DEF watchVars
<1>4. ASSUME NEW c \in Checks, CheckDoes(c) PROVE MadeWay'
  <2>a. CheckOK(c) /\ c \in Jobs
    BY <1>a
  <2>1. \A o \in Checks \ {c} : at'[o] = at[o] /\ said'[o] = said[o]
    BY <1>4, <1>a, ChecksApart DEF Apart
  <2>2. \A o \in Checks \ {c} : Tells(o)' <=> Tells(o)
    BY <2>1 DEF Told, At
  <2>3. Tells(c) => Tells(c)'
    <3>1. CASE DecideProposal(c) \/ StartProposal(c) \/ SeeDrift(c)
      BY <3>1, <2>a, <1>a DEF DecideProposal, StartProposal, SeeDrift, Told, At, GoesOn, Says, Go
    <3>2. CASE StartCheck(c) \/ CheckStep(c)
      <4>1. StartProposal(c) \/ at[c] \in {"start", "check", "gate", "list", "agent", "address"}
        BY <3>2 DEF StartCheck, CheckStep, CheckDrift, Gate, ListRunning, AgentProposes, FindAddress, At
      <4>2. at[c] \in {"start", "check", "gate", "list", "agent", "address"} => ~Tells(c)
        BY <2>a DEF CheckOK, Told, At
      <4> QED
        BY <4>1, <4>2, <3>1
    <3> QED
      BY <1>4, <3>1, <3>2 DEF CheckDoes
  <2>4. CASE ListRunning(c) /\ Others(c) # {} /\ early' = (early \/ \A o \in Others(c) : ~Told(o))
    <3>1. ~early' => \E o \in Others(c) : Told(o)
      BY <2>4, <1>a DEF TypeOK
    <3>2. Others(c) \subseteq Checks \ {c}
      BY DEF Others
    <3> QED
      BY <3>1, <3>2, <2>2 DEF MadeWay
  <2>5. CASE UNCHANGED early /\ (said'[c] = "another runs" => said[c] = "another runs")
    <3>1. (\E o \in Checks : Tells(o)) => \E o \in Checks : Tells(o)'
      BY <2>2, <2>3
    <3>2. (\E o \in Checks : said'[o] = "another runs") => \E o \in Checks : said[o] = "another runs"
      BY <2>1, <2>5
    <3> QED
      BY <3>1, <3>2, <2>5, <1>a DEF MadeWay
  <2>6. ListRunning(c) => \/ Others(c) # {} /\ early' = (early \/ \A o \in Others(c) : ~Told(o))
                          \/ UNCHANGED early /\ (said'[c] = "another runs" => said[c] = "another runs")
    BY <2>a, <1>a DEF ListRunning, DriftOpensTask, GoesOn, Says, Go
  <2>7. CASE ~ListRunning(c)
    <3>1. UNCHANGED early
      BY <1>4, <2>7 DEF CheckDoes, CheckStep, CheckDrift, Gate, AgentProposes, FindAddress, StartProposal,
         StartCheck, DecideProposal, SeeDrift, watchVars
    <3>2. said'[c] = "another runs" => said[c] = "another runs"
      <4>1. CASE StartCheck(c) \/ DecideProposal(c) \/ SeeDrift(c) \/ CheckDrift(c)
        BY <4>1, <2>a, <1>a DEF StartCheck, DecideProposal, SeeDrift, CheckDrift, GoesOn, Says
      <4>2. CASE Gate(c) \/ AgentProposes(c)
        BY <4>2, <2>a, <1>a DEF Gate, AgentProposes, DriftOpensTask, GoesOn, Says
      <4>3. CASE FindAddress(c) \/ StartProposal(c)
        BY <4>3, <2>a, <1>a DEF FindAddress, StartProposal, GoesOn, Says
      <4> QED
        BY <1>4, <2>7, <4>1, <4>2, <4>3 DEF CheckDoes, CheckStep
    <3> QED
      BY <3>1, <3>2, <2>5
  <2> QED
    BY <2>4, <2>5, <2>6, <2>7
<1> QED
  BY <1>2, <1>3, <1>4, NextCases

-----------------------------------------------------------------------------
\* What a request's own step makes of it: it is pursued only from its wish on, which
\* it gets when every other one has been told that nothing was started.
LEMMA RequestMoves ==
    ASSUME TypeOK, NEW q \in Requests, RequestOK(q), RequestDoes(q)
    PROVE  /\ RequestOK(q)'
           /\ Pursued(q)' => Pursued(q) \/ \A o \in Requests \ {q} : ~Pursued(o)
<1>a. at \in [Jobs -> Task] /\ said \in [Jobs -> Outcome] /\ q \in Jobs /\ q \in Starters /\ runs \in [Starters -> Run]
  BY Who DEF TypeOK
<1> USE <1>a DEF RequestOK, Pursued, Refused, GoesOn, Says, Go, At
<1>1. ASSUME NEW kind \in {"deploy", "tear-down"}, Ask(q, kind)
      PROVE  RequestOK(q)' /\ \A o \in Requests \ {q} : ~Pursued(o)
  BY <1>1 DEF Ask
<1>2. CASE ReadAddress(q)
  BY <1>2 DEF ReadAddress, requestVars
<1>3. CASE Trigger(q)
  <2>1. at[q] = "trigger" /\ ~Refused(q)
    BY <1>3 DEF Trigger
  <2>2. \/ at'[q] = "id" /\ said'[q] = said[q]
        \/ at'[q] = "done" /\ said'[q] = "nothing was started" /\ (runs' = runs /\ unanswered' = unanswered)
        \/ at'[q] = "done" /\ said'[q] = "nothing was started" /\ unanswered' = unanswered \cup {q}
    BY <1>3 DEF Trigger
  <2> QED
    BY <2>1, <2>2
<1>4. CASE ReadId(q) \/ Answer(q)
  <2>1. at[q] \in {"id", "answer"} /\ ~Refused(q) /\ UNCHANGED <<runs, unanswered>>
    BY <1>4 DEF ReadId, Answer, requestVars
  <2>2. \/ at'[q] = "answer" /\ said'[q] = said[q]
        \/ at'[q] = "done" /\ said'[q] \in {"started, id unread", "started", "started, no answer"}
    BY <1>4 DEF ReadId, Answer
  <2> QED
    BY <2>1, <2>2
<1> QED
  BY <1>1, <1>2, <1>3, <1>4 DEF RequestDoes, RequestStep

\* No second request is pursued, and no started run is denied, but for a lost answer.
LEMMA RequestsStep == IInv /\ Next => OnePursued' /\ \A q \in Requests : RequestOK(q)'
<1> SUFFICES ASSUME IInv, Next PROVE OnePursued' /\ \A q \in Requests : RequestOK(q)'
  OBVIOUS
<1>a. TypeOK /\ OnePursued /\ (\A q \in Requests : RequestOK(q)) /\ Requests \subseteq Jobs /\ Requests \subseteq Starters
  BY Who DEF IInv
<1>1. ASSUME NEW q \in Requests, RequestDoes(q) PROVE OnePursued' /\ \A o \in Requests : RequestOK(o)'
  <2>1. \A o \in Requests \ {q} : at'[o] = at[o] /\ said'[o] = said[o] /\ runs'[o] = runs[o]
    BY <1>1, <1>a, RequestsApart DEF Apart
  <2>2. \A o \in Requests \ {q} : Pursued(o)' <=> Pursued(o)
    BY <2>1 DEF Pursued, Refused
  <2>3. unanswered \subseteq unanswered'
    BY <1>1 DEF RequestDoes, RequestStep, Ask, ReadAddress, Trigger, ReadId, Answer, requestVars
  <2>4. \A o \in Requests \ {q} : RequestOK(o)'
    BY <2>1, <2>2, <2>3, <1>a DEF RequestOK, Refused
  <2>5. RequestOK(q)' /\ (Pursued(q)' => Pursued(q) \/ \A o \in Requests \ {q} : ~Pursued(o))
    BY <1>1, <1>a, RequestMoves
  <2>6. OnePursued'
    BY <2>2, <2>5, <1>a DEF OnePursued
  <2> QED
    BY <2>4, <2>5, <2>6
<1>2. ASSUME UNCHANGED requestVars,
             \A o \in Requests : at'[o] = at[o] /\ said'[o] = said[o] /\ runs'[o].kind = runs[o].kind
      PROVE  OnePursued' /\ \A o \in Requests : RequestOK(o)'
  BY ZenonT(60), <1>2, <1>a DEF OnePursued, RequestOK, Pursued, Refused, requestVars
<1>3. ASSUME NEW c \in Checks, CheckDoes(c), UNCHANGED requestVars PROVE OnePursued' /\ \A o \in Requests : RequestOK(o)'
  <2>1. \A o \in Requests : at'[o] = at[o] /\ said'[o] = said[o] /\ runs'[o].kind = runs[o].kind
    BY <1>3, <1>a, ChecksApart, Who DEF Apart
  <2> QED
    BY <2>1, <1>2, <1>3
<1>4. ASSUME RunsGoOn \/ Drifts \/ Ages \/ Passes \/ Removed, UNCHANGED requestVars
      PROVE  OnePursued' /\ \A o \in Requests : RequestOK(o)'
  BY <1>4, <1>2, <1>a, OthersApart
<1> QED
  BY <1>1, <1>3, <1>4, NextCases

-----------------------------------------------------------------------------
\* At first nothing has been asked, checked or started.
LEMMA InitIInv == Init => IInv
<1> SUFFICES ASSUME Init PROVE IInv
  OBVIOUS
<1> USE DEF Init, RunsInit, RequestInit, WatchInit
<1>1. "start" \in Task /\ "nothing" \in Outcome /\ "none" \in Wish
  BY DEF Task, Outcome, Wish
<1>2. aws \in Deployment /\ (aws.up \/ aws = Gone)
  BY DEF Fresh, Gone, Deployment
<1>3. NoRun \in Run /\ NoRun.kind = "none" /\ ~NoRun.open
  BY DEF NoRun, Run
<1>4. TypeOK
  BY <1>1, <1>2, <1>3 DEF TypeOK
<1>5. OneProposer /\ \A c \in Checks : CheckOK(c)
  BY <1>3, Who DEF OneProposer, Proposes, CheckOK
<1>6. MadeWay /\ OnePursued /\ \A q \in Requests : RequestOK(q)
  BY <1>3, Who DEF MadeWay, OnePursued, Pursued, RequestOK, Refused
<1> QED
  BY <1>4, <1>5, <1>6 DEF IInv

\* A step that changes nothing keeps the invariant.
LEMMA StutterStep == IInv /\ UNCHANGED vars => IInv'
<1> SUFFICES ASSUME IInv, UNCHANGED vars PROVE IInv'
  OBVIOUS
<1>1. UNCHANGED <<env, at, said, aws, runs, wish, unanswered, found, proposal, early>>
  BY DEF vars, control, requestVars, watchVars
<1>2. TypeOK' /\ OneProposer'
  BY <1>1 DEF IInv, TypeOK, OneProposer, Proposes
<1>3. (\A c \in Checks : CheckOK(c)') /\ MadeWay'
  BY <1>1 DEF IInv, CheckOK, MadeWay, Told, At
<1>4. OnePursued' /\ \A q \in Requests : RequestOK(q)'
  BY <1>1 DEF IInv, OnePursued, RequestOK, Pursued, Refused
<1> QED
  BY <1>2, <1>3, <1>4 DEF IInv

\* IInv is an inductive invariant of the Watch beside the request tools.
THEOREM Inductive == Spec => []IInv
<1>1. IInv /\ [Next]_vars => IInv'
  <2>1. IInv /\ Next => IInv'
    BY TypeStep, ProposerStep, CheckStepOK, MadeWayStep, RequestsStep DEF IInv
  <2> QED
    BY <2>1, StutterStep
<1> QED
  BY <1>1, InitIInv, PTL DEF Spec

\* Every variable keeps its shape, and a redeploy is proposed for drift alone.
THEOREM TypeCorrect == Spec => []TypeOK
<1>1. IInv => TypeOK
  BY DEF IInv
<1> QED
  BY <1>1, Inductive, PTL

\* However many Checks overlap, at most one has a card: its proposal, or the card of
\* the run that an approved proposal started.
THEOREM OneCard == Spec => []OneOpenCard
<1>1. IInv => OneOpenCard
  <2> SUFFICES ASSUME OneProposer PROVE OneOpenCard
    BY DEF IInv
  <2> DEFINE Cards == {c \in Checks : At(c, "card") \/ At(c, "trigger") \/ runs[c].open}
  <2>1. \A c, o \in Cards : c = o
    BY DEF OneProposer, Proposes, At
  <2>2. Cardinality(Cards) \in {0, 1}
    BY <2>1, AtMostOne
  <2> QED
    BY <2>2 DEF OneOpenCard
<1> QED
  BY <1>1, Inductive, PTL

\* Drift that was found and that nobody was told of was hidden by Checks that made
\* way for one another before any of them had told anybody.
THEOREM HiddenTogether == Spec => []HiddenOnlyTogether
<1>1. IInv => HiddenOnlyTogether
  <2> SUFFICES ASSUME IInv, \A c \in Checks : ~Running(c), NEW c \in Checks, found[c], \A o \in Checks : ~Told(o)
               PROVE  early
    BY DEF HiddenOnlyTogether
  <2>1. at[c] = "done" /\ said[c] = "another runs"
    BY DEF IInv, CheckOK, Running
  <2>2. \A o \in Checks : ~At(o, "trigger")
    BY DEF Running, At
  <2> QED
    BY <2>1, <2>2 DEF IInv, MadeWay
<1> QED
  BY <1>1, Inductive, PTL

\* However often the agent asks again for one wish, a second run is started only
\* where the answer of a start was lost.
THEOREM OneRun == Spec => []OneRunPerWish
<1>1. IInv => OneRunPerWish
  <2> DEFINE Started == {q \in Requests : runs[q].kind # "none"}
  <2> SUFFICES ASSUME IInv, unanswered = {} PROVE Cardinality(Started) \in {0, 1}
    BY DEF OneRunPerWish
  <2>1. \A q, o \in Started : q = o
    BY DEF IInv, RequestOK, OnePursued
  <2> QED
    BY <2>1, AtMostOne
<1> QED
  BY <1>1, Inductive, PTL
=============================================================================
