----------------------------- MODULE AwsVpnProofs -----------------------------
(***************************************************************************)
(* Theorems about AwsVpn and the change request it extends, for any number *)
(* of runs, any lifetimes and any number of reloads.  The argument is the  *)
(* inductive invariant IInv of AwsVpn: one lemma per conjunct, one step    *)
(* per action; the properties follow from it.                              *)
(***************************************************************************)
EXTENDS AwsVpn, TLAPS

-----------------------------------------------------------------------------
\* The steps of Next, one by one: what a proof about a step has to go through.
LEMMA NextCases ==
    ASSUME Next
    PROVE  \/ \E j \in Deploys : PlanDeploy(j) \/ ApplyDeploy(j) \/ EnsureKey(j) \/ DiscardPlan(j)
           \/ \E j \in HandOffs : PrepareHandOff(j) \/ PushBlock(j) \/ ReadHandOff(j) \/ Verify(j)
           \/ \E j \in Removers : \/ ReadBefore(j) \/ RemoveBlock(j) \/ ReadRemoval(j) \/ ProveGone(j)
                                  \/ PlanDestroy(j) \/ Destroy(j) \/ ReadLeft(j) \/ RejectDestroy(j)
           \/ \E j \in PersonRuns : Change(j) \/ Decide(j) \/ Fix(j)
           \/ \E j \in Deploys, hours \in Lifetimes : StartDeploy(j, hours)
           \/ \E j \in HandOffs \cup TearDowns : Start(j)
           \/ \E j \in Expiries : ReadEndTime(j) \/ SeeTask(j)
           \/ \E j \in TearDowns : DecideDestroy(j)
           \/ TimerFires \/ Reload \/ Tick
  BY DEF Next, Step, DeployStep, HandOffStep, TearDownStep, Around, People

\* No step changes who runs and what may fail.
LEMMA EnvStays == [Next]_vars => env' = env
  BY DEF Next, Step, vars

\* What a fresh plan makes of the state, or leaves of it, is a state.
LEMMA AppliedType ==
    ASSUME TypeOK, RouterFirst, NEW j \in Planners, PlanOK(j), Fresh(j)
    PROVE  /\ Applied(j) \in AwsState
           /\ ~(plan[j].kind = "destroy" /\ aws.up = "none") => PartWay(j) \subseteq AwsState
<1>1. plan[j] \in StoredPlan /\ aws \in AwsState
  BY DEF TypeOK, Fresh
<1>2. plan[j].until \in Times /\ j \in Versions
  BY <1>1 DEF StoredPlan, Versions
<1>3. Torn(j) \in AwsState
  BY <1>2 DEF Torn, AwsState, Times
<1>4. ~(plan[j].kind = "destroy" /\ aws.up = "none") => Maker(j) \in Deployments
  BY <1>1 DEF Maker, AwsState, RouterFirst, PlanOK, Deployments, Fresh
<1>5. ASSUME plan[j].kind # "destroy" PROVE Applied(j) \in AwsState
  BY <1>1, <1>2, <1>4, <1>5 DEF Applied, AwsState
<1>6. ASSUME ~(plan[j].kind = "destroy" /\ aws.up = "none"), NEW u \in {aws.until, plan[j].until}
      PROVE  [aws EXCEPT !.up = "part", !.by = j, !.until = u, !.made = Maker(j)] \in AwsState
  <2>1. u \in Times /\ Maker(j) \in Deployments
    BY <1>1, <1>2, <1>4, <1>6 DEF AwsState
  <2> QED
    BY <1>1, <1>2, <2>1 DEF AwsState
<1> QED
  BY <1>3, <1>5, <1>6 DEF Applied, PartWay

-----------------------------------------------------------------------------
\* Where a run's own variables go: a task, an ending, a state of its change.
LEMMA RunsType == TypeOK /\ Next => /\ at' \in [Runs -> Task] /\ ending' \in [Runs -> Kind]
                                    /\ chg' \in [PersonRuns -> ChangeState]
<1> SUFFICES ASSUME TypeOK, Next
             PROVE  /\ at' \in [Runs -> Task] /\ ending' \in [Runs -> Kind]
                    /\ chg' \in [PersonRuns -> ChangeState]
  OBVIOUS
<1> DEFINE Typed == /\ at' \in [Runs -> Task] /\ ending' \in [Runs -> Kind]
                    /\ chg' \in [PersonRuns -> ChangeState]
<1>a. at \in [Runs -> Task] /\ ending \in [Runs -> Kind] /\ chg \in [PersonRuns -> ChangeState]
  BY DEF TypeOK
<1>b. /\ Deploys \subseteq Runs /\ HandOffs \subseteq Runs /\ Removers \subseteq Runs /\ PersonRuns \subseteq Runs
      /\ TearDowns \subseteq Runs /\ Expiries \subseteq Runs
  BY DEF PersonRuns, Runs, Removers
<1> USE DEF Go, change
\* A run that ends goes to a task that ends it
<1>c. ASSUME NEW j \in Runs, NEW kind \in Kind, NEW timedEnd \in Task, Ends(j, kind, timedEnd)
      PROVE  at' \in [Runs -> Task] /\ ending' \in [Runs -> Kind]
  BY <1>a, <1>c DEF Ends, Task
<1>d. /\ "start" \in Task /\ "open" \in Task /\ "plan" \in Task /\ "read" \in Task /\ "before" \in Task
      /\ "card" \in Task /\ "schedule" \in Task /\ "implement" \in Task /\ "apply" \in Task /\ "psk" \in Task
      /\ "discard" \in Task /\ "send" \in Task /\ "remove" \in Task /\ "answer" \in Task /\ "verify" \in Task
      /\ "prove" \in Task /\ "planDestroy" \in Task /\ "card2" \in Task /\ "destroy" \in Task /\ "left" \in Task
      /\ "discard2" \in Task /\ "task" \in Task /\ "close" \in Task /\ "close2" \in Task /\ "fix" \in Task
      /\ "done" \in Task /\ "fixed" \in Task /\ "fix card" \in Task /\ "unwritten" \in Task
  BY DEF Task, Over
<1>e. /\ "none" \in Kind /\ "canceled" \in Kind /\ "rejected" \in Kind /\ "failed" \in Kind
      /\ "successful" \in Kind
  BY DEF Kind
<1>1. ASSUME NEW j \in Deploys, PlanDeploy(j) \/ ApplyDeploy(j) \/ EnsureKey(j) \/ DiscardPlan(j) PROVE Typed
  <2>1. CASE PlanDeploy(j)
    BY <2>1, <1>a, <1>b, <1>c, <1>d, <1>e DEF PlanDeploy, Review
  <2>2. CASE ApplyDeploy(j)
    BY <2>2, <1>a, <1>b, <1>c, <1>d, <1>e DEF ApplyDeploy, Apply
  <2>3. CASE EnsureKey(j)
    BY <2>3, <1>a, <1>b, <1>c, <1>d, <1>e DEF EnsureKey, Failing
  <2>4. CASE DiscardPlan(j)
    BY <2>4, <1>a, <1>b, <1>c, <1>d, <1>e DEF DiscardPlan
  <2> QED
    BY <1>1, <2>1, <2>2, <2>3, <2>4
<1>2. ASSUME NEW j \in HandOffs, PrepareHandOff(j) \/ PushBlock(j) \/ ReadHandOff(j) \/ Verify(j) PROVE Typed
  <2>1. CASE PrepareHandOff(j)
    BY <2>1, <1>a, <1>b, <1>c, <1>d, <1>e DEF PrepareHandOff, BatfishGate, ReadBack
  <2>2. CASE PushBlock(j)
    BY <2>2, <1>a, <1>b, <1>c, <1>d, <1>e DEF PushBlock, SendUnderTimer, NothingSent
  <2>3. CASE ReadHandOff(j)
    BY <2>3, <1>a, <1>b, <1>c, <1>d, <1>e DEF ReadHandOff, ReadPush
  <2>4. CASE Verify(j)
    BY <2>4, <1>a, <1>b, <1>c, <1>d, <1>e DEF Verify
  <2> QED
    BY <1>2, <2>1, <2>2, <2>3, <2>4
<1>3. ASSUME NEW j \in Removers, \/ ReadBefore(j) \/ RemoveBlock(j) \/ ReadRemoval(j) \/ ProveGone(j)
                                 \/ PlanDestroy(j) \/ Destroy(j) \/ ReadLeft(j) \/ RejectDestroy(j)
      PROVE  Typed
  <2>1. CASE ReadBefore(j)
    BY <2>1, <1>a, <1>b, <1>c, <1>d, <1>e DEF ReadBefore, Failing
  <2>2. CASE RemoveBlock(j)
    BY <2>2, <1>a, <1>b, <1>c, <1>d, <1>e DEF RemoveBlock, SendUnderTimer, NothingSent
  <2>3. CASE ReadRemoval(j)
    BY <2>3, <1>a, <1>b, <1>c, <1>d, <1>e DEF ReadRemoval, ReadPush
  <2>4. CASE ProveGone(j)
    BY <2>4, <1>a, <1>b, <1>c, <1>d, <1>e DEF ProveGone
  <2>5. CASE PlanDestroy(j)
    BY <2>5, <1>a, <1>b, <1>c, <1>d, <1>e DEF PlanDestroy, Failing
  <2>6. CASE Destroy(j)
    BY <2>6, <1>a, <1>b, <1>c, <1>d, <1>e DEF Destroy, Apply
  <2>7. CASE ReadLeft(j)
    BY <2>7, <1>a, <1>b, <1>c, <1>d, <1>e DEF ReadLeft
  <2>8. CASE RejectDestroy(j)
    BY <2>8, <1>a, <1>b, <1>c, <1>d, <1>e DEF RejectDestroy
  <2> QED
    BY <1>3, <2>1, <2>2, <2>3, <2>4, <2>5, <2>6, <2>7, <2>8
<1>4. ASSUME NEW j \in PersonRuns, Change(j) \/ Decide(j) \/ Fix(j) PROVE Typed
  \* A call moves the change to a state, whatever comes of it
  <2>a. ASSUME NEW s \in ChangeState, NEW then, NEW refused, Call(j, s, then, refused)
        PROVE  chg' \in [PersonRuns -> ChangeState] /\ (then \/ refused)
    BY <2>a, <1>a DEF Call
  <2>b. "New" \in ChangeState /\ "Scheduled" \in ChangeState /\ "Implement" \in ChangeState /\ "Review" \in ChangeState
        /\ "Closed" \in ChangeState /\ "Canceled" \in ChangeState
    BY DEF ChangeState
  <2>c. First(j) \in Task /\ Approved(j) \in Task /\ Refused(j) \in Task
    BY <1>d DEF First, Approved, Refused
  <2>d. ASSUME NEW t \in Task, Go(j, t) PROVE at' \in [Runs -> Task]
    BY <2>d, <1>a
  <2>e. ASSUME NEW kind \in Kind, ending' = [ending EXCEPT ![j] = kind] PROVE ending' \in [Runs -> Kind]
    BY <2>e, <1>a
  <2>1. CASE OpenChange(j, First(j))
    <3>1. chg' \in [PersonRuns -> ChangeState] /\ (Go(j, First(j)) \/ Go(j, "done")) /\ UNCHANGED ending
      BY <2>1, <2>a, <2>b, <1>a DEF OpenChange
    <3> QED
      BY <3>1, <2>c, <2>d, <1>a, <1>d
  <2>2. CASE ScheduleChange(j, Refused(j))
    <3>1. /\ chg' \in [PersonRuns -> ChangeState]
          /\ Go(j, "implement") \/ Go(j, Refused(j))
          /\ UNCHANGED ending \/ ending' = [ending EXCEPT ![j] = "canceled"]
      BY <2>2, <2>a, <2>b DEF ScheduleChange
    <3> QED
      BY <3>1, <2>c, <2>d, <2>e, <1>a, <1>d, <1>e
  <2>3. CASE ImplementChange(j, Approved(j), Refused(j))
    <3>1. /\ chg' \in [PersonRuns -> ChangeState]
          /\ Go(j, Approved(j)) \/ Go(j, Refused(j))
          /\ UNCHANGED ending \/ ending' = [ending EXCEPT ![j] = "canceled"]
      BY <2>3, <2>a, <2>b DEF ImplementChange
    <3> QED
      BY <3>1, <2>c, <2>d, <2>e, <1>a, <1>e
  <2>4. CASE CloseFirst(j)
    <3>1. /\ chg' \in [PersonRuns -> ChangeState] /\ UNCHANGED ending
          /\ Go(j, IF TwoSteps(j) THEN "close2" ELSE "done") \/ Go(j, "fix")
      BY <2>4, <2>a, <2>b, <1>a DEF CloseFirst
    <3> QED
      BY <3>1, <2>d, <1>a, <1>d
  <2>5. CASE CloseSecond(j)
    <3>1. chg' \in [PersonRuns -> ChangeState] /\ (Go(j, "done") \/ Go(j, "fix")) /\ UNCHANGED ending
      BY <2>5, <2>a, <2>b DEF CloseSecond
    <3> QED
      BY <3>1, <2>d, <1>a, <1>d
  <2>6. CASE FixCard(j)
    BY <2>6, <2>d, <1>a, <1>d DEF FixCard
  <2>7. CASE Decide(j)
    <3>1. "rejected" \in Kind
      BY DEF Kind
    <3>2. /\ UNCHANGED chg
          /\ UNCHANGED ending \/ ending' = [ending EXCEPT ![j] = "rejected"]
          /\ \E t \in {"schedule", "discard", "close"} : Go(j, t)
      BY <2>7 DEF Decide
    <3> QED
      BY <3>1, <3>2, <2>d, <2>e, <1>a, <1>d
  <2>8. CASE Fix(j)
    BY <2>8, <2>d, <1>a, <1>d DEF Fix, CloseFixCard
  <2> QED
    BY <1>4, <2>1, <2>2, <2>3, <2>4, <2>5, <2>6, <2>7, <2>8 DEF Change
<1>5. ASSUME \/ \E j \in Deploys, hours \in Lifetimes : StartDeploy(j, hours)
             \/ \E j \in HandOffs \cup TearDowns : Start(j)
             \/ \E j \in Expiries : ReadEndTime(j) \/ SeeTask(j)
             \/ \E j \in TearDowns : DecideDestroy(j)
             \/ TimerFires \/ Reload \/ Tick
      PROVE  Typed
  BY <1>5, <1>a, <1>b DEF StartDeploy, Start, ReadEndTime, SeeTask, DecideDestroy, TimerFires, Reload, Tick, Failing,
     Task, Over
<1> QED
  BY <1>1, <1>2, <1>3, <1>4, <1>5, NextCases

\* The state, the plans and the inputs of the runs.
LEMMA CloudType == IInv /\ Next => /\ aws' \in AwsState /\ plan' \in [Planners -> StoredPlan \cup {None}]
                                   /\ want' \in [Deploys -> Times] /\ now' \in 0 .. env.hours
                                   /\ block' \in [HandOffs -> Deployments \cup {None}]
                                   /\ clean' \in [Removers -> BOOLEAN]
<1> SUFFICES ASSUME IInv, Next
             PROVE  /\ aws' \in AwsState /\ plan' \in [Planners -> StoredPlan \cup {None}]
                    /\ want' \in [Deploys -> Times] /\ now' \in 0 .. env.hours
                    /\ block' \in [HandOffs -> Deployments \cup {None}]
                    /\ clean' \in [Removers -> BOOLEAN]
  OBVIOUS
<1> DEFINE Typed == /\ aws' \in AwsState /\ plan' \in [Planners -> StoredPlan \cup {None}]
                    /\ want' \in [Deploys -> Times] /\ now' \in 0 .. env.hours
                    /\ block' \in [HandOffs -> Deployments \cup {None}]
                    /\ clean' \in [Removers -> BOOLEAN]
<1>a. /\ aws \in AwsState /\ plan \in [Planners -> StoredPlan \cup {None}] /\ want \in [Deploys -> Times]
      /\ now \in 0 .. env.hours /\ block \in [HandOffs -> Deployments \cup {None}]
      /\ clean \in [Removers -> BOOLEAN] /\ env.hours \in Nat
  BY EnvironmentAssumption DEF IInv, TypeOK
<1>b. /\ TypeOK /\ RouterFirst /\ \A j \in Planners : PlanOK(j)
      /\ Deploys \subseteq Planners /\ Removers \subseteq Planners
  BY DEF IInv, Planners
<1> USE DEF cloud, inputs, Rest
<1>1. ASSUME NEW j \in Planners, NEW kind \in {"deploy", "destroy"}, NEW u \in Times,
             StorePlan(j, kind, u) \/ Discard(j) \/ UNCHANGED plan
      PROVE  plan' \in [Planners -> StoredPlan \cup {None}]
  <2>1. [kind |-> kind, on |-> aws.by, until |-> u] \in StoredPlan
    BY <1>a DEF StoredPlan, AwsState
  <2> QED
    BY <1>1, <1>a, <2>1 DEF StorePlan, Discard
<1>2. ASSUME NEW j \in Planners, NEW done, NEW failed, Apply(j, done, failed)
      PROVE  aws' \in AwsState /\ plan' \in [Planners -> StoredPlan \cup {None}]
  BY <1>2, <1>a, <1>b, AppliedType DEF Apply, Discard
<1>3. ASSUME NEW j \in Deploys, PlanDeploy(j) \/ ApplyDeploy(j) \/ EnsureKey(j) \/ DiscardPlan(j) PROVE Typed
  <2>1. CASE PlanDeploy(j)
    BY <2>1, <1>1, <1>a, <1>b DEF PlanDeploy
  <2>2. CASE ApplyDeploy(j)
    BY <2>2, <1>2, <1>a, <1>b DEF ApplyDeploy
  <2>3. CASE EnsureKey(j)
    <3>1. [aws EXCEPT !.key = aws.up # "none"] \in AwsState
      BY <1>a DEF AwsState
    <3> QED
      BY <2>3, <3>1, <1>a DEF EnsureKey, Failing
  <2>4. CASE DiscardPlan(j)
    BY <2>4, <1>a DEF DiscardPlan, Discard
  <2> QED
    BY <1>3, <2>1, <2>2, <2>3, <2>4
<1>4. ASSUME NEW j \in HandOffs, PrepareHandOff(j) \/ PushBlock(j) \/ ReadHandOff(j) \/ Verify(j) PROVE Typed
  <2>1. aws.made \in Deployments \cup {None}
    BY <1>a DEF AwsState
  <2> QED
    BY <1>4, <2>1, <1>a DEF PrepareHandOff, BatfishGate, ReadBack, PushBlock, ReadHandOff, ReadPush, Verify
<1>5. ASSUME NEW j \in Removers, \/ ReadBefore(j) \/ RemoveBlock(j) \/ ReadRemoval(j) \/ ProveGone(j)
                                 \/ PlanDestroy(j) \/ Destroy(j) \/ ReadLeft(j) \/ RejectDestroy(j)
      PROVE  Typed
  <2>1. CASE PlanDestroy(j)
    BY <2>1, <1>1, <1>a, <1>b DEF PlanDestroy, Failing, Times
  <2>2. CASE Destroy(j)
    BY <2>2, <1>2, <1>a, <1>b DEF Destroy
  <2>3. CASE \/ ReadBefore(j) \/ RemoveBlock(j) \/ ReadRemoval(j) \/ ProveGone(j) \/ ReadLeft(j) \/ RejectDestroy(j)
    BY <2>3, <1>a DEF ReadBefore, RemoveBlock, ReadRemoval, ReadPush, ProveGone, ReadLeft, RejectDestroy, Discard, Failing
  <2> QED
    BY <1>5, <2>1, <2>2, <2>3
<1>6. ASSUME NEW j \in Deploys, NEW hours \in Lifetimes, StartDeploy(j, hours) PROVE Typed
  <2>1. EndOf(hours) \in Times
    BY <1>a, LifetimeAssumption DEF EndOf, Times
  <2> QED
    BY <1>6, <2>1, <1>a DEF StartDeploy, Failing
<1>7. ASSUME \/ \E j \in PersonRuns : Change(j) \/ Decide(j) \/ Fix(j)
             \/ \E j \in HandOffs \cup TearDowns : Start(j)
             \/ \E j \in Expiries : ReadEndTime(j) \/ SeeTask(j)
             \/ \E j \in TearDowns : DecideDestroy(j)
             \/ TimerFires \/ Reload \/ Tick
      PROVE  Typed
  BY <1>7, <1>a DEF Change, Decide, Fix, Start, ReadEndTime, SeeTask, DecideDestroy, TimerFires, Reload, Tick, history
<1> QED
  BY <1>3, <1>4, <1>5, <1>6, <1>7, NextCases

\* The router and the history.
LEMMA RouterType == IInv /\ Next => /\ running' \in Deployments \cup {None} /\ startup' \in Deployments \cup {None}
                                    /\ timer' \in Pending \cup {None} /\ reloads' \in 0 .. MaxReloads
                                    /\ due' \in [Expiries -> Versions \cup {None}]
                                    /\ sent' \subseteq Runs /\ causes' \subseteq Cause
<1> SUFFICES ASSUME IInv, Next
             PROVE  /\ running' \in Deployments \cup {None} /\ startup' \in Deployments \cup {None}
                    /\ timer' \in Pending \cup {None} /\ reloads' \in 0 .. MaxReloads
                    /\ due' \in [Expiries -> Versions \cup {None}]
                    /\ sent' \subseteq Runs /\ causes' \subseteq Cause
  OBVIOUS
<1> DEFINE Blocks == Deployments \cup {None}
           Typed == /\ running' \in Blocks /\ startup' \in Blocks
                    /\ timer' \in Pending \cup {None} /\ reloads' \in 0 .. MaxReloads
                    /\ due' \in [Expiries -> Versions \cup {None}]
                    /\ sent' \subseteq Runs /\ causes' \subseteq Cause
<1>a. /\ running \in Blocks /\ startup \in Blocks /\ block \in [HandOffs -> Blocks] /\ None \in Blocks
      /\ timer \in Pending \cup {None} /\ reloads \in 0 .. MaxReloads
      /\ due \in [Expiries -> Versions \cup {None}]
      /\ sent \subseteq Runs /\ causes \subseteq Cause
      /\ aws.by \in Versions
  BY DEF IInv, TypeOK, AwsState
<1>b. /\ Deploys \subseteq Runs /\ HandOffs \subseteq Runs /\ Removers \subseteq Runs
  BY DEF PersonRuns, Runs, Removers
<1>c. timer # None => timer.back \in Blocks
  BY <1>a DEF Pending
<1>d. ASSUME NEW cause \in Cause, Returns(cause) PROVE causes' \subseteq Cause
  BY <1>a, <1>d DEF Returns
<1>e. "hand-off" \in Cause /\ "rollback" \in Cause /\ "timer" \in Cause /\ "reload" \in Cause
  BY DEF Cause
<1> USE DEF router, history
<1>1. ASSUME NEW j \in HandOffs \cup Removers, NEW new \in Blocks, SendUnderTimer(j, new)
      PROVE  /\ running' \in Blocks /\ startup' \in Blocks /\ timer' \in Pending \cup {None}
             /\ reloads' \in 0 .. MaxReloads /\ sent' \subseteq Runs
  <2>1. [owner |-> j, back |-> running] \in Pending
    BY <1>a DEF Pending
  <2> QED
    BY <1>1, <2>1, <1>a, <1>b DEF SendUnderTimer
<1>2. ASSUME NEW j \in HandOffs \cup Removers, NEW holds, NEW next, NEW timedEnd, ReadPush(j, holds, next, timedEnd)
      PROVE  Typed
  BY <1>2, <1>a, <1>c, <1>d, <1>e DEF ReadPush, Saved, RolledBack, Unsaved, Own
<1>3. ASSUME NEW j \in Deploys, PlanDeploy(j) \/ ApplyDeploy(j) \/ EnsureKey(j) \/ DiscardPlan(j) PROVE Typed
  BY <1>3, <1>a, <1>b DEF PlanDeploy, ApplyDeploy, Apply, EnsureKey, DiscardPlan
<1>4. ASSUME NEW j \in HandOffs, PrepareHandOff(j) \/ PushBlock(j) \/ ReadHandOff(j) \/ Verify(j) PROVE Typed
  <2>1. CASE PushBlock(j)
    BY <2>1, <1>1, <1>a, <1>b, <1>d, <1>e DEF PushBlock, NothingSent
  <2> QED
    BY <1>4, <2>1, <1>2, <1>a DEF PrepareHandOff, ReadHandOff, Verify
<1>5. ASSUME NEW j \in Removers, \/ ReadBefore(j) \/ RemoveBlock(j) \/ ReadRemoval(j) \/ ProveGone(j)
                                 \/ PlanDestroy(j) \/ Destroy(j) \/ ReadLeft(j) \/ RejectDestroy(j)
      PROVE  Typed
  <2>1. CASE RemoveBlock(j)
    BY <2>1, <1>1, <1>a, <1>b DEF RemoveBlock, NothingSent
  <2>2. CASE Destroy(j)
    BY <2>2, <1>a, <1>b DEF Destroy, Apply
  <2> QED
    BY <1>5, <2>1, <2>2, <1>2, <1>a DEF ReadBefore, ReadRemoval, ProveGone, PlanDestroy, ReadLeft, RejectDestroy
<1>6. ASSUME TimerFires \/ Reload PROVE Typed
  BY <1>6, <1>a, <1>c, <1>d, <1>e, BoundAssumption DEF TimerFires, Reload
<1>7. ASSUME \/ \E j \in Deploys, hours \in Lifetimes : StartDeploy(j, hours)
             \/ \E j \in PersonRuns : Change(j) \/ Decide(j) \/ Fix(j)
             \/ \E j \in HandOffs \cup TearDowns : Start(j)
             \/ \E j \in Expiries : ReadEndTime(j) \/ SeeTask(j)
             \/ \E j \in TearDowns : DecideDestroy(j)
             \/ Tick
      PROVE  Typed
  BY <1>7, <1>a DEF StartDeploy, Change, Decide, Fix, Rest, Start, ReadEndTime, SeeTask, DecideDestroy, Tick
<1> QED
  BY <1>3, <1>4, <1>5, <1>6, <1>7, NextCases

\* Every step keeps the shape of every variable.
LEMMA TypeStep == IInv /\ [Next]_vars => TypeOK'
<1>1. IInv /\ Next => TypeOK'
  BY EnvStays, RunsType, CloudType, RouterType DEF IInv, TypeOK
<1>2. TypeOK /\ UNCHANGED vars => TypeOK'
  BY DEF TypeOK, vars, change, cloud, router, inputs, history
<1> QED
  BY <1>1, <1>2 DEF IInv

-----------------------------------------------------------------------------
\* A step of one run leaves every other run where it is.
Apart(i) == \A j \in Runs \ {i} : /\ at'[j] = at[j] /\ ending'[j] = ending[j] /\ (j \in sent' <=> j \in sent)
                                  /\ j \in PersonRuns => chg'[j] = chg[j]

\* Of the actions of a run, none disturbs the steps of another.
LEMMA RunsApart ==
    ASSUME TypeOK
    PROVE  /\ \A i \in Deploys : PlanDeploy(i) \/ ApplyDeploy(i) \/ EnsureKey(i) \/ DiscardPlan(i) => Apart(i)
           /\ \A i \in HandOffs : PrepareHandOff(i) \/ PushBlock(i) \/ ReadHandOff(i) \/ Verify(i) => Apart(i)
           /\ \A i \in Removers : TearDownStep(i) => Apart(i)
           /\ \A i \in PersonRuns : Change(i) \/ Decide(i) \/ Fix(i) => Apart(i)
           /\ \A i \in Deploys, hours \in Lifetimes : StartDeploy(i, hours) => Apart(i)
           /\ \A i \in HandOffs \cup TearDowns : Start(i) => Apart(i)
           /\ \A i \in Expiries : ReadEndTime(i) \/ SeeTask(i) => Apart(i)
           /\ \A i \in TearDowns : DecideDestroy(i) => Apart(i)
<1>a. at \in [Runs -> Task] /\ ending \in [Runs -> Kind] /\ chg \in [PersonRuns -> ChangeState]
  BY DEF TypeOK
<1> USE DEF Apart, Go, Ends, change, history, Rest
<1>1. \A i \in Deploys : PlanDeploy(i) \/ ApplyDeploy(i) \/ EnsureKey(i) \/ DiscardPlan(i) => Apart(i)
  BY <1>a DEF PlanDeploy, Review, ApplyDeploy, Apply, EnsureKey, Failing, DiscardPlan
<1>2. \A i \in HandOffs : PrepareHandOff(i) \/ PushBlock(i) \/ ReadHandOff(i) \/ Verify(i) => Apart(i)
  BY <1>a DEF PrepareHandOff, BatfishGate, ReadBack, PushBlock, SendUnderTimer, NothingSent, ReadHandOff, ReadPush, Verify
<1>3. \A i \in Removers : TearDownStep(i) => Apart(i)
  BY <1>a DEF TearDownStep, ReadBefore, RemoveBlock, SendUnderTimer, NothingSent, ReadRemoval, ReadPush, ProveGone, PlanDestroy,
     Destroy, Apply, ReadLeft, RejectDestroy, Failing
<1>4. \A i \in PersonRuns : Change(i) \/ Decide(i) \/ Fix(i) => Apart(i)
  <2>1. ASSUME NEW i \in PersonRuns, Change(i) PROVE Apart(i)
    <3>1. UNCHANGED sent
      BY <2>1 DEF Change
    <3>2. \/ OpenChange(i, First(i)) \/ ScheduleChange(i, Refused(i)) \/ ImplementChange(i, Approved(i), Refused(i))
          \/ CloseFirst(i) \/ CloseSecond(i) \/ FixCard(i)
      BY <2>1 DEF Change
    <3>3. CASE OpenChange(i, First(i))
      BY <3>1, <3>3, <1>a DEF OpenChange, Call
    <3>4. CASE ScheduleChange(i, Refused(i))
      BY <3>1, <3>4, <1>a DEF ScheduleChange, Call
    <3>5. CASE ImplementChange(i, Approved(i), Refused(i))
      BY <3>1, <3>5, <1>a DEF ImplementChange, Call
    <3>6. CASE CloseFirst(i)
      BY <3>1, <3>6, <1>a DEF CloseFirst, Call
    <3>7. CASE CloseSecond(i)
      BY <3>1, <3>7, <1>a DEF CloseSecond, Call
    <3>8. CASE FixCard(i)
      BY <3>1, <3>8, <1>a DEF FixCard
    <3> QED
      BY <3>2, <3>3, <3>4, <3>5, <3>6, <3>7, <3>8
  <2>2. \A i \in PersonRuns : Decide(i) \/ Fix(i) => Apart(i)
    BY <1>a DEF Decide, Fix, CloseFixCard
  <2> QED
    BY <2>1, <2>2
<1>5. /\ \A i \in Deploys, hours \in Lifetimes : StartDeploy(i, hours) => Apart(i)
      /\ \A i \in HandOffs \cup TearDowns : Start(i) => Apart(i)
      /\ \A i \in Expiries : ReadEndTime(i) \/ SeeTask(i) => Apart(i)
      /\ \A i \in TearDowns : DecideDestroy(i) => Apart(i)
  BY <1>a DEF StartDeploy, Start, ReadEndTime, SeeTask, DecideDestroy, Failing
<1> QED
  BY <1>1, <1>2, <1>3, <1>4, <1>5

-----------------------------------------------------------------------------
\* A run that is where it was keeps its change in order.
LEMMA ChangeKept ==
    ASSUME NEW j, ChangeOK(j), env' = env, at'[j] = at[j], ending'[j] = ending[j], chg'[j] = chg[j], j \in sent' <=> j \in sent
    PROVE  ChangeOK(j)'
BY DEF ChangeOK, RunnerFails, TwoSteps

\* A step of run i that keeps its own change in order keeps every change in order.
LEMMA OtherChanges ==
    ASSUME NEW i \in Runs, Apart(i), env' = env, \A j \in PersonRuns : ChangeOK(j), i \in PersonRuns => ChangeOK(i)'
    PROVE  \A j \in PersonRuns : ChangeOK(j)'
<1> SUFFICES ASSUME NEW j \in PersonRuns, j # i PROVE ChangeOK(j)'
  OBVIOUS
<1>1. /\ at'[j] = at[j] /\ ending'[j] = ending[j] /\ (j \in sent' <=> j \in sent) /\ chg'[j] = chg[j]
      /\ ChangeOK(j)
  BY DEF Apart, Runs
<1> QED
  BY <1>1, ChangeKept

\* Every step keeps the change of every run in order.
LEMMA ChangeStep == IInv /\ Next => \A j \in PersonRuns : ChangeOK(j)'
<1> SUFFICES ASSUME IInv, Next PROVE \A j \in PersonRuns : ChangeOK(j)'
  OBVIOUS
<1>a. TypeOK /\ \A j \in PersonRuns : ChangeOK(j)
  BY DEF IInv
<1>h. env' = env
  BY EnvStays
<1>b. at \in [Runs -> Task] /\ ending \in [Runs -> Kind] /\ chg \in [PersonRuns -> ChangeState]
  BY <1>a DEF TypeOK
<1>c. /\ Deploys \subseteq PersonRuns /\ HandOffs \subseteq PersonRuns /\ TearDowns \subseteq PersonRuns
      /\ PersonRuns \subseteq Runs /\ Removers \subseteq Runs /\ Removers = TearDowns \cup Expiries
      /\ PersonRuns \cap Expiries = {} /\ Deploys \cap HandOffs = {} /\ Deploys \cap TearDowns = {}
  BY RunAssumption DEF PersonRuns, Runs, Removers
<1> USE DEF Go, change, history, Rest, At
<1>d. ASSUME NEW j \in PersonRuns, NEW kind, NEW timedEnd, at[j] \in Touching, kind \in {"failed", "successful"},
             Ends(j, kind, timedEnd), UNCHANGED chg
      PROVE  ChangeOK(j)'
  BY <1>a, <1>b, <1>c, <1>d, <1>h DEF Ends, ChangeOK, TwoSteps, Unopened, Asking, Touching, Removing, Early
<1>e. ASSUME NEW j \in PersonRuns, NEW timedEnd, at[j] \in Asking, j \notin sent',
             Ends(j, "canceled", timedEnd), UNCHANGED chg
      PROVE  ChangeOK(j)'
  BY <1>a, <1>b, <1>c, <1>e DEF Ends, ChangeOK, TwoSteps, Unopened, Asking, Touching, Removing, Early
<1>f. ASSUME NEW j \in PersonRuns, NEW t \in Touching, at[j] \in Touching, Go(j, t), UNCHANGED <<chg, ending>>
      PROVE  ChangeOK(j)'
  <2>1. chg[j] = "Implement" /\ ending[j] = "none"
    BY <1>a, <1>f DEF ChangeOK
  <2>2. at'[j] \in Touching /\ chg'[j] = "Implement" /\ ending'[j] = "none"
    BY <2>1, <1>b, <1>c, <1>f
  <2> QED
    BY <2>2 DEF ChangeOK, Unopened, Asking, Touching, Removing
<1>t. ASSUME NEW j \in PersonRuns, at[j] \in Touching, UNCHANGED chg,
             \/ \E n \in Touching : Go(j, n) /\ UNCHANGED ending
             \/ \E kind \in {"failed", "successful"}, timedEnd \in {"done", "task"} : Ends(j, kind, timedEnd)
      PROVE  ChangeOK(j)'
  BY <1>t, <1>d, <1>f
<1>g. ASSUME NEW j \in PersonRuns, NEW t \in Asking, at[j] \in Asking, Go(j, t), UNCHANGED <<chg, ending, sent>>
      PROVE  ChangeOK(j)'
  BY <1>a, <1>b, <1>c, <1>g DEF ChangeOK, TwoSteps, Unopened, Asking, Touching, Removing, Early
<1>i. \A j \in PersonRuns : at[j] \in Asking => j \notin sent
  BY <1>a DEF ChangeOK
<1>1. ASSUME NEW j \in Deploys, PlanDeploy(j) \/ ApplyDeploy(j) \/ EnsureKey(j) PROVE ChangeOK(j)'
  <2>1. CASE PlanDeploy(j)
    BY <2>1, <1>c, <1>e, <1>g, <1>i DEF PlanDeploy, Review, Asking
  <2>2. CASE ApplyDeploy(j)
    BY <2>2, <1>c, <1>d, <1>f DEF ApplyDeploy, Apply, Touching
  <2>3. CASE EnsureKey(j)
    BY <2>3, <1>c, <1>d DEF EnsureKey, Failing, Touching
  <2> QED
    BY <1>1, <2>1, <2>2, <2>3
<1>2. ASSUME NEW j \in Deploys, DiscardPlan(j) PROVE ChangeOK(j)'
  BY <1>2, <1>a, <1>b, <1>c DEF DiscardPlan, ChangeOK, TwoSteps, Unopened, Asking, Touching, Removing, Early
<1>3. ASSUME NEW j \in HandOffs, PrepareHandOff(j) \/ PushBlock(j) \/ ReadHandOff(j) \/ Verify(j) PROVE ChangeOK(j)'
  <2>1. CASE PrepareHandOff(j)
    <3>1. at[j] \in Asking /\ j \notin sent /\ UNCHANGED <<chg, sent>>
      BY <2>1, <1>c, <1>i DEF PrepareHandOff, Asking
    <3>2. \/ Go(j, "card") /\ UNCHANGED ending
          \/ Ends(j, "canceled", "done")
      BY <2>1 DEF PrepareHandOff, BatfishGate, ReadBack
    <3> QED
      BY <3>1, <3>2, <1>c, <1>e, <1>g DEF Asking
  <2>2. CASE PushBlock(j)
    <3>1. at[j] \in Touching /\ UNCHANGED chg
      BY <2>2 DEF PushBlock, Touching, Removing
    <3>2. \/ \E n \in {"verify", "answer"} : Go(j, n) /\ UNCHANGED ending
          \/ Ends(j, "failed", "done")
      BY <2>2 DEF PushBlock, SendUnderTimer, NothingSent
    <3> QED
      BY <3>1, <3>2, <1>c, <1>t DEF Touching, Removing
  <2>3. CASE ReadHandOff(j)
    <3>1. at[j] \in Touching /\ UNCHANGED chg
      BY <2>3 DEF ReadHandOff, ReadPush, Touching, Removing
    <3>2. \/ Go(j, "verify") /\ UNCHANGED ending
          \/ Ends(j, "failed", "done")
      BY <2>3 DEF ReadHandOff, ReadPush
    <3> QED
      BY <3>1, <3>2, <1>c, <1>t DEF Touching, Removing
  <2>4. CASE Verify(j)
    <3>1. at[j] \in Touching /\ UNCHANGED chg
      BY <2>4 DEF Verify, Touching, Removing
    <3>2. \/ Ends(j, "successful", "done")
          \/ Ends(j, "failed", "done")
      BY <2>4 DEF Verify
    <3> QED
      BY <3>1, <3>2, <1>c, <1>t
  <2> QED
    BY <1>3, <2>1, <2>2, <2>3, <2>4
<1>4. ASSUME NEW j \in TearDowns, \/ ReadBefore(j) \/ RemoveBlock(j) \/ ReadRemoval(j) \/ ProveGone(j)
                                  \/ PlanDestroy(j) \/ Destroy(j) \/ ReadLeft(j) \/ RejectDestroy(j)
      PROVE  ChangeOK(j)'
  <2>1. CASE ReadBefore(j)
    <3>1. (Go(j, "card") /\ UNCHANGED ending) \/ Ends(j, "canceled", "task")
      BY <2>1 DEF ReadBefore, Failing
    <3>2. j \in PersonRuns /\ at[j] \in Asking /\ UNCHANGED <<chg, sent>> /\ j \notin sent
      BY <2>1, <1>a, <1>c DEF ReadBefore, ChangeOK, Asking
    <3> QED
      BY <3>1, <3>2, <1>e, <1>g DEF Asking
  <2>2. CASE RemoveBlock(j)
    <3>1. at[j] \in Touching /\ UNCHANGED chg
      BY <2>2 DEF RemoveBlock, Touching, Removing
    <3>2. \/ \E n \in {"prove", "answer"} : Go(j, n) /\ UNCHANGED ending
          \/ Ends(j, "failed", "task")
      BY <2>2 DEF RemoveBlock, SendUnderTimer, NothingSent
    <3> QED
      BY <3>1, <3>2, <1>c, <1>t DEF Touching, Removing
  <2>3. CASE ReadRemoval(j)
    <3>1. at[j] \in Touching /\ UNCHANGED chg
      BY <2>3 DEF ReadRemoval, ReadPush, Touching, Removing
    <3>2. \/ Go(j, "prove") /\ UNCHANGED ending
          \/ Ends(j, "failed", "task")
      BY <2>3 DEF ReadRemoval, ReadPush
    <3> QED
      BY <3>1, <3>2, <1>c, <1>t DEF Touching, Removing
  <2>4. CASE ProveGone(j)
    <3>1. at[j] \in Touching /\ UNCHANGED chg
      BY <2>4 DEF ProveGone, Touching, Removing
    <3>2. \/ Go(j, "planDestroy") /\ UNCHANGED ending
          \/ Ends(j, "failed", "task")
      BY <2>4 DEF ProveGone
    <3> QED
      BY <3>1, <3>2, <1>c, <1>t DEF Touching, Removing
  <2>5. CASE PlanDestroy(j)
    <3>1. (Go(j, "card2") /\ UNCHANGED ending) \/ Ends(j, "failed", "task")
      BY <2>5 DEF PlanDestroy, Failing
    <3>2. j \in PersonRuns /\ at[j] \in Touching /\ UNCHANGED chg
      BY <2>5, <1>c DEF PlanDestroy, Touching, Removing
    <3> QED
      BY <3>1, <3>2, <1>d, <1>f DEF Touching, Removing
  <2>6. CASE Destroy(j)
    <3>1. at[j] \in Touching /\ UNCHANGED chg
      BY <2>6 DEF Destroy, Touching, Removing
    <3>2. \/ Go(j, "left") /\ UNCHANGED ending
          \/ Ends(j, "failed", "task")
      BY <2>6 DEF Destroy, Apply
    <3> QED
      BY <3>1, <3>2, <1>c, <1>t DEF Touching, Removing
  <2>7. CASE ReadLeft(j)
    <3>1. at[j] \in Touching /\ UNCHANGED chg
      BY <2>7 DEF ReadLeft, Touching, Removing
    <3>2. \/ Ends(j, "successful", "done")
          \/ Ends(j, "failed", "task")
      BY <2>7 DEF ReadLeft
    <3> QED
      BY <3>1, <3>2, <1>c, <1>t
  <2>8. CASE RejectDestroy(j)
    <3>1. at[j] \in Touching /\ UNCHANGED chg
      BY <2>8 DEF RejectDestroy, Touching, Removing
    <3>2. Ends(j, "successful", "done")
      BY <2>8 DEF RejectDestroy
    <3> QED
      BY <3>1, <3>2, <1>c, <1>t
  <2> QED
    BY <1>4, <2>1, <2>2, <2>3, <2>4, <2>5, <2>6, <2>7, <2>8
<1>5. ASSUME NEW j \in PersonRuns, OpenChange(j, First(j)) \/ ScheduleChange(j, Refused(j)), Change(j) PROVE ChangeOK(j)'
  <2>1. CASE OpenChange(j, First(j))
    BY <2>1, <1>5, <1>a, <1>b, <1>c
    DEF Change, OpenChange, Call, First, ChangeOK, TwoSteps, Unopened, Asking, Touching, Removing, Early
  <2>2. CASE ScheduleChange(j, Refused(j))
    <3>1. chg[j] = "New" /\ ending[j] = "none" /\ j \notin sent /\ UNCHANGED sent
      BY <2>2, <1>5, <1>a DEF Change, ScheduleChange, ChangeOK, Asking
    <3>2. \/ at'[j] = "implement" /\ chg'[j] = "Scheduled" /\ ending'[j] = "none"
          \/ at'[j] = Refused(j) /\ chg'[j] \in {"New", "Scheduled"} /\ ending'[j] = "canceled"
      BY <2>2, <3>1, <1>b, <1>c DEF ScheduleChange, Call
    <3> QED
      BY <3>1, <3>2 DEF Refused, ChangeOK, TwoSteps, Unopened, Asking, Touching, Removing, Early
  <2> QED
    BY <1>5, <2>1, <2>2
<1>6. ASSUME NEW j \in PersonRuns, ImplementChange(j, Approved(j), Refused(j)), Change(j) PROVE ChangeOK(j)'
  <2>1. chg[j] = "Scheduled" /\ ending[j] = "none" /\ j \notin sent /\ UNCHANGED sent
    BY <1>6, <1>a DEF Change, ImplementChange, ChangeOK
  <2>2. \/ at'[j] = Approved(j) /\ chg'[j] = "Implement" /\ ending'[j] = "none"
        \/ at'[j] = Refused(j) /\ chg'[j] \in {"Scheduled", "Implement"} /\ ending'[j] = "canceled"
    BY <1>6, <2>1, <1>b, <1>c DEF ImplementChange, Call
  <2> QED
    BY <2>1, <2>2 DEF Approved, Refused, ChangeOK, TwoSteps, Unopened, Asking, Touching, Removing, Early
<1>7. ASSUME NEW j \in PersonRuns, CloseFirst(j) \/ CloseSecond(j) \/ FixCard(j), UNCHANGED Rest PROVE ChangeOK(j)'
  <2>1. CASE CloseFirst(j)
    <3>1. at[j] = "close" /\ ChangeOK(j) /\ UNCHANGED <<ending, sent>>
      BY <2>1, <1>7, <1>a DEF CloseFirst
    <3>2. CASE TwoSteps(j)
      <4>1. chg[j] = "Implement" /\ TwoSteps(j)'
        BY <3>1, <3>2 DEF ChangeOK, TwoSteps
      <4>2. \/ at'[j] = "close2" /\ chg'[j] = "Review"
            \/ at'[j] = "fix" /\ chg'[j] \in {"Implement", "Review"}
        BY <2>1, <3>2, <4>1, <1>b, <1>c DEF CloseFirst, Call
      <4> QED
        BY <4>1, <4>2 DEF ChangeOK, Unopened, Asking, Touching, Removing
    <3>3. CASE ~TwoSteps(j)
      <4>1. chg[j] \in Early /\ j \notin sent' /\ ~TwoSteps(j)'
        BY <3>1, <3>3 DEF ChangeOK, TwoSteps
      <4>2. \/ at'[j] = "done" /\ chg'[j] = "Canceled"
            \/ at'[j] = "fix" /\ chg'[j] \in Early \cup {"Canceled"}
        BY <2>1, <3>3, <4>1, <1>b, <1>c DEF CloseFirst, Call
      <4> QED
        BY <4>1, <4>2 DEF ChangeOK, Unopened, Asking, Touching, Removing
    <3> QED
      BY <3>2, <3>3
  <2>2. CASE CloseSecond(j)
    BY <2>2, <1>7, <1>a, <1>b, <1>c DEF CloseSecond, Call, ChangeOK, TwoSteps, Unopened, Asking, Touching, Removing
  <2>3. CASE FixCard(j)
    BY <2>3, <1>7, <1>a, <1>b, <1>c, <1>h
    DEF FixCard, RunnerFails, ChangeOK, TwoSteps, Unopened, Asking, Touching, Removing
  <2> QED
    BY <1>7, <2>1, <2>2, <2>3
<1>8. ASSUME NEW j \in PersonRuns, Decide(j) \/ Fix(j) PROVE ChangeOK(j)'
  <2>1. CASE Decide(j)
    BY <2>1, <1>a, <1>b, <1>c DEF Decide, ChangeOK, TwoSteps, Unopened, Asking, Touching, Removing, Early
  <2>2. CASE Fix(j)
    BY <2>2, <1>a, <1>b, <1>c DEF Fix, CloseFixCard, ChangeOK, TwoSteps, Unopened, Asking, Touching, Removing
  <2> QED
    BY <1>8, <2>1, <2>2
<1>9. ASSUME NEW j \in PersonRuns, \/ j \in Deploys /\ \E hours \in Lifetimes : StartDeploy(j, hours)
                                   \/ j \in HandOffs \cup TearDowns /\ Start(j)
                                   \/ j \in TearDowns /\ DecideDestroy(j)
      PROVE  ChangeOK(j)'
  <2>1. ASSUME at[j] = "start", Go(j, "open") \/ Go(j, "done"), UNCHANGED <<chg, ending, sent>> PROVE ChangeOK(j)'
    <3>1. chg[j] = "none" /\ ending[j] = "none" /\ j \notin sent
      BY <2>1, <1>a DEF ChangeOK, Unopened
    <3>2. at'[j] \in {"open", "done"}
      BY <2>1, <1>b, <1>c
    <3> QED
      BY <2>1, <3>1, <3>2 DEF ChangeOK, TwoSteps, Unopened, Asking, Touching, Removing
  <2>2. CASE j \in Deploys /\ \E hours \in Lifetimes : StartDeploy(j, hours)
    BY <2>1, <2>2 DEF StartDeploy, Failing
  <2>3. CASE j \in HandOffs \cup TearDowns /\ Start(j)
    BY <2>1, <2>3 DEF Start
  <2>4. CASE j \in TearDowns /\ DecideDestroy(j)
    <3>1. /\ at[j] \in Touching /\ UNCHANGED <<chg, ending>>
          /\ \E n \in Touching : Go(j, n)
      BY <2>4 DEF DecideDestroy, Touching, Removing
    <3> QED
      BY <3>1, <1>f
  <2> QED
    BY <1>9, <2>2, <2>3, <2>4
<1>10. ASSUME TimerFires \/ Reload \/ Tick, NEW j \in PersonRuns PROVE ChangeOK(j)'
  <2>1. UNCHANGED <<at, chg, ending, sent>>
    BY <1>10 DEF TimerFires, Reload, Tick
  <2> QED
    BY <2>1, <1>a, <1>h, ChangeKept
\* Whichever run steps
<1> DEFINE All == \A j \in PersonRuns : ChangeOK(j)'
<1>11. ASSUME NEW i \in Deploys, PlanDeploy(i) \/ ApplyDeploy(i) \/ EnsureKey(i) \/ DiscardPlan(i) PROVE All
  BY <1>11, <1>a, <1>c, <1>1, <1>2, RunsApart, OtherChanges, <1>h
<1>12. ASSUME NEW i \in HandOffs, PrepareHandOff(i) \/ PushBlock(i) \/ ReadHandOff(i) \/ Verify(i) PROVE All
  BY <1>12, <1>a, <1>c, <1>3, RunsApart, OtherChanges, <1>h
<1>13. ASSUME NEW i \in Removers, \/ ReadBefore(i) \/ RemoveBlock(i) \/ ReadRemoval(i) \/ ProveGone(i)
                                  \/ PlanDestroy(i) \/ Destroy(i) \/ ReadLeft(i) \/ RejectDestroy(i)
       PROVE  All
  <2>1. i \in PersonRuns => i \in TearDowns
    BY <1>c
  <2>2. i \in Runs
    BY <1>c
  <2>3. Apart(i)
    BY <1>13, <1>a, RunsApart DEF TearDownStep
  <2>4. i \in PersonRuns => ChangeOK(i)'
    BY <1>13, <1>4, <2>1
  <2> QED
    BY <1>a, <2>2, <2>3, <2>4, OtherChanges, <1>h
<1>14. ASSUME NEW i \in PersonRuns, Change(i) \/ Decide(i) \/ Fix(i) PROVE All
  <2>1. ChangeOK(i)'
    BY <1>14, <1>5, <1>6, <1>7, <1>8 DEF Change
  <2> QED
    BY <1>14, <2>1, <1>a, <1>c, RunsApart, OtherChanges, <1>h
<1>15. ASSUME \/ \E i \in Deploys, hours \in Lifetimes : StartDeploy(i, hours)
              \/ \E i \in HandOffs \cup TearDowns : Start(i)
              \/ \E i \in Expiries : ReadEndTime(i) \/ SeeTask(i)
              \/ \E i \in TearDowns : DecideDestroy(i)
       PROVE  All
  <2>1. PICK i \in Runs : /\ Apart(i)
                          /\ i \in PersonRuns => \/ i \in Deploys /\ \E hours \in Lifetimes : StartDeploy(i, hours)
                                                 \/ i \in HandOffs \cup TearDowns /\ Start(i)
                                                 \/ i \in TearDowns /\ DecideDestroy(i)
    BY <1>15, <1>a, <1>c, RunsApart DEF Runs
  <2> QED
    BY <2>1, <1>a, <1>9, OtherChanges, <1>h
<1> QED
  BY <1>10, <1>11, <1>12, <1>13, <1>14, <1>15, NextCases

-----------------------------------------------------------------------------
\* A run that has written the state, or gave up on it, never comes back to a task before.
LEMMA NoWayBack ==
    ASSUME TypeOK, Next, NEW j \in Planners, at'[j] \in Unwritten
    PROVE  at[j] \in Unwritten
<1>a. at \in [Runs -> Task]
  BY DEF TypeOK
<1>b. /\ Deploys \subseteq Planners /\ Removers \subseteq Planners /\ Planners \subseteq Runs
      /\ j \notin HandOffs /\ TearDowns \subseteq Removers /\ Expiries \subseteq Removers
      /\ HandOffs \subseteq Runs /\ PersonRuns \subseteq Runs /\ Removers \subseteq Runs
  BY RunAssumption DEF Planners, Removers, Runs, PersonRuns
<1> USE DEF At, Go, Ends, change, Unwritten, Unopened, Asking, Removing
<1>1. ASSUME NEW i \in Runs, Apart(i), j # i PROVE at[j] \in Unwritten
  BY <1>1, <1>b DEF Apart
<1>2. ASSUME NEW i \in Deploys, PlanDeploy(i) \/ ApplyDeploy(i) \/ EnsureKey(i) \/ DiscardPlan(i), i = j
      PROVE  at[j] \in Unwritten
  BY <1>2, <1>a, <1>b DEF PlanDeploy, Review, ApplyDeploy, Apply, EnsureKey, Failing, DiscardPlan
<1>3. ASSUME NEW i \in Removers, TearDownStep(i), i = j PROVE at[j] \in Unwritten
  BY <1>3, <1>a, <1>b DEF TearDownStep, ReadBefore, RemoveBlock, ReadRemoval, ReadPush, ProveGone, PlanDestroy,
     Destroy, Apply, ReadLeft, RejectDestroy
<1>4. ASSUME NEW i \in PersonRuns, Change(i) \/ Decide(i) \/ Fix(i), i = j PROVE at[j] \in Unwritten
  BY <1>4, <1>a, <1>b DEF Change, OpenChange, ScheduleChange, ImplementChange, CloseFirst, CloseSecond, FixCard, Call,
     Decide, Fix, CloseFixCard
<1>5. ASSUME NEW i \in Runs, i = j, \/ \E hours \in Lifetimes : StartDeploy(i, hours)
                                    \/ Start(i) \/ ReadEndTime(i) \/ SeeTask(i) \/ DecideDestroy(i)
      PROVE  at[j] \in Unwritten
  BY <1>5, <1>a, <1>b DEF StartDeploy, Start, ReadEndTime, SeeTask, DecideDestroy
<1>6. CASE TimerFires \/ Reload \/ Tick
  BY <1>6 DEF TimerFires, Reload, Tick
<1> HIDE DEF At, Go, Ends, change, Unwritten, Unopened, Asking, Removing
<1>7. CASE \/ \E i \in Deploys : PlanDeploy(i) \/ ApplyDeploy(i) \/ EnsureKey(i) \/ DiscardPlan(i)
           \/ \E i \in HandOffs : PrepareHandOff(i) \/ PushBlock(i) \/ ReadHandOff(i) \/ Verify(i)
           \/ \E i \in Removers : TearDownStep(i)
  BY <1>7, <1>1, <1>2, <1>3, <1>b, RunsApart
<1>8. CASE \/ \E i \in PersonRuns : Change(i) \/ Decide(i) \/ Fix(i)
           \/ \E i \in Deploys, hours \in Lifetimes : StartDeploy(i, hours)
           \/ \E i \in HandOffs \cup TearDowns : Start(i)
           \/ \E i \in Expiries : ReadEndTime(i) \/ SeeTask(i)
           \/ \E i \in TearDowns : DecideDestroy(i)
  BY <1>8, <1>1, <1>4, <1>5, <1>b, RunsApart
<1> QED
  BY <1>6, <1>7, <1>8, NextCases DEF TearDownStep

\* What a step does to the state's version, to its end time and to what the hourly
\* runs read: nothing; or one run writes the state; or an hourly run finds the time up.
LEMMA VersionMoves ==
    ASSUME TypeOK, Next
    PROVE  \/ aws'.by = aws.by /\ aws'.until = aws.until /\ due' = due
           \/ \E i \in Planners : aws'.by = i /\ due' = due /\ at[i] \in Unwritten /\ at'[i] \notin Unwritten
           \/ \E e \in Expiries : UNCHANGED aws /\ due' = [due EXCEPT ![e] = aws.by] /\ TimeUp(aws.until)
<1>a. at \in [Runs -> Task] /\ aws \in AwsState
  BY DEF TypeOK
<1>b. /\ Deploys \subseteq Planners /\ Removers \subseteq Planners /\ Planners \subseteq Runs /\ Deploys \subseteq PersonRuns
  BY DEF Planners, Removers, Runs, PersonRuns
<1> DEFINE Kept == aws'.by = aws.by /\ aws'.until = aws.until /\ due' = due
           Writes(i) == aws'.by = i /\ due' = due /\ at[i] \in Unwritten /\ at'[i] \notin Unwritten
<1> USE DEF cloud, history, Rest
<1>1. ASSUME NEW i \in Planners, NEW done, NEW failed, Apply(i, done, failed), ~UNCHANGED aws PROVE aws'.by = i
  <2>1. Applied(i).by = i
    BY <1>a DEF Applied, Torn, AwsState
  <2>2. \A s \in PartWay(i) : s.by = i
    BY <1>a DEF PartWay, AwsState
  <2> QED
    BY <1>1, <2>1, <2>2 DEF Apply
<1>2. ASSUME NEW i \in Deploys, ApplyDeploy(i), ~UNCHANGED aws PROVE Writes(i)
  <2>1. aws'.by = i
    BY <1>1, <1>2, <1>b DEF ApplyDeploy
  <2>2. at[i] = "apply" /\ at'[i] \in {"psk", "close"}
    BY <1>2, <1>a, <1>b DEF ApplyDeploy, Apply, At, Go, Ends
  <2> QED
    BY <1>2, <2>1, <2>2 DEF ApplyDeploy, Unwritten, Unopened, Asking, Removing
<1>3. ASSUME NEW i \in Removers, Destroy(i), ~UNCHANGED aws PROVE Writes(i)
  <2>1. aws'.by = i
    BY <1>1, <1>3, <1>b DEF Destroy
  <2>2. at[i] = "destroy" /\ at'[i] \in {"left", "close", "task"}
    BY <1>3, <1>a, <1>b DEF Destroy, Apply, At, Go, Ends
  <2> QED
    BY <1>3, <2>1, <2>2 DEF Destroy, Unwritten, Unopened, Asking, Removing
<1>4. ASSUME NEW i \in Deploys, EnsureKey(i) PROVE Kept
  BY <1>4, <1>a DEF EnsureKey, Failing, AwsState
<1>5. ASSUME NEW e \in Expiries, ReadEndTime(e)
      PROVE  Kept \/ (UNCHANGED aws /\ due' = [due EXCEPT ![e] = aws.by] /\ TimeUp(aws.until))
  BY <1>5 DEF ReadEndTime
<1>6. ASSUME \/ \E i \in Deploys : PlanDeploy(i) \/ DiscardPlan(i)
             \/ \E i \in HandOffs : PrepareHandOff(i) \/ PushBlock(i) \/ ReadHandOff(i) \/ Verify(i)
             \/ \E i \in Removers : \/ ReadBefore(i) \/ RemoveBlock(i) \/ ReadRemoval(i) \/ ProveGone(i)
                                    \/ PlanDestroy(i) \/ ReadLeft(i) \/ RejectDestroy(i)
             \/ \E i \in PersonRuns : Change(i) \/ Decide(i) \/ Fix(i)
             \/ \E i \in Deploys, hours \in Lifetimes : StartDeploy(i, hours)
             \/ \E i \in HandOffs \cup TearDowns : Start(i)
             \/ \E i \in Expiries : SeeTask(i)
             \/ \E i \in TearDowns : DecideDestroy(i)
             \/ TimerFires \/ Reload \/ Tick
      PROVE  aws' = aws /\ due' = due
  BY <1>6 DEF PlanDeploy, DiscardPlan, PrepareHandOff, PushBlock, ReadHandOff, ReadPush, Verify, ReadBefore, RemoveBlock,
     ReadRemoval, ProveGone, PlanDestroy, ReadLeft, RejectDestroy, Change, Decide, Fix, StartDeploy, Start, SeeTask,
     DecideDestroy, TimerFires, Reload, Tick
<1>7. ASSUME NEW i \in Planners, ApplyDeploy(i) \/ Destroy(i) PROVE due' = due
  BY <1>7 DEF ApplyDeploy, Destroy
<1> QED
  BY <1>b, <1>2, <1>3, <1>4, <1>5, <1>6, <1>7, NextCases

\* The hour never goes back.
LEMMA ClockMoves == Next => now' \in {now, now + 1}
<1>1. ASSUME NEW j \in Runs, Step(j) PROVE now' = now
  BY <1>1 DEF Step, DeployStep, HandOffStep, TearDownStep, PlanDeploy, ApplyDeploy, EnsureKey, DiscardPlan, PrepareHandOff,
     PushBlock, ReadHandOff, ReadPush, Verify, ReadBefore, RemoveBlock, ReadRemoval, ProveGone, PlanDestroy, Destroy,
     ReadLeft, RejectDestroy, Change, Rest
<1>2. ASSUME People PROVE now' = now
  BY <1>2 DEF People, StartDeploy, Start, ReadEndTime, SeeTask, Decide, Fix, DecideDestroy, Rest
<1>3. ASSUME TimerFires \/ Reload \/ Tick PROVE now' \in {now, now + 1}
  BY <1>3 DEF TimerFires, Reload, Tick
<1> QED
  BY <1>1, <1>2, <1>3 DEF Next, Around

\* Every step keeps the versions apart, and the end time that was read with its version.
LEMMA VersionStep == IInv /\ Next => /\ \A j \in Planners : WrittenOnce(j)'
                                     /\ \A e \in Expiries : DueOK(e)'
<1> SUFFICES ASSUME IInv, Next
             PROVE  (\A j \in Planners : WrittenOnce(j)') /\ (\A e \in Expiries : DueOK(e)')
  OBVIOUS
<1>a. /\ TypeOK /\ \A j \in Planners : WrittenOnce(j)
      /\ \A e \in Expiries : DueOK(e)
  BY DEF IInv
<1>b. due \in [Expiries -> Versions \cup {None}] /\ aws.by \in Versions /\ None \notin Versions
  BY <1>a, NamesAssumption DEF TypeOK, AwsState, Versions, Planners, Removers, Runs, PersonRuns
<1>c. \A j \in Planners : at[j] \in Unwritten => aws.by # j /\ \A e \in Expiries : due[e] # j
  BY <1>a DEF WrittenOnce, Unwritten
<1>d. \A j \in Planners : at'[j] \in Unwritten => at[j] \in Unwritten
  BY <1>a, NoWayBack
<1>e. Passed(aws.until) => Passed(aws.until)' \/ aws'.until # aws.until
  BY <1>a, ClockMoves, EnvironmentAssumption DEF TypeOK, Passed
<1>1. CASE aws'.by = aws.by /\ aws'.until = aws.until /\ due' = due
  BY <1>1, <1>a, <1>c, <1>d, <1>e DEF WrittenOnce, DueOK, Unwritten
<1>2. ASSUME NEW i \in Planners, aws'.by = i, due' = due, at[i] \in Unwritten, at'[i] \notin Unwritten
      PROVE  (\A j \in Planners : WrittenOnce(j)') /\ (\A e \in Expiries : DueOK(e)')
  BY <1>2, <1>c, <1>d DEF WrittenOnce, DueOK, Unwritten
<1>3. ASSUME NEW e \in Expiries, UNCHANGED aws, due' = [due EXCEPT ![e] = aws.by], TimeUp(aws.until)
      PROVE  (\A j \in Planners : WrittenOnce(j)') /\ (\A x \in Expiries : DueOK(x)')
  <2>1. Passed(aws.until)
    BY <1>3 DEF TimeUp, Passed
  <2>2. \A x \in Expiries : due'[x] \in {due[x], aws.by}
    BY <1>3, <1>b
  <2> QED
    BY <1>3, <1>c, <1>d, <1>e, <2>1, <2>2 DEF WrittenOnce, DueOK, Unwritten
<1> QED
  BY <1>a, <1>1, <1>2, <1>3, VersionMoves

-----------------------------------------------------------------------------
\* A stored plan is of its run's kind.
LEMMA PlanStep == IInv /\ Next => \A j \in Planners : PlanOK(j)'
<1> SUFFICES ASSUME IInv, Next PROVE \A j \in Planners : PlanOK(j)'
  OBVIOUS
<1>a. /\ plan \in [Planners -> StoredPlan \cup {None}] /\ \A j \in Planners : PlanOK(j)
      /\ Deploys \subseteq Planners /\ Removers \subseteq Planners /\ Deploys \cap Removers = {}
  BY RunAssumption DEF IInv, TypeOK, Planners, Removers, PersonRuns
<1> DEFINE All == \A j \in Planners : PlanOK(j)'
<1> USE DEF cloud, Rest
<1>1. ASSUME NEW i \in Deploys, NEW u, StorePlan(i, "deploy", u) PROVE All
  BY <1>1, <1>a DEF StorePlan, PlanOK
<1>2. ASSUME NEW i \in Removers, NEW u, StorePlan(i, "destroy", u) PROVE All
  BY <1>2, <1>a DEF StorePlan, PlanOK
<1>3. ASSUME NEW i \in Planners, Discard(i) PROVE All
  BY <1>3, <1>a DEF Discard, PlanOK
<1>4. ASSUME UNCHANGED plan PROVE All
  BY <1>4, <1>a DEF PlanOK
<1>5. ASSUME NEW i \in Planners, NEW done, NEW failed, Apply(i, done, failed) PROVE All
  BY <1>3, <1>4, <1>5 DEF Apply
<1>6. ASSUME NEW i \in Deploys, PlanDeploy(i) \/ ApplyDeploy(i) \/ EnsureKey(i) \/ DiscardPlan(i) PROVE All
  BY <1>6, <1>a, <1>1, <1>3, <1>4, <1>5 DEF PlanDeploy, ApplyDeploy, EnsureKey, DiscardPlan
<1>7. ASSUME NEW i \in Removers, PlanDestroy(i) \/ Destroy(i) \/ RejectDestroy(i) PROVE All
  BY <1>7, <1>a, <1>2, <1>3, <1>4, <1>5 DEF PlanDestroy, Destroy, RejectDestroy, Failing
<1>8. ASSUME \/ \E i \in HandOffs : PrepareHandOff(i) \/ PushBlock(i) \/ ReadHandOff(i) \/ Verify(i)
             \/ \E i \in Removers : ReadBefore(i) \/ RemoveBlock(i) \/ ReadRemoval(i) \/ ProveGone(i) \/ ReadLeft(i)
             \/ \E i \in PersonRuns : Change(i) \/ Decide(i) \/ Fix(i)
             \/ \E i \in Deploys, hours \in Lifetimes : StartDeploy(i, hours)
             \/ \E i \in HandOffs \cup TearDowns : Start(i)
             \/ \E i \in Expiries : ReadEndTime(i) \/ SeeTask(i)
             \/ \E i \in TearDowns : DecideDestroy(i)
             \/ TimerFires \/ Reload \/ Tick
      PROVE  UNCHANGED plan
  BY <1>8 DEF PrepareHandOff, PushBlock, ReadHandOff, ReadPush, Verify, ReadBefore, RemoveBlock, ReadRemoval, ProveGone,
     ReadLeft, Change, Decide, Fix, StartDeploy, Start, ReadEndTime, SeeTask, DecideDestroy, TimerFires, Reload, Tick
<1> QED
  BY <1>4, <1>6, <1>7, <1>8, NextCases

-----------------------------------------------------------------------------
\* What a step does to the router: nothing; or a teardown takes the block; or
\* whatever comes back is recorded.
LEMMA RouterMoves ==
    ASSUME Next
    PROVE  \/ running' = running /\ causes' = causes
           \/ running' = None /\ causes' = causes /\ aws' = aws
           \/ aws' = aws /\ \E cause \in Cause : Returns(cause)
<1> USE DEF router, history, Rest, cloud
<1>a. "hand-off" \in Cause /\ "rollback" \in Cause /\ "timer" \in Cause /\ "reload" \in Cause
  BY DEF Cause
<1>1. ASSUME \/ \E i \in HandOffs : PushBlock(i) \/ ReadHandOff(i)
             \/ \E i \in Removers : ReadRemoval(i)
             \/ TimerFires \/ Reload
      PROVE  aws' = aws /\ \E cause \in Cause : Returns(cause)
  BY <1>1, <1>a DEF PushBlock, ReadHandOff, ReadRemoval, ReadPush, TimerFires, Reload
<1>2. ASSUME NEW i \in Removers, RemoveBlock(i)
      PROVE  (running' = running \/ running' = None) /\ causes' = causes /\ aws' = aws
  BY <1>2 DEF RemoveBlock, SendUnderTimer, NothingSent
<1>3. ASSUME \/ \E i \in Deploys : PlanDeploy(i) \/ ApplyDeploy(i) \/ EnsureKey(i) \/ DiscardPlan(i)
             \/ \E i \in HandOffs : PrepareHandOff(i) \/ Verify(i)
             \/ \E i \in Removers : \/ ReadBefore(i) \/ ProveGone(i) \/ PlanDestroy(i) \/ Destroy(i) \/ ReadLeft(i)
                                    \/ RejectDestroy(i)
             \/ \E i \in PersonRuns : Change(i) \/ Decide(i) \/ Fix(i)
             \/ \E i \in Deploys, hours \in Lifetimes : StartDeploy(i, hours)
             \/ \E i \in HandOffs \cup TearDowns : Start(i)
             \/ \E i \in Expiries : ReadEndTime(i) \/ SeeTask(i)
             \/ \E i \in TearDowns : DecideDestroy(i)
             \/ Tick
      PROVE  running' = running /\ causes' = causes
  BY <1>3 DEF PlanDeploy, ApplyDeploy, EnsureKey, DiscardPlan, PrepareHandOff, Verify, ReadBefore, ProveGone, PlanDestroy,
     Destroy, ReadLeft, RejectDestroy, Change, Decide, Fix, StartDeploy, Start, ReadEndTime, SeeTask, DecideDestroy, Tick
<1> QED
  BY <1>1, <1>2, <1>3, NextCases

\* A teardown comes to its proof only over a router that shows no block.
LEMMA ProvedMoves ==
    ASSUME TypeOK, Next, NEW t \in Removers, Proved(t)'
    PROVE  Proved(t) \/ running' = None
<1>a. at \in [Runs -> Task]
  BY DEF TypeOK
<1>b. /\ Removers \subseteq Runs /\ Deploys \subseteq Runs /\ HandOffs \subseteq Runs /\ PersonRuns \subseteq Runs
      /\ t \notin Deploys /\ t \notin HandOffs
      /\ TearDowns \subseteq Runs /\ Expiries \subseteq Runs
  BY RunAssumption DEF Removers, Runs, PersonRuns
<1> DEFINE Goal == Proved(t) \/ running' = None
<1>1. ASSUME NEW i \in Runs, Apart(i), t # i PROVE Goal
  BY <1>1, <1>b DEF Apart, Proved
<1>2. ASSUME TearDownStep(t) PROVE Goal
  BY <1>2, <1>a, <1>b DEF TearDownStep, ReadBefore, RemoveBlock, SendUnderTimer, NothingSent, ReadRemoval, ReadPush,
     ProveGone, PlanDestroy, Destroy, Apply, ReadLeft, RejectDestroy, Failing, At, Go, Ends, Proved, router
<1>3. ASSUME t \in PersonRuns, Change(t) \/ Decide(t) \/ Fix(t) PROVE Goal
  BY <1>3, <1>a, <1>b DEF Change, OpenChange, ScheduleChange, ImplementChange, CloseFirst, CloseSecond, FixCard, Call, First, Approved,
     Refused, Decide, Fix, CloseFixCard, At, Go, Proved
<1>4. ASSUME Start(t) \/ ReadEndTime(t) \/ SeeTask(t) \/ DecideDestroy(t) PROVE Goal
  BY <1>4, <1>a, <1>b DEF Start, ReadEndTime, SeeTask, DecideDestroy, At, Go, Proved
<1>5. CASE TimerFires \/ Reload \/ Tick
  BY <1>5 DEF TimerFires, Reload, Tick, change, Proved
<1>6. CASE \/ \E i \in Deploys : PlanDeploy(i) \/ ApplyDeploy(i) \/ EnsureKey(i) \/ DiscardPlan(i)
           \/ \E i \in HandOffs : PrepareHandOff(i) \/ PushBlock(i) \/ ReadHandOff(i) \/ Verify(i)
           \/ \E i \in Removers : TearDownStep(i)
  BY <1>6, <1>1, <1>2, <1>b, RunsApart
<1>7. CASE \/ \E i \in PersonRuns : Change(i) \/ Decide(i) \/ Fix(i)
           \/ \E i \in Deploys, hours \in Lifetimes : StartDeploy(i, hours)
           \/ \E i \in HandOffs \cup TearDowns : Start(i)
           \/ \E i \in Expiries : ReadEndTime(i) \/ SeeTask(i)
           \/ \E i \in TearDowns : DecideDestroy(i)
  BY <1>7, <1>1, <1>3, <1>4, <1>b, RunsApart
<1> QED
  BY <1>5, <1>6, <1>7, NextCases DEF TearDownStep

\* What a step does to the deployment: it stays the one it was; or a teardown
\* behind its proof destroys it; or a Deploy makes one where there was none.
LEMMA AwsMoves ==
    ASSUME IInv, Next
    PROVE  \/ aws'.up = aws.up /\ aws'.made = aws.made
           \/ \E i \in Removers : Proved(i) /\ aws' = Torn(i) /\ running' = running /\ causes' = causes
           \/ /\ aws'.up # "none" /\ aws'.made # None /\ aws.made \in {None, aws'.made}
              /\ running' = running /\ causes' = causes
<1>a. /\ TypeOK /\ RouterFirst /\ aws \in AwsState /\ \A j \in Planners : PlanOK(j)
      /\ Deploys \subseteq Planners /\ Removers \subseteq Planners /\ Deploys \cap Removers = {}
      /\ None \notin Deployments
  BY RunAssumption, NamesAssumption DEF IInv, TypeOK, Planners, Removers, PersonRuns, Deployments, Runs
<1> USE DEF cloud, Rest, router
<1>1. ASSUME NEW i \in Planners, NEW done, NEW failed, Apply(i, done, failed), aws' # aws
      PROVE  IF i \in Removers /\ aws' = Torn(i) THEN TRUE
             ELSE aws'.up # "none" /\ aws'.made # None /\ aws.made \in {None, aws'.made}
  <2>1. Fresh(i) /\ plan[i] # None /\ (aws.up = "none" <=> aws.made = None)
    BY <1>1, <1>a DEF Apply, Fresh, RouterFirst
  <2>2. ~(plan[i].kind = "destroy" /\ aws.up = "none") => Maker(i) # None /\ aws.made \in {None, Maker(i)}
    BY <2>1, <1>a DEF Maker, PlanOK, Deployments, Planners
  <2>3. \A s \in PartWay(i) : s.up = "part" /\ s.made = Maker(i)
    BY ZenonT(60), <1>a DEF PartWay, AwsState
  <2>4. plan[i].kind = "destroy" => i \in Removers /\ Applied(i) = Torn(i)
    BY <2>1, <1>a DEF PlanOK, Applied, Planners
  <2>5. plan[i].kind # "destroy" => Applied(i).up = "up" /\ Applied(i).made = Maker(i)
    BY <1>a DEF Applied, AwsState
  <2> QED
    BY <1>1, <2>1, <2>2, <2>3, <2>4, <2>5 DEF Apply
<1>2. ASSUME NEW i \in Deploys, ApplyDeploy(i), aws' # aws
      PROVE  aws'.up # "none" /\ aws'.made # None /\ aws.made \in {None, aws'.made} /\ running' = running /\ causes' = causes
  BY <1>1, <1>2, <1>a DEF ApplyDeploy
<1>3. ASSUME NEW i \in Removers, Destroy(i), aws' # aws
      PROVE  /\ Proved(i) /\ running' = running /\ causes' = causes
             /\ \/ aws' = Torn(i)
                \/ aws'.up # "none" /\ aws'.made # None /\ aws.made \in {None, aws'.made}
  BY <1>1, <1>3, <1>a DEF Destroy, Proved, At
<1>4. ASSUME NEW i \in Deploys, EnsureKey(i) PROVE aws'.up = aws.up /\ aws'.made = aws.made
  BY <1>4, <1>a DEF EnsureKey, Failing, AwsState
<1>5. ASSUME \/ \E i \in Deploys : PlanDeploy(i) \/ DiscardPlan(i)
             \/ \E i \in HandOffs : PrepareHandOff(i) \/ PushBlock(i) \/ ReadHandOff(i) \/ Verify(i)
             \/ \E i \in Removers : \/ ReadBefore(i) \/ RemoveBlock(i) \/ ReadRemoval(i) \/ ProveGone(i)
                                    \/ PlanDestroy(i) \/ ReadLeft(i) \/ RejectDestroy(i)
             \/ \E i \in PersonRuns : Change(i) \/ Decide(i) \/ Fix(i)
             \/ \E i \in Deploys, hours \in Lifetimes : StartDeploy(i, hours)
             \/ \E i \in HandOffs \cup TearDowns : Start(i)
             \/ \E i \in Expiries : ReadEndTime(i) \/ SeeTask(i)
             \/ \E i \in TearDowns : DecideDestroy(i)
             \/ TimerFires \/ Reload \/ Tick
      PROVE  aws' = aws
  BY <1>5 DEF PlanDeploy, DiscardPlan, PrepareHandOff, PushBlock, ReadHandOff, ReadPush, Verify, ReadBefore, RemoveBlock,
     ReadRemoval, ProveGone, PlanDestroy, ReadLeft, RejectDestroy, Change, Decide, Fix, StartDeploy, Start, ReadEndTime,
     SeeTask, DecideDestroy, TimerFires, Reload, Tick
<1> QED
  BY <1>2, <1>3, <1>4, <1>5, NextCases

\* Every step keeps the router first: no block outlives its deployment without a cause.
LEMMA RouterStep == IInv /\ Next => RouterFirst'
<1> SUFFICES ASSUME IInv, Next PROVE RouterFirst'
  OBVIOUS
<1>a. TypeOK /\ RouterFirst /\ None \notin Deployments
  BY NamesAssumption DEF IInv, Deployments, Runs, PersonRuns
<1>1. aws'.up = "none" <=> aws'.made = None
  BY <1>a, AwsMoves DEF RouterFirst, Torn
<1>2. causes \subseteq causes'
  BY RouterMoves DEF Returns
<1>3. Dead(running)' => causes' # {}
  <2>1. CASE running' = running
    BY <2>1, <1>a, <1>2, AwsMoves DEF RouterFirst, Dead
  <2>2. CASE running' # running
    BY <2>2, <1>a, <1>2, RouterMoves DEF RouterFirst, Dead, Returns
  <2> QED
    BY <2>1, <2>2
<1>4. ASSUME NEW t \in Removers, Proved(t)', running' # None PROVE causes' # {}
  <2>1. Proved(t)
    BY <1>4, <1>a, ProvedMoves
  <2>2. CASE running' = running
    BY <2>1, <2>2, <1>4, <1>a, <1>2 DEF RouterFirst
  <2>3. CASE running' # running
    BY <2>1, <2>3, <1>4, RouterMoves DEF Returns
  <2> QED
    BY <2>2, <2>3
<1> QED
  BY <1>1, <1>3, <1>4 DEF RouterFirst

-----------------------------------------------------------------------------
\* What a push, a timer or a reload leaves on the router was there before: on
\* it, in its pending change or saved.
SavedOrGone == running \in {startup, None} /\ (timer # None => timer.back \in {startup, None})

\* Only the push of a hand-off brings anything new to the router; all other
\* steps leave what is saved, or put it back.
LEMMA RouterKeepsSaved ==
    ASSUME Next, SavedOrGone
    PROVE  SavedOrGone' \/ \E i \in HandOffs : PushBlock(i) /\ i \in sent'
<1> USE DEF router, SavedOrGone
<1>1. ASSUME NEW j, NEW holds, NEW next, NEW timedEnd, ReadPush(j, holds, next, timedEnd) PROVE SavedOrGone'
  BY <1>1 DEF ReadPush, Saved, RolledBack, Unsaved, Own
<1>2. ASSUME NEW i \in Removers, RemoveBlock(i) PROVE SavedOrGone'
  BY <1>2 DEF RemoveBlock, SendUnderTimer, NothingSent
<1>3. ASSUME NEW i \in HandOffs, PushBlock(i), i \notin sent' PROVE SavedOrGone'
  BY <1>3 DEF PushBlock, SendUnderTimer, NothingSent
<1>4. ASSUME TimerFires \/ Reload PROVE SavedOrGone'
  BY <1>4 DEF TimerFires, Reload
<1>5. ASSUME \/ \E i \in Deploys : PlanDeploy(i) \/ ApplyDeploy(i) \/ EnsureKey(i) \/ DiscardPlan(i)
             \/ \E i \in HandOffs : PrepareHandOff(i) \/ Verify(i)
             \/ \E i \in Removers : \/ ReadBefore(i) \/ ProveGone(i) \/ PlanDestroy(i) \/ Destroy(i) \/ ReadLeft(i)
                                    \/ RejectDestroy(i)
             \/ \E i \in PersonRuns : Change(i) \/ Decide(i) \/ Fix(i)
             \/ \E i \in Deploys, hours \in Lifetimes : StartDeploy(i, hours)
             \/ \E i \in HandOffs \cup TearDowns : Start(i)
             \/ \E i \in Expiries : ReadEndTime(i) \/ SeeTask(i)
             \/ \E i \in TearDowns : DecideDestroy(i)
             \/ Tick
      PROVE  UNCHANGED router
  BY <1>5 DEF PlanDeploy, ApplyDeploy, EnsureKey, DiscardPlan, PrepareHandOff, Verify, ReadBefore, ProveGone, PlanDestroy,
     Destroy, ReadLeft, RejectDestroy, Change, Decide, Fix, Rest, StartDeploy, Start, ReadEndTime, SeeTask, DecideDestroy, Tick
<1> QED
  BY <1>1, <1>2, <1>3, <1>4, <1>5, NextCases DEF ReadHandOff, ReadRemoval

\* A Hand Off comes to its verdict only by saving what the router runs.
LEMMA HandOffSaves ==
    ASSUME TypeOK, Next, NEW h \in HandOffs, at'[h] = "verify"
    PROVE  at[h] = "verify" \/ (running' = startup' /\ timer' = None)
<1>a. at \in [Runs -> Task]
  BY DEF TypeOK
<1>b. /\ HandOffs \subseteq Runs /\ Deploys \subseteq Runs /\ Removers \subseteq Runs /\ PersonRuns \subseteq Runs
      /\ h \notin Deploys /\ h \notin Removers /\ h \notin TearDowns /\ h \notin Expiries
      /\ TearDowns \subseteq Runs /\ Expiries \subseteq Runs
  BY RunAssumption DEF Removers, Runs, PersonRuns
<1> DEFINE Goal == at[h] = "verify" \/ (running' = startup' /\ timer' = None)
<1>1. ASSUME NEW i \in Runs, Apart(i), h # i PROVE Goal
  BY <1>1, <1>b DEF Apart
<1>2. ASSUME PrepareHandOff(h) \/ PushBlock(h) \/ ReadHandOff(h) \/ Verify(h) PROVE Goal
  BY <1>2, <1>a, <1>b DEF PrepareHandOff, BatfishGate, ReadBack, PushBlock, SendUnderTimer, NothingSent, ReadHandOff,
     ReadPush, Saved, Verify, At, Go, Ends, router, history
<1>3. ASSUME Change(h) \/ Decide(h) \/ Fix(h) PROVE Goal
  BY <1>3, <1>a, <1>b DEF Change, OpenChange, ScheduleChange, ImplementChange, CloseFirst, CloseSecond, FixCard, Call, First, Approved,
     Refused, Decide, Fix, CloseFixCard, At, Go
<1>4. ASSUME Start(h) PROVE Goal
  BY <1>4, <1>a, <1>b DEF Start, At, Go
<1>5. CASE TimerFires \/ Reload \/ Tick
  BY <1>5 DEF TimerFires, Reload, Tick, change, history
<1>6. CASE \/ \E i \in Deploys : PlanDeploy(i) \/ ApplyDeploy(i) \/ EnsureKey(i) \/ DiscardPlan(i)
           \/ \E i \in HandOffs : PrepareHandOff(i) \/ PushBlock(i) \/ ReadHandOff(i) \/ Verify(i)
           \/ \E i \in Removers : TearDownStep(i)
  BY <1>6, <1>1, <1>2, <1>b, RunsApart
<1>7. CASE \/ \E i \in PersonRuns : Change(i) \/ Decide(i) \/ Fix(i)
           \/ \E i \in Deploys, hours \in Lifetimes : StartDeploy(i, hours)
           \/ \E i \in HandOffs \cup TearDowns : Start(i)
           \/ \E i \in Expiries : ReadEndTime(i) \/ SeeTask(i)
           \/ \E i \in TearDowns : DecideDestroy(i)
  BY <1>7, <1>1, <1>3, <1>4, <1>b, RunsApart
<1> QED
  BY <1>5, <1>6, <1>7, NextCases DEF TearDownStep

\* Only a Hand Off's push counts it among those that sent.
LEMMA HandOffsSent ==
    ASSUME Next
    PROVE  sent' \cap HandOffs = sent \cap HandOffs \/ \E i \in HandOffs : PushBlock(i) /\ i \in sent'
<1>a. Deploys \cap HandOffs = {} /\ Removers \cap HandOffs = {}
  BY RunAssumption DEF Removers, PersonRuns
<1> USE DEF history, Rest
<1>1. ASSUME NEW i \in Deploys, PlanDeploy(i) \/ ApplyDeploy(i) \/ EnsureKey(i) \/ DiscardPlan(i)
      PROVE  sent' \cap HandOffs = sent \cap HandOffs
  BY <1>1, <1>a DEF PlanDeploy, ApplyDeploy, Apply, EnsureKey, DiscardPlan
<1>2. ASSUME NEW i \in Removers, TearDownStep(i) PROVE sent' \cap HandOffs = sent \cap HandOffs
  BY <1>2, <1>a DEF TearDownStep, ReadBefore, RemoveBlock, SendUnderTimer, NothingSent, ReadRemoval, ReadPush, ProveGone,
     PlanDestroy, Destroy, Apply, ReadLeft, RejectDestroy
<1>3. ASSUME NEW i \in HandOffs, PushBlock(i), i \notin sent' PROVE sent' = sent
  BY <1>3 DEF PushBlock, SendUnderTimer, NothingSent
<1>4. ASSUME \/ \E i \in HandOffs : PrepareHandOff(i) \/ ReadHandOff(i) \/ Verify(i)
             \/ \E i \in PersonRuns : Change(i) \/ Decide(i) \/ Fix(i)
             \/ \E i \in Deploys, hours \in Lifetimes : StartDeploy(i, hours)
             \/ \E i \in HandOffs \cup TearDowns : Start(i)
             \/ \E i \in Expiries : ReadEndTime(i) \/ SeeTask(i)
             \/ \E i \in TearDowns : DecideDestroy(i)
             \/ TimerFires \/ Reload \/ Tick
      PROVE  sent' = sent
  BY <1>4 DEF PrepareHandOff, ReadHandOff, ReadPush, Verify, Change, Decide, Fix, StartDeploy, Start, ReadEndTime, SeeTask,
     DecideDestroy, TimerFires, Reload, Tick
<1> QED
  BY <1>1, <1>2, <1>3, <1>4, NextCases DEF TearDownStep

\* Every step keeps what a lone Hand Off saved.
LEMMA HandedStep == IInv /\ Next => \A h \in HandOffs : HandedOK(h)'
<1> SUFFICES ASSUME IInv, Next, NEW h \in HandOffs, at'[h] = "verify", sent' \cap HandOffs = {h}
             PROVE  SavedOrGone'
  BY DEF HandedOK, SavedOrGone
<1>a. TypeOK /\ HandedOK(h)
  BY DEF IInv
<1>1. CASE at[h] # "verify"
  BY <1>1, <1>a, HandOffSaves DEF SavedOrGone
<1>2. CASE at[h] = "verify"
  <2>1. \A i \in HandOffs : ~(PushBlock(i) /\ i \in sent')
    BY <1>2 DEF PushBlock, At
  <2>2. sent \cap HandOffs = {h}
    BY <2>1, HandOffsSent
  <2>3. SavedOrGone
    BY <1>2, <1>a, <2>2 DEF HandedOK, SavedOrGone
  <2> QED
    BY <2>1, <2>3, RouterKeepsSaved
<1> QED
  BY <1>1, <1>2

-----------------------------------------------------------------------------
\* Nothing deployed, or a deployment of before: the invariant holds.
LEMMA InitIInv == Init => IInv
<1> SUFFICES ASSUME Init PROVE IInv
  OBVIOUS
<1>1. TypeOK
  <2>1. aws \in AwsState
    <3>1. Torn(Earlier) \in AwsState
      BY DEF Torn, AwsState, Times, Versions
    <3>2. \A u \in Lifetimes : Deployed(u) \in AwsState
      BY LifetimeAssumption DEF Deployed, AwsState, Times, Versions, Deployments
    <3> QED
      BY <3>1, <3>2 DEF Init
  <2>2. at \in [Runs -> Task] /\ ending \in [Runs -> Kind] /\ chg \in [PersonRuns -> ChangeState]
    BY DEF Init, Task, Kind, ChangeState
  <2>3. running \in Deployments \cup {None}
    BY DEF Init, Deployments
  <2>4. now \in 0 .. env.hours /\ reloads \in 0 .. MaxReloads
    BY EnvironmentAssumption, BoundAssumption DEF Init
  <2>5. want \in [Deploys -> Times]
    BY DEF Init, Times
  <2> QED
    BY <2>1, <2>2, <2>3, <2>4, <2>5 DEF Init, TypeOK
<1>2. ASSUME NEW j \in PersonRuns PROVE ChangeOK(j)
  BY <1>2 DEF Init, ChangeOK, Runs, Unopened, Asking, Touching, Removing
<1>3. ASSUME NEW j \in Planners PROVE PlanOK(j) /\ WrittenOnce(j)
  <2>1. aws.by = Earlier /\ j \in Runs
    BY DEF Init, Torn, Deployed, Planners, Removers, Runs, PersonRuns
  <2> QED
    BY <2>1, NamesAssumption DEF Init, PlanOK, WrittenOnce
<1>4. ASSUME NEW e \in Expiries PROVE DueOK(e)
  <2>1. aws.by = Earlier /\ due[e] = None
    BY <1>4 DEF Init, Torn, Deployed
  <2> QED
    BY <2>1, NamesAssumption DEF DueOK
<1>5. RouterFirst
  <2>1. Earlier # None
    BY NamesAssumption
  <2>2. (aws.up = "none" <=> aws.made = None) /\ (aws.up # "none" => aws.made = Earlier)
    BY <2>1 DEF Init, Torn, Deployed
  <2>3. ~Dead(running)
    BY <2>2 DEF Init, Dead, Torn, Deployed
  <2>4. \A t \in Removers : ~Proved(t)
    BY DEF Init, Proved, Removers, Runs, PersonRuns
  <2> QED
    BY <2>2, <2>3, <2>4 DEF RouterFirst
<1>6. ASSUME NEW h \in HandOffs PROVE HandedOK(h)
  BY <1>6 DEF Init, HandedOK
<1> QED
  BY <1>1, <1>2, <1>3, <1>4, <1>5, <1>6 DEF IInv

\* A step that changes nothing keeps it.
LEMMA StutterStep == IInv /\ UNCHANGED vars => IInv'
<1> SUFFICES ASSUME IInv, UNCHANGED vars PROVE IInv'
  OBVIOUS
<1> USE DEF vars, change, cloud, router, inputs, history
<1>1. TypeOK'
  BY TypeStep DEF IInv
<1>2. ASSUME NEW j \in PersonRuns PROVE ChangeOK(j)'
  BY ChangeKept DEF IInv
<1>3. \A j \in Planners : PlanOK(j)' /\ WrittenOnce(j)'
  BY DEF IInv, PlanOK, WrittenOnce
<1>4. \A e \in Expiries : DueOK(e)'
  BY DEF IInv, DueOK, Passed
<1>5. RouterFirst'
  BY DEF IInv, RouterFirst, Dead, Proved
<1>6. \A h \in HandOffs : HandedOK(h)'
  BY DEF IInv, HandedOK
<1> QED
  BY <1>1, <1>2, <1>3, <1>4, <1>5, <1>6 DEF IInv

\* The invariant of AwsVpn is inductive.
THEOREM Inductive == Spec => []IInv
<1>1. IInv /\ [Next]_vars => IInv'
  BY TypeStep, ChangeStep, PlanStep, VersionStep, RouterStep, HandedStep, StutterStep DEF IInv
<1> QED
  BY InitIInv, <1>1, PTL DEF Spec

-----------------------------------------------------------------------------
\* Every variable keeps its shape, whatever fails.
THEOREM TypeCorrect == Spec => []TypeOK
<1>1. IInv => TypeOK
  BY DEF IInv
<1> QED
  BY <1>1, Inductive, PTL

\* Router first, AWS second: a block that points at nothing came back behind a
\* teardown's proof, by a Hand Off, a rollback, the revert timer or a reload.
THEOREM DeadBlocksAreExplained == Spec => []DeadBlockHasACause
<1>1. IInv => DeadBlockHasACause
  BY DEF IInv, RouterFirst, DeadBlockHasACause
<1> QED
  BY <1>1, Inductive, PTL

\* R5: what was applied or sent was under a change in Implement.
THEOREM NothingBeforeImplement == Spec => []TouchedUnderImplement
<1>1. IInv => TouchedUnderImplement
  <2> SUFFICES ASSUME IInv, NEW j \in PersonRuns, j \in sent PROVE chg[j] \in {"Implement", "Review", "Closed"}
    BY DEF TouchedUnderImplement
  <2>1. at[j] \in Task /\ ChangeOK(j)
    BY DEF IInv, TypeOK, Runs
  <2> QED
    BY <2>1 DEF ChangeOK, Task, Over, Unopened, Asking, Touching, Removing
<1> QED
  BY <1>1, Inductive, PTL

\* A run that is over left no change open and no task, except one it never knew
\* of, and one whose task's page the Gateway's runner did not write.
THEOREM FinishedRunsAreSettled == Spec => []FinishedRunsSettleTheirChange
<1>1. IInv => FinishedRunsSettleTheirChange
  BY DEF IInv, ChangeOK, FinishedRunsSettleTheirChange
<1> QED
  BY <1>1, Inductive, PTL

\* The hourly run destroys what it read as due, or what another Deploy put there since.
THEOREM TimedDestroyIsDue == Spec => TimedDestroyWasDue
<1>1. IInv /\ [Next]_vars => [\A e \in Expiries : aws'.by = e /\ aws.by # e
                                      => Passed(aws.until) \/ aws.by # due[e]]_vars
  BY DEF IInv, DueOK
<1> QED
  BY <1>1, Inductive, PTL DEF Spec, TimedDestroyWasDue

\* What a lone Hand Off reports as up is saved: a reload brings it back.
THEOREM HandedOffStays == Spec => HandedOffIsSaved
<1>1. ASSUME IInv, Next, NEW h \in HandOffs, ending[h] = "none", ending'[h] = "successful", sent \cap HandOffs = {h}
      PROVE  startup = running
  <2>a. TypeOK /\ HandedOK(h) /\ RouterFirst
    BY <1>1 DEF IInv
  <2>b. /\ ending \in [Runs -> Kind] /\ h \in Runs /\ h \notin Deploys /\ h \notin Removers
        /\ HandOffs \subseteq Runs /\ Deploys \subseteq Runs /\ Removers \subseteq Runs /\ PersonRuns \subseteq Runs
        /\ TearDowns \subseteq Removers /\ Expiries \subseteq Removers
    BY <2>a, RunAssumption DEF TypeOK, Runs, PersonRuns, Removers
  <2>1. Verify(h) /\ TunnelUp(running)
    <3>1. ASSUME NEW i \in Runs, Apart(i) PROVE i = h
      BY <3>1, <2>b, <1>1 DEF Apart
    <3>2. ASSUME PrepareHandOff(h) \/ PushBlock(h) \/ ReadHandOff(h) PROVE FALSE
      BY <3>2, <2>b, <1>1 DEF PrepareHandOff, BatfishGate, ReadBack, PushBlock, SendUnderTimer, NothingSent, ReadHandOff,
         ReadPush, Ends
    <3>3. ASSUME Verify(h) PROVE TunnelUp(running)
      BY <3>3, <2>b, <1>1 DEF Verify, Ends
    <3>4. ASSUME Change(h) \/ Decide(h) \/ Fix(h) PROVE FALSE
      BY <3>4, <2>b, <1>1 DEF Change, OpenChange, ScheduleChange, ImplementChange, CloseFirst, CloseSecond, FixCard, Call, Decide, Fix,
         CloseFixCard
    <3>5. ASSUME Start(h) \/ TimerFires \/ Reload \/ Tick PROVE FALSE
      BY <3>5, <1>1 DEF Start, TimerFires, Reload, Tick, change
    <3>6. ASSUME \/ \E i \in Deploys : PlanDeploy(i) \/ ApplyDeploy(i) \/ EnsureKey(i) \/ DiscardPlan(i)
                 \/ \E i \in Removers : TearDownStep(i)
                 \/ \E i \in Deploys, hours \in Lifetimes : StartDeploy(i, hours)
                 \/ \E i \in TearDowns : Start(i)
                 \/ \E i \in Expiries : ReadEndTime(i) \/ SeeTask(i)
                 \/ \E i \in TearDowns : DecideDestroy(i)
          PROVE  FALSE
      BY <3>1, <3>6, <2>a, <2>b, RunsApart
    <3>7. ASSUME NEW i \in HandOffs, PrepareHandOff(i) \/ PushBlock(i) \/ ReadHandOff(i) \/ Verify(i) \/ Start(i)
          PROVE  i = h
      BY <3>1, <3>7, <2>a, <2>b, RunsApart
    <3>8. ASSUME NEW i \in PersonRuns, Change(i) \/ Decide(i) \/ Fix(i) PROVE i = h
      BY <3>1, <3>8, <2>a, <2>b, RunsApart
    <3> QED
      BY <1>1, <3>2, <3>3, <3>4, <3>5, <3>6, <3>7, <3>8, NextCases DEF TearDownStep
  <2>2. running # None
    BY <2>1, <2>a DEF TunnelUp, RouterFirst
  <2> QED
    BY <2>1, <2>2, <2>a, <1>1 DEF HandedOK, Verify, At
<1>2. IInv /\ [Next]_vars => [\A h \in HandOffs : /\ ending[h] = "none" /\ ending'[h] = "successful"
                                                  /\ sent \cap HandOffs = {h}
                                                  => startup = running]_vars
  BY <1>1
<1> QED
  BY <1>2, Inductive, PTL DEF Spec, HandedOffIsSaved

\* The change of every run walks the lifecycle ServiceNow promises.
THEOREM ChangesRefine == Spec => ChangesLive
<1>1. Init => ChangeLife!Init
  BY DEF Init, ChangeLife!Init
<1>2. IInv /\ [Next]_vars => [ChangeLife!Next]_chg
  <2> SUFFICES ASSUME IInv, Next, chg' # chg PROVE ChangeLife!Next
    BY DEF vars, change
  <2>a. \A j \in PersonRuns : ChangeOK(j)
    BY DEF IInv
  <2>1. ASSUME NEW j \in PersonRuns, NEW s, <<chg[j], s>> \in ChangeLife!LifecycleMoves, chg' = [chg EXCEPT ![j] = s]
        PROVE  ChangeLife!Next
    <3>1. s = <<chg[j], s>>[2]
      OBVIOUS
    <3>2. s \in {m[2] : m \in ChangeLife!LifecycleMoves}
      BY <2>1, <3>1
    <3> QED
      BY <2>1, <3>2 DEF ChangeLife!Next, ChangeLife!Move
  \* A call leaves the change where it was or moves it to what was asked
  <2>2. ASSUME NEW j, NEW s, NEW then, NEW refused, Call(j, s, then, refused) PROVE chg' = [chg EXCEPT ![j] = s]
    <3>1. chg' = [chg EXCEPT ![j] = s] \/ chg' \in {chg, [chg EXCEPT ![j] = s]}
      BY <2>2, Zenon DEF Call
    <3> QED
      BY <3>1
  <2>3. ASSUME NEW j \in PersonRuns, OpenChange(j, First(j)) PROVE ChangeLife!Next
    <3>1. chg[j] = "none"
      BY <2>a, <2>3 DEF OpenChange, At, ChangeOK, Unopened
    <3>2. chg' = [chg EXCEPT ![j] = "New"]
      BY <2>2, <2>3 DEF OpenChange
    <3> QED
      BY <2>1, <3>1, <3>2 DEF ChangeLife!LifecycleMoves
  <2>4. ASSUME NEW j \in PersonRuns, ScheduleChange(j, Refused(j)) PROVE ChangeLife!Next
    <3>1. chg[j] = "New"
      BY <2>a, <2>4 DEF ScheduleChange, At, ChangeOK, Asking
    <3>2. chg' = [chg EXCEPT ![j] = "Scheduled"]
      BY <2>2, <2>4 DEF ScheduleChange
    <3> QED
      BY <2>1, <3>1, <3>2 DEF ChangeLife!LifecycleMoves
  <2>5. ASSUME NEW j \in PersonRuns, ImplementChange(j, Approved(j), Refused(j)) PROVE ChangeLife!Next
    <3>1. chg[j] = "Scheduled"
      BY <2>a, <2>5 DEF ImplementChange, At, ChangeOK
    <3>2. chg' = [chg EXCEPT ![j] = "Implement"]
      BY <2>2, <2>5 DEF ImplementChange
    <3> QED
      BY <2>1, <3>1, <3>2 DEF ChangeLife!LifecycleMoves
  <2>6. ASSUME NEW j \in PersonRuns, CloseFirst(j), TwoSteps(j) PROVE ChangeLife!Next
    <3>1. chg[j] = "Implement"
      BY <2>a, <2>6 DEF CloseFirst, At, ChangeOK
    <3>2. chg' = [chg EXCEPT ![j] = "Review"]
      BY <2>2, <2>6 DEF CloseFirst
    <3> QED
      BY <2>1, <3>1, <3>2 DEF ChangeLife!LifecycleMoves
  <2>7. ASSUME NEW j \in PersonRuns, CloseFirst(j), ~TwoSteps(j) PROVE ChangeLife!Next
    <3>1. chg[j] \in Early
      BY <2>a, <2>7 DEF CloseFirst, At, ChangeOK
    <3>2. chg' = [chg EXCEPT ![j] = "Canceled"]
      BY <2>2, <2>7 DEF CloseFirst
    <3> QED
      BY <2>1, <3>1, <3>2 DEF ChangeLife!LifecycleMoves, Early
  <2>8. ASSUME NEW j \in PersonRuns, CloseSecond(j) PROVE ChangeLife!Next
    <3>1. chg[j] = "Review"
      BY <2>a, <2>8 DEF CloseSecond, At, ChangeOK
    <3>2. chg' = [chg EXCEPT ![j] = "Closed"]
      BY <2>2, <2>8 DEF CloseSecond
    <3> QED
      BY <2>1, <3>1, <3>2 DEF ChangeLife!LifecycleMoves
  \* No other step moves a change
  <2>9. ASSUME \/ \E i \in Deploys : PlanDeploy(i) \/ ApplyDeploy(i) \/ EnsureKey(i) \/ DiscardPlan(i)
               \/ \E i \in HandOffs : PrepareHandOff(i) \/ PushBlock(i) \/ ReadHandOff(i) \/ Verify(i)
               \/ \E i \in Removers : TearDownStep(i)
               \/ \E i \in PersonRuns : FixCard(i) \/ Decide(i) \/ Fix(i)
               \/ \E i \in Deploys, hours \in Lifetimes : StartDeploy(i, hours)
               \/ \E i \in HandOffs \cup TearDowns : Start(i)
               \/ \E i \in Expiries : ReadEndTime(i) \/ SeeTask(i)
               \/ \E i \in TearDowns : DecideDestroy(i)
               \/ TimerFires \/ Reload \/ Tick
        PROVE  FALSE
    BY <2>9 DEF PlanDeploy, ApplyDeploy, EnsureKey, DiscardPlan, PrepareHandOff, PushBlock, ReadHandOff, ReadPush, Verify,
       TearDownStep, ReadBefore, RemoveBlock, ReadRemoval, ProveGone, PlanDestroy, Destroy, ReadLeft, RejectDestroy, FixCard,
       Decide, Fix, CloseFixCard, StartDeploy, Start, ReadEndTime, SeeTask, DecideDestroy, TimerFires, Reload, Tick, change
  <2> QED
    BY <2>3, <2>4, <2>5, <2>6, <2>7, <2>8, <2>9, NextCases DEF Change, TearDownStep
<1> QED
  BY <1>1, <1>2, Inductive, PTL DEF Spec, ChangesLive, ChangeLife!Spec

=============================================================================
