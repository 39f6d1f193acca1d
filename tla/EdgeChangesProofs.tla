--------------------------- MODULE EdgeChangesProofs ---------------------------
(***************************************************************************)
(* Theorems about EdgeChanges, KeyRotation, RevertPush and EdgeRouter, for *)
(* any number of rotations, pushes and reloads.  The argument is the       *)
(* inductive invariant IInv of EdgeChanges: what its versions are, where   *)
(* the lines of each push stand, and which key each place holds for as     *)
(* long as no failure that cannot be healed has happened.                  *)
(***************************************************************************)
EXTENDS EdgeChanges, FiniteSetTheorems, WellFoundedInduction, TLAPS

-----------------------------------------------------------------------------
\* A finite set of numbers has a largest one.
LEMMA LargestExists ==
    ASSUME NEW S \in SUBSET Nat, IsFiniteSet(S), S # {}
    PROVE  \E v \in S : \A w \in S : w <= v
<1> DEFINE Above(v) == {w \in S : w > v}
           Tails == {Above(v) : v \in S}
<1>1. IsWellFoundedOn(StrictSubsetOrdering(S), SUBSET S)
  BY FS_StrictSubsetOrderingWellFounded, FS_FiniteSubsetsOfFinite
<1>2. Tails \subseteq SUBSET S /\ Tails # {}
  OBVIOUS
<1>3. PICK T \in Tails : \A U \in Tails : <<U, T>> \notin StrictSubsetOrdering(S)
  <2> HIDE DEF Tails
  <2> QED
    BY <1>1, <1>2, WFMin
<1>4. PICK v \in S : T = Above(v)
  BY <1>3
<1>5. ASSUME NEW w \in S, w > v PROVE FALSE
  <2>1. Above(w) \in Tails
    BY <1>5
  <2>2. w \in Above(v) /\ w \notin Above(w) /\ Above(w) \subseteq Above(v)
    <3>1. w \in Nat /\ v \in Nat
      OBVIOUS
    <3>2. ASSUME NEW x \in S, x > w PROVE x > v
      BY <1>5, <3>1, <3>2
    <3>3. Above(w) \subseteq Above(v)
      BY <3>2
    <3>4. w \in Above(v) /\ w \notin Above(w)
      BY <1>5, <3>1
    <3> QED
      BY <3>3, <3>4
  <2>3. <<Above(w), T>> \in StrictSubsetOrdering(S)
    BY <1>4, <2>2 DEF StrictSubsetOrdering
  <2> QED
    BY <1>3, <2>1, <2>3
<1> QED
  BY <1>5

\* Vault's versions and those among them that are not destroyed.
LEMMA VaultType ==
    ASSUME TypeOK
    PROVE  /\ vault \in Seq(Keys) /\ Len(vault) \in Nat
           /\ live \subseteq 1 .. Len(vault) /\ Len(vault) \in live
<1>1. vault \in Seq(Keys) /\ live \subseteq 1 .. Len(vault) /\ Len(vault) \in live
  BY Zenon DEF TypeOK
<1> QED
  BY <1>1

\* Vault's newest version is the last one ever written.
LEMMA NewestIsLast == TypeOK => Newest = Len(vault)
<1> SUFFICES ASSUME TypeOK PROVE Newest = Len(vault)
  OBVIOUS
<1>1. live \subseteq 1 .. Len(vault) /\ Len(vault) \in live /\ Len(vault) \in Nat
  BY VaultType
<1>2. \E v \in live : \A w \in live : w <= v
  BY <1>1
<1>3. Newest \in live /\ \A w \in live : w <= Newest
  BY <1>2 DEF Newest
<1> QED
  BY <1>1, <1>3

\* The previous version is the largest of the others, when there is another.
LEMMA PreviousIsLive ==
    ASSUME TypeOK, live # {Len(vault)}
    PROVE  Previous \in live /\ Previous < Len(vault) /\ \A w \in live \ {Len(vault)} : w <= Previous
<1> DEFINE Others == live \ {Len(vault)}
<1>1. live \subseteq 1 .. Len(vault) /\ Len(vault) \in live /\ Len(vault) \in Nat
  BY VaultType
<1>2. Others \in SUBSET (1 .. Len(vault)) /\ Others # {} /\ Others \in SUBSET Nat
  <2>1. \E v \in live : v # Len(vault)
    BY <1>1
  <2>2. \A v \in live : v \in 1 .. Len(vault) /\ v \in Nat
    BY <1>1
  <2> QED
    BY <2>1, <2>2
<1>3. IsFiniteSet(Others)
  <2>1. IsFiniteSet(1 .. Len(vault))
    BY <1>1, FS_Interval
  <2> QED
    BY <1>2, <2>1, FS_Subset
<1>4. \E v \in Others : \A w \in Others : w <= v
  BY <1>2, <1>3, LargestExists
<1>5. Previous \in Others /\ \A w \in Others : w <= Previous
  BY <1>4, NewestIsLast DEF Previous
<1> QED
  BY <1>1, <1>5

\* What is restored is a key: restore-previous is refused unless there is a version before.
LEMMA PreviousIsKey == TypeOK /\ Restorable => Previous \in live /\ vault[Previous] \in Keys
<1> SUFFICES ASSUME TypeOK, Restorable PROVE Previous \in live /\ vault[Previous] \in Keys
  OBVIOUS
<1>1. live # {Len(vault)}
  <2>1. Cardinality({Len(vault)}) = 1 /\ Cardinality(live) > 1
    BY FS_Singleton DEF Restorable
  <2> QED
    BY <2>1
<1>2. Previous \in live /\ live \subseteq 1 .. Len(vault) /\ vault \in Seq(Keys)
  BY <1>1, PreviousIsLive, VaultType
<1> QED
  BY <1>2

\* A new version goes to the end, and the one before it is the previous one.
LEMMA Writing ==
    ASSUME TypeOK, NEW key \in Keys, ToVault(key)
    PROVE  /\ vault' \in Seq(Keys) /\ live' \subseteq 1 .. Len(vault') /\ Len(vault') \in live'
           /\ Len(vault') = Len(vault) + 1 /\ Current' = key
           /\ \A v \in 1 .. Len(vault) : v \in 1 .. Len(vault') /\ vault'[v] = vault[v]
<1>1. vault \in Seq(Keys) /\ live \subseteq 1 .. Len(vault) /\ Len(vault) \in Nat
  BY VaultType
<1>2. vault' = Append(vault, key) /\ live' = live \cup {Len(vault) + 1}
  BY DEF ToVault
<1>3. vault' \in Seq(Keys) /\ Len(vault') = Len(vault) + 1
  BY <1>1, <1>2
<1>4. vault'[Len(vault) + 1] = key /\ \A v \in 1 .. Len(vault) : vault'[v] = vault[v]
  BY <1>1, <1>2
<1>5. \A v \in 1 .. Len(vault) : v \in 1 .. Len(vault')
  BY <1>1, <1>3
<1>6. Len(vault) + 1 \in 1 .. Len(vault')
  BY <1>1, <1>3
<1>7. live' \subseteq 1 .. Len(vault')
  BY <1>1, <1>2, <1>5, <1>6
<1> QED
  BY <1>2, <1>3, <1>4, <1>5, <1>7 DEF Current

-----------------------------------------------------------------------------
\* The steps of Next, one by one: what a proof about a step has to go through.
LEMMA NextCases ==
    ASSUME Next
    PROVE  \/ /\ UNCHANGED changed
              /\ \E r \in Rotations : \/ PlanRotation(r) \/ Precheck(r) \/ WriteKey(r) \/ ReloadKey(r) \/ PushKey(r)
                                      \/ ReadPush(r) \/ Prune(r) \/ VerifyRotation(r) \/ Restore(r) \/ ReloadBack(r)
                                      \/ DueCheck(r) \/ StartRotation(r) \/ SeeTask(r)
           \/ /\ UNCHANGED rotationVars
              /\ \E p \in Pushes : SendChange(p) \/ ReadChange(p) \/ PrepareChange(p) \/ DecideChange(p)
           \/ UNCHANGED <<rotationVars, changed>> /\ (TimerFires \/ Reload)
           \/ UNCHANGED changed /\ BoxRestarts
  BY DEF Next, Step, RotationStep, PushStep, People, Around

\* No step changes who runs and what may fail.
LEMMA EnvStays == Next => env' = env
  BY DEF Next, Step

\* Where a run goes and what it says.
LEMMA RunsType == TypeOK /\ Next => at' \in [Runs -> Task] /\ said' \in [Runs -> Outcome]
<1> SUFFICES ASSUME TypeOK, Next PROVE at' \in [Runs -> Task] /\ said' \in [Runs -> Outcome]
  OBVIOUS
<1> DEFINE Typed == at' \in [Runs -> Task] /\ said' \in [Runs -> Outcome]
<1>a. at \in [Runs -> Task] /\ said \in [Runs -> Outcome] /\ Rotations \subseteq Runs /\ Pushes \subseteq Runs
  BY DEF TypeOK, Runs
<1>b. /\ "start" \in Task /\ "plan" \in Task /\ "precheck" \in Task /\ "write" \in Task /\ "reload" \in Task
      /\ "push" \in Task /\ "answer" \in Task /\ "prune" \in Task /\ "verify" \in Task /\ "restore" \in Task
      /\ "reloadBack" \in Task /\ "task" \in Task /\ "card" \in Task /\ "send" \in Task /\ "done" \in Task
  BY DEF Task
<1>c. /\ "nothing" \in Outcome /\ "unchanged" \in Outcome /\ "rejected" \in Outcome /\ "saved" \in Outcome
      /\ "rolled back" \in Outcome /\ "unknown" \in Outcome /\ "not due" \in Outcome
      /\ "not deployed" \in Outcome /\ "may differ" \in Outcome /\ "kept, not saved" \in Outcome
      /\ "rotated" \in Outcome /\ "rotated, not verified" \in Outcome /\ "restore by hand" \in Outcome
      /\ "check the box" \in Outcome
  BY DEF Outcome
<1>d. ASSUME NEW j \in Runs, NEW t \in Task, GoesOn(j, t) PROVE Typed
  BY <1>a, <1>d DEF GoesOn, Go
<1>e. ASSUME NEW j \in Runs, NEW what \in Outcome, NEW t \in Task, Says(j, what, t) PROVE Typed
  BY <1>a, <1>e DEF Says, Go
<1>1. ASSUME NEW r \in Rotations, PlanRotation(r) \/ Precheck(r) \/ DueCheck(r) \/ StartRotation(r) \/ SeeTask(r) PROVE Typed
  BY <1>1, <1>a, <1>b, <1>c, <1>d, <1>e DEF PlanRotation, Precheck, DueCheck, StartRotation, SeeTask, Stops
<1>2. ASSUME NEW r \in Rotations, WriteKey(r) \/ ReloadKey(r) PROVE Typed
  BY <1>2, <1>a, <1>b, <1>c, <1>d, <1>e DEF WriteKey, ReloadKey, JudgeFails, Stops
<1>3. ASSUME NEW r \in Rotations, PushKey(r) \/ ReadPush(r) PROVE Typed
  BY <1>3, <1>a, <1>b, <1>c, <1>d, <1>e DEF PushKey, ReadPush, JudgeFails, Stops
<1>4. ASSUME NEW r \in Rotations, Prune(r) \/ VerifyRotation(r) \/ Restore(r) \/ ReloadBack(r) PROVE Typed
  BY <1>4, <1>a, <1>b, <1>c, <1>d, <1>e DEF Prune, VerifyRotation, Restore, ReloadBack, JudgeFails, Stops
<1>5. ASSUME NEW p \in Pushes, SendChange(p) \/ ReadChange(p) \/ PrepareChange(p) \/ DecideChange(p) PROVE Typed
  BY <1>5, <1>a, <1>b, <1>c, <1>d, <1>e DEF SendChange, ReadChange, PrepareChange, DecideChange, PushEnds, Quiet
<1>6. ASSUME TimerFires \/ Reload \/ BoxRestarts PROVE Typed
  BY <1>6, <1>a DEF TimerFires, Reload, BoxRestarts, control
<1> QED
  BY <1>1, <1>2, <1>3, <1>4, <1>5, <1>6, NextCases

\* Vault only grows, and what it holds are keys.
LEMMA StoresType == TypeOK /\ Next => /\ vault' \in Seq(Keys) /\ live' \subseteq 1 .. Len(vault') /\ Len(vault') \in live'
                                      /\ sm' \in [current : Keys, previous : Keys \cup {None}] /\ box' \in Keys
                                      /\ \A v \in 1 .. Len(vault) : v \in 1 .. Len(vault') /\ vault'[v] = vault[v]
<1> DEFINE Labels == [current : Keys, previous : Keys \cup {None}]
           Typed == /\ vault' \in Seq(Keys) /\ live' \subseteq 1 .. Len(vault') /\ Len(vault') \in live'
                    /\ sm' \in Labels /\ box' \in Keys
                    /\ \A v \in 1 .. Len(vault) : v \in 1 .. Len(vault') /\ vault'[v] = vault[v]
<1> SUFFICES ASSUME TypeOK, Next PROVE Typed
  OBVIOUS
<1>a. /\ vault \in Seq(Keys) /\ live \subseteq 1 .. Len(vault) /\ Len(vault) \in live
      /\ sm \in Labels /\ box \in Keys
  BY VaultType DEF TypeOK
<1>b. sm.current \in Keys /\ \A key \in Keys : Labelled(key) \in Labels
  BY <1>a DEF Labelled
<1>c. \A r \in Rotations : r \in Keys
  BY DEF Keys
<1> USE DEF stores, rotationVars
<1>1. ASSUME NEW r \in Rotations, WriteKey(r) PROVE Typed
  BY <1>1, <1>a, <1>b, <1>c, Writing DEF WriteKey
<1>2. ASSUME NEW r \in Rotations, Restore(r) PROVE Typed
  BY <1>2, <1>a, <1>b, PreviousIsKey, Writing DEF Restore
<1>3. ASSUME NEW r \in Rotations, Prune(r) PROVE Typed
  BY <1>3, <1>a, NewestIsLast, PreviousIsLive DEF Prune
<1>4. ASSUME \/ \E r \in Rotations : \/ PlanRotation(r) \/ Precheck(r) \/ ReloadKey(r) \/ PushKey(r) \/ ReadPush(r)
                                     \/ VerifyRotation(r) \/ ReloadBack(r) \/ DueCheck(r) \/ StartRotation(r) \/ SeeTask(r)
             \/ BoxRestarts
      PROVE  UNCHANGED <<vault, live, sm>> /\ box' \in {box, sm.current}
  BY <1>4 DEF PlanRotation, Precheck, ReloadKey, PushKey, ReadPush, VerifyRotation, ReloadBack, DueCheck, StartRotation, SeeTask,
     BoxRestarts
<1>5. ASSUME UNCHANGED rotationVars PROVE Typed
  BY <1>5, <1>a
<1> QED
  BY <1>1, <1>2, <1>3, <1>4, <1>5, <1>a, <1>b, NextCases

\* The router holds versions Vault has had, and lines of pushes.
LEMMA RouterType ==
    TypeOK /\ Next => /\ running' \in Config /\ startup' \in Config /\ timer' \in Pending \cup {None}
                      /\ reloads' \in 0 .. MaxReloads
                      /\ {running.version, startup.version}' \subseteq 1 .. Len(vault')
                      /\ timer' # None => timer'.back.version \in 1 .. Len(vault')
<1> DEFINE Holds(c) == c \in Config /\ c.version \in 1 .. Len(vault)
           Typed == /\ Holds(running') /\ Holds(startup') /\ timer' \in Pending \cup {None}
                    /\ reloads' \in 0 .. MaxReloads
                    /\ timer' # None => timer'.back.version \in 1 .. Len(vault)
<1> SUFFICES ASSUME TypeOK, Next PROVE Typed
  BY StoresType
<1>a. /\ Holds(running) /\ Holds(startup) /\ timer \in Pending \cup {None} /\ reloads \in 0 .. MaxReloads
      /\ timer # None => Holds(timer.back)
  BY DEF TypeOK, Pending
<1>b. Rotations \subseteq Runs /\ Pushes \subseteq Runs
  BY DEF Runs
<1> USE DEF router
<1>1. ASSUME NEW j \in Runs, NEW new, Holds(new), SendUnderTimer(j, new) PROVE Typed
  <2>1. [owner |-> j, back |-> running] \in Pending
    BY <1>a DEF Pending
  <2> QED
    BY <1>1, <1>a, <2>1 DEF SendUnderTimer
<1>2. ASSUME NEW j \in Runs, Saved(j) \/ Unsaved(j) \/ RolledBack(j) PROVE Typed
  BY <1>2, <1>a DEF Saved, Unsaved, RolledBack, Own
<1>3. ASSUME UNCHANGED router PROVE Typed
  BY <1>3, <1>a
<1>4. ASSUME NEW r \in Rotations, PushKey(r) PROVE Typed
  <2>1. PICK v \in {Newest} \cup live :
             \/ running.version # v /\ SendUnderTimer(r, [running EXCEPT !.version = v])
             \/ timer = None /\ startup' = running /\ UNCHANGED <<running, timer, reloads>>
             \/ UNCHANGED router
    BY <1>4 DEF PushKey
  <2>2. v \in 1 .. Len(vault) /\ v \in Nat \ {0}
    BY VaultType, NewestIsLast
  <2>3. Holds([running EXCEPT !.version = v])
    BY <1>a, <2>2 DEF Config
  <2> QED
    BY <1>1, <1>3, <1>a, <1>b, <2>1, <2>3
<1>5. ASSUME NEW p \in Pushes, SendChange(p) PROVE Typed
  <2>1. Holds([running EXCEPT !.lines = @ \cup {p}])
    BY <1>a DEF Config
  <2> QED
    BY <1>1, <1>3, <1>5, <1>b, <2>1 DEF SendChange
<1>6. ASSUME \/ \E r \in Rotations : ReadPush(r)
             \/ \E p \in Pushes : ReadChange(p)
      PROVE  Typed
  BY <1>2, <1>3, <1>6, <1>b DEF ReadPush, ReadChange
<1>7. ASSUME TimerFires \/ Reload PROVE Typed
  BY <1>7, <1>a, BoundAssumption DEF TimerFires, Reload
<1>8. ASSUME \/ \E r \in Rotations : \/ PlanRotation(r) \/ Precheck(r) \/ WriteKey(r) \/ ReloadKey(r) \/ Prune(r)
                                     \/ VerifyRotation(r) \/ Restore(r) \/ ReloadBack(r) \/ DueCheck(r) \/ StartRotation(r)
                                     \/ SeeTask(r)
             \/ \E p \in Pushes : PrepareChange(p) \/ DecideChange(p)
             \/ BoxRestarts
      PROVE  UNCHANGED router
  BY <1>8 DEF PlanRotation, Precheck, WriteKey, ReloadKey, Prune, VerifyRotation, Restore, ReloadBack, DueCheck,
     StartRotation, SeeTask, PrepareChange, DecideChange, BoxRestarts
<1> QED
  BY <1>3, <1>4, <1>5, <1>6, <1>7, <1>8, NextCases

\* The history of the key and the outputs of the pushes.
LEMMA HistoryType == TypeOK /\ Next => causes' \subseteq Cause /\ changed' \in [Pushes -> BOOLEAN]
<1> SUFFICES ASSUME TypeOK, Next PROVE causes' \subseteq Cause /\ changed' \in [Pushes -> BOOLEAN]
  OBVIOUS
<1>a. causes \subseteq Cause /\ changed \in [Pushes -> BOOLEAN]
  BY DEF TypeOK
<1>b. /\ "overlap" \in Cause /\ "write lost" \in Cause /\ "push lost" \in Cause /\ "not saved" \in Cause
      /\ "not restored" \in Cause /\ "not reloaded" \in Cause /\ "stopped" \in Cause
  BY DEF Cause
<1> USE DEF rotationVars, Because, JudgeFails
<1>1. ASSUME NEW r \in Rotations, \/ PlanRotation(r) \/ Precheck(r) \/ DueCheck(r) \/ StartRotation(r) \/ SeeTask(r)
                                  \/ WriteKey(r) \/ ReloadKey(r) \/ PushKey(r) \/ ReadPush(r)
      PROVE  causes' \subseteq Cause
  BY <1>1, <1>a, <1>b DEF PlanRotation, Precheck, DueCheck, StartRotation, SeeTask, WriteKey, ReloadKey, PushKey, ReadPush
<1>2. ASSUME NEW r \in Rotations, Prune(r) \/ VerifyRotation(r) \/ Restore(r) \/ ReloadBack(r) PROVE causes' \subseteq Cause
  BY <1>2, <1>a, <1>b DEF Prune, VerifyRotation, Restore, ReloadBack
<1>3. ASSUME BoxRestarts PROVE causes' = causes
  BY <1>3 DEF BoxRestarts
<1>4. ASSUME NEW p \in Pushes, SendChange(p) \/ ReadChange(p) \/ PrepareChange(p) \/ DecideChange(p)
      PROVE  changed' \in [Pushes -> BOOLEAN]
  <2>1. ASSUME NEW state, PushEnds(p, state) PROVE changed' \in [Pushes -> BOOLEAN]
    <3>1. (state \in {"saved", "unknown"}) \in BOOLEAN
      OBVIOUS
    <3>2. \A b \in BOOLEAN : [changed EXCEPT ![p] = b] \in [Pushes -> BOOLEAN]
      BY <1>a
    <3> QED
      BY <2>1, <3>1, <3>2 DEF PushEnds
  <2> QED
    BY <1>4, <1>a, <2>1 DEF SendChange, ReadChange, PrepareChange, DecideChange
<1> QED
  BY <1>1, <1>2, <1>3, <1>4, <1>a, NextCases

\* Every step keeps the shape of every variable.
LEMMA TypeStep == TypeOK /\ [Next]_vars => TypeOK'
<1>1. TypeOK /\ Next => TypeOK'
  BY EnvStays, RunsType, StoresType, RouterType, HistoryType DEF TypeOK
<1>2. TypeOK /\ UNCHANGED vars => TypeOK'
  BY DEF TypeOK, vars, control, router, rotationVars, stores
<1> QED
  BY <1>1, <1>2

-----------------------------------------------------------------------------
\* A step of one run leaves every other run where it is.
Apart(j) == /\ \A i \in Runs \ {j} : at'[i] = at[i] /\ said'[i] = said[i]
            /\ \A p \in Pushes \ {j} : changed'[p] = changed[p]

\* What a step may do to the router for a run: nothing; send a configuration under
\* a timer; confirm, save or roll back what it sent; or save what is running.
Handles(j, sends) == \/ UNCHANGED router
                     \/ \E new \in Config : sends = new /\ SendUnderTimer(j, new)
                     \/ Saved(j) \/ Unsaved(j) \/ RolledBack(j)
                     \/ timer = None /\ startup' = running /\ UNCHANGED <<running, timer, reloads>>

\* A rotation's steps, and a push's: whom they leave alone and what they send.
LEMMA RotationMoves ==
    ASSUME TypeOK, UNCHANGED changed, NEW r \in Rotations,
           \/ PlanRotation(r) \/ Precheck(r) \/ WriteKey(r) \/ ReloadKey(r) \/ PushKey(r) \/ ReadPush(r) \/ Prune(r)
           \/ VerifyRotation(r) \/ Restore(r) \/ ReloadBack(r) \/ DueCheck(r) \/ StartRotation(r) \/ SeeTask(r)
    PROVE  Apart(r) /\ \E v \in live : Handles(r, [running EXCEPT !.version = v])
<1>a. at \in [Runs -> Task] /\ said \in [Runs -> Outcome] /\ running \in Config
  BY DEF TypeOK
<1>b. ASSUME NEW what, NEW t, GoesOn(r, t) \/ Says(r, what, t) PROVE Apart(r)
  BY <1>a, <1>b DEF Apart, GoesOn, Says, Go
<1>c. \A v \in live : [running EXCEPT !.version = v] \in Config
  BY <1>a, VaultType DEF Config
<1>d. Newest \in live
  BY VaultType, NewestIsLast
<1> DEFINE Moves == \E v \in live : Handles(r, [running EXCEPT !.version = v])
<1> USE DEF JudgeFails, Stops
<1>1. CASE PlanRotation(r) \/ Precheck(r) \/ DueCheck(r) \/ StartRotation(r) \/ SeeTask(r)
  BY <1>1, <1>b, <1>d DEF PlanRotation, Precheck, DueCheck, StartRotation, SeeTask, Handles
<1>2. CASE WriteKey(r) \/ ReloadKey(r)
  BY <1>2, <1>b, <1>d DEF WriteKey, ReloadKey, Handles
<1>3. CASE PushKey(r)
  <2>1. Apart(r)
    BY <1>3, <1>b DEF PushKey
  <2>2. PICK v \in live : \/ SendUnderTimer(r, [running EXCEPT !.version = v])
                          \/ timer = None /\ startup' = running /\ UNCHANGED <<running, timer, reloads>>
                          \/ UNCHANGED router
    BY <1>3, <1>d DEF PushKey
  <2> QED
    BY <2>1, <2>2, <1>c DEF Handles
<1>4. CASE ReadPush(r)
  BY <1>4, <1>b, <1>d DEF ReadPush, Handles
<1>5. CASE Prune(r) \/ VerifyRotation(r) \/ Restore(r) \/ ReloadBack(r)
  BY <1>5, <1>b, <1>d DEF Prune, VerifyRotation, Restore, ReloadBack, Handles
<1> QED
  BY <1>1, <1>2, <1>3, <1>4, <1>5

\* A push moves only itself, and puts at most its own lines on the router.
LEMMA PushMoves ==
    ASSUME TypeOK, NEW p \in Pushes, SendChange(p) \/ ReadChange(p) \/ PrepareChange(p) \/ DecideChange(p)
    PROVE  Apart(p) /\ Handles(p, [running EXCEPT !.lines = @ \cup {p}])
<1>a. at \in [Runs -> Task] /\ said \in [Runs -> Outcome] /\ running \in Config /\ changed \in [Pushes -> BOOLEAN]
  BY DEF TypeOK
<1>b. [running EXCEPT !.lines = @ \cup {p}] \in Config
  BY <1>a DEF Config
<1>1. Apart(p)
  BY <1>a DEF Apart, SendChange, ReadChange, PrepareChange, DecideChange, PushEnds, Quiet, GoesOn, Says, Go
<1>2. Handles(p, [running EXCEPT !.lines = @ \cup {p}])
  BY <1>b DEF Handles, SendChange, ReadChange, PrepareChange, DecideChange
<1> QED
  BY <1>1, <1>2

-----------------------------------------------------------------------------
\* What others do to the router leaves the lines of a push in order.
LEMMA OthersKeepLines ==
    ASSUME TypeOK, NEW p \in Pushes, LinesOK(p),
           at'[p] = at[p], said'[p] = said[p], changed'[p] = changed[p],
           \/ \E j \in Runs \ {p}, new \in Config : Handles(j, new) /\ (p \in new.lines <=> p \in running.lines)
           \/ timer # None /\ running' = timer.back /\ timer' = None /\ UNCHANGED startup
           \/ running' = startup /\ timer' = None /\ UNCHANGED startup
    PROVE  LinesOK(p)'
<1>1. CASE UNCHANGED router
  BY <1>1 DEF LinesOK, BackLines, Base, Own, router
<1>2. ASSUME NEW j \in Runs \ {p}, NEW new \in Config, SendUnderTimer(j, new), p \in new.lines <=> p \in running.lines
      PROVE  LinesOK(p)'
  BY <1>2 DEF LinesOK, BackLines, Base, Own, SendUnderTimer
<1>3. ASSUME NEW j \in Runs \ {p}, Saved(j) \/ Unsaved(j) \/ RolledBack(j) PROVE LinesOK(p)'
  BY <1>3 DEF LinesOK, BackLines, Base, Own, Saved, Unsaved, RolledBack
<1>4. CASE timer = None /\ startup' = running /\ UNCHANGED <<running, timer>>
  BY <1>4 DEF LinesOK, BackLines, Base, Own
<1>5. CASE \/ timer # None /\ running' = timer.back /\ timer' = None /\ UNCHANGED startup
           \/ running' = startup /\ timer' = None /\ UNCHANGED startup
  BY <1>5 DEF LinesOK, BackLines, Base, Own
<1> QED
  BY <1>1, <1>2, <1>3, <1>4, <1>5 DEF Handles

\* A push's own step leaves its lines in order.
LEMMA PushKeepsLines ==
    ASSUME TypeOK, NEW p \in Pushes, LinesOK(p), SendChange(p) \/ ReadChange(p) \/ PrepareChange(p) \/ DecideChange(p)
    PROVE  LinesOK(p)'
<1>a. /\ at \in [Runs -> Task] /\ said \in [Runs -> Outcome] /\ p \in Runs /\ running \in Config
      /\ changed \in [Pushes -> BOOLEAN]
  BY DEF TypeOK, Runs
<1> USE DEF GoesOn, Says, Go, At
<1>1. CASE PrepareChange(p) \/ DecideChange(p)
  BY <1>1, <1>a DEF PrepareChange, DecideChange, Quiet, LinesOK, BackLines, Base, Own, router
<1>2. CASE SendChange(p)
  <2>1. CASE SendUnderTimer(p, [running EXCEPT !.lines = @ \cup {p}]) /\ GoesOn(p, "answer")
    <3>1. timer' = [owner |-> p, back |-> running] /\ timer' \in Pending /\ timer' # None
      BY <2>1, <1>a, NoneAssumption DEF SendUnderTimer, Pending
    <3>2. p \in running'.lines /\ startup' = startup /\ timer = None
      BY <2>1, <1>a DEF SendUnderTimer, Config
    <3>3. at[p] = "send" /\ at'[p] = "answer" /\ said'[p] = said[p]
      BY <1>2, <2>1, <1>a DEF SendChange
    <3> QED
      BY <3>1, <3>2, <3>3 DEF LinesOK, BackLines, Own
  <2>2. CASE UNCHANGED router /\ (PushEnds(p, "unchanged") \/ PushEnds(p, "unknown"))
    BY <1>2, <2>2, <1>a DEF SendChange, PushEnds, LinesOK, BackLines, Base, Own, router
  <2> QED
    BY <1>2, <2>1, <2>2 DEF SendChange
<1>3. CASE ReadChange(p)
  <2>1. CASE Saved(p) /\ PushEnds(p, "saved")
    BY <1>3, <2>1, <1>a DEF ReadChange, Saved, PushEnds, LinesOK, BackLines, Base, Own
  <2>2. CASE (RolledBack(p) \/ (~Own(p) /\ UNCHANGED router)) /\ PushEnds(p, "rolled back")
    BY <1>3, <2>2, <1>a DEF ReadChange, RolledBack, PushEnds, LinesOK, BackLines, Base, Own, router
  <2>3. CASE PushEnds(p, "unknown")
    BY <1>3, <2>3, <1>a DEF ReadChange, PushEnds, LinesOK
  <2> QED
    BY <1>3, <2>1, <2>2, <2>3 DEF ReadChange
<1> QED
  BY <1>1, <1>2, <1>3

\* Every step keeps the lines of every push in order.
LEMMA LinesStep == IInv /\ Next => \A p \in Pushes : LinesOK(p)'
<1> SUFFICES ASSUME IInv, Next, NEW p \in Pushes PROVE LinesOK(p)'
  OBVIOUS
<1>a. TypeOK /\ LinesOK(p) /\ p \in Runs /\ running \in Config /\ Rotations \cap Pushes = {}
  BY RunAssumption DEF IInv, TypeOK, Runs
<1>b. \A r \in Rotations : r \in Runs /\ r # p
  BY <1>a DEF Runs
<1>1. ASSUME UNCHANGED changed, NEW r \in Rotations,
             \/ PlanRotation(r) \/ Precheck(r) \/ WriteKey(r) \/ ReloadKey(r) \/ PushKey(r) \/ ReadPush(r) \/ Prune(r)
             \/ VerifyRotation(r) \/ Restore(r) \/ ReloadBack(r) \/ DueCheck(r) \/ StartRotation(r) \/ SeeTask(r)
      PROVE  LinesOK(p)'
  <2>1. Apart(r) /\ \E v \in live : Handles(r, [running EXCEPT !.version = v])
    BY <1>1, <1>a, RotationMoves
  <2>2. at'[p] = at[p] /\ said'[p] = said[p] /\ changed'[p] = changed[p]
    BY <2>1, <1>a, <1>b DEF Apart
  <2>3. \A v \in live : [running EXCEPT !.version = v] \in Config /\ [running EXCEPT !.version = v].lines = running.lines
    BY <1>a, VaultType DEF Config
  <2> QED
    BY <2>1, <2>2, <2>3, <1>a, <1>b, OthersKeepLines
<1>2. ASSUME NEW q \in Pushes, SendChange(q) \/ ReadChange(q) \/ PrepareChange(q) \/ DecideChange(q), q # p
      PROVE  LinesOK(p)'
  <2>1. Apart(q) /\ Handles(q, [running EXCEPT !.lines = @ \cup {q}]) /\ q \in Runs
    BY <1>2, <1>a, PushMoves DEF Runs
  <2>2. at'[p] = at[p] /\ said'[p] = said[p] /\ changed'[p] = changed[p]
    BY <2>1, <1>2, <1>a DEF Apart
  <2>3. /\ [running EXCEPT !.lines = @ \cup {q}] \in Config
        /\ p \in [running EXCEPT !.lines = @ \cup {q}].lines <=> p \in running.lines
    BY <1>2, <1>a DEF Config
  <2> QED
    BY <2>1, <2>2, <2>3, <1>2, <1>a, OthersKeepLines
<1>3. ASSUME SendChange(p) \/ ReadChange(p) \/ PrepareChange(p) \/ DecideChange(p) PROVE LinesOK(p)'
  BY <1>3, <1>a, PushKeepsLines
<1>4. ASSUME UNCHANGED changed, TimerFires \/ Reload PROVE LinesOK(p)'
  BY <1>4, <1>a, OthersKeepLines DEF TimerFires, Reload, control
<1>5. ASSUME UNCHANGED changed, BoxRestarts PROVE LinesOK(p)'
  BY <1>5, <1>a DEF BoxRestarts, control, router, LinesOK, BackLines, Base, Own
<1> QED
  BY <1>1, <1>2, <1>3, <1>4, <1>5, NextCases

-----------------------------------------------------------------------------
\* The steps that touch no key: before a rotation's write, and after its end.
Quietly(r)  == PlanRotation(r) \/ Precheck(r) \/ DueCheck(r) \/ StartRotation(r) \/ SeeTask(r)
\* Those between the write and the end.
Busily(r)   == \/ WriteKey(r) \/ ReloadKey(r) \/ PushKey(r) \/ ReadPush(r) \/ Prune(r) \/ VerifyRotation(r)
               \/ Restore(r) \/ ReloadBack(r)
PushDoes(p) == SendChange(p) \/ ReadChange(p) \/ PrepareChange(p) \/ DecideChange(p)

\* The steps of Next as the proofs about the key take them.
LEMMA NextGroups ==
    ASSUME Next
    PROVE  \/ UNCHANGED changed /\ \E r \in Rotations : Quietly(r) \/ Busily(r)
           \/ UNCHANGED rotationVars /\ \E p \in Pushes : PushDoes(p)
           \/ UNCHANGED <<rotationVars, changed>> /\ (TimerFires \/ Reload)
           \/ UNCHANGED changed /\ BoxRestarts
  BY NextCases DEF Quietly, Busily, PushDoes

\* What a rotation does before its write leaves the key alone, and it comes to the
\* write only on record: with another one between write and end, as an overlap.
LEMMA QuietSteps ==
    ASSUME TypeOK, UNCHANGED changed, NEW r \in Rotations, Quietly(r)
    PROVE  /\ UNCHANGED <<router, stores>> /\ causes \subseteq causes'
           /\ Apart(r) /\ ~Changing(r)
           /\ Changing(r)' => at'[r] = "write" /\ ((\E o \in Rotations \ {r} : Changing(o)) => "overlap" \in causes')
<1>a. at \in [Runs -> Task] /\ r \in Runs
  BY DEF TypeOK, Runs
<1> USE DEF GoesOn, Says, Stops, Go, At
<1>b. Apart(r)
  BY RotationMoves DEF Quietly
<1>1. CASE Precheck(r)
  <2>1. UNCHANGED <<router, stores>> /\ causes \subseteq causes' /\ at[r] = "precheck"
    BY <1>1 DEF Precheck
  <2>2. \/ at'[r] = "task"
        \/ at'[r] = "write" /\ ((\E o \in Rotations \ {r} : Changing(o)) => "overlap" \in causes')
    BY <1>1, <1>a DEF Precheck
  <2> QED
    BY <2>1, <2>2, <1>b DEF Changing
<1>2. CASE PlanRotation(r) \/ DueCheck(r) \/ StartRotation(r) \/ SeeTask(r)
  <2>1. UNCHANGED <<router, stores, causes>>
    BY <1>2 DEF PlanRotation, DueCheck, StartRotation, SeeTask, rotationVars
  <2>2. at[r] \in {"plan", "start", "task"} /\ at'[r] \in {"precheck", "done", "task", "plan"}
    BY <1>2, <1>a DEF PlanRotation, DueCheck, StartRotation, SeeTask
  <2> QED
    BY <2>1, <2>2, <1>b DEF Changing
<1> QED
  BY <1>1, <1>2 DEF Quietly

\* The steps between write and end: the rotation was on its way, and history grows.
LEMMA BusySteps ==
    ASSUME TypeOK, UNCHANGED changed, NEW r \in Rotations, Busily(r)
    PROVE  Apart(r) /\ Changing(r) /\ causes \subseteq causes'
<1>1. Apart(r)
  BY RotationMoves DEF Busily
<1>2. Changing(r)
  BY DEF Busily, WriteKey, ReloadKey, PushKey, ReadPush, Prune, VerifyRotation, Restore, ReloadBack, Changing, At
<1>3. causes \subseteq causes'
  BY DEF Busily, WriteKey, ReloadKey, PushKey, ReadPush, Prune, VerifyRotation, Restore, ReloadBack, JudgeFails,
     Because, rotationVars
<1> QED
  BY <1>1, <1>2, <1>3

\* A push leaves the rotations and the stores alone.
LEMMA PushSteps ==
    ASSUME TypeOK, UNCHANGED rotationVars, NEW p \in Pushes, PushDoes(p)
    PROVE  UNCHANGED <<stores, causes>> /\ \A r \in Rotations : at'[r] = at[r] /\ said'[r] = said[r]
<1>1. Apart(p) /\ \A r \in Rotations : r \in Runs \ {p}
  BY PushMoves, RunAssumption DEF PushDoes, Runs
<1> QED
  BY <1>1 DEF Apart, rotationVars, stores

\* The timer, a reload and a restart of the box leave every run where it is.
LEMMA AroundSteps ==
    (UNCHANGED <<rotationVars, changed>> /\ (TimerFires \/ Reload)) \/ BoxRestarts => UNCHANGED <<at, said, causes, vault, live, sm>>
  BY DEF TimerFires, Reload, BoxRestarts, rotationVars, stores, control

-----------------------------------------------------------------------------
\* A change of a push is made on the version it would go back to.
LEMMA PendingStep == IInv /\ Next => PendingOK'
<1> SUFFICES ASSUME IInv, Next PROVE PendingOK'
  OBVIOUS
<1>a. TypeOK /\ PendingOK /\ Rotations \cap Pushes = {}
  BY RunAssumption DEF IInv
<1>1. ASSUME NEW j \in Runs, NEW new, Handles(j, new), j \in Pushes => new.version = running.version PROVE PendingOK'
  BY <1>1, <1>a DEF Handles, SendUnderTimer, Saved, Unsaved, RolledBack, PendingOK, router
<1>2. ASSUME UNCHANGED changed, NEW r \in Rotations, Quietly(r) \/ Busily(r) PROVE PendingOK'
  <2>1. r \in Runs /\ r \notin Pushes /\ \E v \in live : Handles(r, [running EXCEPT !.version = v])
    BY <1>2, <1>a, RotationMoves DEF Runs, Quietly, Busily
  <2> QED
    BY <2>1, <1>1
<1>3. ASSUME NEW p \in Pushes, PushDoes(p) PROVE PendingOK'
  <2>1. p \in Runs /\ Handles(p, [running EXCEPT !.lines = @ \cup {p}])
    BY <1>3, <1>a, PushMoves DEF Runs, PushDoes
  <2>2. [running EXCEPT !.lines = @ \cup {p}].version = running.version
    BY <1>a DEF TypeOK, Config
  <2> QED
    BY <2>1, <2>2, <1>1
<1>4. ASSUME TimerFires \/ Reload \/ BoxRestarts PROVE PendingOK'
  BY <1>4, <1>a DEF TimerFires, Reload, BoxRestarts, router, PendingOK
<1> QED
  BY <1>2, <1>3, <1>4, NextGroups

\* Two rotations come between write and end only as an overlap on record.
LEMMA AloneStep == IInv /\ Next => Alone'
<1> SUFFICES ASSUME IInv, Next PROVE Alone'
  OBVIOUS
<1>a. TypeOK /\ Alone /\ Rotations \subseteq Runs
  BY DEF IInv, Runs
<1>1. ASSUME UNCHANGED changed, NEW r \in Rotations, Quietly(r) PROVE Alone'
  <2>1. \A o \in Rotations \ {r} : Changing(o)' <=> Changing(o)
    BY <1>1, <1>a, QuietSteps DEF Apart, Changing
  <2>2. /\ Changing(r)' => ((\E o \in Rotations \ {r} : Changing(o)) => "overlap" \in causes')
        /\ ~Changing(r) /\ causes \subseteq causes'
    BY <1>1, <1>a, QuietSteps
  <2> QED
    BY <2>1, <2>2, <1>a DEF Alone
<1>2. ASSUME UNCHANGED changed, NEW r \in Rotations, Busily(r) PROVE Alone'
  <2>1. \A o \in Rotations \ {r} : Changing(o)' <=> Changing(o)
    BY <1>2, <1>a, BusySteps DEF Apart, Changing
  <2>2. Changing(r) /\ causes \subseteq causes'
    BY <1>2, <1>a, BusySteps
  <2> QED
    BY <2>1, <2>2, <1>a DEF Alone
<1>3. ASSUME UNCHANGED causes, \A r \in Rotations : at'[r] = at[r] PROVE Alone'
  BY <1>3, <1>a DEF Alone, Changing
<1> QED
  BY <1>1, <1>2, <1>3, <1>a, NextGroups, PushSteps, AroundSteps

-----------------------------------------------------------------------------
\* Where a push, the timer or a reload takes the router, versions are concerned: to
\* versions it held before, and - a push's change being made on the version it goes
\* back to - back to the version saved, if that is what the router would go back to.
LEMMA OthersKeepVersions ==
    ASSUME IInv, \/ \E p \in Pushes : PushDoes(p)
                 \/ TimerFires \/ Reload \/ BoxRestarts
    PROVE  /\ {running.version, startup.version, Base.version}' \subseteq {running.version, startup.version, Base.version}
           /\ vault[Base.version] = vault[startup.version]
                 => vault[Base.version'] = vault[startup.version] /\ vault[startup'.version] = vault[startup.version]
<1> DEFINE Kept == /\ {running.version, startup.version, Base.version}' \subseteq {running.version, startup.version, Base.version}
                   /\ vault[Base.version] = vault[startup.version]
                         => vault[Base.version'] = vault[startup.version] /\ vault[startup'.version] = vault[startup.version]
<1>a. TypeOK /\ PendingOK
  BY DEF IInv
<1>1. ASSUME NEW p \in Pushes, NEW new, new.version = running.version, Handles(p, new) PROVE Kept
  <2>1. CASE UNCHANGED router
    BY <2>1 DEF router, Base
  <2>2. CASE SendUnderTimer(p, new)
    <3>1. timer = None /\ running' = new /\ UNCHANGED startup /\ timer' # None /\ timer'.back = running
      <4>1. [owner |-> p, back |-> running] \in Pending
        BY <1>a DEF TypeOK, Pending, Runs
      <4> QED
        BY <2>2, <4>1, NoneAssumption DEF SendUnderTimer
    <3> QED
      BY <3>1, <1>1 DEF Base
  <2>3. CASE Saved(p) \/ Unsaved(p) \/ RolledBack(p)
    <3>1. timer # None /\ running.version = timer.back.version /\ timer' = None
      BY <2>3, <1>a DEF Saved, Unsaved, RolledBack, Own, PendingOK
    <3>2. running' \in {running, timer.back} /\ startup' \in {running, startup}
      BY <2>3 DEF Saved, Unsaved, RolledBack
    <3> QED
      BY <3>1, <3>2 DEF Base
  <2>4. CASE timer = None /\ startup' = running /\ UNCHANGED <<running, timer, reloads>>
    BY <2>4 DEF Base
  <2> QED
    BY <1>1, <2>1, <2>2, <2>3, <2>4 DEF Handles
<1>2. ASSUME NEW p \in Pushes, PushDoes(p) PROVE Kept
  <2>1. Handles(p, [running EXCEPT !.lines = @ \cup {p}]) /\ [running EXCEPT !.lines = @ \cup {p}].version = running.version
    BY <1>2, <1>a, PushMoves DEF PushDoes, TypeOK, Config
  <2> QED
    BY <2>1, <1>1
<1>3. CASE TimerFires
  BY <1>3 DEF TimerFires, Base
<1>4. CASE Reload
  BY <1>4 DEF Reload, Base
<1>5. CASE BoxRestarts
  BY <1>5 DEF BoxRestarts, router, Base
<1> QED
  BY <1>2, <1>3, <1>4, <1>5

\* While a rotation goes from its write to its verification nobody but itself moves
\* the key.
LEMMA KeyStep == IInv /\ Next => \A r \in Rotations : KeyOK(r)'
<1> SUFFICES ASSUME IInv, Next, NEW r \in Rotations, "overlap" \notin causes' PROVE KeyOK(r)'
  BY DEF KeyOK
<1>a. TypeOK /\ Alone /\ KeyOK(r) /\ r \in Runs
  BY DEF IInv, Runs
<1>b. at \in [Runs -> Task] /\ {running.version, startup.version, Base.version} \subseteq 1 .. Len(vault)
  BY <1>a DEF TypeOK, Base
<1>1. ASSUME UNCHANGED <<router, stores>>, at'[r] = at[r], "overlap" \notin causes PROVE KeyOK(r)'
  BY <1>1, <1>a DEF KeyOK, router, stores, Base, HomeKey, Current
<1>2. ASSUME UNCHANGED changed, NEW o \in Rotations, Quietly(o) PROVE KeyOK(r)'
  <2>1. UNCHANGED <<router, stores>> /\ causes \subseteq causes' /\ Apart(o)
    BY <1>2, <1>a, QuietSteps
  <2>2. CASE o = r
    <3>1. at'[r] \notin {"reload", "push", "answer", "prune", "verify"}
      BY <1>2, <2>2, <1>a, QuietSteps DEF Changing
    <3> QED
      BY <3>1 DEF KeyOK
  <2>3. CASE o # r
    <3>1. at'[r] = at[r]
      BY <2>1, <2>3, <1>a DEF Apart
    <3> QED
      BY <3>1, <2>1, <1>1
  <2> QED
    BY <2>2, <2>3
<1>3. ASSUME UNCHANGED changed, NEW o \in Rotations \ {r}, Busily(o) PROVE KeyOK(r)'
  <2>1. Changing(o) /\ at'[r] = at[r] /\ "overlap" \notin causes
    BY <1>3, <1>a, BusySteps DEF Apart
  <2>2. ~Changing(r)
    BY <2>1, <1>a DEF Alone
  <2> QED
    BY <2>1, <2>2 DEF KeyOK, Changing
<1>4. ASSUME UNCHANGED changed, Busily(r) PROVE KeyOK(r)'
  <2>a. "overlap" \notin causes
    BY <1>4, <1>a, BusySteps
  <2> USE <1>4, <1>a, <1>b, <2>a DEF GoesOn, Says, Stops, JudgeFails, Go, At, KeyOK, stores, rotationVars
  <2>1. CASE WriteKey(r)
    <3>1. \/ at'[r] \in {"task", "restore"}
          \/ at'[r] = "reload" /\ ToVault(r) /\ sm' = Labelled(r)
      BY <2>1 DEF WriteKey
    <3>2. ToVault(r) => Current' = r
      BY Writing DEF Keys
    <3>3. sm' = Labelled(r) => sm'.current = r
      BY DEF Labelled
    <3> QED
      BY <3>1, <3>2, <3>3
  <2>2. CASE ReloadKey(r)
    BY <2>2 DEF ReloadKey, Current
  <2>3. CASE PushKey(r)
    BY <2>3 DEF PushKey, Current
  <2>4. CASE ReadPush(r)
    <3>1. \/ at'[r] \in {"task", "restore"}
          \/ at'[r] = "prune" /\ TunnelUp /\ Saved(r)
      BY <2>4 DEF ReadPush
    <3>2. UNCHANGED stores /\ at[r] = "answer"
      BY <2>4 DEF ReadPush
    <3> QED
      BY <3>1, <3>2 DEF TunnelUp, Saved, Current, HomeKey, Base
  <2>5. CASE Prune(r)
    BY <2>5 DEF Prune, router, Current, HomeKey, Base
  <2>6. CASE VerifyRotation(r) \/ Restore(r) \/ ReloadBack(r)
    BY <2>6 DEF VerifyRotation, Restore, ReloadBack
  <2> QED
    BY <2>1, <2>2, <2>3, <2>4, <2>5, <2>6 DEF Busily
<1>5. ASSUME UNCHANGED <<at, vault, live, sm, causes>>, box' \in {box, sm.current},
             {running.version, startup.version, Base.version}' \subseteq {running.version, startup.version, Base.version}
      PROVE  KeyOK(r)'
  BY <1>5, <1>a DEF KeyOK, Current, HomeKey
<1>6. ASSUME \/ UNCHANGED <<rotationVars, changed>> /\ (TimerFires \/ Reload)
             \/ BoxRestarts
      PROVE  KeyOK(r)'
  <2>1. UNCHANGED <<at, vault, live, sm, causes>> /\ box' \in {box, sm.current}
    BY <1>6, AroundSteps DEF BoxRestarts, rotationVars, stores
  <2> QED
    BY <2>1, <1>5, <1>6, OthersKeepVersions
<1>7. ASSUME UNCHANGED rotationVars, NEW p \in Pushes, PushDoes(p) PROVE KeyOK(r)'
  <2>1. UNCHANGED <<stores, causes>> /\ at'[r] = at[r]
    BY <1>7, <1>a, PushSteps
  <2>2. {running.version, startup.version, Base.version}' \subseteq {running.version, startup.version, Base.version}
    BY <1>7, OthersKeepVersions
  <2> QED
    BY <2>1, <2>2, <1>a DEF KeyOK, Current, HomeKey, stores
<1> QED
  BY <1>2, <1>3, <1>4, <1>6, <1>7, NextGroups

-----------------------------------------------------------------------------
(* HomeOK, part by part *)

\* No rotation has touched the key and is still on its way
Idle       == \A r \in Rotations : ~Changing(r) \/ at[r] = "write"
AtHome     == Current = HomeKey /\ sm.current = HomeKey /\ box = HomeKey
\* The way back of a rotation
WayBack(r) == /\ at[r] \in {"reload", "push", "answer", "restore"} => vault[Previous] = HomeKey
              /\ at[r] = "reloadBack" => Current = HomeKey /\ sm.current = HomeKey
HomeIs     == vault[Base.version] = HomeKey /\ (Idle => AtHome) /\ \A r \in Rotations : WayBack(r)

\* HomeOK in the words above.
LEMMA HomeParts == HomeOK <=> (causes = {} => HomeIs)
  BY DEF HomeOK, HomeIs, Idle, AtHome, WayBack

\* With nothing in the history a rotation on its way is the only one.
LEMMA OnlyOne ==
    ASSUME IInv, causes = {}, NEW r \in Rotations, Changing(r)
    PROVE  HomeIs /\ \A o \in Rotations \ {r} : ~Changing(o)
<1>1. HomeIs
  BY HomeParts DEF IInv
<1>2. "overlap" \notin causes
  OBVIOUS
<1> QED
  BY <1>1, <1>2 DEF IInv, Alone

\* After a write the version before it is the previous one.
LEMMA WritingKeepsPrevious ==
    ASSUME TypeOK, NEW key \in Keys, ToVault(key)
    PROVE  vault'[Previous'] = Current
<1>1. vault \in Seq(Keys) /\ Len(vault) \in Nat /\ live \subseteq 1 .. Len(vault) /\ Len(vault) \in live
  BY VaultType
<1>2. live' = live \cup {Len(vault) + 1} /\ vault' = Append(vault, key)
  BY DEF ToVault
<1>3. Newest' = Len(vault) + 1
  <2>1. Len(vault) + 1 \in live' /\ \A w \in live' : w <= Len(vault) + 1
    BY <1>1, <1>2
  <2>2. Newest' \in live' /\ \A w \in live' : w <= Newest'
    BY <2>1 DEF Newest
  <2> QED
    BY <1>1, <1>2, <2>1, <2>2
<1>4. Previous' = Len(vault)
  <2>1. live' \ {Newest'} = live
    BY <1>1, <1>2, <1>3
  <2>2. Len(vault) \in live /\ \A w \in live : w <= Len(vault)
    BY <1>1
  <2>3. Previous' \in live /\ \A w \in live : w <= Previous'
    BY <2>1, <2>2 DEF Previous
  <2> QED
    BY <1>1, <2>2, <2>3
<1>5. vault'[Len(vault)] = vault[Len(vault)]
  BY <1>1, Writing
<1> QED
  BY <1>4, <1>5 DEF Current

\* The router's steps in a rotation keep what it goes back to, as long as nothing goes
\* wrong for good; only the confirm that is answered and saved takes the new key.
LEMMA RotationKeepsHome ==
    ASSUME IInv, Next, NEW r \in Rotations, Busily(r), causes' = {}, HomeIs
    PROVE  /\ vault'[Base.version'] = HomeKey'
           /\ at'[r] # "prune" => HomeKey' = HomeKey
<1>a. TypeOK
  BY DEF IInv
<1>b. {running.version, startup.version, Base.version} \subseteq 1 .. Len(vault) /\ vault[Base.version] = HomeKey
  BY <1>a DEF TypeOK, Base, HomeIs
<1>c. ~JudgeFails(r) /\ \A cause : ~Because(cause)
  BY DEF JudgeFails, Because
<1>d. \A v \in 1 .. Len(vault) : vault'[v] = vault[v]
  BY <1>a, StoresType
<1>1. ASSUME UNCHANGED router PROVE Base' = Base /\ HomeKey' = HomeKey /\ vault'[Base.version'] = HomeKey'
  BY <1>1, <1>b, <1>d DEF router, Base, HomeKey
<1>2. CASE PushKey(r)
  <2>1. ASSUME NEW new, SendUnderTimer(r, new) PROVE Base' = Base /\ startup' = startup
    <3>1. [owner |-> r, back |-> running] \in Pending
      BY <1>a DEF TypeOK, Pending, Runs
    <3> QED
      BY <2>1, <3>1, NoneAssumption DEF SendUnderTimer, Base
  <2>2. \/ UNCHANGED router
        \/ timer = None /\ startup' = running /\ UNCHANGED <<running, timer>>
        \/ Base' = Base /\ startup' = startup
    BY <1>2, <2>1 DEF PushKey
  <2> QED
    BY <2>2, <1>1, <1>b, <1>d DEF Base, HomeKey
<1>3. CASE ReadPush(r)
  <2>1. \/ UNCHANGED router
        \/ RolledBack(r)
        \/ Saved(r) /\ at'[r] = "prune"
    BY <1>3, <1>a, <1>c DEF ReadPush, GoesOn, Go, TypeOK, Runs
  <2>2. RolledBack(r) => Base' = Base /\ startup' = startup
    BY DEF RolledBack, Own, Base
  <2>3. Saved(r) => Base' = startup'
    BY DEF Saved, Own, Base
  <2> QED
    BY <2>1, <2>2, <2>3, <1>1, <1>b, <1>d DEF HomeKey
<1>4. CASE WriteKey(r) \/ ReloadKey(r) \/ Prune(r) \/ VerifyRotation(r) \/ Restore(r) \/ ReloadBack(r)
  <2>1. UNCHANGED router
    BY <1>4 DEF WriteKey, ReloadKey, Prune, VerifyRotation, Restore, ReloadBack
  <2> QED
    BY <2>1, <1>1
<1> QED
  BY <1>2, <1>3, <1>4 DEF Busily

\* A rotation without such a failure leaves nothing behind that is not its own way
\* back, and ends with every place on one key.
LEMMA RotationComesHome ==
    ASSUME IInv, Next, UNCHANGED changed, NEW r \in Rotations, Busily(r), causes' = {}
    PROVE  HomeIs'
<1>a. TypeOK /\ KeyOK(r) /\ at \in [Runs -> Task] /\ r \in Runs
  BY DEF IInv, TypeOK, Runs
<1>b. causes = {} /\ Changing(r) /\ Apart(r)
  BY <1>a, BusySteps
<1>c. HomeIs /\ \A o \in Rotations \ {r} : ~Changing(o) /\ ~Changing(o)'
  BY <1>b, OnlyOne DEF Apart, Changing, Runs
<1>d. vault'[Base.version'] = HomeKey' /\ (at'[r] # "prune" => HomeKey' = HomeKey)
  BY <1>c, RotationKeepsHome
<1>e. ~JudgeFails(r) /\ \A cause : ~Because(cause)
  BY DEF JudgeFails, Because
<1>f. \A o \in Rotations \ {r} : WayBack(o)'
  BY <1>c DEF WayBack, Changing
<1>g. Idle <=> at[r] = "write"
  BY <1>b, <1>c DEF Idle
<1>h. Idle' <=> ~Changing(r)' \/ at'[r] = "write"
  BY <1>c DEF Idle
<1>i. WayBack(r)
  BY <1>c DEF HomeIs
<1> SUFFICES (Idle' => AtHome') /\ WayBack(r)'
  BY <1>d, <1>f DEF HomeIs
<1> USE <1>a DEF GoesOn, Says, Stops, Go, At
<1>1. CASE WriteKey(r)
  <2>1. Current = HomeKey /\ at[r] = "write" /\ AtHome
    BY <1>1, <1>c, <1>g DEF WriteKey, HomeIs, AtHome
  <2>2. \/ ToVault(r) /\ at'[r] \in {"reload", "restore"}
        \/ UNCHANGED <<vault, live, sm, box>> /\ at'[r] = "task"
    BY <1>1, <1>e DEF WriteKey
  <2>3. CASE ToVault(r) /\ at'[r] \in {"reload", "restore"}
    <3>1. vault'[Previous'] = HomeKey'
      BY <2>1, <2>3, <1>d, WritingKeepsPrevious DEF Keys
    <3> QED
      BY <2>3, <3>1, <1>h DEF WayBack, Changing
  <2>4. CASE UNCHANGED <<vault, live, sm, box>> /\ at'[r] = "task"
    BY <2>1, <2>4, <1>d DEF WayBack, AtHome, Current
  <2> QED
    BY <2>2, <2>3, <2>4
<1>2. CASE ReloadKey(r)
  <2>1. at'[r] \in {"push", "restore"} /\ at[r] = "reload" /\ UNCHANGED <<vault, live>>
    BY <1>2, <1>e DEF ReloadKey
  <2> QED
    BY <2>1, <1>d, <1>h, <1>i DEF WayBack, Changing, Previous, Newest
<1>3. CASE PushKey(r)
  <2>1. at'[r] \in {"answer", "restore"} /\ at[r] = "push" /\ UNCHANGED <<vault, live>>
    BY <1>3, <1>e DEF PushKey, stores
  <2> QED
    BY <2>1, <1>d, <1>h, <1>i DEF WayBack, Changing, Previous, Newest
<1>4. CASE ReadPush(r)
  <2>1. at'[r] \in {"prune", "restore"} /\ at[r] = "answer" /\ UNCHANGED <<vault, live>>
    BY <1>4, <1>e DEF ReadPush, stores
  <2> QED
    BY <2>1, <1>d, <1>h, <1>i DEF WayBack, Changing, Previous, Newest
<1>5. CASE Prune(r)
  <2>1. at'[r] = "verify"
    BY <1>5 DEF Prune
  <2> QED
    BY <2>1, <1>h DEF WayBack, Changing
<1>6. CASE VerifyRotation(r)
  <2>1. at'[r] \in {"done", "task"} /\ at[r] = "verify" /\ UNCHANGED <<vault, sm, box>>
    BY <1>6 DEF VerifyRotation, rotationVars, stores
  <2>2. Current = r /\ sm.current = r /\ box = r /\ HomeKey = r
    BY <1>b, <2>1 DEF KeyOK
  <2> QED
    BY <2>1, <2>2, <1>d DEF WayBack, AtHome, Current
<1>7. CASE Restore(r)
  <2>1. at'[r] = "reloadBack" /\ Restorable /\ ToVault(vault[Previous]) /\ sm' = Labelled(vault[Previous]) /\ at[r] = "restore"
    BY <1>7, <1>e DEF Restore
  <2>2. Current' = vault[Previous] /\ vault[Previous] = HomeKey
    BY <2>1, <1>i, PreviousIsKey, Writing DEF WayBack
  <2>3. sm'.current = vault[Previous]
    BY <2>1 DEF Labelled
  <2> QED
    BY <2>1, <2>2, <2>3, <1>d, <1>h DEF WayBack, Changing
<1>8. CASE ReloadBack(r)
  <2>1. at'[r] = "task" /\ at[r] = "reloadBack" /\ box' = sm.current /\ UNCHANGED <<vault, sm>>
    BY <1>8, <1>e DEF ReloadBack
  <2> QED
    BY <2>1, <1>d, <1>i DEF WayBack, AtHome, Current
<1> QED
  BY <1>1, <1>2, <1>3, <1>4, <1>5, <1>6, <1>7, <1>8 DEF Busily

\* As long as nothing goes wrong for good the router goes back to the key it has
\* saved, and the other places hold that key too.
LEMMA HomeStep == IInv /\ Next => HomeOK'
<1> SUFFICES ASSUME IInv, Next, causes' = {} PROVE HomeIs'
  BY DEF HomeOK, HomeIs, Idle, AtHome, WayBack
<1>a. TypeOK /\ Rotations \subseteq Runs
  BY DEF IInv, Runs
<1>b. causes = {} => HomeIs
  BY HomeParts DEF IInv
<1>1. ASSUME UNCHANGED changed, NEW r \in Rotations, Quietly(r) PROVE HomeIs'
  <2>1. UNCHANGED <<router, stores>> /\ causes = {} /\ Apart(r)
    BY <1>1, <1>a, QuietSteps
  <2>2. ~Changing(r) /\ (Changing(r)' => at'[r] = "write")
    BY <1>1, <1>a, QuietSteps
  <2>3. \A o \in Rotations \ {r} : at'[o] = at[o]
    BY <2>1, <1>a DEF Apart
  <2>4. Idle' <=> Idle
    BY <2>2, <2>3 DEF Idle, Changing
  <2>5. UNCHANGED <<HomeKey, Current, sm, box, vault, live, Base>> /\ Previous' = Previous
    BY <2>1 DEF router, stores, HomeKey, Current, Base, Previous, Newest
  <2>6. \A o \in Rotations : WayBack(o)'
    <3>1. WayBack(r)'
      BY <2>2 DEF WayBack, Changing
    <3>2. \A o \in Rotations \ {r} : WayBack(o)'
      BY <2>1, <2>3, <2>5, <1>b DEF HomeIs, WayBack
    <3> QED
      BY <3>1, <3>2
  <2> QED
    BY <2>1, <2>4, <2>5, <2>6, <1>b DEF HomeIs, AtHome
<1>2. ASSUME UNCHANGED changed, NEW r \in Rotations, Busily(r) PROVE HomeIs'
  BY <1>2, RotationComesHome
<1>3. ASSUME UNCHANGED <<vault, live, sm, causes>>, \A r \in Rotations : at'[r] = at[r], box' \in {box, sm.current},
             \/ \E p \in Pushes : PushDoes(p)
             \/ TimerFires \/ Reload \/ BoxRestarts
      PROVE  HomeIs'
  <2>1. HomeIs
    BY <1>3, <1>b
  <2>2. vault[Base.version'] = HomeKey /\ HomeKey' = HomeKey
    BY <1>3, <2>1, OthersKeepVersions DEF HomeIs, HomeKey
  <2>3. UNCHANGED <<Current, Idle>> /\ Previous' = Previous
    BY <1>3 DEF Current, Idle, Changing, Previous, Newest
  <2> QED
    BY <1>3, <2>1, <2>2, <2>3 DEF HomeIs, AtHome, WayBack
<1>4. ASSUME UNCHANGED rotationVars, NEW p \in Pushes, PushDoes(p) PROVE HomeIs'
  <2>1. UNCHANGED <<stores, causes>> /\ \A r \in Rotations : at'[r] = at[r]
    BY <1>4, <1>a, PushSteps
  <2> QED
    BY <1>3, <1>4, <2>1 DEF stores
<1>5. ASSUME \/ UNCHANGED <<rotationVars, changed>> /\ (TimerFires \/ Reload)
             \/ BoxRestarts
      PROVE  HomeIs'
  <2>1. UNCHANGED <<at, vault, live, sm, causes>> /\ box' \in {box, sm.current}
    BY <1>5, AroundSteps DEF BoxRestarts, rotationVars, stores
  <2> QED
    BY <1>3, <1>5, <2>1
<1> QED
  BY <1>1, <1>2, <1>4, <1>5, NextGroups

-----------------------------------------------------------------------------
\* At first one key is everywhere and no run has begun.
LEMMA InitIInv == Init => IInv
<1> SUFFICES ASSUME Init PROVE IInv
  OBVIOUS
<1> USE DEF Init, RouterInit, RotationInit, PushInit
<1>1. vault = <<Old>> /\ Len(vault) = 1 /\ vault[1] = Old /\ Old \in Keys
  BY DEF Keys
<1>2. "start" \in Task /\ "nothing" \in Outcome
  BY DEF Task, Outcome
<1>3. running \in Config /\ running.version = 1 /\ running.lines = {}
  BY DEF Config
<1>4. TypeOK
  <2>1. vault \in Seq(Keys) /\ 1 .. Len(vault) = {1}
    BY <1>1
  <2>2. sm \in [current : Keys, previous : Keys \cup {None}]
    BY <1>1
  <2>3. at \in [Runs -> Task] /\ said \in [Runs -> Outcome] /\ changed \in [Pushes -> BOOLEAN]
    BY <1>2
  <2> QED
    BY <1>1, <1>3, <2>1, <2>2, <2>3, BoundAssumption DEF TypeOK
<1>5. ASSUME NEW p \in Pushes PROVE LinesOK(p)
  BY <1>3 DEF LinesOK, BackLines, Runs
<1>6. \A r \in Rotations : at[r] = "start"
  BY DEF Runs
<1>7. PendingOK /\ Alone /\ \A r \in Rotations : KeyOK(r)
  BY <1>6 DEF PendingOK, Alone, KeyOK, Changing
<1>8. HomeOK
  BY <1>1, <1>3, <1>6 DEF HomeOK, Base, HomeKey, Current
<1> QED
  BY <1>4, <1>5, <1>7, <1>8 DEF IInv

\* A step that changes nothing keeps the invariant.
LEMMA StutterStep == IInv /\ UNCHANGED vars => IInv'
<1> SUFFICES ASSUME IInv, UNCHANGED vars PROVE IInv'
  OBVIOUS
<1>1. UNCHANGED <<env, at, said, running, startup, timer, reloads, vault, live, sm, box, causes, changed>>
  BY DEF vars, control, router, rotationVars, stores
<1>2. TypeOK'
  BY TypeStep DEF IInv
<1>3. \A p \in Pushes : LinesOK(p)'
  BY <1>1 DEF IInv, LinesOK, Base, BackLines, Own
<1>4. PendingOK' /\ Alone' /\ \A r \in Rotations : KeyOK(r)'
  BY <1>1 DEF IInv, PendingOK, Alone, KeyOK, Changing, Current, HomeKey, Base
<1>5. HomeOK'
  BY <1>1 DEF IInv, HomeOK, Base, HomeKey, Current, Changing, Previous, Newest
<1> QED
  BY <1>2, <1>3, <1>4, <1>5 DEF IInv

\* IInv is an inductive invariant of rotations and pushes on one router.
THEOREM Inductive == Spec => []IInv
<1>1. IInv /\ [Next]_vars => IInv'
  <2>1. IInv /\ Next => IInv'
    BY TypeStep, LinesStep, PendingStep, AloneStep, KeyStep, HomeStep DEF IInv
  <2> QED
    BY <2>1, StutterStep
<1> QED
  BY <1>1, InitIInv, PTL DEF Spec

\* Every variable keeps its shape; in particular the router, whatever it goes back
\* to, holds a version Vault has had, and Vault's newest version is not destroyed.
THEOREM TypeCorrect == Spec => []TypeOK
<1>1. IInv => TypeOK
  BY DEF IInv
<1> QED
  BY <1>1, Inductive, PTL

\* Whatever failed, timed out, reloaded or was pushed: when no rotation is under way
\* and the four places disagree, one of the failures that no retry and no rollback
\* heals is on record.
THEOREM DisagreementsAreExplained == Spec => []DisagreementHasACause
<1>1. IInv => DisagreementHasACause
  <2> SUFFICES ASSUME IInv, Settled, causes = {} PROVE Agree
    BY DEF DisagreementHasACause
  <2>1. HomeIs /\ Idle /\ Base = running
    BY HomeParts DEF IInv, Settled, Idle, Base
  <2> QED
    BY <2>1 DEF HomeIs, AtHome, Agree, TunnelUp, HomeKey
<1> QED
  BY <1>1, Inductive, PTL

\* A push that ended with changed = false left none of its lines running, saved, or
\* in what a pending change would bring back.
THEOREM UnchangedPushesAreTrue == Spec => []UnchangedIsTrue
<1>1. IInv => UnchangedIsTrue
  BY DEF IInv, LinesOK, BackLines, UnchangedIsTrue
<1> QED
  BY <1>1, Inductive, PTL

\* The lines of a push that ended "saved" stay running and saved.
THEOREM SavedPushesAreKept == Spec => []SavedPushIsKept
<1>1. IInv => SavedPushIsKept
  BY DEF IInv, LinesOK, SavedPushIsKept
<1> QED
  BY <1>1, Inductive, PTL

\* Only a rotation's own verification says "rotated", with the tunnel up.
LEMMA OnlyVerifySaysRotated ==
    ASSUME IInv, Next, NEW r \in Rotations, said[r] # "rotated", said'[r] = "rotated"
    PROVE  VerifyRotation(r) /\ TunnelUp
<1>a. TypeOK /\ r \in Runs /\ at \in [Runs -> Task] /\ said \in [Runs -> Outcome]
  BY DEF IInv, TypeOK, Runs
<1>1. ASSUME UNCHANGED changed, NEW o \in Rotations, Quietly(o) \/ Busily(o) PROVE o = r
  BY <1>1, <1>a, QuietSteps, BusySteps DEF Apart
<1>2. ASSUME Quietly(r) PROVE FALSE
  BY <1>2, <1>a DEF Quietly, PlanRotation, Precheck, DueCheck, StartRotation, SeeTask, GoesOn, Stops, Says, Go
<1>3. ASSUME Busily(r) PROVE VerifyRotation(r)
  <2>1. ASSUME WriteKey(r) \/ ReloadKey(r) \/ PushKey(r) \/ ReadPush(r) PROVE FALSE
    BY <2>1, <1>a DEF WriteKey, ReloadKey, PushKey, ReadPush, JudgeFails, GoesOn, Stops, Says, Go
  <2>2. ASSUME Prune(r) \/ Restore(r) \/ ReloadBack(r) PROVE FALSE
    BY <2>2, <1>a DEF Prune, Restore, ReloadBack, JudgeFails, GoesOn, Stops, Says, Go
  <2> QED
    BY <1>3, <2>1, <2>2 DEF Busily
<1>4. VerifyRotation(r) => TunnelUp
  BY <1>a DEF VerifyRotation, Stops, Says, Go
<1> QED
  BY <1>1, <1>2, <1>3, <1>4, <1>a, NextGroups, PushSteps, AroundSteps

\* A run that says "rotated" beside no other rotation is right: Vault, Secrets
\* Manager, strongSwan, and the running and saved router hold the key of that run.
THEOREM RotatedIsTrueHolds == Spec => RotatedIsTrue
<1> DEFINE Truly == \A r \in Rotations : said[r] # "rotated" /\ said'[r] = "rotated" /\ "overlap" \notin causes
                                        => Agree' /\ box' = r
<1>1. IInv /\ [Next]_vars => [Truly]_vars
  <2> SUFFICES ASSUME IInv, Next, NEW r \in Rotations,
                      said[r] # "rotated", said'[r] = "rotated", "overlap" \notin causes
               PROVE  Agree' /\ box' = r
    OBVIOUS
  <2>1. VerifyRotation(r)
    BY OnlyVerifySaysRotated
  <2>2. Current = r /\ sm.current = r /\ box = r /\ HomeKey = r /\ vault[running.version] = r
    BY <2>1 DEF VerifyRotation, At, IInv, KeyOK
  <2>3. UNCHANGED <<running, startup, vault, sm, box>>
    BY <2>1 DEF VerifyRotation, router, rotationVars, stores
  <2> QED
    BY <2>2, <2>3 DEF Agree, TunnelUp, Current, HomeKey
<1> QED
  BY <1>1, Inductive, PTL DEF Spec, RotatedIsTrue
=============================================================================
