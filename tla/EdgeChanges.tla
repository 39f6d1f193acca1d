------------------------------ MODULE EdgeChanges ------------------------------
(***************************************************************************)
(* Rotations of the AWS VPN's key and pushes of other configuration, side  *)
(* by side on the one edge router: each takes the router's only revert     *)
(* timer, and each `write memory` saves what the others left running.      *)
(***************************************************************************)
EXTENDS KeyRotation, RevertPush

vars == <<env, control, router, rotationVars, changed>>

Init == RouterInit /\ RotationInit /\ PushInit

Step(j) == /\ \/ j \in Rotations /\ RotationStep(j) /\ UNCHANGED changed
              \/ j \in Pushes /\ PushStep(j) /\ UNCHANGED rotationVars
           /\ UNCHANGED env

\* What people and the schedule start and decide
People == \/ \E r \in Rotations : (DueCheck(r) \/ StartRotation(r) \/ SeeTask(r)) /\ UNCHANGED changed
          \/ \E p \in Pushes : (PrepareChange(p) \/ DecideChange(p)) /\ UNCHANGED rotationVars

Around == \/ (TimerFires \/ Reload) /\ UNCHANGED <<rotationVars, changed>>
          \/ BoxRestarts /\ UNCHANGED changed

Next == \/ \E j \in Runs : Step(j)
        \/ (People \/ Around) /\ UNCHANGED env

Spec == Init /\ [][Next]_vars

\* The job engine goes on with what it can; people and the schedule may never
FairSpec == Spec /\ \A j \in Runs : WF_vars(Step(j))

-----------------------------------------------------------------------------
(* Properties *)

Task    == {"start", "plan", "precheck", "write", "reload", "push", "answer", "prune", "verify", "restore",
            "reloadBack", "task", "card", "send", "done"}
Outcome == {"nothing", "unchanged", "rejected", "saved", "rolled back", "unknown", "not due", "not deployed",
            "may differ", "kept, not saved", "rotated", "rotated, not verified", "restore by hand", "check the box"}

TypeOK ==
    /\ env \in Environments
    /\ at \in [Runs -> Task] /\ said \in [Runs -> Outcome]
    /\ running \in Config /\ startup \in Config /\ timer \in Pending \cup {None} /\ reloads \in 0 .. MaxReloads
    /\ vault \in Seq(Keys) /\ live \subseteq 1 .. Len(vault) /\ Len(vault) \in live
    /\ {running.version, startup.version} \subseteq 1 .. Len(vault)
    /\ timer # None => timer.back.version \in 1 .. Len(vault)
    /\ sm \in [current : Keys, previous : Keys \cup {None}] /\ box \in Keys
    /\ causes \subseteq Cause /\ changed \in [Pushes -> BOOLEAN]

\* When no rotation is under way, Vault, Secrets Manager, strongSwan and the
\* router hold one key, whatever failed, timed out, reloaded or was pushed
\* meanwhile - except for the failures that a retry or a rollback cannot heal:
\* a lost answer of the write or of the push, a router that did not save, a
\* rollback that failed, a verdict that could not run, two rotations at once.
DisagreementHasACause == Settled /\ ~Agree => causes # {}

\* "Rotated" is true: the run's own key is the one all places hold and the
\* router has saved, when no other rotation ran beside it.
RotatedIsTrue ==
    [][\A r \in Rotations : said[r] # "rotated" /\ said'[r] = "rotated" /\ "overlap" \notin causes
                            => Agree' /\ box' = r]_vars

\* The tunnel is down from the reload until the router holds the key for good:
\* with services that work the engine alone ends the run with the tunnel up, on
\* the new key or on the previous one, also when another change holds the
\* router's timer or the router reloads under the run's own.
TunnelComesBack ==
    \A r \in Rotations : at[r] = "push" /\ ~GatewayFails /\ causes = {}
                         ~> (~Changing(r) /\ TunnelUp) \/ causes # {}

\* A push that ends with changed = false left nothing of its lines anywhere: not
\* running, not saved, not in what a pending change would bring back.
UnchangedIsTrue ==
    \A p \in Pushes : at[p] = "done" /\ ~changed[p] =>
        p \notin running.lines \cup startup.lines \cup (IF timer = None THEN {} ELSE timer.back.lines)

\* A push that ends "saved" is kept: no reload, timer or rollback of a run
\* beside it takes its lines away.
SavedPushIsKept ==
    \A p \in Pushes : said[p] = "saved" => p \in running.lines \cap startup.lines

-----------------------------------------------------------------------------
(* The inductive invariant *)

\* What a rollback, the timer or, with nothing pending, nobody takes away
Base      == IF timer = None THEN running ELSE timer.back
HomeKey   == vault[startup.version]
BackLines == IF timer = None THEN {} ELSE timer.back.lines

\* The lines of a push are nowhere before it is sent and after it ended unchanged;
\* while it is sent they are only running, under its own timer; and once saved
\* they are everywhere
LinesOK(p) ==
    /\ at[p] \in {"start", "card", "send"} \/ (at[p] = "done" /\ ~changed[p])
          => p \notin running.lines \cup startup.lines \cup BackLines
    /\ at[p] = "answer" => p \notin startup.lines \cup BackLines /\ (p \in running.lines <=> Own(p))
    /\ said[p] = "saved" => at[p] = "done" /\ p \in running.lines \cap startup.lines \cap Base.lines

\* A push takes no part in the key: what it would roll back to has the same one
PendingOK == timer # None /\ timer.owner \in Pushes => running.version = timer.back.version

\* Two rotations between write and end are an overlap
Alone == "overlap" \notin causes => \A r, o \in Rotations : Changing(r) /\ Changing(o) => r = o

\* A rotation beside no other finds its own key where it put it
KeyOK(r) ==
    "overlap" \notin causes =>
        /\ at[r] \in {"reload", "push", "answer", "prune", "verify"} => Current = r /\ sm.current = r
        /\ at[r] \in {"push", "answer", "prune", "verify"} => box = r
        /\ at[r] \in {"prune", "verify"} => HomeKey = r /\ vault[running.version] = r /\ vault[Base.version] = r

\* As long as nothing went wrong for good: the router goes back to the key it has
\* saved, the stores and the box hold that key too, and a rotation on its way
\* leaves it as Vault's previous version until the router has taken the new one
HomeOK ==
    causes = {} =>
        /\ vault[Base.version] = HomeKey
        /\ (\A r \in Rotations : ~Changing(r) \/ at[r] = "write")
              => Current = HomeKey /\ sm.current = HomeKey /\ box = HomeKey
        /\ \A r \in Rotations :
              /\ at[r] \in {"reload", "push", "answer", "restore"} => vault[Previous] = HomeKey
              /\ at[r] = "reloadBack" => Current = HomeKey /\ sm.current = HomeKey

IInv ==
    /\ TypeOK
    /\ \A p \in Pushes : LinesOK(p)
    /\ PendingOK
    /\ Alone
    /\ \A r \in Rotations : KeyOK(r)
    /\ HomeOK
=============================================================================
