------------------------------ MODULE KeyRotation ------------------------------
(***************************************************************************)
(* Rotate AWS VPN Key, on demand and monthly (itential/workflows/build.py; *)
(* ADR 0068): a new pre-shared key goes to Vault and Secrets Manager,      *)
(* strongSwan reloads it, and the router takes it through Hand Off's push; *)
(* when the router does not take it, the AWS side goes back to the         *)
(* previous key by itself.  Four places hold the key, each is changed by a *)
(* call of its own, and each call may be refused, done in part, or done    *)
(* with its answer lost.  Nothing keeps two rotations apart.               *)
(*                                                                         *)
(* An action is one call to the Gateway with rotation_step's verdict on    *)
(* it.  Every failure ends at the Work Center task f0.                     *)
(***************************************************************************)
EXTENDS EdgeRouter

CONSTANT Old        \* the key in place at first; a rotation's new key is named for it

ASSUME OldAssumption == Old \notin Runs \cup {None}

VARIABLES
    vault,      \* the key of each version ever written to Vault
    live,       \* the versions that are not destroyed
    sm,         \* Secrets Manager: the keys labelled AWSCURRENT and AWSPREVIOUS
    box,        \* the key strongSwan has loaded
    \* history
    causes      \* how the four places came to hold different keys

stores       == <<vault, live, sm, box>>
rotationVars == <<stores, causes>>

Keys  == Rotations \cup {Old}
Cause == {"overlap", "write lost", "push lost", "not saved", "not restored", "not reloaded", "stopped"}

RotationInit ==
    /\ vault = <<Old>> /\ live = {1} /\ box = Old
    /\ sm = [current |-> Old, previous |-> None]
    /\ causes = {}

Current  == vault[Len(vault)]
Newest   == CHOOSE v \in live : \A w \in live : w <= v
Previous == CHOOSE v \in live \ {Newest} : \A w \in live \ {Newest} : w <= v

\* lab-edge verify: the box and the router agree on the key
TunnelUp == box = vault[running.version]

\* The four places, and the router's saved configuration, hold one key
Agree == /\ Current = sm.current /\ sm.current = box /\ TunnelUp
         /\ vault[startup.version] = box

\* Between the new key's write and the end of the run
Changing(r) == at[r] \in {"write", "reload", "push", "answer", "prune", "verify", "restore", "reloadBack"}
Settled     == timer = None /\ \A r \in Rotations : ~Changing(r)

Stops(r, what) == Says(r, what, "task")
Because(cause) == causes' = causes \cup {cause}

\* 8f: rotation_step could not run on an answer after the write
JudgeFails(r) == GatewayFails /\ Stops(r, "may differ") /\ Because("stopped")

-----------------------------------------------------------------------------
(* aws-vpn-psk *)

\* A new version in Vault, and Secrets Manager's labels moved to its key
ToVault(key)  == vault' = Append(vault, key) /\ live' = live \cup {Len(vault) + 1}
Labelled(key) == IF sm.current = key THEN sm ELSE [current |-> key, previous |-> sm.current]

\* restore-previous: refused unless both stores still hold the previous key
Restorable == Cardinality(live) > 1 /\ vault[Previous] \in {sm.current, sm.previous}

-----------------------------------------------------------------------------
(* The due check and the plan *)

\* d1..d4: the monthly run rotates on the 1st of the month; a clock that cannot
\* be read opens no task
DueCheck(r) ==
    /\ At(r, "start") /\ r \in Monthly \cap env.runs
    /\ GoesOn(r, "plan") \/ Says(r, "not due", "done")
    /\ UNCHANGED <<router, rotationVars>>

\* 01..06
StartRotation(r) ==
    /\ At(r, "start") /\ r \in OnDemand \cap env.runs
    /\ GoesOn(r, "plan")
    /\ UNCHANGED <<router, rotationVars>>

\* 1a..14, rotation_plan: the deployed outputs
PlanRotation(r) ==
    /\ At(r, "plan")
    /\ \/ env.deployed /\ GoesOn(r, "precheck")
       \/ ~env.deployed /\ Says(r, "not deployed", "done")
       \/ GatewayFails /\ Stops(r, "unchanged")
    /\ UNCHANGED <<router, rotationVars>>

\* 2a..3d: the tunnel must be up before anything changes; the block is rendered
Precheck(r) ==
    /\ At(r, "precheck")
    /\ \/ /\ TunnelUp /\ GoesOn(r, "write")
          /\ causes' = causes \cup (IF \E o \in Rotations \ {r} : Changing(o) THEN {"overlap"} ELSE {})
       \/ (GatewayFails \/ ~TunnelUp) /\ Stops(r, "unchanged") /\ UNCHANGED causes
    /\ UNCHANGED <<router, stores>>

-----------------------------------------------------------------------------
(* The four changes *)

\* 4a..40: Vault first, then Secrets Manager; no answer counts as nothing written
WriteKey(r) ==
    /\ At(r, "write")
    /\ \/ /\ ToVault(r) /\ sm' = Labelled(r)
          /\ \/ GoesOn(r, "reload") /\ UNCHANGED causes
             \/ GatewayFails /\ Stops(r, "unchanged") /\ Because("write lost")
             \/ JudgeFails(r)
       \/ /\ GatewayFails /\ ToVault(r) /\ UNCHANGED sm
          /\ \/ GoesOn(r, "restore") /\ UNCHANGED causes
             \/ Stops(r, "unchanged") /\ Because("write lost")
             \/ JudgeFails(r)
       \/ /\ GatewayFails /\ UNCHANGED <<vault, live, sm>>
          /\ (Stops(r, "unchanged") /\ UNCHANGED causes) \/ JudgeFails(r)
    /\ UNCHANGED <<router, box>>

\* 5a..50: strongSwan re-reads Secrets Manager; anything but a reload of this
\* instance is rolled back
ReloadKey(r) ==
    /\ At(r, "reload")
    /\ \/ box' = sm.current /\ GoesOn(r, "push") /\ UNCHANGED causes
       \/ /\ GatewayFails /\ box' \in {box, sm.current}
          /\ (GoesOn(r, "restore") /\ UNCHANGED causes) \/ JudgeFails(r)
    /\ UNCHANGED <<router, vault, live, sm>>

\* 6a..6c: Hand Off's push with the version the Gateway reads from Vault, which
\* may be stale; a router that records it already is sent no key and only saves.
\* Whatever did not reach `configure confirm` is rolled back.
PushKey(r) ==
    /\ At(r, "push")
    /\ \E v \in {Newest} \cup (IF GatewayFails THEN live ELSE {}) :
          \/ /\ running.version # v /\ SendUnderTimer(r, [running EXCEPT !.version = v])
             /\ GoesOn(r, "answer") /\ UNCHANGED causes
          \/ /\ running.version = v /\ timer = None
             /\ startup' = running /\ UNCHANGED <<running, timer, reloads>>
             /\ (GoesOn(r, "restore") /\ UNCHANGED causes) \/ JudgeFails(r)
          \/ /\ GatewayFails \/ timer # None
             /\ UNCHANGED router
             /\ (GoesOn(r, "restore") /\ UNCHANGED causes) \/ JudgeFails(r)
    /\ UNCHANGED stores

\* Mutant: a push that could not run at all leaves the job in error
SilenceHangs(r) ==
    /\ At(r, "answer") /\ Own(r)
    /\ \/ TunnelUp /\ Saved(r) /\ GoesOn(r, "prune")
       \/ (GatewayFails \/ ~TunnelUp) /\ RolledBack(r) /\ GoesOn(r, "restore")
    /\ UNCHANGED rotationVars


\* Mutant: no answer counts as a push that went through
SilenceRotates(r) ==
    /\ At(r, "answer")
    /\ \/ TunnelUp /\ Saved(r) /\ GoesOn(r, "prune") /\ UNCHANGED causes
       \/ GatewayFails /\ TunnelUp /\ Unsaved(r) /\ GoesOn(r, "prune") /\ Because("push lost")
       \/ (RolledBack(r) \/ (~Own(r) /\ UNCHANGED router)) /\ GoesOn(r, "restore") /\ UNCHANGED causes
    /\ UNCHANGED stores


\* 6d..61: the push proves a fresh SA before it confirms.  Only a confirm that is
\* answered keeps the new key; no answer rolls AWS back, whatever the router did
ReadPush(r) ==
    /\ At(r, "answer")
    /\ \/ TunnelUp /\ Saved(r) /\ GoesOn(r, "prune") /\ UNCHANGED causes
       \/ /\ GatewayFails /\ TunnelUp /\ Unsaved(r)
          /\ Stops(r, "kept, not saved") /\ Because("not saved")
       \/ /\ GatewayFails /\ TunnelUp /\ (Saved(r) \/ Unsaved(r))
          /\ (GoesOn(r, "restore") /\ Because("push lost")) \/ JudgeFails(r)
       \/ /\ \/ (GatewayFails \/ ~TunnelUp) /\ RolledBack(r)
             \/ (GatewayFails \/ ~Own(r)) /\ UNCHANGED router    \* stopped, or the timer was faster
          /\ (GoesOn(r, "restore") /\ UNCHANGED causes) \/ JudgeFails(r)
    /\ UNCHANGED stores

\* Mutant: prune goes by number and forgets what is destroyed already
PruneByNumber(r) ==
    /\ At(r, "prune")
    /\ live' = {Len(vault) - 2, Len(vault) - 1, Len(vault)}
    /\ GoesOn(r, "verify")
    /\ UNCHANGED <<router, vault, sm, box, causes>>


\* 7a..70: Vault keeps the current and one previous version; a prune that did not
\* run is only noted
Prune(r) ==
    /\ At(r, "prune")
    /\ \/ live' = {Newest} \cup (IF live = {Newest} THEN {} ELSE {Previous})
       \/ GatewayFails /\ UNCHANGED live
    /\ GoesOn(r, "verify")
    /\ UNCHANGED <<router, vault, sm, box, causes>>

\* e0..ef, 90..95: Verify's own checks
VerifyRotation(r) ==
    /\ At(r, "verify")
    /\ \/ TunnelUp /\ Says(r, "rotated", "done")
       \/ (GatewayFails \/ ~TunnelUp) /\ Stops(r, "rotated, not verified")
    /\ UNCHANGED <<router, rotationVars>>

-----------------------------------------------------------------------------
(* The rollback of the AWS side *)

\* Mutant: the rollback ends with the stores restored
RestoreOnly(r) ==
    /\ At(r, "restore")
    /\ Restorable /\ ToVault(vault[Previous]) /\ sm' = Labelled(vault[Previous])
    /\ Stops(r, "rolled back") /\ UNCHANGED <<causes, router, box>>


\* b0..b5: restore-previous, Vault first; anything but "restored" is for a person
Restore(r) ==
    /\ At(r, "restore")
    /\ \/ /\ Restorable
          /\ ToVault(vault[Previous]) /\ sm' = Labelled(vault[Previous])
          /\ GoesOn(r, "reloadBack") /\ UNCHANGED causes
       \/ /\ GatewayFails /\ Restorable /\ ToVault(vault[Previous])
          /\ sm' \in {sm, Labelled(vault[Previous])}
          /\ (Stops(r, "restore by hand") /\ Because("not restored")) \/ JudgeFails(r)
       \/ /\ GatewayFails \/ ~Restorable
          /\ UNCHANGED <<vault, live, sm>>
          /\ (Stops(r, "restore by hand") /\ Because("not restored")) \/ JudgeFails(r)
    /\ UNCHANGED <<router, box>>

\* b6..bc
ReloadBack(r) ==
    /\ At(r, "reloadBack")
    /\ \/ box' = sm.current /\ Stops(r, "rolled back") /\ UNCHANGED causes
       \/ /\ GatewayFails /\ box' \in {box, sm.current}
          /\ (Stops(r, "check the box") /\ Because("not reloaded")) \/ JudgeFails(r)
    /\ UNCHANGED <<router, vault, live, sm>>

\* f0: somebody has seen the Work Center task
SeeTask(r) ==
    /\ At(r, "task")
    /\ GoesOn(r, "done")
    /\ UNCHANGED <<router, rotationVars>>

-----------------------------------------------------------------------------
\* The box restarts: vpn-bootstrap reads Secrets Manager
BoxRestarts ==
    /\ box # sm.current /\ box' = sm.current
    /\ UNCHANGED <<router, control, vault, live, sm, causes>>

\* What the job engine runs by itself
RotationStep(r) == PlanRotation(r) \/ Precheck(r) \/ WriteKey(r) \/ ReloadKey(r) \/ PushKey(r) \/ ReadPush(r)
                   \/ Prune(r) \/ VerifyRotation(r) \/ Restore(r) \/ ReloadBack(r)
=============================================================================
