# Formal models of the Itential enterprise lab

The repository is a network-automation lab. Its own logic is a set of Itential
Platform workflows, generated by `itential/workflows/build.py`, that change a
branch switch, NetBox, ServiceNow, a Terraform state in AWS, an edge router, a
switch fabric and a scratch lab; around them a relay that turns alerts into
runs, and generators that build the lab in EVE-NG from a topology file. Jobs of
these workflows run at the same time, stop at Work Center cards for as long as a
person lets them, call services that fail or lose an answer, and nothing locks
what they share. Those are the behaviours modelled here in TLA+ and checked with
TLC. Every safety property that a passing run checks is also a theorem, proved
with TLAPS for every value of the constants; liveness is model-checked only.

Paths below are relative to the repository; "build.py" is
`itential/workflows/build.py` unless it is called `eve/build.py`.

## 1. Inventory

For each component: what it keeps (S), what it does (O), whom it talks to (I),
what is hard (H) and what makes it correct (C).

| component | where | modules |
|---|---|---|
| Branch VLAN: Add, Remove, the push as Remove's child | build.py 1155-1900, 2253-2423, 2577-2785 | `BranchVlan` |
| Lifecycle Manager model `branch-vlan`, import play | `ansible/playbooks/tasks/lcm.yml`, `itential/lcm/` | in `BranchVlan` |
| AWS VPN: Deploy, Hand Off, Tear Down, Tear Down Expired | build.py 3294-4160, 4661-4910, 5287-5660, 6598-6725 | `AwsVpn` |
| Change request R5 | build.py 3335-3695 | `ChangeRequest`, `ChangeLifecycle` |
| Verify AWS VPN, Batfish gate, plan review | build.py 3734-3877, 4161-4395, 4450-4600 | their outcomes in `AwsVpn` |
| Push Configuration with Revert Timer | build.py 5051-5262 | `RevertPush` |
| Rotate AWS VPN Key, monthly and on demand | build.py 6729-7130 | `KeyRotation` |
| Cloud Concierge / NetClaw requests | build.py 5775-6060 | `RequestTools` |
| Check AWS Drift, Drift and Cost Watch | build.py 6072-6590 | `DriftWatch` |
| Diagnose AWS VPN Outage | build.py 7147-8190 | `OutageLoop` |
| Diagnose / Break Fabric BGP | build.py 8206-9370 | `OutageLoop`, `FabricDrill` |
| Alert relay | `observability/alert-relay/relay.py` | `AlertRelay` |
| Scratch-lab push and restore | build.py 9760-9838, 9929-10100 | `ScratchRuns` |
| The play that readies a scratch router | `ansible/playbooks/skills-lab-devices.yml`, `scripts/skills-lab-device.py` | `ScratchRouter` |
| Skill test jobs and their cleanup | build.py 10103-10240 | `TestJobs` |
| Topology | `topology/derive.py` | `Topology` |
| Lab builder | `eve/build.py` | `EveLab` |
| Show, compliance, backup, status, describe, Platform Guide | build.py 1900-2250, 2468-2575, 2850-3290, 5665-5774, 9378-9740, 9840-9928 | not modelled: read-only |
| Exporter, forms, integrations, agents, alert rules | `observability/`, `itential/` | not modelled: generators, polling |
| Ansible, OpenTofu, k8s, scripts, `verify/` | | not modelled: provisioning and live tests |

**Branch VLAN.**
S: NetBox VLANs of one branch group (reserved, active), the switch's running and
startup configuration, an optional standard change, one Lifecycle Manager
instance per VLAN name, the variables of each job. O: Add (look up, list, pick
the next free VID, reserve, ask on a form, push, read the reply, activate,
review and close the change, publish the instance; roll the reservation back);
Remove (show, push `no vlan` through a child job with its own card, delete,
publish); retry and cancel of a job; import of instances. I: Remove waits for
its child; create and delete actions of the instance start and end with the job.
H: two Adds between list and reserve; a Remove that finds its VLAN by name late;
answers lost after the work was done; a switch that was never saved; a child
that ends without having changed anything. C: no VLAN on the switch without a
readable cause, none called active that the switch does not run, an accepted push
never rolled back, instances that describe VLANs of their name, the change
around the push.

**AWS VPN.**
S: the Terraform state (what is up, its end time, its key), the plans stored per
run, the router's AWS block in the running and the saved configuration and its
pending change under a revert timer, the clock. O: Deploy (end time, plan, card,
apply, key), Hand Off (read, render, card, push under a revert timer, verify),
Tear Down (read before, card, removal under a revert timer, proof, destroy plan,
second card, destroy, state read), Tear Down Expired (the same from an end time,
with no card). I: all share one state and one router and none knows of the
others; three of them carry a change request. H: everything read before a card
or a push and used after it; services stopped half-way; a timer that restores
what another run removed; the hourly run beside a Deploy. C: router first and
AWS second; nothing touched outside Implement; a run that says "handed off" has
saved it; a timed teardown destroys what was due and never fails silently.

**Change request.**
S: the state of a ServiceNow standard change. O: open, schedule, implement,
review, close, cancel, and a card to fix it by hand. I: the Gateway's runner writes
the texts of every call and of the card. H: refused calls, lost answers, a runner
that fails in the middle of the close. C: the change walks its life cycle and no
finished run leaves it open unnoticed, except where the runner could not write the
card either.

**Edge router changes: the push and the rotation.**
S: the router's running and saved configuration with its one pending change, the
Vault versions of the key, Secrets Manager's two labels, the key strongSwan
loaded. O: push (plan, pre-check, card, push under a revert timer, summary);
rotate (plan, card or schedule, write, reload, push, prune, verify, restore). I:
both use the router's only timer, and each `write memory` saves what the other
left running. H: four places changed one after the other, each call refused, done
in part or unanswered; two rotations at once. C: the four agree unless a named
failure made them differ; "unchanged", "saved" and "rotated" are true; an
interrupted tunnel comes back.

**Requests and the watch.**
S: the deployment as a plan and a state read show it, the runs and cards under
way, what a Check found and proposes. O: request a deploy or a teardown for an
agent; check the drift, ask the agent, show one card, start the run. I: both
start runs that stop at cards of their own. H: everything is read minutes before
it is used; the start of a run can be made and its answer lost. C: one open card,
drift reaches a person, one run for one wish.

**Outage loops, relay and drill.**
S: what is broken, the device's running and saved configuration and commit timer,
incidents in ServiceNow, what Alertmanager has delivered. O: deliver an alert;
list, gather evidence, create, diagnose, show a card, fix, read again, resolve;
break a session on purpose and bring it back. I: the relay starts the loops, the
drill's fault starts the relay, the fabric's fixes save the device the drill
broke. H: list and create are two calls; a lost answer starts a second run; a
timer fires behind a fix. C: one incident per outage, no outage that reaches
nobody, a drill that leaves nothing.

**Scratch lab and test jobs.**
S: a router's configuration, its baseline, the NACM state; jobs and what a cleanup
has listed. O: the play's commands, push, restore; complete, fail, wait, cancel.
H: a play cut short and run again captures what it finds; replace and proof are
two calls. C: "restored" is the baseline and the baseline is clean; reports are
true.

**Lab builder.**
S: the nodes, networks, disks and wires EVE-NG holds, the topology files. O:
apply, start, stop, wipe, push-configs on either lab; people edit the files. H: a
command reads the file once and stops at the first refused call; the two labs
share memory and MAC addresses. C: a pushed lab is the one its file says; a
scratch router meets neither a firewall nor a stranger's MAC.

## 2. Modules

| module | what it is |
|---|---|
| `ChangeLifecycle` | abstract specification: the life of a standard change; `Cancelable` says from where it may be given up |
| `BranchVlan` | Add, Remove and the push over one branch |
| `ChangeRequest` | the tasks `with_change_request` writes into three workflows |
| `AwsVpn` | extends `ChangeRequest`: the four AWS VPN workflows, the state and the router |
| `EdgeRouter` | the edge router and its one revert timer, as the next three see it |
| `RevertPush`, `KeyRotation` | the push of any lines; the rotation of the key |
| `EdgeChanges` | both beside each other on the router |
| `EndpointRuns` | the deployment and the runs that an endpoint or a person starts |
| `RequestTools`, `DriftWatch` | the request tools; the drift check with its one card |
| `WatchedVpn` | both beside each other and beside people |
| `Outages` | subjects, the device with its commit timer, incidents |
| `AlertRelay`, `OutageLoop`, `FabricDrill` | the relay; both diagnose workflows, which have one shape; the drill |
| `HandledOutages` | the three together |
| `Topology` | `derive.py` as operators: link ends, rendering contexts, interfaces, BGP sessions |
| `EveLab` | extends `Topology`: the commands of `eve/build.py` on two labs |
| `ScratchRouter`, `ScratchRuns`, `TestJobs` | the play; push and restore; the test jobs |
| `SkillsLab` | the three together |
| `MC*` | inputs, environments and symmetry for TLC |
| `BranchVlanProofs`, `AwsVpnProofs`, `EdgeChangesProofs`, `WatchedVpnProofs`, `HandledOutagesProofs`, `SkillsLabProofs`, `EveLabProofs` | the theorems about the module in their name and those it is composed of |

`BranchVlan` and `ChangeRequest` both state `ChangesLive`: with the mapping of
their `chg` to `state`, they implement `ChangeLifecycle!Spec`.

How state and actions correspond to the code:

* An action is **one external call with the pure tasks around it**. `at[j]` (and
  `rat`, `push.at`) is the call a job waits at, named for the step of build.py;
  the comment above each action names its task ids (`5c`, `d2`, ...). The tasks
  that only replace text, parse or pick a field run on values the job already
  holds and belong to the call before them. `Go`, `At`, `GoesOn` and `Says` move a
  job and record what its outcome says (`said`).
* **Job states follow the Platform's rules**: a task that throws and has no error
  edge leaves the job in "error", to be retried there or cancelled
  (`AddDeadEnds`, `RemoveDeadEnds`); a task with an empty transition list ends
  it in error for good; a `childJob` task waits while its child is in error and
  goes on when it ends, whatever it reports.
* **The Gateway, ServiceNow and the other services** can throw, answer with an
  error, or do the work and lose the answer. For ServiceNow that is `Call` in
  `ChangeRequest`, `Answered` and `StopsAdd` in `BranchVlan`'s `ChangeMoves`, and the
  outcomes of `CreateIncident` that open an incident the run does not own; for
  NetBox the last outcome of `Reserve` and of `DeleteVlan`; for the router
  the outcomes of `ReadPush`; for Terraform the third disjunct of `Apply` with
  `PartWay`; for the branch switch `AfterConfig`; for an endpoint trigger
  `unanswered`; for EVE-NG the end of the command with the call made or not.
* **`BranchVlan`**: a job creates at most one NetBox VLAN, so the job names its
  id. `Unnamed` is the VLAN a switch keeps when it takes `vlan 11` and refuses
  the `name` line. A job knows one change by its sys_id (`chg`); when the answer to
  the create is lost, the change stays open, the job stops in error and its retry
  opens another. `unowned` says which jobs left such a change (several of one job
  look alike: none of them is ever moved).
* **`ChangeRequest`**: a task of the close is a call to ServiceNow with the texts
  that the Gateway's runner writes for it before. The runner (`env.runner`) can fail
  where ServiceNow works: the close then goes on to the fix card, and without the
  card's page to workflow_end with only the job variable `change_unwritten`
  ("unwritten").
* **`AwsVpn`**: a block on the router is the deployment it points at
  (`running`, `startup`); a state version is named for the run that wrote it
  (`aws.by`), and a stored plan remembers the version it was made on, because
  the service refuses a stale plan.
* **`KeyRotation`**: a key is named for the rotation that made it, `Old` is the
  one before; the router holds a Vault *version*, because that is what its block
  records, and Vault maps versions to keys.
* **`OutageLoop`**: a subject is the tunnel or a session; its faults are a drill's
  or one of its own. On the fabric the device has a configuration that a fix
  saves; the AWS tunnel has none.
* **`ScratchRuns`**: what a push may be asked for (`Proposals`) is what
  `versions.yaml`'s forbidden lines let through: lines the play knows nothing of,
  its OSPF lines and its hostname, each as it is written or with a leading `no`. The
  router takes any part of them (`Takes`).
* **`EveLab`**: a disk is the rendering it booted from, a wire the network an
  interface is on; what a node *should* be is computed by `Topology`'s
  operators from the same file the code reads.
* **`env`** is fixed in `Init`: who may run, which services (and whether the
  Gateway's runner) may fail, what is deployed. The MC modules give each run its "worlds".
* **History variables**, which no guard reads: `unowned` of `BranchVlan`; `due`,
  `sent`, `causes` of `AwsVpn`; `causes` of `KeyRotation`; `early`, `unanswered`; `together`,
  `byHand`, `kept`; `settled`, `careless`; `sound`, `unproved`, `proved`,
  `taken.sent`. A property names through them the races and failures that the code does not
  close; the property then says that nothing else breaks it.

Data that is left out: device names, addresses (but in `Topology`), texts of
cards and notes, VLAN descriptions, the numbers of a plan review, journal wording.

## 3. Runs

Each passes within four minutes with two workers; deadlock is not checked
because jobs end and people may start nothing.

| run | instance | shows |
|---|---|---|
| `branch_vlan` | 2 Adds as create actions, of one name also by hand, 1 Remove, 2 names, 1 VID, no reload | `TypeOK`, `OrphansHaveACause`, `ActiveIsConfigured`, `InstanceIsOfItsName`, `AcceptedNotRolledBack`, `ActiveDeletedAfterDevice` |
| `branch_vlan_settles` | 1 Add with every kind of request, 1 Remove, 1 reload, fairness | `IInv`, `ChangeCoversPush`, `ChangesLive`, `ApprovedAddSettles`, `ApprovedRemoveSettles` |
| `remove_claims` | 1 Add, 1 Remove | violation of `SwitchChangedIsTrue` |
| `aws_vpn` | a Hand Off with two Tear Downs, or with a Tear Down and a Deploy, failing Gateway, 1 reload; or any two of Deploy, Hand Off and Tear Down with Gateway, runner and ServiceNow failing | `IInv`, `DeadBlockHasACause`, `HandedOffIsSaved`, `TouchedUnderImplement`, `FinishedRunsSettleTheirChange`, `ChangesLive` |
| `aws_vpn_ends` | hourly run beside a Deploy for two hours; Tear Down beside a Deploy, with a failing runner and ServiceNow, the Gateway's services working or failing too; fairness | `TimedDestroyWasDue`, `DueRunsSettle`, `DecidedRunsEnd`, `HealthyTearDownGoesOn` |
| `timed_passed` | hourly run beside a Deploy, everything works | violation of `TimedOnlyWhenPassed` |
| `torn_down` | Tear Down beside a Hand Off, everything works | violation of `TornDownIsTrue` |
| `key_rotation` | two rotations, two pushes, or one of each, with failing services and 1 reload; all four with services that work, deployed or not; fairness | `IInv`, `DisagreementHasACause`, `RotatedIsTrue`, `UnchangedIsTrue`, `SavedPushIsKept`, `TunnelComesBack` |
| `drift_watch` | two Checks beside a person, or two requests beside a person, with failing services; two Checks, a request and a person with services that work; fairness | `IInv`, `OneOpenCard`, `HiddenOnlyTogether`, `DriftIsTold`, `OneRunPerWish` |
| `outages` | two runs of the AWS loop, two of the fabric loop, or a fabric run beside a drill, two subjects, services failing, 1 break and 1 reload; fairness | `IInv`, `OneIncidentPerOutage`, `OutageIsHandled`, `DrillLeavesNothing` |
| `lab_build` | a small enterprise file, commands failing; the same and the skills lab, working; a whole file (two edges, branch, fabric, firewall), working; 4 commands on each lab, 2 edits | `PushedLabIsWhole`, `ScratchMeetsNobody` |
| `skills_lab` | a push and a restore beside two plays, failing; two and two beside one play, working; four plays with two edits; three test jobs with two cleanups, list limit 2; a push asks for foreign lines, for OSPF or a hostname to go or to come | `RestoredIsClean`, `ReportsAreTrue` |

**Bounds and why they are enough.** Two Adds are what a race for a VID or a name
takes; with one VID both choose the same one whenever they list together, the
second is refused, and the range runs out (`NoVid`). Two VLANs side by side are
left to the proofs: the safety properties of `branch_vlan` are theorems for any
range. One Remove can meet both. An Add by hand leaves
its instance to the import: one name shows that against a create action of the same
name and of the other. Where the router or the switch may reload, it does
so once: a second reload restores the same saved configuration. `branch_vlan`
has none, because `ActiveIsConfigured` is not held after one; what a reload leaves is
in `Placed` and `Configured` of `IInv`, which `branch_vlan_settles` checks with one
reload and the proofs with any number. In `AwsVpn` the worlds of `MCRouter` are the
sets of three runs that share the router; a fourth adds no new kind of step, only
more interleavings. What becomes of a change is its own run's business, so
`MCChange` has two runs and everything fails. Two hours are one before and one after an end time; `Lifetimes`
is one hour or "none". `Earlier` gives a behaviour a deployment to start with, so
Hand Off and Tear Down need no Deploy first. Two rotations are what "overlap"
takes, two pushes what a saved or restored neighbour takes. Two Checks overlap in
every way a third could with one of them; two requests are one asked again. Two
runs of a loop race between list and create; a drill breaks one of two subjects
so that a fix of the *other* one can save its fault, and `MaxBreaks = 1` adds
a break of its own. Four commands are an apply and a push-configs, cut short and
given again, and two edits flip `lab.firewalls` and back, or flip it and bring
the skills lab. Two plays are one cut short and its rerun; four give the OSPF lines
time to be turned off and on. Symmetry (permutations of job names) is used only
in runs that check no liveness.

**Fairness.** `FairSpec` asks only that the job engine goes on: `WF_vars` of the
steps a job takes by itself. Nobody has to decide a card, retry, cancel, start a
run or see a task; Alertmanager need not send, a timer need not fire, the clock
need not move. The Platform runs a ready task as long as it is up, which is what
weak fairness says. Liveness therefore ends at a card, an error, a task or an
incident: that is all the code promises. `TunnelComesBack` asks services that
work, because a service that never answers leaves the tunnel where it is.
`lab_build` and `skills_lab` state safety only: their commands are given by
people.

**Assumptions about what is not in the repository.** A device has one pending
change under a timer at a time, and a timer or a rollback restores the whole
configuration of before it. `write memory` saves all that runs. The Terraform
service refuses a plan made on another state version. EVE-NG does a call whole
or not at all. A lab gets one command at a time; one play runs on a scratch router
at a time. A running configuration lists OSPF last, so a copy that is cut short
loses it first.

## 4. Proofs

Each composed module ends with its inductive invariant `IInv`, and the proofs
module beside it proves, for any number of jobs, names, reloads, commands and so on:

| module | `TypeCorrect`, `Inductive` and |
|---|---|
| `BranchVlanProofs` | `OrphansAreExplained` (`OrphansHaveACause`), `ChangeCovers` (`ChangeCoversPush`), `InstancesAreOfTheirName` (`InstanceIsOfItsName`), `AcceptedStays` (`AcceptedNotRolledBack`), `ActiveIsOnTheSwitch` (`ActiveIsConfigured`), `DeletedAfterTheDevice` (`ActiveDeletedAfterDevice`), `ChangesRefine` (`ChangesLive`) |
| `AwsVpnProofs` | `DeadBlocksAreExplained` (`DeadBlockHasACause`), `NothingBeforeImplement` (`TouchedUnderImplement`), `FinishedRunsAreSettled` (`FinishedRunsSettleTheirChange`), `TimedDestroyIsDue` (`TimedDestroyWasDue`), `HandedOffStays` (`HandedOffIsSaved`), `ChangesRefine` (`ChangesLive`) |
| `EdgeChangesProofs` | `DisagreementsAreExplained` (`DisagreementHasACause`), `UnchangedPushesAreTrue` (`UnchangedIsTrue`), `SavedPushesAreKept` (`SavedPushIsKept`), `RotatedIsTrueHolds` (`RotatedIsTrue`) |
| `WatchedVpnProofs` | `OneCard` (`OneOpenCard`), `HiddenTogether` (`HiddenOnlyTogether`), `OneRun` (`OneRunPerWish`) |
| `HandledOutagesProofs` | `OneIncident` (`OneIncidentPerOutage`), `DrillsLeaveNothing` (`DrillLeavesNothing`) |
| `SkillsLabProofs` | `RestoresAreClean` (`RestoredIsClean`), `ReportsHold` (`ReportsAreTrue`) |
| `EveLabProofs` | `ScratchAlone` (`ScratchMeetsNobody`), `PushedLabIsItsFile` and `PushedLabMeets` (`PushedLabIsWhole`), `LinkEndsAgree`, `EvpnMeets` |

`TypeCorrect` is `Spec => []TypeOK`, `Inductive` is `Spec => []IInv`; the property a
theorem states is in brackets. `ChangesRefine` is the refinement of
`ChangeLifecycle`, in both modules.

**Assumptions**, declared with the constants and evaluated by TLC in every run:
different kinds of jobs are different; `None`, `Old`, `Earlier`, `Unnamed`, "own" and
`Forever` are no values of the data they stand beside; counters and bounds are
naturals; the VID range starts above 0 (0 stands for "no VID"); requests are
records of their type; the lines a scratch push is asked for are foreign ones, OSPF
or the hostname, never the accounts (`LinesAssumption`: the forbidden lines of
`versions.yaml` keep the way in), and a run is a push or a restore
(`RunsAssumption`); the test jobs are
finitely many (`ListAssumption`); a topology file has the fields `derive.py`
reads, port numbers above 0, and no node that is in the other file too
(`TopologyAssumption`).

**Why an invariant is needed.** None of the properties is inductive by itself:
each holds because of where the jobs stand that may break it. What is in `IInv`,
module by module:

* `BranchVlan`. `OrphansHaveACause` survives a `Rollback` because a job at
  "rollback" never had its lines accepted, a `Reload` because the *saved*
  configuration too holds nothing but what some Add sent, a `DeleteVlan` because a
  NetBox VLAN carries the VID of the Add that made it and a Remove whose delete was
  done and not answered stands at its delete (`Deleted`). `JobOK`, `RemoveOK` (where a
  job stands says what it has done), `Kept` (a VLAN that was sent is in NetBox, or
  its Add is unsettled, or a Remove took it), `Placed` and `Configured` (what the
  switch holds somebody sent, what it accepted it holds), `Described` (instances),
  `ChangeOK`. One lemma per conjunct with one step per action; `SettledStays` says
  what no step takes back. `ChangeOK` allows for each move of the change to have been
  made already, because its answer was lost. `ChangesLive` maps two changes per job to
  the life cycle (`AddChanges`), the one the job knows and the one whose sys_id it
  lost; asking for a move twice is a stutter there.
* `AwsVpn`. `ChangeOK` (the state of the change follows from the task, and only an
  approved run has sent anything), `PlanOK`, `WrittenOnce` (a run writes the state
  once, so a version it has not written is not its own), `DueOK` (the version whose
  end time was read keeps it), `RouterFirst` (a block behind a teardown's proof has
  a cause), `HandedOK` (from its push to its verdict what a lone Hand Off saved is
  what the router would go back to).
* `EdgeChanges`. `LinesOK` (where the lines of a push are at each of its steps,
  running, saved and in what a pending change would bring back), `PendingOK` (a
  push's way back has the same key), `Alone`, `KeyOK` (a rotation beside no other
  finds its key where it put it), `HomeOK` (with no failure on record there is one
  key to go back to, in all four places or in Vault's previous version).
* `WatchedVpn`. `OneProposer` (two Checks never both propose: the later one counted
  the earlier), `CheckOK`, `MadeWay` (who made way for a Check that told somebody
  did not make way for nothing), `OnePursued` and `RequestOK` (a refused request is
  over before the wish is asked again).
* `HandledOutages`. `OneOpen` (a run creates only while there is no open incident),
  `OwnOpen` (a run's incident stays open until it resolves it), `OwnOne`,
  `FaultsOK` (a drill's fault comes back only from a configuration that some fix
  saved).
* `SkillsLab`. `ProbeOK` (where the probe's hostname may be: under the play that
  sent it, unproved, or asked for by a push), `AloneOK` (what a play
  that is alone has brought about at each step), `RunsOK`, `CleanupsOK` (a cleanup
  was given all its query found, or the query was cut off), and both properties.
* `EveLab`, per lab. `NodesOK` (EVE-NG holds a node under its lab only, on bridges
  that are there, with wires that *some* setting of the flag asks for), `StepsOK` (the steps
  of a command and the flag it read), `ApplyOK` and `BootOK` (what an apply, a start
  and a push have brought about at each step), `SettledOK` (what the history says is
  so); and `CarefulOK` (unless somebody was careless, what runs and what a command
  read agree with the flag). That a wire asked for by another setting is gone
  follows from the bridges: a wire is on a bridge, and after "bypasses" the bridges
  are the setting's (`WiringFacts`).

The proofs have one layout: facts about the constants and the operators, frames
(what a step of one actor leaves of another), one lemma per action or per conjunct
of the invariant, `InitIInv`, `Inductive`, and one theorem per property from it.
`FirstIsLeft` and `LeastExists` say, by well-foundedness of `<`, that the node a
command takes next is one of those left.

`PushedLabIsWhole` has two parts. What the commands answer for is
`PushedLabIsItsFile`, for every file. That both ends of a BGP session are derived
is a fact about the data of the files: `PushedLabMeets` has it as its hypothesis
`FilesMeet`, which TLC finds true of the files of `MCEveLab`; `LinkEndsAgree` and
`EvpnMeets` prove what of it holds of every file without looking at the
order of its links. The rest goes through `SelectSeq`, whose recursive definition
the provers cannot unfold.

TLC checks `IInv` in `branch_vlan_settles`, `aws_vpn`, `key_rotation`, `drift_watch`
and `outages`. `skills_lab` and `lab_build` list only their two properties; with
`IInv` as a further INVARIANT they pass as well.

**Only model-checked:** liveness (`ApprovedAddSettles`, `ApprovedRemoveSettles`,
`DueRunsSettle`, `DecidedRunsEnd`, `HealthyTearDownGoesOn`, `TunnelComesBack`,
`DriftIsTold`, `OutageIsHandled`), because the prover has no rule for fairness and
ENABLED; that derived IPv4 sessions have both ends (above); and what the
violation runs show.

## 5. What the runs say about the code

Three statements of the repository do not hold of the code:

1. **`switch_changed = true` of a Remove** (build.py:2695). Remove goes on when
   its push child ends. A push that changed nothing used to stand in error; since
   ADR 0066 it ends with `changed = false`, and Remove journals "removed", sets
   `switch_changed` and deletes the NetBox VLAN. Run `remove_claims`.
2. **Tear Down Expired destroys "only when it has passed"** (build.py:6681). The
   end time is read once; a Deploy that extends it before the destroy plan is
   destroyed. Run `timed_passed`. What does hold is `TimedDestroyWasDue`.
3. **"nothing of the router's AWS block is left"** (build.py:5456). The proof is
   older than the destroy's card. Run `torn_down`. What does hold is
   `DeadBlockHasACause`.

Others were met while modelling and have no run of their own; the property that
holds is weakened by exactly the case named.

* ADR 0043 (line 41): the create action stores the same data whether the VLAN was
  new or already there. The no-op path (build.py:1538) stores the VLAN as read,
  which another Add may still hold as "reserved" (`InstanceIsOfItsName` covers it).
* build.py:1263, "a standard change opened, scheduled and moved to Implement": d1 has
  no error edge, so an answer that is lost leaves an open change the job knows
  nothing of, and the retry opens a second one (the "lost" changes of `ChangesLive`).
* build.py:3556, "a refused update leaves a task to finish the change by hand": the
  close's text and the task's page come from the Gateway's runner. When it fails, the
  run is at workflow_end with an open change and only `change_unwritten` to say so
  ("unwritten" of `FinishedRunsSettleTheirChange`).
* build.py:2574, a rejected push leaves Remove waiting: true, while a `show vlan`
  that could not run (build.py:2640) counts as a VLAN that is present, which is
  the safe side.
* build.py:6777, a key that "could not be written: nothing was changed": the write
  may have been done and its answer lost (cause "write lost" of
  `DisagreementHasACause`).
* `tests/test_rotate_aws_vpn_key.py`:134, "The router never confirms without
  lab-edge-push": it may have confirmed before the answer was lost ("push lost").
* build.py:6244, `watch_open`, at most one open card: two Checks that overlap each
  count the other and both make way; no card is left over (`OneOpenCard` holds) and
  the drift is hidden until the next Check (`early` of `HiddenOnlyTogether`).
* build.py:6092 and 6324, "redeploy: Deploy AWS VPN with the same inputs": the
  address is that of the newest Deploy a person started, applied or not.
* build.py:6477 and 6488, the proposal's run "could not be started ... nothing was
  changed": the run may wait at its card when only the answer or its id was lost.
* build.py:8030 and 9064, "a step after the incident was opened could not run":
  also said when the answer to the create could not be read (`NoText`).
* `k8s/observability/values/kube-prometheus-stack.yaml`, the comments on grouping
  and repeats: a 502 is sent again within seconds, so two runs of one outage may
  stand between list and create (`together` of `OneIncidentPerOutage`).
* build.py:9239, a drill is "never saved": the fix of another session of the same
  device saves the running configuration with the drill in it (`kept`).
* build.py:9281, "the commit timer still rolls the drill back": not when the
  confirm was made and its answer lost.
* `eve/build.py`:306, "never both at once": the guard reads the flag, not what
  runs; firewalls left by a command before an edit still run, or are booted by
  `start` and `push-configs` with the flag false (`careless`).
* `ansible/playbooks/skills-lab-devices.yml`:13, "Re-running it is safe": the
  capture takes a push's live lines, a copy that was cut short, or a probed
  hostname for the baseline (`sound`, `unproved` of `RestoredIsClean`), and the
  name a push gave the router (`Renamed`), which no task of the play looks at.
* `topology/enterprise.yaml`:15, "Flip to true, run eve/build.py apply": the nodes
  keep their old configuration until a `push-configs`; `PushedLabIsWhole` is stated
  after both.

## 6. Not modelled, and why

* The read-only workflows (show, compliance, backup, status, describe, the
  guides, the Batfish drill): they change nothing another job reads.
* Cost estimate, card images, the text of a plan review: advisory, they cannot
  stop a card.
* The inside of the Gateway's services and of the Platform: not in this
  repository; modelled as external from how the workflows call them.
* The weighing of signals in Verify's `judge` and the evidence of the loops: one
  verdict each, any outcome.
* Push Configuration with Approval started by a person: it may configure
  anything, so nothing could be said of the switch.
* Two targets: only `dc1-wan01` is open for the AWS VPN. Two device pairs behind
  one alert call: Alertmanager sends one alert per call.
* `AwsVpn` and `EdgeChanges` are not composed: a rotation beside a Tear Down is
  left out; each sees the other as lines that come and go on the router.
* `derive.py`'s NetBox contexts, racks, circuits and IP plan, `eve/build.py`'s
  images, endpoints and layout: data with no state behind it.
* Pure jq and replace tasks failing on an answer of the wrong shape: the shapes
  are the services'.
* `push-configs --only` and `--allow-missing`: a push that leaves nodes out makes no
  claim about them. Several BGP sessions of one device pair share a correlation id;
  `Outages` has one subject per session. A Check lists the 200 newest jobs; `DriftWatch`
  lists all. The neighbours that a template computes by itself (`c8000v.j2`, `veos.j2`)
  beside those of `derive.py`'s context.
* Exporter, generators of forms, integrations and rules, provisioning and live
  tests.

## 7. Plan

All components with state that jobs share are modelled, and every safety property
of a passing run is proved. What is left, in this order:

1. `Topology`: the IPv4 sessions. With `NodeLinks` and `WanEnd` over the indices
   of the links instead of `SelectSeq`, "every underlay, provider and edge session
   has both ends" becomes a theorem about any file whose fabric links join a spine
   and a leaf and whose edges have one link to the provider; with it
   `PushedLabMeets` needs no more than that of its files.
2. Refinements: `OutageLoop` as an implementation of an incident's life, as
   `ChangeRequest` is of a change's.
3. Safety parts of the liveness properties: that a step once taken towards an end
   is not taken back (`OutageIsHandled`, `TunnelComesBack`).
