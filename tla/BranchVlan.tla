------------------------------ MODULE BranchVlan ------------------------------
(***************************************************************************)
(* The branch-vlan service: the workflows Add Branch VLAN, Remove Branch   *)
(* VLAN and Push Configuration with Approval (itential/workflows/build.py) *)
(* over one branch: its NetBox VLAN group, its switch, its Lifecycle       *)
(* Manager instances and the ServiceNow change an Add may carry.           *)
(*                                                                         *)
(* Rules of the Platform every action below follows:                       *)
(*   - a task that throws and has no error edge leaves the job in "error"  *)
(*     at that task; the job can be retried there or cancelled;            *)
(*   - such a task may have done its work and lost the answer;             *)
(*   - a task with an empty transition list ends the job in "error" for    *)
(*     good: it can only be cancelled;                                     *)
(*   - a Gateway that cannot run a command answers without throwing, so    *)
(*     the answer has to be evaluated;                                     *)
(*   - a childJob task waits while its child is in "error" and goes on     *)
(*     when the child reaches its end, whatever the child reports.         *)
(* Jobs interleave freely between two external calls; the pure steps       *)
(* between two calls (text replacement, parsing) belong to the call that   *)
(* precedes them.                                                          *)
(***************************************************************************)
EXTENDS Naturals, FiniteSets

CONSTANTS
    AddJobs,      \* jobs of Add Branch VLAN; NetBox has at most one VLAN of a job
                  \* at a time, so the job also names the NetBox id of that VLAN
    RemoveJobs,   \* jobs of Remove Branch VLAN, each with at most one push child
    Names,        \* VLAN names
    Requests,     \* what people ask an Add for: [name, change, action], a change
                  \* wanted or not, by hand or as the instance's create action
    FirstVid,     \* the range the next free VID is taken from
    LastVid,
    MaxReloads,   \* bound: how often the switch reloads
    None,         \* no job / no VLAN / no name
    Unnamed       \* a VLAN the switch holds without the name the push carried

ASSUME VidAssumption  == FirstVid \in Nat \ {0} /\ LastVid \in Nat
ASSUME JobAssumption  == AddJobs \cap RemoveJobs = {}
ASSUME RequestAssumption == Requests \subseteq [name : Names, change : BOOLEAN, action : BOOLEAN]
ASSUME ReloadAssumption == MaxReloads \in Nat

Vids  == FirstVid .. LastVid
NoVid == 0      \* what NEXT_VID_CODE answers (null) when the range is used up

VARIABLES
    \* NetBox
    vlans,      \* the VLAN object of an id: None or [vid, name, status]
    \* the branch switch
    running,    \* VID -> the name of the VLAN in the running configuration
    startup,    \* what "write memory" saved
    reloads,    \* reloads so far
    \* ServiceNow and Lifecycle Manager
    chg,        \* the state of the change an Add knows (change_sys_id)
    unowned,    \* the Adds that opened a change, "New", and never got its sys_id
    lcm,        \* VLAN name -> its Lifecycle Manager instance
    \* Add Branch VLAN
    at, st,     \* the task an Add is at, and the state of the job
    req,        \* its inputs, a member of Requests
    vid,        \* job variable vid
    result,     \* job variable config_result: what the Gateway answered to 5c
    seen,       \* the VLAN 2a read, for the instance of the no-op path
    \* Remove Branch VLAN and its child
    rat, rst,   \* the task a Remove is at, and the state of the job
    inst,       \* the instance it was started with
    found,      \* NetBox id read by 3a
    absent,     \* "VLAN absent on the switch?" said yes
    push        \* the child job Push Configuration with Approval

vars == <<vlans, running, startup, reloads, chg, unowned, lcm, at, st, req, vid, result, seen,
          rat, rst, inst, found, absent, push>>

VlanRecord == [vid : Vids, name : Names, status : {"reserved", "active"}]
NoInstance == [data |-> "none"]
EmptyInstance == [data |-> "null"]     \* a create that has not stored anything
StoredInstance == [data : {"stored"}, vid : Vids, id : AddJobs, status : {"reserved", "active"}]
JobState   == {"idle", "running", "error", "complete", "cancelled"}
AddTask    == {"start", "open", "schedule", "implement", "lookup", "noop", "list", "reserve",
               "note", "form", "send", "reply", "activate", "journal", "review", "close",
               "publish", "rollback", "rolledBack", "unreadable", "done"}
RemoveTask == {"start", "show", "wait", "journal", "list", "delete", "publish", "done"}
PushTask   == {"none", "card", "send", "reply", "save", "rejected", "done"}
Answer     == {"none", "threw", "failed", "accepted", "unnamed", "refused"}
ChangeState == {"none", "New", "Scheduled", "Implement", "Review", "Closed"}
PushRecord == [at : PushTask, result : Answer, changed : BOOLEAN, saved : BOOLEAN]
NoPush     == [at |-> "none", result |-> "none", changed |-> FALSE, saved |-> FALSE]

ASSUME NoneAssumption == /\ None \notin AddJobs \cup Names \cup Requests \cup VlanRecord
                         /\ Unnamed \notin Names \cup {None}

Present(id)     == vlans[id] # None
Used            == {vlans[id].vid : id \in {i \in AddJobs : Present(i)}}
\* Mutant: the list call loses its name filter
AnyInNetBox(n) == {id \in AddJobs : Present(id)}


NamedInNetBox(n) == {id \in AddJobs : Present(id) /\ vlans[id].name = n}

-----------------------------------------------------------------------------
Init ==
    /\ vlans = [id \in AddJobs |-> None]
    /\ running = [v \in Vids |-> None] /\ startup = running /\ reloads = 0
    /\ chg = [j \in AddJobs |-> "none"] /\ unowned = {}
    /\ lcm = [n \in Names |-> NoInstance]
    /\ at = [j \in AddJobs |-> "start"] /\ st = [j \in AddJobs |-> "idle"]
    /\ req = [j \in AddJobs |-> None]
    /\ vid = [j \in AddJobs |-> NoVid]
    /\ result = [j \in AddJobs |-> "none"] /\ seen = [j \in AddJobs |-> None]
    /\ rat = [r \in RemoveJobs |-> "start"] /\ rst = [r \in RemoveJobs |-> "idle"]
    /\ inst = [r \in RemoveJobs |-> None] /\ found = [r \in RemoveJobs |-> None]
    /\ absent = [r \in RemoveJobs |-> FALSE] /\ push = [r \in RemoveJobs |-> NoPush]

device   == <<running, startup, reloads>>
snow     == <<chg, unowned>>
addJob   == <<at, st, req, vid, result, seen>>
removeJob == <<rat, rst, inst, found, absent, push>>

AtAdd(j, t) == st[j] = "running" /\ at[j] = t
GoAdd(j, t) == at' = [at EXCEPT ![j] = t]

\* A call without an error edge is answered, or was taken and the answer is lost
Answered(j, t) == GoAdd(j, t) /\ UNCHANGED st
StopsAdd(j)    == st' = [st EXCEPT ![j] = "error"] /\ UNCHANGED at

\* Lifecycle Manager keeps the job's variable `instance` when its action ends
KeepInstance(n, data) == lcm' = [lcm EXCEPT ![n] = data]

-----------------------------------------------------------------------------
(* Add Branch VLAN *)

\* The job starts, by hand or as the create action of an instance name that is
\* free; d0 and the switch name (0a..1d) only read its inputs.
StartAdd(j, q) ==
    /\ st[j] = "idle"
    /\ q.action => lcm[q.name] = NoInstance
    /\ req' = [req EXCEPT ![j] = q]
    /\ st' = [st EXCEPT ![j] = "running"]
    /\ GoAdd(j, IF q.change THEN "open" ELSE "lookup")
    /\ IF q.action THEN KeepInstance(q.name, EmptyInstance) ELSE UNCHANGED lcm
    /\ UNCHANGED <<vlans, device, snow, vid, result, seen, removeJob>>

\* d1: a change whose sys_id is lost stays as it was opened; the retry opens another
OpenChange(j) ==
    /\ AtAdd(j, "open")
    /\ \/ chg' = [chg EXCEPT ![j] = "New"] /\ Answered(j, "schedule") /\ UNCHANGED unowned
       \/ unowned' = unowned \cup {j} /\ StopsAdd(j) /\ UNCHANGED chg
    /\ UNCHANGED <<vlans, device, lcm, req, vid, result, seen, removeJob>>

\* One move of the change the job knows: d5, d7, f1, f3
ChangeMoves(j, from, state, next) ==
    /\ AtAdd(j, from)
    /\ chg' = [chg EXCEPT ![j] = state] /\ UNCHANGED unowned
    /\ Answered(j, next) \/ StopsAdd(j)
    /\ UNCHANGED <<vlans, device, lcm, req, vid, result, seen, removeJob>>

\* Mutant: the device work starts with the change only scheduled
ScheduleChangeOnly(j) == ChangeMoves(j, "schedule", "Scheduled", "lookup")

\* Mutant: the change is closed without its review
CloseUnreviewed(j) == ChangeMoves(j, "review", "Closed", "publish")


ScheduleChange(j)  == ChangeMoves(j, "schedule", "Scheduled", "implement")
ImplementChange(j) == ChangeMoves(j, "implement", "Implement", "lookup")
ReviewChange(j)    == ChangeMoves(j, "review", "Review", "close")
CloseChange(j)     == ChangeMoves(j, "close", "Closed", "publish")

\* 2a, 2b: the VLAN by site and name; a hit is the no-op path
LookUp(j) ==
    /\ AtAdd(j, "lookup")
    /\ IF NamedInNetBox(req[j].name) = {}
       THEN GoAdd(j, "list") /\ UNCHANGED <<vid, seen>>
       ELSE \E id \in NamedInNetBox(req[j].name) :
              /\ vid' = [vid EXCEPT ![j] = vlans[id].vid]
              /\ seen' = [seen EXCEPT ![j] = [data |-> "stored", vid |-> vlans[id].vid, id |-> id,
                                              status |-> vlans[id].status]]
              /\ GoAdd(j, "noop")
    /\ UNCHANGED <<vlans, device, snow, lcm, st, req, result, removeJob>>

AddEnds(j, data) ==
    /\ st' = [st EXCEPT ![j] = "complete"]
    /\ GoAdd(j, "done")
    /\ IF req[j].action THEN KeepInstance(req[j].name, data) ELSE UNCHANGED lcm
    /\ UNCHANGED <<vlans, device, snow, req, vid, result, seen, removeJob>>

\* b3..c8, 9a: the instance is the VLAN as 2a read it
NoopEnds(j) == AtAdd(j, "noop") /\ AddEnds(j, seen[j])

\* Mutant: range(11, 101)
NextFreeVidPastRange ==
    IF Vids \cup {LastVid + 1} = Used THEN NoVid
    ELSE CHOOSE v \in (Vids \cup {LastVid + 1}) \ Used : \A w \in (Vids \cup {LastVid + 1}) \ Used : v <= w

\* 3a, 3b: the group's VLANs and, on the runner, the next free VID
NextFreeVid == IF Vids \ Used = {} THEN NoVid
               ELSE CHOOSE v \in Vids \ Used : \A w \in Vids \ Used : v <= w
ListGroup(j) ==
    /\ AtAdd(j, "list")
    /\ vid' = [vid EXCEPT ![j] = NextFreeVid]
    /\ GoAdd(j, "reserve")
    /\ UNCHANGED <<vlans, device, snow, lcm, st, req, result, seen, removeJob>>

\* 3d: NetBox refuses a VID or a name the group already has. A VLAN created again
\* by a retry has an id of its own: what a Remove found before is another VLAN.
Reserve(j) ==
    /\ AtAdd(j, "reserve")
    /\ vid[j] \in Vids \ Used
    /\ NamedInNetBox(req[j].name) = {}
    /\ vlans' = [vlans EXCEPT ![j] = [vid |-> vid[j], name |-> req[j].name, status |-> "reserved"]]
    /\ found' = [r \in RemoveJobs |-> IF found[r] = j THEN None ELSE found[r]]
    /\ Answered(j, IF req[j].change THEN "note" ELSE "form") \/ StopsAdd(j)
    /\ UNCHANGED <<device, snow, lcm, req, vid, result, seen, rat, rst, inst, absent, push>>

\* e0..e6: the reservation work-noted on the change; a refusal rolls it back
NoteReservation(j) ==
    /\ AtAdd(j, "note")
    /\ \E t \in {"form", "rollback"} : GoAdd(j, t)
    /\ UNCHANGED <<vlans, device, snow, lcm, st, req, vid, result, seen, removeJob>>

\* 4a, 4c: a person approves on the form, or anything else rolls back
DecideForm(j) ==
    /\ AtAdd(j, "form")
    /\ \E t \in {"send", "rollback"} : GoAdd(j, t)
    /\ UNCHANGED <<vlans, device, snow, lcm, st, req, vid, result, seen, removeJob>>

\* What "vlan <v>, name <n>" may leave in the running configuration, by answer;
\* a send that threw may or may not have reached the switch
AfterConfig(v, n, answer) ==
    LET cfg(x) == [running EXCEPT ![v] = x]
    IN CASE answer = "accepted" -> {cfg(n)}
         [] answer = "unnamed"  -> {IF running[v] = None THEN cfg(Unnamed) ELSE running}
         [] answer = "threw"    -> {running, cfg(n)}
         [] OTHER               -> {running}

\* Mutant: "config applied?" false has no transition, as before ADR 0066
SendVlanDeadEnds(j) ==
    /\ AtAdd(j, "send")
    /\ \E answer \in Answer \ {"none"} :
         /\ result' = [result EXCEPT ![j] = answer]
         /\ running' \in AfterConfig(vid[j], req[j].name, answer)
         /\ GoAdd(j, CASE answer = "threw" -> "rollback" [] answer = "failed" -> "unreadable" [] OTHER -> "reply")
    /\ UNCHANGED <<vlans, startup, reloads, snow, lcm, st, req, vid, seen, removeJob>>

\* 5c, 5d: the VLAN pushed through the Gateway and the success flag evaluated;
\* lines the switch refuses are a success here
SendVlan(j) ==
    /\ AtAdd(j, "send")
    /\ \E answer \in Answer \ {"none"} :
         /\ result' = [result EXCEPT ![j] = answer]
         /\ running' \in AfterConfig(vid[j], req[j].name, answer)
         /\ GoAdd(j, IF answer \in {"threw", "failed"} THEN "rollback" ELSE "reply")
    /\ UNCHANGED <<vlans, startup, reloads, snow, lcm, st, req, vid, seen, removeJob>>

\* Mutant: the success flag alone decides, as before ADR 0066
TrustSuccessFlag(j) ==
    /\ AtAdd(j, "reply")
    /\ GoAdd(j, "activate")
    /\ UNCHANGED <<vlans, device, snow, lcm, st, req, vid, result, seen, removeJob>>

\* 5e..52: the reply read on the runner; refused lines roll back, a reply that
\* cannot be read ends the job where it is (8c)
ReadReply(j) ==
    /\ AtAdd(j, "reply")
    /\ \/ /\ GoAdd(j, IF result[j] = "accepted" THEN "activate" ELSE "rollback")
          /\ UNCHANGED st
       \/ GoAdd(j, "unreadable") /\ st' = [st EXCEPT ![j] = "error"]
    /\ UNCHANGED <<vlans, device, snow, lcm, req, vid, result, seen, removeJob>>

\* 6a: the VLAN of the reservation becomes active
Activate(j) ==
    /\ AtAdd(j, "activate")
    /\ Present(j)
    /\ vlans' = [vlans EXCEPT ![j].status = "active"]
    /\ Answered(j, "journal") \/ StopsAdd(j)
    /\ UNCHANGED <<device, snow, lcm, req, vid, result, seen, removeJob>>

\* ea1..ea9, f0: the journal entry on the switch
JournalAdd(j) ==
    /\ AtAdd(j, "journal")
    /\ GoAdd(j, IF req[j].change THEN "review" ELSE "publish")
    /\ UNCHANGED <<vlans, device, snow, lcm, st, req, vid, result, seen, removeJob>>

\* 7b, 7c, 7a: the instance is the VLAN as active
Publish(j) ==
    /\ AtAdd(j, "publish")
    /\ AddEnds(j, [data |-> "stored", vid |-> vid[j], id |-> j, status |-> "active"])

\* Mutant: the rollback leads to the end of the workflow
RollbackCompletes(j) ==
    /\ AtAdd(j, "rollback")
    /\ Present(j)
    /\ vlans' = [vlans EXCEPT ![j] = None]
    /\ GoAdd(j, "rolledBack")
    /\ st' = [st EXCEPT ![j] = "complete"]
    /\ UNCHANGED <<device, snow, lcm, req, vid, result, seen, removeJob>>

\* 8a, 8b: the reservation deleted, and the job ends in error by design; with the
\* answer lost it stands at 8a, which NetBox then refuses
Rollback(j) ==
    /\ AtAdd(j, "rollback")
    /\ Present(j)
    /\ vlans' = [vlans EXCEPT ![j] = None]
    /\ \E t \in {"rolledBack", "rollback"} : GoAdd(j, t)
    /\ st' = [st EXCEPT ![j] = "error"]
    /\ UNCHANGED <<device, snow, lcm, req, vid, result, seen, removeJob>>

\* The external calls of the Add that have no error edge
AddDeadEnds == {"open", "schedule", "implement", "lookup", "list", "reserve", "activate",
                "journal", "review", "close", "rollback"}
\* Mutant: NetBox failing to activate the VLAN rolls the reservation back
ActivateFailureRollsBack(j) ==
    /\ st[j] = "running" /\ at[j] \in AddDeadEnds
    /\ IF at[j] = "activate" THEN GoAdd(j, "rollback") /\ UNCHANGED st
       ELSE st' = [st EXCEPT ![j] = "error"] /\ UNCHANGED at
    /\ UNCHANGED <<vlans, device, snow, lcm, req, vid, result, seen, removeJob>>


AddCallFails(j) ==
    /\ st[j] = "running" /\ at[j] \in AddDeadEnds
    /\ st' = [st EXCEPT ![j] = "error"]
    /\ UNCHANGED <<vlans, device, snow, lcm, at, req, vid, result, seen, removeJob>>

RetryAdd(j) ==
    /\ st[j] = "error" /\ at[j] \in AddDeadEnds
    /\ st' = [st EXCEPT ![j] = "running"]
    /\ UNCHANGED <<vlans, device, snow, lcm, at, req, vid, result, seen, removeJob>>

\* Cancelling the execution of a create retires its instance
CancelAdd(j) ==
    /\ st[j] = "error"
    /\ st' = [st EXCEPT ![j] = "cancelled"]
    /\ IF req[j].action THEN KeepInstance(req[j].name, NoInstance) ELSE UNCHANGED lcm
    /\ UNCHANGED <<vlans, device, snow, at, req, vid, result, seen, removeJob>>

-----------------------------------------------------------------------------
(* Remove Branch VLAN and its child, Push Configuration with Approval *)

AtRemove(r, t) == rst[r] = "running" /\ rat[r] = t
GoRemove(r, t) == rat' = [rat EXCEPT ![r] = t]
PushIs(r, t)   == push[r].at = t /\ rst[r] # "cancelled"
PushEnds(r, changed, saved) ==
    push' = [push EXCEPT ![r].at = "done", ![r].changed = changed, ![r].saved = saved]

\* 1a..2a: the delete action hands the instance over; one without data ends here
StartRemove(r, n) ==
    /\ rst[r] = "idle"
    /\ lcm[n] # NoInstance
    /\ inst' = [inst EXCEPT ![r] = [name |-> n, data |-> lcm[n]]]
    /\ IF lcm[n] = EmptyInstance
       THEN /\ rst' = [rst EXCEPT ![r] = "complete"]
            /\ GoRemove(r, "done")
            /\ KeepInstance(n, NoInstance)
       ELSE /\ rst' = [rst EXCEPT ![r] = "running"]
            /\ GoRemove(r, "show")
            /\ UNCHANGED lcm
    /\ UNCHANGED <<vlans, device, snow, addJob, found, absent, push>>

\* 4a..4d, 5a..5e: only an answer that says "not found" skips the push; the
\* answer of a Gateway that could not run the command does not say it
ShowVlan(r) ==
    /\ AtRemove(r, "show")
    /\ \/ /\ running[inst[r].data.vid] = None
          /\ absent' = [absent EXCEPT ![r] = TRUE]
          /\ GoRemove(r, "list")
          /\ UNCHANGED push
       \/ /\ push' = [push EXCEPT ![r].at = "card"]
          /\ GoRemove(r, "wait")
          /\ UNCHANGED absent
    /\ UNCHANGED <<vlans, device, snow, lcm, addJob, rst, inst, found>>

\* 2a, 9a of the push: a rejected card ends the child in error, nothing pushed
DecidePush(r) ==
    /\ PushIs(r, "card")
    /\ \E t \in {"send", "rejected"} : push' = [push EXCEPT ![r].at = t]
    /\ UNCHANGED <<vlans, device, snow, lcm, addJob, rat, rst, inst, found, absent>>

\* Mutant: "config applied?" false has no transition, as before ADR 0066
SendPushDeadEnds(r) ==
    /\ PushIs(r, "send")
    /\ \E answer \in Answer \ {"none", "unnamed"} :
         /\ running' \in AfterConfig(inst[r].data.vid, None, answer)
         /\ push' = [push EXCEPT ![r].result = answer,
                                 ![r].at = CASE answer = "threw" -> "done" [] answer = "failed" -> "rejected"
                                             [] OTHER -> "reply"]
    /\ UNCHANGED <<vlans, startup, reloads, snow, lcm, addJob, rat, rst, inst, found, absent>>

\* 3a, 3b of the push, with "no vlan <v>"
SendPush(r) ==
    /\ PushIs(r, "send")
    /\ \E answer \in Answer \ {"none", "unnamed"} :
         /\ running' \in AfterConfig(inst[r].data.vid, None, answer)
         /\ push' = [push EXCEPT ![r].result = answer,
                                 ![r].at = IF answer \in {"threw", "failed"} THEN "done" ELSE "reply"]
    /\ UNCHANGED <<vlans, startup, reloads, snow, lcm, addJob, rat, rst, inst, found, absent>>

\* 3c..3f, 8c..8e of the push: a refusal and a reply that cannot be read both
\* end it with changed = false
ReadPushReply(r) ==
    /\ PushIs(r, "reply")
    /\ \/ push[r].result = "accepted" /\ push' = [push EXCEPT ![r].at = "save"]
       \/ PushEnds(r, FALSE, FALSE)
    /\ UNCHANGED <<vlans, device, snow, lcm, addJob, rat, rst, inst, found, absent>>

\* 4a, 4b, 7a, 5a of the push: write memory, its failure noted, also when only
\* the answer failed
SavePush(r) ==
    /\ PushIs(r, "save")
    /\ \E saved \in BOOLEAN :
         /\ PushEnds(r, TRUE, saved)
         /\ startup' \in IF saved THEN {running} ELSE {startup, running}
    /\ UNCHANGED <<vlans, running, reloads, snow, lcm, addJob, rat, rst, inst, found, absent>>

\* Mutant: a child in error does not keep the Remove waiting
ChildInErrorEnds(r) ==
    /\ AtRemove(r, "wait")
    /\ push[r].at \in {"done", "rejected"}
    /\ GoRemove(r, "journal")
    /\ UNCHANGED <<vlans, device, snow, lcm, addJob, rst, inst, found, absent, push>>

\* 5e: the child reached its end; nothing reads what it reports
ChildEnds(r) ==
    /\ AtRemove(r, "wait")
    /\ push[r].at = "done"
    /\ GoRemove(r, "journal")
    /\ UNCHANGED <<vlans, device, snow, lcm, addJob, rst, inst, found, absent, push>>

\* eb1..eb9, 2c, 2d: the journal says removed, switch_changed = true
JournalRemove(r) ==
    /\ AtRemove(r, "journal")
    /\ GoRemove(r, "list")
    /\ UNCHANGED <<vlans, device, snow, lcm, addJob, rst, inst, found, absent, push>>

\* 3a, 3b: the VLAN by site and name
ListVlan(r) ==
    /\ AtRemove(r, "list")
    /\ IF NamedInNetBox(inst[r].name) = {}
       THEN GoRemove(r, "publish") /\ UNCHANGED found
       ELSE \E id \in NamedInNetBox(inst[r].name) :
              found' = [found EXCEPT ![r] = id] /\ GoRemove(r, "delete")
    /\ UNCHANGED <<vlans, device, snow, lcm, addJob, rst, inst, absent, push>>

\* 3c, 3d: deleted by the id just read; with the answer lost the job stands at
\* 3d, and NetBox refuses the retry
DeleteVlan(r) ==
    /\ AtRemove(r, "delete")
    /\ found[r] # None /\ Present(found[r])
    /\ vlans' = [vlans EXCEPT ![found[r]] = None]
    /\ \/ GoRemove(r, "publish") /\ UNCHANGED rst
       \/ rst' = [rst EXCEPT ![r] = "error"] /\ UNCHANGED rat
    /\ UNCHANGED <<device, snow, lcm, addJob, inst, found, absent, push>>

\* 7a..2e: the instance as deleted; the delete action retires it
PublishRemove(r) ==
    /\ AtRemove(r, "publish")
    /\ GoRemove(r, "done")
    /\ rst' = [rst EXCEPT ![r] = "complete"]
    /\ KeepInstance(inst[r].name, NoInstance)
    /\ UNCHANGED <<vlans, device, snow, addJob, inst, found, absent, push>>

RemoveDeadEnds == {"show", "journal", "list", "delete"}
RemoveCallFails(r) ==
    /\ rst[r] = "running" /\ rat[r] \in RemoveDeadEnds
    /\ rst' = [rst EXCEPT ![r] = "error"]
    /\ UNCHANGED <<vlans, device, snow, lcm, addJob, rat, inst, found, absent, push>>

RetryRemove(r) ==
    /\ rst[r] = "error"
    /\ rst' = [rst EXCEPT ![r] = "running"]
    /\ UNCHANGED <<vlans, device, snow, lcm, addJob, rat, inst, found, absent, push>>

\* Cancelling a delete, in error or waiting on a rejected push, keeps its instance
CancelRemove(r) ==
    /\ rst[r] = "error" \/ (AtRemove(r, "wait") /\ push[r].at = "rejected")
    /\ rst' = [rst EXCEPT ![r] = "cancelled"]
    /\ UNCHANGED <<vlans, device, snow, lcm, addJob, rat, inst, found, absent, push>>

-----------------------------------------------------------------------------
(* Around the workflows *)

\* The platform play imports one instance per NetBox VLAN that has none
ImportInstance(n) ==
    /\ lcm[n] = NoInstance
    /\ \E id \in NamedInNetBox(n) :
         KeepInstance(n, [data |-> "stored", vid |-> vlans[id].vid, id |-> id, status |-> vlans[id].status])
    /\ UNCHANGED <<vlans, device, snow, addJob, removeJob>>

\* The switch reloads with what was saved
Reload ==
    /\ reloads < MaxReloads
    /\ reloads' = reloads + 1
    /\ running' = startup
    /\ UNCHANGED <<vlans, startup, snow, lcm, addJob, removeJob>>

AddStep(j) ==
    \/ OpenChange(j) \/ ScheduleChange(j) \/ ImplementChange(j) \/ LookUp(j) \/ NoopEnds(j)
    \/ ListGroup(j) \/ Reserve(j) \/ NoteReservation(j) \/ SendVlan(j) \/ ReadReply(j)
    \/ Activate(j) \/ JournalAdd(j) \/ ReviewChange(j) \/ CloseChange(j) \/ Publish(j)
    \/ Rollback(j) \/ AddCallFails(j)
RemoveStep(r) ==
    \/ ShowVlan(r) \/ SendPush(r) \/ ReadPushReply(r) \/ SavePush(r) \/ ChildEnds(r)
    \/ JournalRemove(r) \/ ListVlan(r) \/ DeleteVlan(r) \/ PublishRemove(r) \/ RemoveCallFails(r)

Next ==
    \/ \E j \in AddJobs, q \in Requests : StartAdd(j, q)
    \/ \E j \in AddJobs : AddStep(j) \/ DecideForm(j) \/ RetryAdd(j) \/ CancelAdd(j)
    \/ \E r \in RemoveJobs, n \in Names : StartRemove(r, n)
    \/ \E r \in RemoveJobs : RemoveStep(r) \/ DecidePush(r) \/ RetryRemove(r) \/ CancelRemove(r)
    \/ \E n \in Names : ImportInstance(n)
    \/ Reload

\* The engine runs a job it has started; nobody has to decide a card, to retry,
\* to cancel or to start anything
Fairness == /\ \A j \in AddJobs : WF_vars(AddStep(j))
            /\ \A r \in RemoveJobs : WF_vars(RemoveStep(r))
Spec     == Init /\ [][Next]_vars
FairSpec == Spec /\ Fairness
-----------------------------------------------------------------------------
(* Properties *)

\* Every variable keeps its shape: the objects NetBox, the switch, ServiceNow
\* and Lifecycle Manager hold, and the task every job is at.
TypeOK ==
    /\ vlans \in [AddJobs -> VlanRecord \cup {None}]
    /\ running \in [Vids -> Names \cup {None, Unnamed}]
    /\ startup \in [Vids -> Names \cup {None, Unnamed}]
    /\ reloads \in 0 .. MaxReloads
    /\ chg \in [AddJobs -> ChangeState] /\ unowned \subseteq AddJobs
    /\ lcm \in [Names -> StoredInstance \cup {NoInstance, EmptyInstance}]
    /\ at \in [AddJobs -> AddTask] /\ st \in [AddJobs -> JobState]
    /\ req \in [AddJobs -> Requests \cup {None}]
    /\ vid \in [AddJobs -> Vids \cup {NoVid}]
    /\ result \in [AddJobs -> Answer] /\ seen \in [AddJobs -> StoredInstance \cup {None}]
    /\ rat \in [RemoveJobs -> RemoveTask] /\ rst \in [RemoveJobs -> JobState]
    /\ inst \in [RemoveJobs -> [name : Names, data : StoredInstance \cup {EmptyInstance}] \cup {None}]
    /\ found \in [RemoveJobs -> AddJobs \cup {None}] /\ absent \in [RemoveJobs -> BOOLEAN]
    /\ push \in [RemoveJobs -> PushRecord]

Sent(j)     == result[j] # "none"
Unsettled(j) == at[j] \in {"reply", "activate", "rollback"} \/ st[j] \in {"error", "cancelled"}
Deleted(r)  == /\ found[r] # None
               /\ rat[r] \in {"publish", "done"} \/ (rat[r] = "delete" /\ ~Present(found[r]))

\* A VLAN the switch runs without a NetBox VLAN behind it has a cause somebody
\* can read: an Add that sent it and has not settled or ended in error, or a Remove
\* that deleted it from NetBox, also one that stands at its delete because the
\* answer was lost.
\* Add Branch VLAN never leaves one behind and reports success.
OrphansHaveACause ==
    \A v \in Vids : running[v] # None =>
        \/ v \in Used
        \/ \E j \in AddJobs : vid[j] = v /\ Sent(j) /\ Unsettled(j)
        \/ \E r \in RemoveJobs : Deleted(r) /\ vid[found[r]] = v

\* A VID the switch was told of stays there until a Remove sends "no vlan" for
\* it or the switch reloads
OnSwitch(v) == \/ running[v] # None
               \/ \E r \in RemoveJobs : push[r].result \in {"threw", "accepted"} /\ inst[r].data.vid = v
               \/ reloads > 0

\* A VLAN NetBox calls active is on the switch, unless a Remove sent "no vlan"
\* for its VID or the switch reloaded: Add Branch VLAN does not save, so a
\* reload drops what only the running configuration held.
ActiveIsConfigured ==
    \A id \in AddJobs : (Present(id) /\ vlans[id].status = "active") => OnSwitch(vlans[id].vid)

\* Once the switch has accepted the lines and the Add has read so, only a Remove
\* takes the NetBox VLAN away: nothing after the push rolls the reservation back.
AcceptedNotRolledBack ==
    [][\A j \in AddJobs :
         (Present(j) /\ ~Present(j)' /\ result[j] = "accepted")
            => \E r \in RemoveJobs : rat[r] = "delete" /\ found[r] = j]_vars

\* NetBox loses a VLAN it calls active only to a Remove whose switch read said
\* "not found" or whose push ran to its end: a rejected card changes nothing.
ActiveDeletedAfterDevice ==
    [][\A id \in AddJobs :
         (Present(id) /\ ~Present(id)' /\ vlans[id].status = "active")
            => \E r \in RemoveJobs : found[r] = id /\ (absent[r] \/ push[r].at = "done")]_vars

\* An Add that carries a change touches the switch only with the change in
\* Implement, and the change moves to Review and Closed only after the switch
\* accepted the lines and NetBox was told so.
ChangeCoversPush ==
    \A j \in AddJobs :
        /\ (Sent(j) /\ req[j].change) => chg[j] \in {"Implement", "Review", "Closed"}
        /\ chg[j] \in {"Review", "Closed"} => /\ result[j] = "accepted"
                                              /\ at[j] \in {"review", "close", "publish", "done"}

\* What Lifecycle Manager stores for a name is a VLAN an Add of that name
\* created, with that Add's VID, and "active" only if the switch accepted it -
\* whichever of create, no-op create and import wrote it last.
InstanceIsOfItsName ==
    \A n \in Names : lcm[n].data = "stored" =>
        LET j == lcm[n].id
        IN /\ req[j].name = n /\ vid[j] = lcm[n].vid
           /\ lcm[n].status = "active" => result[j] = "accepted"

\* An approved Add does not hang: it completes or shows an error, however many
\* calls fail on the way.
ApprovedAddSettles ==
    \A j \in AddJobs : at[j] = "send" ~> st[j] \in {"complete", "error", "cancelled"}

\* Remove Branch VLAN goes on once its push was approved, whatever the push
\* reports: it completes, or shows an error that can be retried.
ApprovedRemoveSettles ==
    \A r \in RemoveJobs : push[r].at = "send" ~> rst[r] \in {"complete", "error", "cancelled"}

\* switch_changed = true
SwitchChanged(r) == push[r].at = "done" /\ rat[r] \in {"list", "delete", "publish", "done"}

\* The changes an Add opened: the one it knows, and the one whose sys_id it lost,
\* which stays "New" for good
AddChanges   == AddJobs \X {"known", "lost"}
ChangeStates == [c \in AddChanges |-> IF c[2] = "known" THEN chg[c[1]]
                                     ELSE IF c[1] \in unowned THEN "New" ELSE "none"]

\* Every change an Add opened, known to it or not, walks the life ServiceNow gives
\* a standard change, through errors, retries and moves asked twice; an Add never
\* cancels one.
ChangeLife == INSTANCE ChangeLifecycle
              WITH Changes <- AddChanges, Cancelable <- {}, state <- ChangeStates
ChangesLive == ChangeLife!Spec

\* Claimed by the journal entry and by switch_changed = true: when a Remove says
\* it removed the VLAN through the push, the push changed the switch.
SwitchChangedIsTrue == \A r \in RemoveJobs : SwitchChanged(r) => push[r].changed

-----------------------------------------------------------------------------
(* The inductive invariant *)

\* The tasks before the reservation, and before the switch is sent anything
BeforeReserve == {"start", "open", "schedule", "implement", "lookup", "noop", "list"}
BeforeSend    == BeforeReserve \cup {"reserve", "note", "form", "send"}
AfterAccept   == {"activate", "journal", "review", "close", "publish"}

\* Where a job is says what it has done: its VID is settled before it reserves,
\* its VLAN is the one it reserved, the switch's answer is there once it was sent.
JobOK(j) ==
    /\ at[j] # "start" => req[j] \in Requests
    /\ at[j] = "noop" => seen[j] \in StoredInstance
    /\ at[j] \notin BeforeReserve \cup {"reserve", "done"} => vid[j] \in Vids
    /\ Present(j) => /\ at[j] \notin BeforeReserve
                     /\ vlans[j].vid = vid[j] /\ vlans[j].name = req[j].name
                     /\ vlans[j].status = "active" => result[j] = "accepted"
    /\ Sent(j) => at[j] \notin BeforeSend /\ vid[j] \in Vids
    /\ at[j] \in AfterAccept => result[j] = "accepted"
    /\ at[j] = "rollback" => result[j] # "accepted"
    /\ at[j] \in {"rolledBack", "unreadable"} => st[j] \in {"error", "cancelled"}
    /\ st[j] = "idle" <=> at[j] = "start"

\* A Remove past its start has the data of an instance, deletes what it found, and
\* looks for it only after the device.
RemoveOK(r) ==
    /\ rst[r] = "idle" => rat[r] = "start"
    /\ rat[r] \in {"start", "show"} => push[r].at = "none"
    /\ rat[r] \notin {"start", "done"} => inst[r].data \in StoredInstance
    /\ push[r].at # "none" => inst[r].data \in StoredInstance
    /\ push[r].at \in {"none", "card", "send"} => push[r].result = "none"
    /\ rat[r] = "journal" => push[r].at = "done"
    /\ rat[r] \in {"list", "delete"} => absent[r] \/ push[r].at = "done"

\* A job that sent its VLAN still has it in NetBox, or has not settled, or a
\* Remove took it.
Kept(j) ==
    Sent(j) => \/ Present(j)
               \/ at[j] \in {"reply", "activate", "rollback", "rolledBack", "unreadable"}
               \/ \E r \in RemoveJobs : Deleted(r) /\ found[r] = j

\* Whatever the switch holds, running or saved, some Add sent it.
Placed == \A v \in Vids : (running[v] # None \/ startup[v] # None)
                              => \E j \in AddJobs : Sent(j) /\ vid[j] = v

\* What the switch accepted it was told of.
Configured == \A j \in AddJobs : result[j] = "accepted" => OnSwitch(vid[j])

\* An instance describes the VLAN of an Add of its name, for good.
OfName(n, d) ==
    /\ at[d.id] \notin BeforeReserve /\ req[d.id].name = n /\ vid[d.id] = d.vid
    /\ d.status = "active" => result[d.id] = "accepted"
Described ==
    /\ \A n \in Names : lcm[n].data = "stored" => OfName(n, lcm[n])
    /\ \A j \in AddJobs : at[j] = "noop" => OfName(req[j].name, seen[j])

\* The state of the change follows from where the job is.
ChangeOK(j) ==
    /\ at[j] \in {"start", "open"} => chg[j] = "none"
    /\ at[j] = "schedule"  => chg[j] \in {"New", "Scheduled"} /\ req[j].change
    /\ at[j] = "implement" => chg[j] \in {"Scheduled", "Implement"} /\ req[j].change
    /\ at[j] = "review"    => chg[j] \in {"Implement", "Review"} /\ req[j].change
    /\ at[j] = "close"     => chg[j] \in {"Review", "Closed"} /\ req[j].change
    /\ at[j] = "open"      => req[j].change
    /\ at[j] \notin {"start", "open", "schedule", "implement", "review", "close", "publish", "done"}
          => chg[j] = IF req[j].change THEN "Implement" ELSE "none"
    /\ at[j] \in {"publish", "done"}
          => \/ ~req[j].change /\ chg[j] = "none"
             \/ req[j].change /\ chg[j] = "Implement" /\ at[j] = "done" /\ ~Sent(j)
             \/ req[j].change /\ chg[j] = "Closed" /\ result[j] = "accepted"

\* The inductive invariant: it holds at first and every step keeps it, and the
\* safety invariants above follow from it. It ties where each job of the
\* generated workflows is to what NetBox, the switch, ServiceNow and Lifecycle
\* Manager hold for it.
IInv ==
    /\ TypeOK
    /\ \A j \in AddJobs : JobOK(j) /\ Kept(j) /\ ChangeOK(j)
    /\ \A r \in RemoveJobs : RemoveOK(r)
    /\ Placed /\ Configured /\ Described
=============================================================================
