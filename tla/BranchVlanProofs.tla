--------------------------- MODULE BranchVlanProofs ---------------------------
(***************************************************************************)
(* Theorems about BranchVlan, for any number of jobs, names and VIDs. The  *)
(* argument is the inductive invariant IInv of BranchVlan, one lemma per   *)
(* conjunct and one step per action; the properties follow from it.        *)
(***************************************************************************)
EXTENDS BranchVlan, TLAPS

-----------------------------------------------------------------------------
\* Writing the fields of one push keeps every push a push
LEMMA PushAt ==
    ASSUME NEW f \in [RemoveJobs -> PushRecord], NEW r \in RemoveJobs, NEW t \in PushTask
    PROVE  [f EXCEPT ![r].at = t] \in [RemoveJobs -> PushRecord]
<1>1. [f[r] EXCEPT !.at = t] \in PushRecord
  BY DEF PushRecord
<1> QED
  BY <1>1

\* The same for the two fields that keep the answer of a push.
LEMMA PushAnswer ==
    ASSUME NEW f \in [RemoveJobs -> PushRecord], NEW r \in RemoveJobs, NEW t \in PushTask, NEW a \in Answer
    PROVE  [f EXCEPT ![r].result = a, ![r].at = t] \in [RemoveJobs -> PushRecord]
<1>1. [[f[r] EXCEPT !.result = a] EXCEPT !.at = t] \in PushRecord
  BY DEF PushRecord
<1> QED
  BY <1>1

\* The same for the three fields that report how a push ended.
LEMMA PushReport ==
    ASSUME NEW f \in [RemoveJobs -> PushRecord], NEW r \in RemoveJobs, NEW c \in BOOLEAN, NEW s \in BOOLEAN
    PROVE  [f EXCEPT ![r].at = "done", ![r].changed = c, ![r].saved = s] \in [RemoveJobs -> PushRecord]
<1>1. [[[f[r] EXCEPT !.at = "done"] EXCEPT !.changed = c] EXCEPT !.saved = s] \in PushRecord
  BY DEF PushRecord, PushTask
<1> QED
  BY <1>1

\* Every step of the branch-vlan service keeps the shape of every variable.
LEMMA TypeStep == IInv /\ [Next]_vars => TypeOK'
<1> SUFFICES ASSUME IInv, [Next]_vars PROVE TypeOK'
  OBVIOUS
<1>a. TypeOK /\ \A j \in AddJobs : JobOK(j)
  BY DEF IInv
<1>b. push \in [RemoveJobs -> PushRecord]
  BY <1>a DEF TypeOK
<1>c. \A r \in RemoveJobs, t \in PushTask : [push EXCEPT ![r].at = t] \in [RemoveJobs -> PushRecord]
  BY <1>b, PushAt
<1>d. \A r \in RemoveJobs, t \in PushTask, a \in Answer :
         [push EXCEPT ![r].result = a, ![r].at = t] \in [RemoveJobs -> PushRecord]
  BY <1>b, PushAnswer
<1> USE RequestAssumption, ReloadAssumption
<1> USE DEF TypeOK, AtAdd, GoAdd, Answered, StopsAdd, AtRemove, GoRemove, KeepInstance, ChangeState, AddTask, JobState, Answer, RemoveTask, PushTask, NoInstance, EmptyInstance, device, snow, addJob, removeJob
<1>1. ASSUME NEW j \in AddJobs, NEW q \in Requests, StartAdd(j, q) PROVE TypeOK'
  BY <1>1, <1>a DEF StartAdd
<1>2. ASSUME NEW j \in AddJobs, OpenChange(j) PROVE TypeOK'
  <2>1. CASE chg' = [chg EXCEPT ![j] = "New"] /\ Answered(j, "schedule") /\ UNCHANGED unowned
    BY <1>2, <1>a, <2>1 DEF OpenChange
  <2>2. CASE unowned' = unowned \cup {j} /\ StopsAdd(j) /\ UNCHANGED chg
    BY <1>2, <1>a, <2>2 DEF OpenChange
  <2> QED
    BY <1>2, <2>1, <2>2 DEF OpenChange
<1>3. ASSUME NEW j \in AddJobs, ScheduleChange(j) PROVE TypeOK'
  BY <1>3, <1>a DEF ScheduleChange, ChangeMoves
<1>4. ASSUME NEW j \in AddJobs, ImplementChange(j) PROVE TypeOK'
  BY <1>4, <1>a DEF ImplementChange, ChangeMoves
<1>5. ASSUME NEW j \in AddJobs, LookUp(j) PROVE TypeOK'
  <2>1. CASE NamedInNetBox(req[j].name) = {}
    BY <1>a, <1>5, <2>1 DEF LookUp
  <2>2. ASSUME NEW id \in NamedInNetBox(req[j].name),
               vid' = [vid EXCEPT ![j] = vlans[id].vid],
               seen' = [seen EXCEPT ![j] = [data |-> "stored", vid |-> vlans[id].vid, id |-> id,
                                              status |-> vlans[id].status]],
               GoAdd(j, "noop")
        PROVE  TypeOK'
    <3>1. id \in AddJobs /\ vlans[id] \in VlanRecord
      BY <1>a DEF NamedInNetBox, Present
    <3>2. vlans[id].vid \in Vids /\ seen'[j] \in StoredInstance
      BY <1>a, <2>2, <3>1 DEF VlanRecord, StoredInstance
    <3> QED
      BY <1>a, <1>5, <2>2, <3>2 DEF LookUp
  <2> QED
    BY <1>5, <2>1, <2>2 DEF LookUp
<1>6. ASSUME NEW j \in AddJobs, NoopEnds(j) PROVE TypeOK'
  <2>1. seen[j] \in StoredInstance
    BY <1>a, <1>6 DEF NoopEnds, JobOK
  <2>2. req[j] \in Requests
    BY <1>a, <1>6 DEF NoopEnds, JobOK
  <2> QED
    BY <1>a, <1>6, <2>1, <2>2 DEF NoopEnds, AddEnds
<1>7. ASSUME NEW j \in AddJobs, ListGroup(j) PROVE TypeOK'
  BY <1>7, <1>a DEF ListGroup, NextFreeVid
<1>8. ASSUME NEW j \in AddJobs, Reserve(j) PROVE TypeOK'
  <2>1. vid[j] \in Vids /\ req[j] \in Requests
    BY <1>a, <1>8 DEF Reserve, JobOK
  <2>2. [vid |-> vid[j], name |-> req[j].name, status |-> "reserved"] \in VlanRecord
    BY <2>1 DEF VlanRecord
  <2>3. vlans' \in [AddJobs -> VlanRecord \cup {None}]
    BY <1>a, <1>8, <2>2 DEF Reserve
  <2>4. at' \in [AddJobs -> AddTask] /\ st' \in [AddJobs -> JobState]
    BY <1>a, <1>8 DEF Reserve
  <2> QED
    BY <1>a, <1>8, <2>3, <2>4 DEF Reserve
<1>9. ASSUME NEW j \in AddJobs, NoteReservation(j) PROVE TypeOK'
  BY <1>9, <1>a DEF NoteReservation
<1>10. ASSUME NEW j \in AddJobs, SendVlan(j) PROVE TypeOK'
  <2> PICK answer \in Answer \ {"none"} :
         /\ result' = [result EXCEPT ![j] = answer]
         /\ running' \in AfterConfig(vid[j], req[j].name, answer)
         /\ GoAdd(j, IF answer \in {"threw", "failed"} THEN "rollback" ELSE "reply")
    BY <1>10 DEF SendVlan
  <2>1. req[j].name \in Names
    BY <1>a, <1>10 DEF SendVlan, JobOK
  <2>2. running' \in [Vids -> Names \cup {None, Unnamed}]
    BY <1>a, <2>1 DEF AfterConfig
  <2>3. at' \in [AddJobs -> AddTask] /\ result' \in [AddJobs -> Answer]
    BY <1>a
  <2> QED
    BY <1>a, <1>10, <2>2, <2>3 DEF SendVlan
<1>11. ASSUME NEW j \in AddJobs, ReadReply(j) PROVE TypeOK'
  BY <1>11, <1>a DEF ReadReply
<1>12. ASSUME NEW j \in AddJobs, Activate(j) PROVE TypeOK'
  <2>1. [vlans[j] EXCEPT !.status = "active"] \in VlanRecord
    BY <1>a, <1>12 DEF Activate, Present, VlanRecord
  <2> QED
    BY <1>a, <1>12, <2>1 DEF Activate
<1>13. ASSUME NEW j \in AddJobs, JournalAdd(j) PROVE TypeOK'
  BY <1>13, <1>a DEF JournalAdd
<1>14. ASSUME NEW j \in AddJobs, ReviewChange(j) PROVE TypeOK'
  BY <1>14, <1>a DEF ReviewChange, ChangeMoves
<1>15. ASSUME NEW j \in AddJobs, CloseChange(j) PROVE TypeOK'
  BY <1>15, <1>a DEF CloseChange, ChangeMoves
<1>16. ASSUME NEW j \in AddJobs, Publish(j) PROVE TypeOK'
  <2>1. vid[j] \in Vids /\ req[j] \in Requests
    BY <1>a, <1>16 DEF Publish, JobOK, BeforeReserve
  <2>2. [data |-> "stored", vid |-> vid[j], id |-> j, status |-> "active"] \in StoredInstance
    BY <2>1 DEF StoredInstance
  <2> QED
    BY <1>a, <1>16, <2>1, <2>2 DEF Publish, AddEnds
<1>17. ASSUME NEW j \in AddJobs, Rollback(j) PROVE TypeOK'
  BY <1>17, <1>a DEF Rollback
<1>18. ASSUME NEW j \in AddJobs, AddCallFails(j) PROVE TypeOK'
  BY <1>18, <1>a DEF AddCallFails, AddDeadEnds
<1>19. ASSUME NEW j \in AddJobs, DecideForm(j) PROVE TypeOK'
  BY <1>19, <1>a DEF DecideForm
<1>20. ASSUME NEW j \in AddJobs, RetryAdd(j) PROVE TypeOK'
  BY <1>20, <1>a DEF RetryAdd, AddDeadEnds
<1>21. ASSUME NEW j \in AddJobs, CancelAdd(j) PROVE TypeOK'
  BY <1>21, <1>a DEF CancelAdd
<1>22. ASSUME NEW r \in RemoveJobs, NEW n \in Names, StartRemove(r, n) PROVE TypeOK'
  <2>1. [name |-> n, data |-> lcm[n]] \in [name : Names, data : StoredInstance \cup {EmptyInstance}]
    BY <1>a, <1>22 DEF StartRemove
  <2>2. lcm' \in [Names -> StoredInstance \cup {NoInstance, EmptyInstance}]
    BY <1>a, <1>22 DEF StartRemove
  <2>3. /\ rat' = [rat EXCEPT ![r] = "done"] \/ rat' = [rat EXCEPT ![r] = "show"]
        /\ rst' = [rst EXCEPT ![r] = "complete"] \/ rst' = [rst EXCEPT ![r] = "running"]
    BY <1>22, Zenon DEF StartRemove
  <2>4. rat' \in [RemoveJobs -> RemoveTask]
    <3>1. rat \in [RemoveJobs -> RemoveTask] /\ {"done", "show"} \subseteq RemoveTask
      BY <1>a
    <3> HIDE DEF RemoveTask
    <3> QED
      BY <2>3, <3>1
  <2>5. rst' \in [RemoveJobs -> JobState]
    <3>1. rst \in [RemoveJobs -> JobState] /\ {"complete", "running"} \subseteq JobState
      BY <1>a
    <3> HIDE DEF JobState
    <3> QED
      BY <2>3, <3>1
  <2> QED
    BY <1>a, <1>22, <2>1, <2>2, <2>4, <2>5 DEF StartRemove
<1>23. ASSUME NEW r \in RemoveJobs, ShowVlan(r) PROVE TypeOK'
  <2>1. push' \in [RemoveJobs -> PushRecord]
    <3>1. push' = push \/ push' = [push EXCEPT ![r].at = "card"]
      BY <1>23, Zenon DEF ShowVlan
    <3>2. [push EXCEPT ![r].at = "card"] \in [RemoveJobs -> PushRecord]
      BY <1>c
    <3> QED
      BY ONLY <1>b, <3>1, <3>2
  <2>2. /\ absent' = [absent EXCEPT ![r] = TRUE] \/ absent' = absent
        /\ rat' = [rat EXCEPT ![r] = "list"] \/ rat' = [rat EXCEPT ![r] = "wait"]
    BY <1>23, Zenon DEF ShowVlan
  <2>3. absent' \in [RemoveJobs -> BOOLEAN]
    BY <1>a, <2>2
  <2>4. rat' \in [RemoveJobs -> RemoveTask]
    <3>1. rat \in [RemoveJobs -> RemoveTask] /\ {"list", "wait"} \subseteq RemoveTask
      BY <1>a
    <3> HIDE DEF RemoveTask
    <3> QED
      BY <2>2, <3>1
  <2> QED
    BY <1>a, <1>23, <2>1, <2>3, <2>4 DEF ShowVlan
<1>24. ASSUME NEW r \in RemoveJobs, SendPush(r) PROVE TypeOK'
  <2> PICK answer \in Answer \ {"none", "unnamed"} :
         /\ running' \in AfterConfig(inst[r].data.vid, None, answer)
         /\ push' = [push EXCEPT ![r].result = answer,
                                 ![r].at = IF answer \in {"threw", "failed"} THEN "done" ELSE "reply"]
    BY <1>24 DEF SendPush
  <2>1. running' \in [Vids -> Names \cup {None, Unnamed}]
    BY <1>a DEF AfterConfig
  <2>2. push' \in [RemoveJobs -> PushRecord]
    BY <1>d
  <2> QED
    BY <1>a, <1>24, <2>1, <2>2 DEF SendPush
<1>25. ASSUME NEW r \in RemoveJobs, ReadPushReply(r) PROVE TypeOK'
  <2>1. push' \in [RemoveJobs -> PushRecord]
    <3>1. CASE push' = [push EXCEPT ![r].at = "save"]
      BY <1>a, <3>1, PushAt
    <3>2. CASE PushEnds(r, FALSE, FALSE)
      BY <1>a, <3>2, PushReport DEF PushEnds
    <3> QED
      BY <1>25, <3>1, <3>2 DEF ReadPushReply
  <2> QED
    BY <1>a, <1>25, <2>1 DEF ReadPushReply
<1>26. ASSUME NEW r \in RemoveJobs, SavePush(r) PROVE TypeOK'
  <2> PICK saved \in BOOLEAN : /\ PushEnds(r, TRUE, saved)
                               /\ startup' \in IF saved THEN {running} ELSE {startup, running}
    BY <1>26 DEF SavePush
  <2>1. push' \in [RemoveJobs -> PushRecord]
    BY <1>a, PushReport DEF PushEnds
  <2>2. startup' \in [Vids -> Names \cup {None, Unnamed}]
    BY <1>a
  <2> QED
    BY <1>a, <1>26, <2>1, <2>2 DEF SavePush
<1>27. ASSUME NEW r \in RemoveJobs, ChildEnds(r) PROVE TypeOK'
  BY <1>27, <1>a DEF ChildEnds
<1>28. ASSUME NEW r \in RemoveJobs, JournalRemove(r) PROVE TypeOK'
  BY <1>28, <1>a DEF JournalRemove
<1>29. ASSUME NEW r \in RemoveJobs, ListVlan(r) PROVE TypeOK'
  <2>1. CASE NamedInNetBox(inst[r].name) = {}
    BY <1>a, <1>29, <2>1 DEF ListVlan
  <2>2. ASSUME NEW id \in NamedInNetBox(inst[r].name),
               found' = [found EXCEPT ![r] = id], GoRemove(r, "delete")
        PROVE  TypeOK'
    <3>1. id \in AddJobs
      BY DEF NamedInNetBox
    <3> QED
      BY <1>a, <1>29, <2>2, <3>1 DEF ListVlan
  <2> QED
    BY <1>29, <2>1, <2>2 DEF ListVlan
<1>30. ASSUME NEW r \in RemoveJobs, DeleteVlan(r) PROVE TypeOK'
  BY <1>30, <1>a DEF DeleteVlan
<1>31. ASSUME NEW r \in RemoveJobs, PublishRemove(r) PROVE TypeOK'
  BY <1>31, <1>a DEF PublishRemove
<1>32. ASSUME NEW r \in RemoveJobs, RemoveCallFails(r) PROVE TypeOK'
  BY <1>32, <1>a DEF RemoveCallFails, RemoveDeadEnds
<1>33. ASSUME NEW r \in RemoveJobs, DecidePush(r) PROVE TypeOK'
  <2>1. push' \in [RemoveJobs -> PushRecord]
    <3> PICK t \in {"send", "rejected"} : push' = [push EXCEPT ![r].at = t]
      BY <1>33 DEF DecidePush
    <3> QED
      BY <1>c
  <2> QED
    BY <1>a, <1>33, <2>1 DEF DecidePush
<1>34. ASSUME NEW r \in RemoveJobs, RetryRemove(r) PROVE TypeOK'
  BY <1>34, <1>a DEF RetryRemove
<1>35. ASSUME NEW r \in RemoveJobs, CancelRemove(r) PROVE TypeOK'
  BY <1>35, <1>a DEF CancelRemove
<1>36. ASSUME NEW n \in Names, ImportInstance(n) PROVE TypeOK'
  <2> PICK id \in NamedInNetBox(n) :
         KeepInstance(n, [data |-> "stored", vid |-> vlans[id].vid, id |-> id, status |-> vlans[id].status])
    BY <1>36 DEF ImportInstance
  <2>1. id \in AddJobs /\ vlans[id] \in VlanRecord
    BY <1>a DEF NamedInNetBox, Present
  <2>2. [data |-> "stored", vid |-> vlans[id].vid, id |-> id, status |-> vlans[id].status] \in StoredInstance
    BY <2>1 DEF VlanRecord, StoredInstance
  <2> QED
    BY <1>a, <1>36, <2>2 DEF ImportInstance
<1>37. ASSUME Reload PROVE TypeOK'
  BY <1>37, <1>a DEF Reload
<1>38. CASE UNCHANGED vars
  BY <1>38, <1>a DEF vars, device, snow, addJob, removeJob
<1> QED
  BY <1>1, <1>2, <1>3, <1>4, <1>5, <1>6, <1>7, <1>8, <1>9, <1>10, <1>11, <1>12, <1>13, <1>14, <1>15, <1>16, <1>17, <1>18, <1>19, <1>20, <1>21, <1>22, <1>23, <1>24, <1>25, <1>26, <1>27, <1>28, <1>29, <1>30, <1>31, <1>32, <1>33, <1>34, <1>35, <1>36, <1>37, <1>38
  DEF Next, AddStep, RemoveStep

-----------------------------------------------------------------------------
\* What of TypeOK the other invariants need: which function each variable is
Functions ==
    /\ vlans \in [AddJobs -> VlanRecord \cup {None}]
    /\ running \in [Vids -> Names \cup {None, Unnamed}]
    /\ startup \in [Vids -> Names \cup {None, Unnamed}]
    /\ chg \in [AddJobs -> ChangeState]
    /\ at \in [AddJobs -> AddTask] /\ st \in [AddJobs -> JobState]
    /\ req \in [AddJobs -> Requests \cup {None}]
    /\ vid \in [AddJobs -> Vids \cup {NoVid}]
    /\ result \in [AddJobs -> Answer] /\ seen \in [AddJobs -> StoredInstance \cup {None}]

\* What the other steps need of the shapes: each variable is a function.
LEMMA FunctionsOfType == TypeOK => Functions
  BY DEF TypeOK, Functions

\* Every step keeps where an Add is in line with what it has done (JobOK).
LEMMA JobStep == IInv /\ [Next]_vars => \A k \in AddJobs : JobOK(k)'
<1> SUFFICES ASSUME IInv, [Next]_vars, NEW k \in AddJobs PROVE JobOK(k)'
  OBVIOUS
<1>a. Functions /\ (\A j \in AddJobs : JobOK(j)) /\ JobOK(k)
  BY FunctionsOfType DEF IInv
<1> USE DEF Functions, JobOK, Present, Sent, BeforeReserve, BeforeSend, AfterAccept, AtAdd, GoAdd, Answered, StopsAdd, device, snow, addJob, removeJob
<1>1. ASSUME NEW j \in AddJobs, NEW q \in Requests, StartAdd(j, q) PROVE JobOK(k)'
  BY <1>1, <1>a DEF StartAdd
<1>2. ASSUME NEW j \in AddJobs, OpenChange(j) PROVE JobOK(k)'
  BY <1>2, <1>a DEF OpenChange
<1>3. ASSUME NEW j \in AddJobs, ScheduleChange(j) PROVE JobOK(k)'
  BY <1>3, <1>a DEF ScheduleChange, ChangeMoves
<1>4. ASSUME NEW j \in AddJobs, ImplementChange(j) PROVE JobOK(k)'
  BY <1>4, <1>a DEF ImplementChange, ChangeMoves
<1>5. ASSUME NEW j \in AddJobs, LookUp(j) PROVE JobOK(k)'
  <2>1. CASE NamedInNetBox(req[j].name) = {}
    BY <1>a, <1>5, <2>1 DEF LookUp
  <2>2. ASSUME NEW id \in NamedInNetBox(req[j].name),
               vid' = [vid EXCEPT ![j] = vlans[id].vid],
               seen' = [seen EXCEPT ![j] = [data |-> "stored", vid |-> vlans[id].vid, id |-> id,
                                              status |-> vlans[id].status]],
               GoAdd(j, "noop")
        PROVE  JobOK(k)'
    <3>1. id \in AddJobs /\ vlans[id] \in VlanRecord
      BY <1>a DEF NamedInNetBox
    <3>2. vlans[id].vid \in Vids /\ seen'[j] \in StoredInstance
      BY <1>a, <2>2, <3>1 DEF VlanRecord, StoredInstance
    <3> QED
      BY <1>a, <1>5, <2>2, <3>2 DEF LookUp
  <2> QED
    BY <1>5, <2>1, <2>2 DEF LookUp
<1>6. ASSUME NEW j \in AddJobs, NoopEnds(j) PROVE JobOK(k)'
  BY <1>6, <1>a DEF NoopEnds, AddEnds
<1>7. ASSUME NEW j \in AddJobs, ListGroup(j) PROVE JobOK(k)'
  BY <1>7, <1>a DEF ListGroup
<1>8. ASSUME NEW j \in AddJobs, Reserve(j) PROVE JobOK(k)'
  BY <1>8, <1>a DEF Reserve
<1>9. ASSUME NEW j \in AddJobs, NoteReservation(j) PROVE JobOK(k)'
  BY <1>9, <1>a DEF NoteReservation
<1>10. ASSUME NEW j \in AddJobs, SendVlan(j) PROVE JobOK(k)'
  <2>1. PICK answer \in Answer \ {"none"} :
         /\ result' = [result EXCEPT ![j] = answer]
         /\ GoAdd(j, IF answer \in {"threw", "failed"} THEN "rollback" ELSE "reply")
    BY <1>10 DEF SendVlan
  <2> QED
    BY <1>a, <2>1, <1>10 DEF SendVlan
<1>11. ASSUME NEW j \in AddJobs, ReadReply(j) PROVE JobOK(k)'
  BY <1>11, <1>a DEF ReadReply
<1>12. ASSUME NEW j \in AddJobs, Activate(j) PROVE JobOK(k)'
  BY <1>12, <1>a DEF Activate
<1>13. ASSUME NEW j \in AddJobs, JournalAdd(j) PROVE JobOK(k)'
  BY <1>13, <1>a DEF JournalAdd
<1>14. ASSUME NEW j \in AddJobs, ReviewChange(j) PROVE JobOK(k)'
  BY <1>14, <1>a DEF ReviewChange, ChangeMoves
<1>15. ASSUME NEW j \in AddJobs, CloseChange(j) PROVE JobOK(k)'
  BY <1>15, <1>a DEF CloseChange, ChangeMoves
<1>16. ASSUME NEW j \in AddJobs, Publish(j) PROVE JobOK(k)'
  BY <1>16, <1>a DEF Publish, AddEnds
<1>17. ASSUME NEW j \in AddJobs, Rollback(j) PROVE JobOK(k)'
  BY <1>17, <1>a DEF Rollback
<1>18. ASSUME NEW j \in AddJobs, AddCallFails(j) PROVE JobOK(k)'
  BY <1>18, <1>a DEF AddCallFails, AddDeadEnds
<1>19. ASSUME NEW j \in AddJobs, DecideForm(j) PROVE JobOK(k)'
  BY <1>19, <1>a DEF DecideForm
<1>20. ASSUME NEW j \in AddJobs, RetryAdd(j) PROVE JobOK(k)'
  BY <1>20, <1>a DEF RetryAdd, AddDeadEnds
<1>21. ASSUME NEW j \in AddJobs, CancelAdd(j) PROVE JobOK(k)'
  BY <1>21, <1>a DEF CancelAdd
<1>22. ASSUME NEW r \in RemoveJobs, NEW n \in Names, StartRemove(r, n) PROVE JobOK(k)'
  BY <1>22, <1>a DEF StartRemove
<1>23. ASSUME NEW r \in RemoveJobs, ShowVlan(r) PROVE JobOK(k)'
  BY <1>a, <1>23 DEF ShowVlan
<1>24. ASSUME NEW r \in RemoveJobs, SendPush(r) PROVE JobOK(k)'
  BY <1>a, <1>24 DEF SendPush
<1>25. ASSUME NEW r \in RemoveJobs, ReadPushReply(r) PROVE JobOK(k)'
  BY <1>a, <1>25 DEF ReadPushReply
<1>26. ASSUME NEW r \in RemoveJobs, SavePush(r) PROVE JobOK(k)'
  BY <1>a, <1>26 DEF SavePush
<1>27. ASSUME NEW r \in RemoveJobs, ChildEnds(r) PROVE JobOK(k)'
  BY <1>a, <1>27 DEF ChildEnds
<1>28. ASSUME NEW r \in RemoveJobs, JournalRemove(r) PROVE JobOK(k)'
  BY <1>a, <1>28 DEF JournalRemove
<1>29. ASSUME NEW r \in RemoveJobs, ListVlan(r) PROVE JobOK(k)'
  BY <1>a, <1>29 DEF ListVlan
<1>30. ASSUME NEW r \in RemoveJobs, DeleteVlan(r) PROVE JobOK(k)'
  BY <1>30, <1>a DEF DeleteVlan
<1>31. ASSUME NEW r \in RemoveJobs, PublishRemove(r) PROVE JobOK(k)'
  BY <1>a, <1>31 DEF PublishRemove
<1>32. ASSUME NEW r \in RemoveJobs, RemoveCallFails(r) PROVE JobOK(k)'
  BY <1>a, <1>32 DEF RemoveCallFails
<1>33. ASSUME NEW r \in RemoveJobs, DecidePush(r) PROVE JobOK(k)'
  BY <1>a, <1>33 DEF DecidePush
<1>34. ASSUME NEW r \in RemoveJobs, RetryRemove(r) PROVE JobOK(k)'
  BY <1>a, <1>34 DEF RetryRemove
<1>35. ASSUME NEW r \in RemoveJobs, CancelRemove(r) PROVE JobOK(k)'
  BY <1>a, <1>35 DEF CancelRemove
<1>36. ASSUME NEW n \in Names, ImportInstance(n) PROVE JobOK(k)'
  BY <1>36, <1>a DEF ImportInstance
<1>37. ASSUME Reload PROVE JobOK(k)'
  BY <1>37, <1>a DEF Reload
<1>38. CASE UNCHANGED vars
  BY <1>38, <1>a DEF vars, device, snow, addJob, removeJob
<1> QED
  BY <1>1, <1>2, <1>3, <1>4, <1>5, <1>6, <1>7, <1>8, <1>9, <1>10, <1>11, <1>12, <1>13, <1>14, <1>15, <1>16, <1>17, <1>18, <1>19, <1>20, <1>21, <1>22, <1>23, <1>24, <1>25, <1>26, <1>27, <1>28, <1>29, <1>30, <1>31, <1>32, <1>33, <1>34, <1>35, <1>36, <1>37, <1>38
  DEF Next, AddStep, RemoveStep

-----------------------------------------------------------------------------
\* Every step keeps a Remove's instance and what it found (RemoveOK).
LEMMA RemoveJobStep == IInv /\ [Next]_vars => \A k \in RemoveJobs : RemoveOK(k)'
<1> SUFFICES ASSUME IInv, [Next]_vars, NEW k \in RemoveJobs PROVE RemoveOK(k)'
  OBVIOUS
<1>a. TypeOK /\ (\A r \in RemoveJobs : RemoveOK(r)) /\ RemoveOK(k)
  BY DEF IInv
<1>b. /\ rat \in [RemoveJobs -> RemoveTask] /\ rst \in [RemoveJobs -> JobState]
      /\ found \in [RemoveJobs -> AddJobs \cup {None}] /\ push \in [RemoveJobs -> PushRecord]
      /\ inst \in [RemoveJobs -> [name : Names, data : StoredInstance \cup {EmptyInstance}] \cup {None}]
      /\ absent \in [RemoveJobs -> BOOLEAN]
      /\ lcm \in [Names -> StoredInstance \cup {NoInstance, EmptyInstance}]
  BY <1>a DEF TypeOK
<1> USE DEF RemoveOK, AtRemove, GoRemove, PushIs, device, snow, addJob, removeJob
<1>1. ASSUME NEW j \in AddJobs, NEW q \in Requests, StartAdd(j, q) PROVE RemoveOK(k)'
  BY <1>a, <1>1 DEF StartAdd
<1>2. ASSUME NEW j \in AddJobs, OpenChange(j) PROVE RemoveOK(k)'
  BY <1>a, <1>2 DEF OpenChange
<1>3. ASSUME NEW j \in AddJobs, ScheduleChange(j) PROVE RemoveOK(k)'
  BY <1>a, <1>3 DEF ScheduleChange, ChangeMoves
<1>4. ASSUME NEW j \in AddJobs, ImplementChange(j) PROVE RemoveOK(k)'
  BY <1>a, <1>4 DEF ImplementChange, ChangeMoves
<1>5. ASSUME NEW j \in AddJobs, LookUp(j) PROVE RemoveOK(k)'
  BY <1>a, <1>5 DEF LookUp
<1>6. ASSUME NEW j \in AddJobs, NoopEnds(j) PROVE RemoveOK(k)'
  BY <1>a, <1>6 DEF NoopEnds, AddEnds
<1>7. ASSUME NEW j \in AddJobs, ListGroup(j) PROVE RemoveOK(k)'
  BY <1>a, <1>7 DEF ListGroup
<1>8. ASSUME NEW j \in AddJobs, Reserve(j) PROVE RemoveOK(k)'
  BY <1>a, <1>8 DEF Reserve
<1>9. ASSUME NEW j \in AddJobs, NoteReservation(j) PROVE RemoveOK(k)'
  BY <1>a, <1>9 DEF NoteReservation
<1>10. ASSUME NEW j \in AddJobs, SendVlan(j) PROVE RemoveOK(k)'
  BY <1>a, <1>10 DEF SendVlan
<1>11. ASSUME NEW j \in AddJobs, ReadReply(j) PROVE RemoveOK(k)'
  BY <1>a, <1>11 DEF ReadReply
<1>12. ASSUME NEW j \in AddJobs, Activate(j) PROVE RemoveOK(k)'
  BY <1>a, <1>12 DEF Activate
<1>13. ASSUME NEW j \in AddJobs, JournalAdd(j) PROVE RemoveOK(k)'
  BY <1>a, <1>13 DEF JournalAdd
<1>14. ASSUME NEW j \in AddJobs, ReviewChange(j) PROVE RemoveOK(k)'
  BY <1>a, <1>14 DEF ReviewChange, ChangeMoves
<1>15. ASSUME NEW j \in AddJobs, CloseChange(j) PROVE RemoveOK(k)'
  BY <1>a, <1>15 DEF CloseChange, ChangeMoves
<1>16. ASSUME NEW j \in AddJobs, Publish(j) PROVE RemoveOK(k)'
  BY <1>a, <1>16 DEF Publish, AddEnds
<1>17. ASSUME NEW j \in AddJobs, Rollback(j) PROVE RemoveOK(k)'
  BY <1>a, <1>17 DEF Rollback
<1>18. ASSUME NEW j \in AddJobs, AddCallFails(j) PROVE RemoveOK(k)'
  BY <1>a, <1>18 DEF AddCallFails, AddDeadEnds
<1>19. ASSUME NEW j \in AddJobs, DecideForm(j) PROVE RemoveOK(k)'
  BY <1>a, <1>19 DEF DecideForm
<1>20. ASSUME NEW j \in AddJobs, RetryAdd(j) PROVE RemoveOK(k)'
  BY <1>a, <1>20 DEF RetryAdd, AddDeadEnds
<1>21. ASSUME NEW j \in AddJobs, CancelAdd(j) PROVE RemoveOK(k)'
  BY <1>a, <1>21 DEF CancelAdd
<1>22. ASSUME NEW r \in RemoveJobs, NEW n \in Names, StartRemove(r, n) PROVE RemoveOK(k)'
  <2>1. lcm[n] # EmptyInstance => lcm[n] \in StoredInstance
    BY <1>b, <1>22 DEF StartRemove
  <2>2. inst'[r].data = lcm[n] /\ push[r].at = "none" /\ push' = push
    BY <1>a, <1>b, <1>22 DEF StartRemove
  <2> QED
    BY <1>a, <1>b, <2>1, <2>2, <1>22 DEF StartRemove
<1>23. ASSUME NEW r \in RemoveJobs, ShowVlan(r) PROVE RemoveOK(k)'
  <2>1. \/ push' = push /\ rat' = [rat EXCEPT ![r] = "list"] /\ absent' = [absent EXCEPT ![r] = TRUE]
        \/ push' = [push EXCEPT ![r].at = "card"] /\ rat' = [rat EXCEPT ![r] = "wait"] /\ absent' = absent
    BY <1>23, Zenon DEF ShowVlan
  <2>2. UNCHANGED <<rst, inst, found>> /\ rat[r] = "show" /\ rst[r] = "running"
    BY <1>23 DEF ShowVlan
  <2>3. CASE k # r
    BY <1>a, <1>b, <2>1, <2>2, <2>3
  <2>4. CASE k = r
    BY <1>a, <1>b, <2>1, <2>2, <2>4 DEF PushRecord
  <2> QED
    BY <2>3, <2>4
<1>24. ASSUME NEW r \in RemoveJobs, SendPush(r) PROVE RemoveOK(k)'
  <2>1. PICK answer \in Answer, t \in {"done", "reply"} :
         push' = [push EXCEPT ![r].result = answer, ![r].at = t]
    BY <1>24 DEF SendPush
  <2>2. UNCHANGED <<rat, rst, inst, found, absent>> /\ push[r].at = "send"
    BY <1>24 DEF SendPush
  <2>3. CASE k # r
    BY <1>a, <1>b, <2>1, <2>2, <2>3
  <2>4. CASE k = r
    <3>1. push'[r].at = t
      BY <1>b, <2>1 DEF PushRecord
    <3> QED
      BY <1>a, <2>1, <2>2, <2>4, <3>1
  <2> QED
    BY <2>3, <2>4
<1>25. ASSUME NEW r \in RemoveJobs, ReadPushReply(r) PROVE RemoveOK(k)'
  <2>1. push'[r].at \in {"save", "done"} /\ \A q \in RemoveJobs \ {r} : push'[q] = push[q]
    BY <1>b, <1>25 DEF ReadPushReply, PushEnds, PushRecord
  <2>2. UNCHANGED <<rat, rst, inst, found, absent>> /\ push[r].at = "reply"
    BY <1>25 DEF ReadPushReply
  <2> QED
    BY <1>a, <2>1, <2>2
<1>26. ASSUME NEW r \in RemoveJobs, SavePush(r) PROVE RemoveOK(k)'
  BY <1>a, <1>b, <1>26 DEF SavePush, PushEnds
<1>27. ASSUME NEW r \in RemoveJobs, ChildEnds(r) PROVE RemoveOK(k)'
  BY <1>a, <1>b, <1>27 DEF ChildEnds
<1>28. ASSUME NEW r \in RemoveJobs, JournalRemove(r) PROVE RemoveOK(k)'
  BY <1>a, <1>b, <1>28 DEF JournalRemove
<1>29. ASSUME NEW r \in RemoveJobs, ListVlan(r) PROVE RemoveOK(k)'
  <2>1. CASE NamedInNetBox(inst[r].name) = {}
    BY <1>a, <1>b, <2>1, <1>29 DEF ListVlan
  <2>2. ASSUME NEW id \in NamedInNetBox(inst[r].name),
               found' = [found EXCEPT ![r] = id], GoRemove(r, "delete")
        PROVE  RemoveOK(k)'
    <3>1. id \in AddJobs
      BY DEF NamedInNetBox
    <3> QED
      BY <1>a, <1>b, <1>29, <2>2, <3>1 DEF ListVlan
  <2> QED
    BY <1>29, <2>1, <2>2 DEF ListVlan
<1>30. ASSUME NEW r \in RemoveJobs, DeleteVlan(r) PROVE RemoveOK(k)'
  BY <1>a, <1>b, <1>30 DEF DeleteVlan
<1>31. ASSUME NEW r \in RemoveJobs, PublishRemove(r) PROVE RemoveOK(k)'
  BY <1>a, <1>b, <1>31 DEF PublishRemove
<1>32. ASSUME NEW r \in RemoveJobs, RemoveCallFails(r) PROVE RemoveOK(k)'
  BY <1>a, <1>b, <1>32 DEF RemoveCallFails, RemoveDeadEnds
<1>33. ASSUME NEW r \in RemoveJobs, DecidePush(r) PROVE RemoveOK(k)'
  BY <1>a, <1>b, <1>33 DEF DecidePush
<1>34. ASSUME NEW r \in RemoveJobs, RetryRemove(r) PROVE RemoveOK(k)'
  BY <1>a, <1>b, <1>34 DEF RetryRemove
<1>35. ASSUME NEW r \in RemoveJobs, CancelRemove(r) PROVE RemoveOK(k)'
  BY <1>a, <1>b, <1>35 DEF CancelRemove
<1>36. ASSUME NEW n \in Names, ImportInstance(n) PROVE RemoveOK(k)'
  BY <1>a, <1>36 DEF ImportInstance
<1>37. ASSUME Reload PROVE RemoveOK(k)'
  BY <1>a, <1>37 DEF Reload
<1>38. CASE UNCHANGED vars
  BY <1>a, <1>38 DEF vars
<1> QED
  BY <1>1, <1>2, <1>3, <1>4, <1>5, <1>6, <1>7, <1>8, <1>9, <1>10, <1>11, <1>12, <1>13, <1>14, <1>15, <1>16, <1>17, <1>18, <1>19, <1>20, <1>21, <1>22, <1>23, <1>24, <1>25, <1>26, <1>27, <1>28, <1>29, <1>30, <1>31, <1>32, <1>33, <1>34, <1>35, <1>36, <1>37, <1>38
  DEF Next, AddStep, RemoveStep

-----------------------------------------------------------------------------
\* Every step keeps a VLAN that was sent to the switch in NetBox, or its Add
\* unsettled, or a Remove that took it (Kept).
LEMMA KeptStep == IInv /\ [Next]_vars => \A k \in AddJobs : Kept(k)'
<1> SUFFICES ASSUME IInv, [Next]_vars, NEW k \in AddJobs PROVE Kept(k)'
  OBVIOUS
<1>a. /\ TypeOK /\ Functions /\ (\A j \in AddJobs : JobOK(j)) /\ Kept(k)
      /\ \A r \in RemoveJobs : RemoveOK(r)
  BY FunctionsOfType DEF IInv
<1>b. rat \in [RemoveJobs -> RemoveTask] /\ found \in [RemoveJobs -> AddJobs \cup {None}]
  BY <1>a DEF TypeOK
<1> USE NoneAssumption
<1> USE DEF Functions, Kept, Present, Sent, Deleted, AtAdd, GoAdd, Answered, StopsAdd, AtRemove, GoRemove, device, snow, addJob, removeJob
<1>1. ASSUME NEW j \in AddJobs, NEW q \in Requests, StartAdd(j, q) PROVE Kept(k)'
  BY <1>a, <1>1 DEF StartAdd, JobOK, BeforeSend, BeforeReserve
<1>2. ASSUME NEW j \in AddJobs, OpenChange(j) PROVE Kept(k)'
  BY <1>a, <1>2 DEF OpenChange, JobOK, BeforeSend, BeforeReserve
<1>3. ASSUME NEW j \in AddJobs, ScheduleChange(j) PROVE Kept(k)'
  BY <1>a, <1>3 DEF ScheduleChange, ChangeMoves, JobOK, BeforeSend, BeforeReserve
<1>4. ASSUME NEW j \in AddJobs, ImplementChange(j) PROVE Kept(k)'
  BY <1>a, <1>4 DEF ImplementChange, ChangeMoves, JobOK, BeforeSend, BeforeReserve
<1>5. ASSUME NEW j \in AddJobs, LookUp(j) PROVE Kept(k)'
  BY <1>a, <1>5 DEF LookUp, JobOK, BeforeSend, BeforeReserve
<1>6. ASSUME NEW j \in AddJobs, NoopEnds(j) PROVE Kept(k)'
  BY <1>a, <1>6 DEF NoopEnds, AddEnds, JobOK, BeforeSend, BeforeReserve
<1>7. ASSUME NEW j \in AddJobs, ListGroup(j) PROVE Kept(k)'
  BY <1>a, <1>7 DEF ListGroup, JobOK, BeforeSend, BeforeReserve
<1>8. ASSUME NEW j \in AddJobs, Reserve(j) PROVE Kept(k)'
  BY <1>a, <1>8 DEF Reserve, VlanRecord, JobOK, BeforeSend
<1>9. ASSUME NEW j \in AddJobs, NoteReservation(j) PROVE Kept(k)'
  BY <1>a, <1>9 DEF NoteReservation, JobOK, BeforeSend, BeforeReserve
<1>10. ASSUME NEW j \in AddJobs, SendVlan(j) PROVE Kept(k)'
  <2>1. PICK answer \in Answer \ {"none"} :
         /\ result' = [result EXCEPT ![j] = answer]
         /\ GoAdd(j, IF answer \in {"threw", "failed"} THEN "rollback" ELSE "reply")
    BY <1>10 DEF SendVlan
  <2> QED
    BY <1>a, <2>1, <1>10 DEF SendVlan
<1>11. ASSUME NEW j \in AddJobs, ReadReply(j) PROVE Kept(k)'
  BY <1>11, <1>a DEF ReadReply
<1>12. ASSUME NEW j \in AddJobs, Activate(j) PROVE Kept(k)'
  <2>1. [vlans[j] EXCEPT !.status = "active"] \in VlanRecord
    BY <1>a, <1>12 DEF Activate, VlanRecord
  <2> QED
    BY <1>a, <1>12, <2>1 DEF Activate
<1>13. ASSUME NEW j \in AddJobs, JournalAdd(j) PROVE Kept(k)'
  BY <1>13, <1>a DEF JournalAdd
<1>14. ASSUME NEW j \in AddJobs, ReviewChange(j) PROVE Kept(k)'
  BY <1>14, <1>a DEF ReviewChange, ChangeMoves
<1>15. ASSUME NEW j \in AddJobs, CloseChange(j) PROVE Kept(k)'
  BY <1>15, <1>a DEF CloseChange, ChangeMoves
<1>16. ASSUME NEW j \in AddJobs, Publish(j) PROVE Kept(k)'
  BY <1>16, <1>a DEF Publish, AddEnds
<1>17. ASSUME NEW j \in AddJobs, Rollback(j) PROVE Kept(k)'
  BY <1>17, <1>a DEF Rollback
<1>18. ASSUME NEW j \in AddJobs, AddCallFails(j) PROVE Kept(k)'
  BY <1>18, <1>a DEF AddCallFails, AddDeadEnds
<1>19. ASSUME NEW j \in AddJobs, DecideForm(j) PROVE Kept(k)'
  BY <1>a, <1>19 DEF DecideForm, JobOK, BeforeSend, BeforeReserve
<1>20. ASSUME NEW j \in AddJobs, RetryAdd(j) PROVE Kept(k)'
  BY <1>20, <1>a DEF RetryAdd, AddDeadEnds
<1>21. ASSUME NEW j \in AddJobs, CancelAdd(j) PROVE Kept(k)'
  BY <1>21, <1>a DEF CancelAdd
<1>22. ASSUME NEW r \in RemoveJobs, NEW n \in Names, StartRemove(r, n) PROVE Kept(k)'
  BY <1>a, <1>b, <1>22 DEF StartRemove, RemoveOK
<1>23. ASSUME NEW r \in RemoveJobs, ShowVlan(r) PROVE Kept(k)'
  BY <1>a, <1>b, <1>23 DEF ShowVlan
<1>24. ASSUME NEW r \in RemoveJobs, SendPush(r) PROVE Kept(k)'
  BY <1>a, <1>b, <1>24 DEF SendPush
<1>25. ASSUME NEW r \in RemoveJobs, ReadPushReply(r) PROVE Kept(k)'
  BY <1>a, <1>b, <1>25 DEF ReadPushReply
<1>26. ASSUME NEW r \in RemoveJobs, SavePush(r) PROVE Kept(k)'
  BY <1>a, <1>b, <1>26 DEF SavePush
<1>27. ASSUME NEW r \in RemoveJobs, ChildEnds(r) PROVE Kept(k)'
  BY <1>a, <1>b, <1>27 DEF ChildEnds
<1>28. ASSUME NEW r \in RemoveJobs, JournalRemove(r) PROVE Kept(k)'
  BY <1>a, <1>b, <1>28 DEF JournalRemove
<1>29. ASSUME NEW r \in RemoveJobs, ListVlan(r) PROVE Kept(k)'
  BY <1>a, <1>b, <1>29 DEF ListVlan
<1>30. ASSUME NEW r \in RemoveJobs, DeleteVlan(r) PROVE Kept(k)'
  BY <1>a, <1>b, <1>30 DEF DeleteVlan
<1>31. ASSUME NEW r \in RemoveJobs, PublishRemove(r) PROVE Kept(k)'
  BY <1>a, <1>b, <1>31 DEF PublishRemove
<1>32. ASSUME NEW r \in RemoveJobs, RemoveCallFails(r) PROVE Kept(k)'
  BY <1>a, <1>b, <1>32 DEF RemoveCallFails
<1>33. ASSUME NEW r \in RemoveJobs, DecidePush(r) PROVE Kept(k)'
  BY <1>a, <1>b, <1>33 DEF DecidePush
<1>34. ASSUME NEW r \in RemoveJobs, RetryRemove(r) PROVE Kept(k)'
  BY <1>a, <1>b, <1>34 DEF RetryRemove
<1>35. ASSUME NEW r \in RemoveJobs, CancelRemove(r) PROVE Kept(k)'
  BY <1>a, <1>b, <1>35 DEF CancelRemove
<1>36. ASSUME NEW n \in Names, ImportInstance(n) PROVE Kept(k)'
  BY <1>36, <1>a DEF ImportInstance
<1>37. ASSUME Reload PROVE Kept(k)'
  BY <1>37, <1>a DEF Reload
<1>38. CASE UNCHANGED vars
  BY <1>38, <1>a DEF vars, device, snow, addJob, removeJob
<1> QED
  BY <1>1, <1>2, <1>3, <1>4, <1>5, <1>6, <1>7, <1>8, <1>9, <1>10, <1>11, <1>12, <1>13, <1>14, <1>15, <1>16, <1>17, <1>18, <1>19, <1>20, <1>21, <1>22, <1>23, <1>24, <1>25, <1>26, <1>27, <1>28, <1>29, <1>30, <1>31, <1>32, <1>33, <1>34, <1>35, <1>36, <1>37, <1>38
  DEF Next, AddStep, RemoveStep

-----------------------------------------------------------------------------
\* Every step keeps what the switch holds, running and saved, some Add's (Placed).
LEMMA PlacedStep == IInv /\ [Next]_vars => Placed'
<1> SUFFICES ASSUME IInv, [Next]_vars PROVE Placed'
  OBVIOUS
<1>a. TypeOK /\ Functions /\ (\A j \in AddJobs : JobOK(j)) /\ Placed
  BY FunctionsOfType DEF IInv
<1> USE DEF Functions, Placed, Sent, AtAdd, GoAdd, Answered, StopsAdd, device, snow, addJob, removeJob
<1>1. ASSUME NEW j \in AddJobs, NEW q \in Requests, StartAdd(j, q) PROVE Placed'
  BY <1>1, <1>a DEF StartAdd
<1>2. ASSUME NEW j \in AddJobs, OpenChange(j) PROVE Placed'
  BY <1>2, <1>a DEF OpenChange
<1>3. ASSUME NEW j \in AddJobs, ScheduleChange(j) PROVE Placed'
  BY <1>3, <1>a DEF ScheduleChange, ChangeMoves
<1>4. ASSUME NEW j \in AddJobs, ImplementChange(j) PROVE Placed'
  BY <1>4, <1>a DEF ImplementChange, ChangeMoves
<1>5. ASSUME NEW j \in AddJobs, LookUp(j) PROVE Placed'
  <2>1. \A i \in AddJobs : Sent(i) => vid'[i] = vid[i]
    BY <1>a, <1>5 DEF LookUp, JobOK, BeforeSend, BeforeReserve
  <2>2. running' = running /\ startup' = startup /\ result' = result
    BY <1>5 DEF LookUp
  <2> QED
    BY <1>a, <2>1, <2>2
<1>6. ASSUME NEW j \in AddJobs, NoopEnds(j) PROVE Placed'
  BY <1>6, <1>a DEF NoopEnds, AddEnds
<1>7. ASSUME NEW j \in AddJobs, ListGroup(j) PROVE Placed'
  <2>1. \A i \in AddJobs : Sent(i) => vid'[i] = vid[i]
    BY <1>a, <1>7 DEF ListGroup, JobOK, BeforeSend, BeforeReserve
  <2>2. running' = running /\ startup' = startup /\ result' = result
    BY <1>7 DEF ListGroup
  <2> QED
    BY <1>a, <2>1, <2>2
<1>8. ASSUME NEW j \in AddJobs, Reserve(j) PROVE Placed'
  BY <1>8, <1>a DEF Reserve
<1>9. ASSUME NEW j \in AddJobs, NoteReservation(j) PROVE Placed'
  BY <1>9, <1>a DEF NoteReservation
<1>10. ASSUME NEW j \in AddJobs, SendVlan(j) PROVE Placed'
  <2>1. PICK answer \in Answer \ {"none"} :
         /\ result' = [result EXCEPT ![j] = answer]
         /\ running' \in AfterConfig(vid[j], req[j].name, answer)
    BY <1>10 DEF SendVlan
  <2>2. \A v \in Vids \ {vid[j]} : running'[v] = running[v]
    BY <1>a, <2>1 DEF AfterConfig
  <2>3. startup' = startup /\ vid' = vid
    BY <1>10 DEF SendVlan
  <2>4. Sent(j)' /\ \A i \in AddJobs : Sent(i) => Sent(i)'
    BY <1>a, <2>1
  <2> QED
    BY <1>a, <2>2, <2>3, <2>4
<1>11. ASSUME NEW j \in AddJobs, ReadReply(j) PROVE Placed'
  BY <1>11, <1>a DEF ReadReply
<1>12. ASSUME NEW j \in AddJobs, Activate(j) PROVE Placed'
  BY <1>12, <1>a DEF Activate
<1>13. ASSUME NEW j \in AddJobs, JournalAdd(j) PROVE Placed'
  BY <1>13, <1>a DEF JournalAdd
<1>14. ASSUME NEW j \in AddJobs, ReviewChange(j) PROVE Placed'
  BY <1>14, <1>a DEF ReviewChange, ChangeMoves
<1>15. ASSUME NEW j \in AddJobs, CloseChange(j) PROVE Placed'
  BY <1>15, <1>a DEF CloseChange, ChangeMoves
<1>16. ASSUME NEW j \in AddJobs, Publish(j) PROVE Placed'
  BY <1>16, <1>a DEF Publish, AddEnds
<1>17. ASSUME NEW j \in AddJobs, Rollback(j) PROVE Placed'
  BY <1>17, <1>a DEF Rollback
<1>18. ASSUME NEW j \in AddJobs, AddCallFails(j) PROVE Placed'
  BY <1>18, <1>a DEF AddCallFails, AddDeadEnds
<1>19. ASSUME NEW j \in AddJobs, DecideForm(j) PROVE Placed'
  BY <1>19, <1>a DEF DecideForm
<1>20. ASSUME NEW j \in AddJobs, RetryAdd(j) PROVE Placed'
  BY <1>20, <1>a DEF RetryAdd, AddDeadEnds
<1>21. ASSUME NEW j \in AddJobs, CancelAdd(j) PROVE Placed'
  BY <1>21, <1>a DEF CancelAdd
<1>22. ASSUME NEW r \in RemoveJobs, NEW n \in Names, StartRemove(r, n) PROVE Placed'
  BY <1>22, <1>a DEF StartRemove
<1>23. ASSUME NEW r \in RemoveJobs, ShowVlan(r) PROVE Placed'
  BY <1>23, <1>a DEF ShowVlan
<1>24. ASSUME NEW r \in RemoveJobs, SendPush(r) PROVE Placed'
  <2>1. PICK answer \in Answer \ {"none", "unnamed"} :
         running' \in AfterConfig(inst[r].data.vid, None, answer)
    BY <1>24 DEF SendPush
  <2>2. \A v \in Vids : running'[v] # None => running[v] # None
    BY <1>a, <2>1 DEF AfterConfig
  <2> QED
    BY <1>a, <2>2, <1>24 DEF SendPush
<1>25. ASSUME NEW r \in RemoveJobs, ReadPushReply(r) PROVE Placed'
  BY <1>25, <1>a DEF ReadPushReply, PushEnds
<1>26. ASSUME NEW r \in RemoveJobs, SavePush(r) PROVE Placed'
  BY <1>26, <1>a DEF SavePush, PushEnds
<1>27. ASSUME NEW r \in RemoveJobs, ChildEnds(r) PROVE Placed'
  BY <1>27, <1>a DEF ChildEnds
<1>28. ASSUME NEW r \in RemoveJobs, JournalRemove(r) PROVE Placed'
  BY <1>28, <1>a DEF JournalRemove
<1>29. ASSUME NEW r \in RemoveJobs, ListVlan(r) PROVE Placed'
  BY <1>29, <1>a DEF ListVlan
<1>30. ASSUME NEW r \in RemoveJobs, DeleteVlan(r) PROVE Placed'
  BY <1>30, <1>a DEF DeleteVlan
<1>31. ASSUME NEW r \in RemoveJobs, PublishRemove(r) PROVE Placed'
  BY <1>31, <1>a DEF PublishRemove
<1>32. ASSUME NEW r \in RemoveJobs, RemoveCallFails(r) PROVE Placed'
  BY <1>32, <1>a DEF RemoveCallFails, RemoveDeadEnds
<1>33. ASSUME NEW r \in RemoveJobs, DecidePush(r) PROVE Placed'
  BY <1>33, <1>a DEF DecidePush
<1>34. ASSUME NEW r \in RemoveJobs, RetryRemove(r) PROVE Placed'
  BY <1>34, <1>a DEF RetryRemove
<1>35. ASSUME NEW r \in RemoveJobs, CancelRemove(r) PROVE Placed'
  BY <1>35, <1>a DEF CancelRemove
<1>36. ASSUME NEW n \in Names, ImportInstance(n) PROVE Placed'
  BY <1>36, <1>a DEF ImportInstance
<1>37. ASSUME Reload PROVE Placed'
  BY <1>37, <1>a DEF Reload
<1>38. CASE UNCHANGED vars
  BY <1>38, <1>a DEF vars, device, snow, addJob, removeJob
<1> QED
  BY <1>1, <1>2, <1>3, <1>4, <1>5, <1>6, <1>7, <1>8, <1>9, <1>10, <1>11, <1>12, <1>13, <1>14, <1>15, <1>16, <1>17, <1>18, <1>19, <1>20, <1>21, <1>22, <1>23, <1>24, <1>25, <1>26, <1>27, <1>28, <1>29, <1>30, <1>31, <1>32, <1>33, <1>34, <1>35, <1>36, <1>37, <1>38
  DEF Next, AddStep, RemoveStep

-----------------------------------------------------------------------------
\* Every step keeps what the switch accepted on it, or a Remove or a reload that
\* took it off (Configured).
LEMMA ConfiguredStep == IInv /\ [Next]_vars => Configured'
<1> SUFFICES ASSUME IInv, [Next]_vars PROVE Configured'
  OBVIOUS
<1>a. /\ TypeOK /\ Functions /\ (\A j \in AddJobs : JobOK(j)) /\ Configured
      /\ \A r \in RemoveJobs : RemoveOK(r)
  BY FunctionsOfType DEF IInv
<1>b. /\ inst \in [RemoveJobs -> [name : Names, data : StoredInstance \cup {EmptyInstance}] \cup {None}]
      /\ push \in [RemoveJobs -> PushRecord] /\ reloads \in Nat
  BY <1>a, ReloadAssumption DEF TypeOK
<1> USE DEF Functions, Configured, OnSwitch, Sent, AtAdd, GoAdd, Answered, StopsAdd, device, snow, addJob, removeJob
<1>1. ASSUME NEW j \in AddJobs, NEW q \in Requests, StartAdd(j, q) PROVE Configured'
  BY <1>1, <1>a DEF StartAdd
<1>2. ASSUME NEW j \in AddJobs, OpenChange(j) PROVE Configured'
  BY <1>2, <1>a DEF OpenChange
<1>3. ASSUME NEW j \in AddJobs, ScheduleChange(j) PROVE Configured'
  BY <1>3, <1>a DEF ScheduleChange, ChangeMoves
<1>4. ASSUME NEW j \in AddJobs, ImplementChange(j) PROVE Configured'
  BY <1>4, <1>a DEF ImplementChange, ChangeMoves
<1>5. ASSUME NEW j \in AddJobs, LookUp(j) PROVE Configured'
  <2>1. \A i \in AddJobs : Sent(i) => vid'[i] = vid[i]
    BY <1>a, <1>5 DEF LookUp, JobOK, BeforeSend, BeforeReserve
  <2>2. UNCHANGED <<running, reloads, result, push, inst>>
    BY <1>5 DEF LookUp
  <2> QED
    BY <1>a, <2>1, <2>2
<1>6. ASSUME NEW j \in AddJobs, NoopEnds(j) PROVE Configured'
  BY <1>6, <1>a DEF NoopEnds, AddEnds
<1>7. ASSUME NEW j \in AddJobs, ListGroup(j) PROVE Configured'
  <2>1. \A i \in AddJobs : Sent(i) => vid'[i] = vid[i]
    BY <1>a, <1>7 DEF ListGroup, JobOK, BeforeSend, BeforeReserve
  <2>2. UNCHANGED <<running, reloads, result, push, inst>>
    BY <1>7 DEF ListGroup
  <2> QED
    BY <1>a, <2>1, <2>2
<1>8. ASSUME NEW j \in AddJobs, Reserve(j) PROVE Configured'
  BY <1>8, <1>a DEF Reserve
<1>9. ASSUME NEW j \in AddJobs, NoteReservation(j) PROVE Configured'
  BY <1>9, <1>a DEF NoteReservation
<1>10. ASSUME NEW j \in AddJobs, SendVlan(j) PROVE Configured'
  <2>1. PICK answer \in Answer \ {"none"} :
         /\ result' = [result EXCEPT ![j] = answer]
         /\ running' \in AfterConfig(vid[j], req[j].name, answer)
    BY <1>10 DEF SendVlan
  <2>2. vid[j] \in Vids /\ req[j].name \in Names
    BY <1>a, <1>10, RequestAssumption DEF SendVlan, JobOK, BeforeReserve
  <2>3. \A v \in Vids : running[v] # None => running'[v] # None
    BY <1>a, <2>1, <2>2, NoneAssumption DEF AfterConfig
  <2>4. answer = "accepted" => running'[vid[j]] # None
    BY <1>a, <2>1, <2>2, NoneAssumption DEF AfterConfig
  <2>5. UNCHANGED <<vid, reloads, push, inst>>
    BY <1>10 DEF SendVlan
  <2>6. \A i \in AddJobs : result[i] = "accepted" => vid[i] \in Vids
    BY <1>a DEF JobOK
  <2> QED
    BY <1>a, <2>1, <2>3, <2>4, <2>5, <2>6
<1>11. ASSUME NEW j \in AddJobs, ReadReply(j) PROVE Configured'
  BY <1>11, <1>a DEF ReadReply
<1>12. ASSUME NEW j \in AddJobs, Activate(j) PROVE Configured'
  BY <1>12, <1>a DEF Activate
<1>13. ASSUME NEW j \in AddJobs, JournalAdd(j) PROVE Configured'
  BY <1>13, <1>a DEF JournalAdd
<1>14. ASSUME NEW j \in AddJobs, ReviewChange(j) PROVE Configured'
  BY <1>14, <1>a DEF ReviewChange, ChangeMoves
<1>15. ASSUME NEW j \in AddJobs, CloseChange(j) PROVE Configured'
  BY <1>15, <1>a DEF CloseChange, ChangeMoves
<1>16. ASSUME NEW j \in AddJobs, Publish(j) PROVE Configured'
  BY <1>16, <1>a DEF Publish, AddEnds
<1>17. ASSUME NEW j \in AddJobs, Rollback(j) PROVE Configured'
  BY <1>17, <1>a DEF Rollback
<1>18. ASSUME NEW j \in AddJobs, AddCallFails(j) PROVE Configured'
  BY <1>18, <1>a DEF AddCallFails, AddDeadEnds
<1>19. ASSUME NEW j \in AddJobs, DecideForm(j) PROVE Configured'
  BY <1>19, <1>a DEF DecideForm
<1>20. ASSUME NEW j \in AddJobs, RetryAdd(j) PROVE Configured'
  BY <1>20, <1>a DEF RetryAdd, AddDeadEnds
<1>21. ASSUME NEW j \in AddJobs, CancelAdd(j) PROVE Configured'
  BY <1>21, <1>a DEF CancelAdd
<1>22. ASSUME NEW r \in RemoveJobs, NEW n \in Names, StartRemove(r, n) PROVE Configured'
  <2>1. push[r].result = "none"
    BY <1>a, <1>22 DEF StartRemove, RemoveOK
  <2>2. \A q \in RemoveJobs : push[q].result \in {"threw", "accepted"} => inst'[q] = inst[q]
    BY <1>b, <2>1, <1>22 DEF StartRemove
  <2>3. UNCHANGED <<running, reloads, result, vid, push>>
    BY <1>22 DEF StartRemove
  <2> QED
    BY <1>a, <2>2, <2>3
<1>23. ASSUME NEW r \in RemoveJobs, ShowVlan(r) PROVE Configured'
  <2>1. \A q \in RemoveJobs : push'[q].result = push[q].result
    BY <1>b, <1>23 DEF ShowVlan, PushRecord
  <2>2. UNCHANGED <<running, reloads, result, vid, inst>>
    BY <1>23 DEF ShowVlan
  <2> QED
    BY <1>a, <2>1, <2>2
<1>24. ASSUME NEW r \in RemoveJobs, SendPush(r) PROVE Configured'
  <2>1. PICK answer \in Answer \ {"none", "unnamed"} :
         /\ running' \in AfterConfig(inst[r].data.vid, None, answer)
         /\ push' = [push EXCEPT ![r].result = answer,
                                 ![r].at = IF answer \in {"threw", "failed"} THEN "done" ELSE "reply"]
    BY <1>24 DEF SendPush
  <2>2. push[r].result = "none"
    BY <1>a, <1>24 DEF SendPush, PushIs, RemoveOK
  <2>3. push'[r].result = answer /\ \A q \in RemoveJobs \ {r} : push'[q] = push[q]
    BY <1>b, <2>1 DEF PushRecord
  <2>4. \A q \in RemoveJobs : push[q].result \in {"threw", "accepted"} => push'[q].result = push[q].result
    BY <2>2, <2>3
  <2>5. \A v \in Vids : \/ running'[v] = running[v]
                        \/ answer \in {"threw", "accepted"} /\ v = inst[r].data.vid
    <3>1. \/ running' = running
          \/ answer \in {"threw", "accepted"} /\ running' = [running EXCEPT ![inst[r].data.vid] = None]
      BY <2>1 DEF AfterConfig
    <3> QED
      BY <1>a, <3>1
  <2>6. UNCHANGED <<reloads, result, vid, inst>>
    BY <1>24 DEF SendPush
  <2>7. \A i \in AddJobs : result[i] = "accepted" => vid[i] \in Vids
    BY <1>a DEF JobOK
  <2> QED
    BY <1>a, <2>3, <2>4, <2>5, <2>6, <2>7
<1>25. ASSUME NEW r \in RemoveJobs, ReadPushReply(r) PROVE Configured'
  <2>1. \A q \in RemoveJobs : push'[q].result = push[q].result
    <3>1. \/ push' = [push EXCEPT ![r].at = "save"]
          \/ push' = [push EXCEPT ![r].at = "done", ![r].changed = FALSE, ![r].saved = FALSE]
      BY <1>25 DEF ReadPushReply, PushEnds
    <3> QED
      BY <1>b, <3>1 DEF PushRecord
  <2>2. UNCHANGED <<running, reloads, result, vid, inst>>
    BY <1>25 DEF ReadPushReply, PushEnds
  <2> QED
    BY <1>a, <2>1, <2>2
<1>26. ASSUME NEW r \in RemoveJobs, SavePush(r) PROVE Configured'
  <2>1. \A q \in RemoveJobs : push'[q].result = push[q].result
    BY <1>b, <1>26 DEF SavePush, PushEnds, PushRecord
  <2>2. UNCHANGED <<running, reloads, result, vid, inst>>
    BY <1>26 DEF SavePush, PushEnds
  <2> QED
    BY <1>a, <2>1, <2>2
<1>27. ASSUME NEW r \in RemoveJobs, ChildEnds(r) PROVE Configured'
  BY <1>27, <1>a DEF ChildEnds
<1>28. ASSUME NEW r \in RemoveJobs, JournalRemove(r) PROVE Configured'
  BY <1>28, <1>a DEF JournalRemove
<1>29. ASSUME NEW r \in RemoveJobs, ListVlan(r) PROVE Configured'
  BY <1>29, <1>a DEF ListVlan
<1>30. ASSUME NEW r \in RemoveJobs, DeleteVlan(r) PROVE Configured'
  BY <1>30, <1>a DEF DeleteVlan
<1>31. ASSUME NEW r \in RemoveJobs, PublishRemove(r) PROVE Configured'
  BY <1>31, <1>a DEF PublishRemove
<1>32. ASSUME NEW r \in RemoveJobs, RemoveCallFails(r) PROVE Configured'
  BY <1>32, <1>a DEF RemoveCallFails, RemoveDeadEnds
<1>33. ASSUME NEW r \in RemoveJobs, DecidePush(r) PROVE Configured'
  <2>1. \A q \in RemoveJobs : push'[q].result = push[q].result
    BY <1>b, <1>33 DEF DecidePush, PushRecord
  <2>2. UNCHANGED <<running, reloads, result, vid, inst>>
    BY <1>33 DEF DecidePush
  <2> QED
    BY <1>a, <2>1, <2>2
<1>34. ASSUME NEW r \in RemoveJobs, RetryRemove(r) PROVE Configured'
  BY <1>34, <1>a DEF RetryRemove
<1>35. ASSUME NEW r \in RemoveJobs, CancelRemove(r) PROVE Configured'
  BY <1>35, <1>a DEF CancelRemove
<1>36. ASSUME NEW n \in Names, ImportInstance(n) PROVE Configured'
  BY <1>36, <1>a DEF ImportInstance
<1>37. ASSUME Reload PROVE Configured'
  <2>1. reloads' > 0
    BY <1>b, <1>37 DEF Reload
  <2> QED
    BY <2>1
<1>38. CASE UNCHANGED vars
  BY <1>38, <1>a DEF vars, device, snow, addJob, removeJob
<1> QED
  BY <1>1, <1>2, <1>3, <1>4, <1>5, <1>6, <1>7, <1>8, <1>9, <1>10, <1>11, <1>12, <1>13, <1>14, <1>15, <1>16, <1>17, <1>18, <1>19, <1>20, <1>21, <1>22, <1>23, <1>24, <1>25, <1>26, <1>27, <1>28, <1>29, <1>30, <1>31, <1>32, <1>33, <1>34, <1>35, <1>36, <1>37, <1>38
  DEF Next, AddStep, RemoveStep

-----------------------------------------------------------------------------
\* What an Add that has reserved says of itself, it never takes back
Settled(i) == at[i] \notin BeforeReserve =>
    /\ at'[i] \notin BeforeReserve /\ req'[i] = req[i] /\ vid'[i] = vid[i]
    /\ result[i] = "accepted" => result'[i] = "accepted"

\* No step takes back what an Add past its reservation has settled: its VID,
\* its inputs and an accepted answer.
LEMMA SettledStays == IInv /\ [Next]_vars => \A i \in AddJobs : Settled(i)
<1> SUFFICES ASSUME IInv, [Next]_vars, NEW i \in AddJobs PROVE Settled(i)
  OBVIOUS
<1>a. Functions /\ \A j \in AddJobs : JobOK(j)
  BY FunctionsOfType DEF IInv
<1> USE DEF Functions, Settled, BeforeReserve, AtAdd, GoAdd, Answered, StopsAdd, device, snow, addJob, removeJob
<1>1. ASSUME NEW j \in AddJobs, NEW q \in Requests, StartAdd(j, q) PROVE Settled(i)
  BY <1>a, <1>1 DEF StartAdd, JobOK
<1>2. ASSUME NEW j \in AddJobs, OpenChange(j) PROVE Settled(i)
  BY <1>2, <1>a DEF OpenChange
<1>3. ASSUME NEW j \in AddJobs, ScheduleChange(j) PROVE Settled(i)
  BY <1>3, <1>a DEF ScheduleChange, ChangeMoves
<1>4. ASSUME NEW j \in AddJobs, ImplementChange(j) PROVE Settled(i)
  BY <1>4, <1>a DEF ImplementChange, ChangeMoves
<1>5. ASSUME NEW j \in AddJobs, LookUp(j) PROVE Settled(i)
  BY <1>5, <1>a DEF LookUp
<1>6. ASSUME NEW j \in AddJobs, NoopEnds(j) PROVE Settled(i)
  BY <1>6, <1>a DEF NoopEnds, AddEnds
<1>7. ASSUME NEW j \in AddJobs, ListGroup(j) PROVE Settled(i)
  BY <1>7, <1>a DEF ListGroup
<1>8. ASSUME NEW j \in AddJobs, Reserve(j) PROVE Settled(i)
  BY <1>8, <1>a DEF Reserve
<1>9. ASSUME NEW j \in AddJobs, NoteReservation(j) PROVE Settled(i)
  BY <1>9, <1>a DEF NoteReservation
<1>10. ASSUME NEW j \in AddJobs, SendVlan(j) PROVE Settled(i)
  BY <1>a, <1>10 DEF SendVlan, JobOK, BeforeSend, Sent
<1>11. ASSUME NEW j \in AddJobs, ReadReply(j) PROVE Settled(i)
  BY <1>11, <1>a DEF ReadReply
<1>12. ASSUME NEW j \in AddJobs, Activate(j) PROVE Settled(i)
  BY <1>12, <1>a DEF Activate
<1>13. ASSUME NEW j \in AddJobs, JournalAdd(j) PROVE Settled(i)
  BY <1>13, <1>a DEF JournalAdd
<1>14. ASSUME NEW j \in AddJobs, ReviewChange(j) PROVE Settled(i)
  BY <1>14, <1>a DEF ReviewChange, ChangeMoves
<1>15. ASSUME NEW j \in AddJobs, CloseChange(j) PROVE Settled(i)
  BY <1>15, <1>a DEF CloseChange, ChangeMoves
<1>16. ASSUME NEW j \in AddJobs, Publish(j) PROVE Settled(i)
  BY <1>16, <1>a DEF Publish, AddEnds
<1>17. ASSUME NEW j \in AddJobs, Rollback(j) PROVE Settled(i)
  BY <1>17, <1>a DEF Rollback
<1>18. ASSUME NEW j \in AddJobs, AddCallFails(j) PROVE Settled(i)
  BY <1>18, <1>a DEF AddCallFails, AddDeadEnds
<1>19. ASSUME NEW j \in AddJobs, DecideForm(j) PROVE Settled(i)
  BY <1>19, <1>a DEF DecideForm
<1>20. ASSUME NEW j \in AddJobs, RetryAdd(j) PROVE Settled(i)
  BY <1>20, <1>a DEF RetryAdd, AddDeadEnds
<1>21. ASSUME NEW j \in AddJobs, CancelAdd(j) PROVE Settled(i)
  BY <1>21, <1>a DEF CancelAdd
<1>22. ASSUME NEW r \in RemoveJobs, NEW n \in Names, StartRemove(r, n) PROVE Settled(i)
  BY <1>22, <1>a DEF StartRemove
<1>23. ASSUME NEW r \in RemoveJobs, ShowVlan(r) PROVE Settled(i)
  BY <1>23, <1>a DEF ShowVlan
<1>24. ASSUME NEW r \in RemoveJobs, SendPush(r) PROVE Settled(i)
  BY <1>24, <1>a DEF SendPush
<1>25. ASSUME NEW r \in RemoveJobs, ReadPushReply(r) PROVE Settled(i)
  BY <1>25, <1>a DEF ReadPushReply, PushEnds
<1>26. ASSUME NEW r \in RemoveJobs, SavePush(r) PROVE Settled(i)
  BY <1>26, <1>a DEF SavePush, PushEnds
<1>27. ASSUME NEW r \in RemoveJobs, ChildEnds(r) PROVE Settled(i)
  BY <1>27, <1>a DEF ChildEnds
<1>28. ASSUME NEW r \in RemoveJobs, JournalRemove(r) PROVE Settled(i)
  BY <1>28, <1>a DEF JournalRemove
<1>29. ASSUME NEW r \in RemoveJobs, ListVlan(r) PROVE Settled(i)
  BY <1>29, <1>a DEF ListVlan
<1>30. ASSUME NEW r \in RemoveJobs, DeleteVlan(r) PROVE Settled(i)
  BY <1>30, <1>a DEF DeleteVlan
<1>31. ASSUME NEW r \in RemoveJobs, PublishRemove(r) PROVE Settled(i)
  BY <1>31, <1>a DEF PublishRemove
<1>32. ASSUME NEW r \in RemoveJobs, RemoveCallFails(r) PROVE Settled(i)
  BY <1>32, <1>a DEF RemoveCallFails, RemoveDeadEnds
<1>33. ASSUME NEW r \in RemoveJobs, DecidePush(r) PROVE Settled(i)
  BY <1>33, <1>a DEF DecidePush
<1>34. ASSUME NEW r \in RemoveJobs, RetryRemove(r) PROVE Settled(i)
  BY <1>34, <1>a DEF RetryRemove
<1>35. ASSUME NEW r \in RemoveJobs, CancelRemove(r) PROVE Settled(i)
  BY <1>35, <1>a DEF CancelRemove
<1>36. ASSUME NEW n \in Names, ImportInstance(n) PROVE Settled(i)
  BY <1>36, <1>a DEF ImportInstance
<1>37. ASSUME Reload PROVE Settled(i)
  BY <1>37, <1>a DEF Reload
<1>38. CASE UNCHANGED vars
  BY <1>38, <1>a DEF vars, device, snow, addJob, removeJob
<1> QED
  BY <1>1, <1>2, <1>3, <1>4, <1>5, <1>6, <1>7, <1>8, <1>9, <1>10, <1>11, <1>12, <1>13, <1>14, <1>15, <1>16, <1>17, <1>18, <1>19, <1>20, <1>21, <1>22, <1>23, <1>24, <1>25, <1>26, <1>27, <1>28, <1>29, <1>30, <1>31, <1>32, <1>33, <1>34, <1>35, <1>36, <1>37, <1>38
  DEF Next, AddStep, RemoveStep

\* Every step keeps the instances of Lifecycle Manager, and what the no-op path
\* will store, true of an Add of that name (Described).
LEMMA DescribedStep == IInv /\ [Next]_vars => Described'
<1> SUFFICES ASSUME IInv, [Next]_vars PROVE Described'
  OBVIOUS
<1>a. /\ Functions /\ (\A j \in AddJobs : JobOK(j)) /\ Described
      /\ lcm \in [Names -> StoredInstance \cup {NoInstance, EmptyInstance}]
  BY FunctionsOfType DEF IInv, TypeOK
<1> DEFINE Next_OfName(n, d) == /\ at'[d.id] \notin BeforeReserve /\ req'[d.id].name = n /\ vid'[d.id] = d.vid
                                /\ d.status = "active" => result'[d.id] = "accepted"
<1>b. ASSUME NEW n, NEW d \in StoredInstance, OfName(n, d) PROVE Next_OfName(n, d)
  BY <1>b, SettledStays DEF OfName, StoredInstance, Settled
<1>c. \A n \in Names : lcm[n].data = "stored" => lcm[n] \in StoredInstance
  BY <1>a DEF NoInstance, EmptyInstance
<1>d. \A n \in Names : lcm[n].data = "stored" => Next_OfName(n, lcm[n])
  BY <1>a, <1>b, <1>c DEF Described
<1>e. \A j \in AddJobs : at[j] = "noop" => Next_OfName(req[j].name, seen[j])
  BY <1>a, <1>b DEF Described, JobOK
<1>f. ASSUME \A n \in Names : lcm'[n] = lcm[n] \/ lcm'[n] \in {NoInstance, EmptyInstance} \/ Next_OfName(n, lcm'[n]),
             \A j \in AddJobs : at'[j] = "noop" => \/ at[j] = "noop" /\ seen'[j] = seen[j] /\ req'[j] = req[j]
                                                  \/ Next_OfName(req'[j].name, seen'[j])
      PROVE  Described'
  BY <1>d, <1>e, <1>f DEF Described, OfName, NoInstance, EmptyInstance
\* The writers of an instance, and the one task that reads one for the no-op path

<1> USE DEF Functions, AtAdd, GoAdd, Answered, StopsAdd, KeepInstance, device, snow, addJob, removeJob
<1>1. ASSUME NEW j \in AddJobs, NEW q \in Requests, StartAdd(j, q) PROVE Described'
  BY <1>a, <1>f, <1>1 DEF StartAdd
<1>2. ASSUME NEW j \in AddJobs, OpenChange(j) PROVE Described'
  BY <1>a, <1>f, <1>2 DEF OpenChange
<1>3. ASSUME NEW j \in AddJobs, ScheduleChange(j) PROVE Described'
  BY <1>a, <1>f, <1>3 DEF ScheduleChange, ChangeMoves
<1>4. ASSUME NEW j \in AddJobs, ImplementChange(j) PROVE Described'
  BY <1>a, <1>f, <1>4 DEF ImplementChange, ChangeMoves
<1>5. ASSUME NEW j \in AddJobs, LookUp(j) PROVE Described'
  <2>1. CASE NamedInNetBox(req[j].name) = {}
    BY <1>a, <1>f, <2>1, <1>5 DEF LookUp
  <2>2. ASSUME NEW id \in NamedInNetBox(req[j].name),
               seen' = [seen EXCEPT ![j] = [data |-> "stored", vid |-> vlans[id].vid, id |-> id,
                                              status |-> vlans[id].status]],
               GoAdd(j, "noop")
        PROVE  Described'
    <3>1. id \in AddJobs /\ Present(id) /\ vlans[id].name = req[j].name /\ vlans[id] \in VlanRecord
      BY <1>a DEF NamedInNetBox, Present
    <3>2. OfName(req[j].name, seen'[j])
      BY <1>a, <2>2, <3>1 DEF OfName, JobOK
    <3>3. seen'[j] \in StoredInstance
      BY <1>a, <2>2, <3>1 DEF VlanRecord, StoredInstance
    <3>4. Next_OfName(req[j].name, seen'[j]) /\ req' = req
      BY <1>b, <3>2, <3>3, <1>5 DEF LookUp
    <3> QED
      BY <1>a, <1>f, <2>2, <3>4, <1>5 DEF LookUp
  <2> QED
    BY <1>5, <2>1, <2>2 DEF LookUp
<1>6. ASSUME NEW j \in AddJobs, NoopEnds(j) PROVE Described'
  <2>1. Next_OfName(req[j].name, seen[j])
    BY <1>e, <1>6 DEF NoopEnds
  <2> QED
    BY <1>a, <1>f, <2>1, <1>6 DEF NoopEnds, AddEnds
<1>7. ASSUME NEW j \in AddJobs, ListGroup(j) PROVE Described'
  BY <1>a, <1>f, <1>7 DEF ListGroup
<1>8. ASSUME NEW j \in AddJobs, Reserve(j) PROVE Described'
  BY <1>a, <1>f, <1>8 DEF Reserve
<1>9. ASSUME NEW j \in AddJobs, NoteReservation(j) PROVE Described'
  BY <1>a, <1>f, <1>9 DEF NoteReservation
<1>10. ASSUME NEW j \in AddJobs, SendVlan(j) PROVE Described'
  BY <1>a, <1>f, <1>10 DEF SendVlan
<1>11. ASSUME NEW j \in AddJobs, ReadReply(j) PROVE Described'
  BY <1>a, <1>f, <1>11 DEF ReadReply
<1>12. ASSUME NEW j \in AddJobs, Activate(j) PROVE Described'
  BY <1>a, <1>f, <1>12 DEF Activate
<1>13. ASSUME NEW j \in AddJobs, JournalAdd(j) PROVE Described'
  BY <1>a, <1>f, <1>13 DEF JournalAdd
<1>14. ASSUME NEW j \in AddJobs, ReviewChange(j) PROVE Described'
  BY <1>a, <1>f, <1>14 DEF ReviewChange, ChangeMoves
<1>15. ASSUME NEW j \in AddJobs, CloseChange(j) PROVE Described'
  BY <1>a, <1>f, <1>15 DEF CloseChange, ChangeMoves
<1>16. ASSUME NEW j \in AddJobs, Publish(j) PROVE Described'
  <2>1. result[j] = "accepted" /\ req'[j] = req[j] /\ vid'[j] = vid[j] /\ result'[j] = result[j] /\ at'[j] = "done"
    BY <1>a, <1>16 DEF Publish, AddEnds, JobOK, AfterAccept
  <2>2. Next_OfName(req[j].name, [data |-> "stored", vid |-> vid[j], id |-> j, status |-> "active"])
    BY <2>1 DEF BeforeReserve
  <2> QED
    BY <1>a, <1>f, <2>2, <1>16 DEF Publish, AddEnds
<1>17. ASSUME NEW j \in AddJobs, Rollback(j) PROVE Described'
  BY <1>a, <1>f, <1>17 DEF Rollback
<1>18. ASSUME NEW j \in AddJobs, AddCallFails(j) PROVE Described'
  BY <1>a, <1>f, <1>18 DEF AddCallFails, AddDeadEnds
<1>19. ASSUME NEW j \in AddJobs, DecideForm(j) PROVE Described'
  BY <1>a, <1>f, <1>19 DEF DecideForm
<1>20. ASSUME NEW j \in AddJobs, RetryAdd(j) PROVE Described'
  BY <1>a, <1>f, <1>20 DEF RetryAdd, AddDeadEnds
<1>21. ASSUME NEW j \in AddJobs, CancelAdd(j) PROVE Described'
  BY <1>a, <1>f, <1>21 DEF CancelAdd
<1>22. ASSUME NEW r \in RemoveJobs, NEW n \in Names, StartRemove(r, n) PROVE Described'
  BY <1>a, <1>f, <1>22 DEF StartRemove
<1>23. ASSUME NEW r \in RemoveJobs, ShowVlan(r) PROVE Described'
  BY <1>f, <1>23 DEF ShowVlan
<1>24. ASSUME NEW r \in RemoveJobs, SendPush(r) PROVE Described'
  BY <1>f, <1>24 DEF SendPush
<1>25. ASSUME NEW r \in RemoveJobs, ReadPushReply(r) PROVE Described'
  BY <1>f, <1>25 DEF ReadPushReply
<1>26. ASSUME NEW r \in RemoveJobs, SavePush(r) PROVE Described'
  BY <1>f, <1>26 DEF SavePush
<1>27. ASSUME NEW r \in RemoveJobs, ChildEnds(r) PROVE Described'
  BY <1>f, <1>27 DEF ChildEnds
<1>28. ASSUME NEW r \in RemoveJobs, JournalRemove(r) PROVE Described'
  BY <1>f, <1>28 DEF JournalRemove
<1>29. ASSUME NEW r \in RemoveJobs, ListVlan(r) PROVE Described'
  BY <1>f, <1>29 DEF ListVlan
<1>30. ASSUME NEW r \in RemoveJobs, DeleteVlan(r) PROVE Described'
  BY <1>f, <1>30 DEF DeleteVlan
<1>31. ASSUME NEW r \in RemoveJobs, PublishRemove(r) PROVE Described'
  BY <1>a, <1>f, <1>31 DEF PublishRemove
<1>32. ASSUME NEW r \in RemoveJobs, RemoveCallFails(r) PROVE Described'
  BY <1>f, <1>32 DEF RemoveCallFails
<1>33. ASSUME NEW r \in RemoveJobs, DecidePush(r) PROVE Described'
  BY <1>f, <1>33 DEF DecidePush
<1>34. ASSUME NEW r \in RemoveJobs, RetryRemove(r) PROVE Described'
  BY <1>f, <1>34 DEF RetryRemove
<1>35. ASSUME NEW r \in RemoveJobs, CancelRemove(r) PROVE Described'
  BY <1>f, <1>35 DEF CancelRemove
<1>36. ASSUME NEW n \in Names, ImportInstance(n) PROVE Described'
  <2> PICK id \in NamedInNetBox(n) :
         lcm' = [lcm EXCEPT ![n] = [data |-> "stored", vid |-> vlans[id].vid, id |-> id, status |-> vlans[id].status]]
    BY <1>36 DEF ImportInstance
  <2>1. id \in AddJobs /\ Present(id) /\ vlans[id].name = n
    BY DEF NamedInNetBox
  <2>2. Next_OfName(n, [data |-> "stored", vid |-> vlans[id].vid, id |-> id, status |-> vlans[id].status])
    BY <1>a, <2>1, <1>36 DEF JobOK, ImportInstance
  <2> QED
    BY <1>a, <1>f, <2>2, <1>36 DEF ImportInstance
<1>37. ASSUME Reload PROVE Described'
  BY <1>f, <1>37 DEF Reload
<1>38. CASE UNCHANGED vars
  BY <1>f, <1>38 DEF vars
<1> QED
  BY <1>1, <1>2, <1>3, <1>4, <1>5, <1>6, <1>7, <1>8, <1>9, <1>10, <1>11, <1>12, <1>13, <1>14, <1>15, <1>16, <1>17, <1>18, <1>19, <1>20, <1>21, <1>22, <1>23, <1>24, <1>25, <1>26, <1>27, <1>28, <1>29, <1>30, <1>31, <1>32, <1>33, <1>34, <1>35, <1>36, <1>37, <1>38
  DEF Next, AddStep, RemoveStep

-----------------------------------------------------------------------------
\* Every step keeps the state of an Add's change the one its task implies (ChangeOK).
LEMMA ChangeStep == IInv /\ [Next]_vars => \A k \in AddJobs : ChangeOK(k)'
<1> SUFFICES ASSUME IInv, [Next]_vars, NEW k \in AddJobs PROVE ChangeOK(k)'
  OBVIOUS
<1>a. Functions /\ (\A j \in AddJobs : JobOK(j)) /\ ChangeOK(k)
  BY FunctionsOfType DEF IInv
<1> USE RequestAssumption
<1> USE DEF Functions, ChangeOK, Sent, AtAdd, GoAdd, Answered, StopsAdd, device, snow, addJob, removeJob
<1>1. ASSUME NEW j \in AddJobs, NEW q \in Requests, StartAdd(j, q) PROVE ChangeOK(k)'
  BY <1>a, <1>1 DEF StartAdd, JobOK
<1>2. ASSUME NEW j \in AddJobs, OpenChange(j) PROVE ChangeOK(k)'
  BY <1>2, <1>a DEF OpenChange
<1>3. ASSUME NEW j \in AddJobs, ScheduleChange(j) PROVE ChangeOK(k)'
  BY <1>3, <1>a DEF ScheduleChange, ChangeMoves
<1>4. ASSUME NEW j \in AddJobs, ImplementChange(j) PROVE ChangeOK(k)'
  BY <1>4, <1>a DEF ImplementChange, ChangeMoves
<1>5. ASSUME NEW j \in AddJobs, LookUp(j) PROVE ChangeOK(k)'
  BY <1>5, <1>a DEF LookUp
<1>6. ASSUME NEW j \in AddJobs, NoopEnds(j) PROVE ChangeOK(k)'
  BY <1>a, <1>6 DEF NoopEnds, AddEnds, JobOK, BeforeSend, BeforeReserve, AfterAccept
<1>7. ASSUME NEW j \in AddJobs, ListGroup(j) PROVE ChangeOK(k)'
  BY <1>7, <1>a DEF ListGroup
<1>8. ASSUME NEW j \in AddJobs, Reserve(j) PROVE ChangeOK(k)'
  BY <1>8, <1>a DEF Reserve
<1>9. ASSUME NEW j \in AddJobs, NoteReservation(j) PROVE ChangeOK(k)'
  BY <1>9, <1>a DEF NoteReservation
<1>10. ASSUME NEW j \in AddJobs, SendVlan(j) PROVE ChangeOK(k)'
  <2>1. PICK answer \in Answer \ {"none"} :
         /\ result' = [result EXCEPT ![j] = answer]
         /\ GoAdd(j, IF answer \in {"threw", "failed"} THEN "rollback" ELSE "reply")
    BY <1>10 DEF SendVlan
  <2> QED
    BY <1>a, <2>1, <1>10 DEF SendVlan
<1>11. ASSUME NEW j \in AddJobs, ReadReply(j) PROVE ChangeOK(k)'
  BY <1>11, <1>a DEF ReadReply
<1>12. ASSUME NEW j \in AddJobs, Activate(j) PROVE ChangeOK(k)'
  BY <1>12, <1>a DEF Activate
<1>13. ASSUME NEW j \in AddJobs, JournalAdd(j) PROVE ChangeOK(k)'
  BY <1>a, <1>13 DEF JournalAdd, JobOK, BeforeSend, BeforeReserve, AfterAccept
<1>14. ASSUME NEW j \in AddJobs, ReviewChange(j) PROVE ChangeOK(k)'
  BY <1>a, <1>14 DEF ReviewChange, ChangeMoves, JobOK, BeforeSend, BeforeReserve, AfterAccept
<1>15. ASSUME NEW j \in AddJobs, CloseChange(j) PROVE ChangeOK(k)'
  BY <1>a, <1>15 DEF CloseChange, ChangeMoves, JobOK, BeforeSend, BeforeReserve, AfterAccept
<1>16. ASSUME NEW j \in AddJobs, Publish(j) PROVE ChangeOK(k)'
  BY <1>a, <1>16 DEF Publish, AddEnds, JobOK, BeforeSend, BeforeReserve, AfterAccept
<1>17. ASSUME NEW j \in AddJobs, Rollback(j) PROVE ChangeOK(k)'
  BY <1>17, <1>a DEF Rollback
<1>18. ASSUME NEW j \in AddJobs, AddCallFails(j) PROVE ChangeOK(k)'
  BY <1>a, <1>18 DEF AddCallFails
<1>19. ASSUME NEW j \in AddJobs, DecideForm(j) PROVE ChangeOK(k)'
  BY <1>19, <1>a DEF DecideForm
<1>20. ASSUME NEW j \in AddJobs, RetryAdd(j) PROVE ChangeOK(k)'
  BY <1>a, <1>20 DEF RetryAdd
<1>21. ASSUME NEW j \in AddJobs, CancelAdd(j) PROVE ChangeOK(k)'
  BY <1>21, <1>a DEF CancelAdd
<1>22. ASSUME NEW r \in RemoveJobs, NEW n \in Names, StartRemove(r, n) PROVE ChangeOK(k)'
  BY <1>22, <1>a DEF StartRemove
<1>23. ASSUME NEW r \in RemoveJobs, ShowVlan(r) PROVE ChangeOK(k)'
  BY <1>a, <1>23 DEF ShowVlan
<1>24. ASSUME NEW r \in RemoveJobs, SendPush(r) PROVE ChangeOK(k)'
  BY <1>a, <1>24 DEF SendPush
<1>25. ASSUME NEW r \in RemoveJobs, ReadPushReply(r) PROVE ChangeOK(k)'
  BY <1>a, <1>25 DEF ReadPushReply
<1>26. ASSUME NEW r \in RemoveJobs, SavePush(r) PROVE ChangeOK(k)'
  BY <1>a, <1>26 DEF SavePush
<1>27. ASSUME NEW r \in RemoveJobs, ChildEnds(r) PROVE ChangeOK(k)'
  BY <1>a, <1>27 DEF ChildEnds
<1>28. ASSUME NEW r \in RemoveJobs, JournalRemove(r) PROVE ChangeOK(k)'
  BY <1>a, <1>28 DEF JournalRemove
<1>29. ASSUME NEW r \in RemoveJobs, ListVlan(r) PROVE ChangeOK(k)'
  BY <1>a, <1>29 DEF ListVlan
<1>30. ASSUME NEW r \in RemoveJobs, DeleteVlan(r) PROVE ChangeOK(k)'
  BY <1>a, <1>30 DEF DeleteVlan
<1>31. ASSUME NEW r \in RemoveJobs, PublishRemove(r) PROVE ChangeOK(k)'
  BY <1>a, <1>31 DEF PublishRemove
<1>32. ASSUME NEW r \in RemoveJobs, RemoveCallFails(r) PROVE ChangeOK(k)'
  BY <1>a, <1>32 DEF RemoveCallFails
<1>33. ASSUME NEW r \in RemoveJobs, DecidePush(r) PROVE ChangeOK(k)'
  BY <1>a, <1>33 DEF DecidePush
<1>34. ASSUME NEW r \in RemoveJobs, RetryRemove(r) PROVE ChangeOK(k)'
  BY <1>a, <1>34 DEF RetryRemove
<1>35. ASSUME NEW r \in RemoveJobs, CancelRemove(r) PROVE ChangeOK(k)'
  BY <1>a, <1>35 DEF CancelRemove
<1>36. ASSUME NEW n \in Names, ImportInstance(n) PROVE ChangeOK(k)'
  BY <1>36, <1>a DEF ImportInstance
<1>37. ASSUME Reload PROVE ChangeOK(k)'
  BY <1>37, <1>a DEF Reload
<1>38. CASE UNCHANGED vars
  BY <1>38, <1>a DEF vars, device, snow, addJob, removeJob
<1> QED
  BY <1>1, <1>2, <1>3, <1>4, <1>5, <1>6, <1>7, <1>8, <1>9, <1>10, <1>11, <1>12, <1>13, <1>14, <1>15, <1>16, <1>17, <1>18, <1>19, <1>20, <1>21, <1>22, <1>23, <1>24, <1>25, <1>26, <1>27, <1>28, <1>29, <1>30, <1>31, <1>32, <1>33, <1>34, <1>35, <1>36, <1>37, <1>38
  DEF Next, AddStep, RemoveStep

-----------------------------------------------------------------------------
(* The theorems *)

\* The inductive invariant holds before any job of the service has started.
LEMMA IInvInit == Init => IInv
<1> SUFFICES ASSUME Init PROVE IInv
  OBVIOUS
<1>1. TypeOK
  BY VidAssumption, ReloadAssumption
  DEF Init, TypeOK, ChangeState, NoInstance, AddTask, JobState, Answer, RemoveTask, NoPush, PushRecord, PushTask
<1>2. \A j \in AddJobs : JobOK(j) /\ Kept(j) /\ ChangeOK(j)
  BY DEF Init, JobOK, Kept, ChangeOK, Present, Sent, BeforeReserve, BeforeSend, AfterAccept
<1>3. \A r \in RemoveJobs : RemoveOK(r)
  BY DEF Init, RemoveOK, NoPush
<1>4. Placed /\ Configured /\ Described
  BY DEF Init, Placed, Configured, Described, NoInstance
<1> QED
  BY <1>1, <1>2, <1>3, <1>4 DEF IInv

\* Every step of the service keeps the inductive invariant: its parts, together.
LEMMA IInvStep == IInv /\ [Next]_vars => IInv'
  BY TypeStep, JobStep, RemoveJobStep, KeptStep, PlacedStep, ConfiguredStep, DescribedStep, ChangeStep DEF IInv

\* IInv holds in every reachable state of Add Branch VLAN, Remove Branch VLAN and
\* the push, for any number of jobs, names, VIDs and reloads.
THEOREM Inductive == Spec => []IInv
  BY IInvInit, IInvStep, PTL DEF Spec

\* TypeOK, the shape of every variable, for any number of jobs, names and VIDs.
THEOREM TypeCorrect == Spec => []TypeOK
<1>1. IInv => TypeOK
  BY DEF IInv
<1> QED
  BY <1>1, Inductive, PTL

\* Whatever interleaving of Adds and Removes, lost answers and reloads: a VLAN on
\* the switch that NetBox does not hold can be traced to an Add that says it did
\* not settle or to a Remove that deleted it.
THEOREM OrphansAreExplained == Spec => []OrphansHaveACause
<1>1. IInv => OrphansHaveACause
  <2> SUFFICES ASSUME IInv, NEW v \in Vids, running[v] # None
               PROVE  \/ v \in Used
                      \/ \E j \in AddJobs : vid[j] = v /\ Sent(j) /\ Unsettled(j)
                      \/ \E r \in RemoveJobs : Deleted(r) /\ vid[found[r]] = v
    BY DEF OrphansHaveACause
  <2>1. PICK j \in AddJobs : Sent(j) /\ vid[j] = v
    BY DEF IInv, Placed
  <2>2. JobOK(j) /\ Kept(j)
    BY DEF IInv
  <2>3. CASE Present(j)
    BY <2>1, <2>2, <2>3 DEF JobOK, Used
  <2>4. CASE at[j] \in {"reply", "activate", "rollback", "rolledBack", "unreadable"}
    BY <2>1, <2>2, <2>4 DEF JobOK, Unsettled
  <2>5. CASE \E r \in RemoveJobs : Deleted(r) /\ found[r] = j
    BY <2>1, <2>5
  <2> QED
    BY <2>1, <2>2, <2>3, <2>4, <2>5 DEF Kept
<1> QED
  BY <1>1, Inductive, PTL

\* The switch is touched only under a change in Implement, and a change is
\* reviewed and closed only for lines the switch accepted.
THEOREM ChangeCovers == Spec => []ChangeCoversPush
<1>1. IInv => ChangeCoversPush
  <2> SUFFICES ASSUME IInv, NEW j \in AddJobs
               PROVE  /\ (Sent(j) /\ req[j].change) => chg[j] \in {"Implement", "Review", "Closed"}
                      /\ chg[j] \in {"Review", "Closed"}
                            => result[j] = "accepted" /\ at[j] \in {"review", "close", "publish", "done"}
    BY DEF ChangeCoversPush
  <2>1. JobOK(j) /\ ChangeOK(j)
    BY DEF IInv
  <2> QED
    BY <2>1 DEF JobOK, ChangeOK, BeforeSend, BeforeReserve, AfterAccept
<1> QED
  BY <1>1, Inductive, PTL

\* Every instance Lifecycle Manager keeps describes a VLAN of its own name.
THEOREM InstancesAreOfTheirName == Spec => []InstanceIsOfItsName
<1>1. IInv => InstanceIsOfItsName
  BY DEF IInv, Described, OfName, InstanceIsOfItsName
<1> QED
  BY <1>1, Inductive, PTL

\* Nothing after an accepted push rolls the reservation back.
THEOREM AcceptedStays == Spec => AcceptedNotRolledBack
<1>1. IInv /\ [Next]_vars => [\A j \in AddJobs :
         (Present(j) /\ ~Present(j)' /\ result[j] = "accepted")
            => \E r \in RemoveJobs : rat[r] = "delete" /\ found[r] = j]_vars
  <2> SUFFICES ASSUME IInv, Next, NEW j \in AddJobs, Present(j), ~Present(j)', result[j] = "accepted"
               PROVE  \E r \in RemoveJobs : rat[r] = "delete" /\ found[r] = j
    OBVIOUS
  <2>a. Functions /\ JobOK(j) /\ vlans[j] \in VlanRecord /\ vlans' # vlans
    BY FunctionsOfType DEF IInv, Functions, Present
  <2> USE DEF Functions, Present, AtAdd, AtRemove, device, snow, addJob, removeJob
  \* The steps that write NetBox
  <2>1. ASSUME NEW i \in AddJobs, Reserve(i) PROVE FALSE
    BY <2>a, <2>1, NoneAssumption DEF Reserve, VlanRecord, JobOK, NamedInNetBox, Used
  <2>2. ASSUME NEW i \in AddJobs, Activate(i) PROVE FALSE
    <3>1. [vlans[i] EXCEPT !.status = "active"] \in VlanRecord
      BY <2>a, <2>2 DEF Activate, VlanRecord
    <3> QED
      BY <2>a, <2>2, <3>1, NoneAssumption DEF Activate
  <2>3. ASSUME NEW i \in AddJobs, Rollback(i) PROVE FALSE
    BY <2>a, <2>3 DEF Rollback, JobOK
  <2>4. ASSUME NEW r \in RemoveJobs, DeleteVlan(r) PROVE rat[r] = "delete" /\ found[r] = j
    BY <2>a, <2>4 DEF DeleteVlan
  \* No other step does
  <2>5. ASSUME NEW i \in AddJobs, AddStep(i) \/ DecideForm(i) \/ RetryAdd(i) \/ CancelAdd(i) PROVE FALSE
    BY <2>a, <2>1, <2>2, <2>3, <2>5
    DEF AddStep, OpenChange, ScheduleChange, ImplementChange, ReviewChange, CloseChange, ChangeMoves, LookUp,
        NoopEnds, AddEnds, ListGroup, NoteReservation, DecideForm, SendVlan, ReadReply, JournalAdd, Publish,
        AddCallFails, RetryAdd, CancelAdd
  <2>6. ASSUME NEW r \in RemoveJobs, RemoveStep(r) \/ DecidePush(r) \/ RetryRemove(r) \/ CancelRemove(r)
        PROVE  \E q \in RemoveJobs : rat[q] = "delete" /\ found[q] = j
    BY <2>a, <2>4, <2>6
    DEF RemoveStep, ShowVlan, SendPush, ReadPushReply, SavePush, ChildEnds, JournalRemove, ListVlan,
        PublishRemove, RemoveCallFails, DecidePush, RetryRemove, CancelRemove
  <2>7. ASSUME \/ \E i \in AddJobs, q \in Requests : StartAdd(i, q)
               \/ \E r \in RemoveJobs, n \in Names : StartRemove(r, n)
               \/ \E n \in Names : ImportInstance(n)
               \/ Reload
        PROVE  FALSE
    BY <2>a, <2>7 DEF StartAdd, StartRemove, ImportInstance, Reload
  <2> QED
    BY <2>5, <2>6, <2>7 DEF Next
<1> QED
  BY <1>1, Inductive, PTL DEF Spec, AcceptedNotRolledBack

\* What NetBox calls active the switch was told of, and only a Remove or a reload
\* took it off.
THEOREM ActiveIsOnTheSwitch == Spec => []ActiveIsConfigured
<1>1. IInv => ActiveIsConfigured
  BY DEF IInv, Configured, JobOK, ActiveIsConfigured
<1> QED
  BY <1>1, Inductive, PTL

\* A Remove takes an active VLAN from NetBox only after the device; nothing else
\* takes one at all.
THEOREM DeletedAfterTheDevice == Spec => ActiveDeletedAfterDevice
<1>1. IInv /\ [Next]_vars => [\A id \in AddJobs :
         (Present(id) /\ ~Present(id)' /\ vlans[id].status = "active")
            => \E r \in RemoveJobs : found[r] = id /\ (absent[r] \/ push[r].at = "done")]_vars
  <2> SUFFICES ASSUME IInv, Next, NEW j \in AddJobs, Present(j), ~Present(j)', vlans[j].status = "active"
               PROVE  \E r \in RemoveJobs : found[r] = j /\ (absent[r] \/ push[r].at = "done")
    OBVIOUS
  <2>a. /\ Functions /\ JobOK(j) /\ vlans[j] \in VlanRecord /\ vlans' # vlans
        /\ \A r \in RemoveJobs : RemoveOK(r)
    BY FunctionsOfType DEF IInv, Functions, Present
  <2> USE DEF Functions, Present, AtAdd, AtRemove, device, snow, addJob, removeJob
  \* The steps that write NetBox
  <2>1. ASSUME NEW i \in AddJobs, Reserve(i) PROVE FALSE
    BY <2>a, <2>1, NoneAssumption DEF Reserve, VlanRecord, JobOK, NamedInNetBox, Used
  <2>2. ASSUME NEW i \in AddJobs, Activate(i) PROVE FALSE
    <3>1. [vlans[i] EXCEPT !.status = "active"] \in VlanRecord
      BY <2>a, <2>2 DEF Activate, VlanRecord
    <3> QED
      BY <2>a, <2>2, <3>1, NoneAssumption DEF Activate
  <2>3. ASSUME NEW i \in AddJobs, Rollback(i) PROVE FALSE
    BY <2>a, <2>3 DEF Rollback, JobOK
  <2>4. ASSUME NEW r \in RemoveJobs, DeleteVlan(r) PROVE found[r] = j /\ (absent[r] \/ push[r].at = "done")
    BY <2>a, <2>4 DEF DeleteVlan, RemoveOK
  \* No other step does
  <2>5. ASSUME NEW i \in AddJobs, AddStep(i) \/ DecideForm(i) \/ RetryAdd(i) \/ CancelAdd(i) PROVE FALSE
    BY <2>a, <2>1, <2>2, <2>3, <2>5
    DEF AddStep, OpenChange, ScheduleChange, ImplementChange, ReviewChange, CloseChange, ChangeMoves, LookUp,
        NoopEnds, AddEnds, ListGroup, NoteReservation, DecideForm, SendVlan, ReadReply, JournalAdd, Publish,
        AddCallFails, RetryAdd, CancelAdd
  <2>6. ASSUME NEW r \in RemoveJobs, RemoveStep(r) \/ DecidePush(r) \/ RetryRemove(r) \/ CancelRemove(r)
        PROVE  \E q \in RemoveJobs : found[q] = j /\ (absent[q] \/ push[q].at = "done")
    BY <2>a, <2>4, <2>6
    DEF RemoveStep, ShowVlan, SendPush, ReadPushReply, SavePush, ChildEnds, JournalRemove, ListVlan,
        PublishRemove, RemoveCallFails, DecidePush, RetryRemove, CancelRemove
  <2>7. ASSUME \/ \E i \in AddJobs, q \in Requests : StartAdd(i, q)
               \/ \E r \in RemoveJobs, n \in Names : StartRemove(r, n)
               \/ \E n \in Names : ImportInstance(n)
               \/ Reload
        PROVE  FALSE
    BY <2>a, <2>7 DEF StartAdd, StartRemove, ImportInstance, Reload
  <2> QED
    BY <2>5, <2>6, <2>7 DEF Next
<1> QED
  BY <1>1, Inductive, PTL DEF Spec, ActiveDeletedAfterDevice

\* A change the Add knows moves: of all the changes that one alone.
LEMMA KnownMoves ==
    ASSUME Functions, NEW j \in AddJobs, NEW s,
           <<chg[j], s>> \in ChangeLife!LifecycleMoves,
           chg' = [chg EXCEPT ![j] = s], unowned' = unowned
    PROVE  ChangeLife!Next
<1> DEFINE c == <<j, "known">>
<1>1. c \in AddChanges /\ ChangeStates[c] = chg[j]
  BY DEF AddChanges, ChangeStates
<1>2. ChangeStates' = [ChangeStates EXCEPT ![c] = s]
  <2>1. ASSUME NEW d \in AddChanges
        PROVE  ChangeStates'[d] = IF d = c THEN s ELSE ChangeStates[d]
    <3>1. chg'[d[1]] = IF d[1] = j THEN s ELSE chg[d[1]]
      BY <2>1 DEF AddChanges, Functions
    <3>2. d = <<d[1], d[2]>> /\ d[2] \in {"known", "lost"}
      BY <2>1 DEF AddChanges
    <3> QED
      BY <2>1, <3>1, <3>2 DEF ChangeStates
  <2> QED
    <3>1. [ChangeStates EXCEPT ![c] = s] = [d \in AddChanges |-> IF d = c THEN s ELSE ChangeStates[d]]
      BY DEF ChangeStates
    <3>2. ChangeStates' = [d \in AddChanges |-> ChangeStates'[d]]
      BY DEF ChangeStates
    <3> QED
      BY <2>1, <3>1, <3>2
<1>3. s = <<chg[j], s>>[2]
  OBVIOUS
<1>4. s \in {m[2] : m \in ChangeLife!LifecycleMoves}
  BY <1>3
<1> QED
  BY <1>1, <1>2, <1>4 DEF ChangeLife!Next, ChangeLife!Move

\* A change is opened and its sys_id lost: a change nobody knew is "New", or there
\* was one like it before.
LEMMA LostOpens ==
    ASSUME NEW j \in AddJobs, unowned' = unowned \cup {j}, chg' = chg, ChangeStates' # ChangeStates
    PROVE  ChangeLife!Next
<1> DEFINE c == <<j, "lost">>
<1>1. j \notin unowned
  <2>1. j \in unowned => unowned' = unowned
    OBVIOUS
  <2> QED
    BY <2>1 DEF ChangeStates
<1>2. c \in AddChanges /\ ChangeStates[c] = "none"
  BY <1>1 DEF AddChanges, ChangeStates
<1>3. ChangeStates' = [ChangeStates EXCEPT ![c] = "New"]
  <2>1. ASSUME NEW d \in AddChanges
        PROVE  ChangeStates'[d] = IF d = c THEN "New" ELSE ChangeStates[d]
    BY <2>1 DEF AddChanges, ChangeStates
  <2> QED
    BY <2>1 DEF ChangeStates
<1>4. <<"none", "New">> \in ChangeLife!LifecycleMoves /\ "New" = <<"none", "New">>[2]
  BY DEF ChangeLife!LifecycleMoves
<1>5. "New" \in {m[2] : m \in ChangeLife!LifecycleMoves}
  BY <1>4
<1> QED
  BY <1>2, <1>3, <1>4, <1>5 DEF ChangeLife!Next, ChangeLife!Move

\* Every change an Add opened walks the abstract lifecycle of ChangeLifecycle: each
\* step of the service opens one, moves one, or is a stutter of them all.
THEOREM ChangesRefine == Spec => ChangesLive
<1>1. Init => ChangeLife!Init
  <2>1. ASSUME Init, NEW c \in AddChanges PROVE ChangeStates[c] = "none"
    BY <2>1 DEF Init, ChangeStates, AddChanges
  <2> QED
    BY <2>1 DEF ChangeStates, ChangeLife!Init
<1>2. IInv /\ [Next]_vars => [ChangeLife!Next]_ChangeStates
  <2> SUFFICES ASSUME IInv, Next, ChangeStates' # ChangeStates PROVE ChangeLife!Next
    BY DEF vars, ChangeStates
  <2>a. /\ Functions
        /\ \A j \in AddJobs : JobOK(j) /\ ChangeOK(j)
    BY FunctionsOfType DEF IInv
  <2>b. ~(chg' = chg /\ unowned' = unowned)
    BY DEF ChangeStates
  <2>2. ASSUME NEW j \in AddJobs, OpenChange(j) PROVE ChangeLife!Next
    <3>1. CASE chg' = [chg EXCEPT ![j] = "New"] /\ unowned' = unowned
      <4>1. <<chg[j], "New">> \in ChangeLife!LifecycleMoves
        BY <2>a, <2>2 DEF OpenChange, AtAdd, ChangeOK, ChangeLife!LifecycleMoves
      <4> QED
        BY <2>a, <3>1, <4>1, KnownMoves
    <3>2. CASE unowned' = unowned \cup {j} /\ chg' = chg
      BY <3>2, LostOpens
    <3> QED
      BY <2>2, <3>1, <3>2 DEF OpenChange
  <2>3. ASSUME NEW j \in AddJobs, ScheduleChange(j) PROVE ChangeLife!Next
    <3>1. /\ chg[j] \in {"New", "Scheduled"}
          /\ chg' = [chg EXCEPT ![j] = "Scheduled"] /\ unowned' = unowned
      BY <2>a, <2>3 DEF ScheduleChange, ChangeMoves, AtAdd, ChangeOK
    <3>2. chg[j] = "New"
      BY <2>a, <2>b, <3>1 DEF Functions
    <3>3. <<chg[j], "Scheduled">> \in ChangeLife!LifecycleMoves
      BY <3>2 DEF ChangeLife!LifecycleMoves
    <3> QED
      BY <2>a, <3>1, <3>3, KnownMoves
  <2>4. ASSUME NEW j \in AddJobs, ImplementChange(j) PROVE ChangeLife!Next
    <3>1. /\ chg[j] \in {"Scheduled", "Implement"}
          /\ chg' = [chg EXCEPT ![j] = "Implement"] /\ unowned' = unowned
      BY <2>a, <2>4 DEF ImplementChange, ChangeMoves, AtAdd, ChangeOK
    <3>2. chg[j] = "Scheduled"
      BY <2>a, <2>b, <3>1 DEF Functions
    <3>3. <<chg[j], "Implement">> \in ChangeLife!LifecycleMoves
      BY <3>2 DEF ChangeLife!LifecycleMoves
    <3> QED
      BY <2>a, <3>1, <3>3, KnownMoves
  <2>5. ASSUME NEW j \in AddJobs, ReviewChange(j) PROVE ChangeLife!Next
    <3>1. /\ chg[j] \in {"Implement", "Review"}
          /\ chg' = [chg EXCEPT ![j] = "Review"] /\ unowned' = unowned
      BY <2>a, <2>5 DEF ReviewChange, ChangeMoves, AtAdd, ChangeOK
    <3>2. chg[j] = "Implement"
      BY <2>a, <2>b, <3>1 DEF Functions
    <3>3. <<chg[j], "Review">> \in ChangeLife!LifecycleMoves
      BY <3>2 DEF ChangeLife!LifecycleMoves
    <3> QED
      BY <2>a, <3>1, <3>3, KnownMoves
  <2>6. ASSUME NEW j \in AddJobs, CloseChange(j) PROVE ChangeLife!Next
    <3>1. /\ chg[j] \in {"Review", "Closed"}
          /\ chg' = [chg EXCEPT ![j] = "Closed"] /\ unowned' = unowned
      BY <2>a, <2>6 DEF CloseChange, ChangeMoves, AtAdd, ChangeOK
    <3>2. chg[j] = "Review"
      BY <2>a, <2>b, <3>1 DEF Functions
    <3>3. <<chg[j], "Closed">> \in ChangeLife!LifecycleMoves
      BY <3>2 DEF ChangeLife!LifecycleMoves
    <3> QED
      BY <2>a, <3>1, <3>3, KnownMoves
  \* No other step moves a change
  <2>7. ASSUME NEW i \in AddJobs, AddStep(i) \/ DecideForm(i) \/ RetryAdd(i) \/ CancelAdd(i) PROVE ChangeLife!Next
    BY <2>b, <2>2, <2>3, <2>4, <2>5, <2>6, <2>7
    DEF snow, AddStep, LookUp, NoopEnds, AddEnds, ListGroup, Reserve, NoteReservation, DecideForm, SendVlan, ReadReply,
        Activate, JournalAdd, Publish, Rollback, AddCallFails, RetryAdd, CancelAdd
  <2>8. ASSUME NEW r \in RemoveJobs, RemoveStep(r) \/ DecidePush(r) \/ RetryRemove(r) \/ CancelRemove(r) PROVE FALSE
    BY <2>b, <2>8
    DEF snow, RemoveStep, ShowVlan, SendPush, ReadPushReply, SavePush, ChildEnds, JournalRemove, ListVlan, DeleteVlan,
        PublishRemove, RemoveCallFails, DecidePush, RetryRemove, CancelRemove
  <2>9. ASSUME \/ \E i \in AddJobs, q \in Requests : StartAdd(i, q)
               \/ \E r \in RemoveJobs, n \in Names : StartRemove(r, n)
               \/ \E n \in Names : ImportInstance(n)
               \/ Reload
        PROVE  FALSE
    BY <2>b, <2>9 DEF snow, StartAdd, StartRemove, ImportInstance, Reload
  <2> QED
    BY <2>7, <2>8, <2>9 DEF Next
<1> QED
  BY <1>1, <1>2, Inductive, PTL DEF Spec, ChangesLive, ChangeLife!Spec

=============================================================================
