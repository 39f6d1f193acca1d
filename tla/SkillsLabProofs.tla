---------------------------- MODULE SkillsLabProofs ----------------------------
(***************************************************************************)
(* Theorems about SkillsLab, ScratchRouter, ScratchRuns and TestJobs, for  *)
(* any number of pushes, restores, plays, edits, jobs and cleanups.  The   *)
(* argument is the inductive invariant IInv of SkillsLab: what a play that *)
(* is alone has brought about, where the probe's hostname may be, when a   *)
(* push has sent, and what a cleanup was given to cancel.                  *)
(***************************************************************************)
EXTENDS SkillsLab, FiniteSetTheorems, TLAPS

-----------------------------------------------------------------------------
\* A step of the play with its effect on the proof, and the steps beside it.
PlayGoes == PlayStep /\ proved' = FALSE
Beside   == NacmReady \/ StartPlay \/ EditOspf

\* The steps of the lab by who takes them.
LEMMA NextCases ==
    ASSUME Next
    PROVE  \/ (PlayGoes \/ (Beside /\ UNCHANGED proved)) /\ UNCHANGED <<at, says, taken, testVars>>
           \/ (\E p \in Pushes : PushStep(p)) /\ UNCHANGED testVars
           \/ (\E r \in Restores : RestoreStep(r)) /\ UNCHANGED testVars
           \/ ((\E p \in Pushes : StartPush(p)) \/ \E r \in Restores : StartRestore(r)) /\ UNCHANGED testVars
           \/ (\E j \in Jobs : StartJob(j) \/ ByHand(j)) /\ UNCHANGED <<env, playVars, runVars>>
           \/ (\E c \in Cleanups : ListOpen(c, env.failing) \/ Cancel(c, env.failing)) /\ UNCHANGED <<env, playVars, runVars>>
  BY DEF Next, Play, Run, Test, PlayGoes, Beside, runVars

\* The lines of the router.
LEMMA LineFacts ==
    /\ OwnLines \subseteq Lines /\ Readers \subseteq OwnLines /\ OspfLines \subseteq OwnLines
    /\ Probed \in OwnLines /\ Loopback \in OspfLines /\ Probed \notin Readers /\ Probed \notin OspfLines
    /\ Readers \cap OspfLines = {}
    /\ ReaderNames[1] \in Readers /\ ReaderNames[2] \in Readers
    /\ \A some : Added(some) \subseteq Lines
<1>1. OwnLines \subseteq Lines
  BY DEF Lines
<1>2. Readers \subseteq OwnLines /\ OspfLines \subseteq OwnLines /\ Probed \in OwnLines /\ Loopback \in OspfLines
  BY DEF OwnLines, OspfLines
<1>3. Probed \notin Readers /\ Probed \notin OspfLines /\ Readers \cap OspfLines = {}
  BY DEF Readers, ReaderNames, OspfLines, Probed, Loopback, Own
<1>4. ReaderNames[1] \in Readers /\ ReaderNames[2] \in Readers
  BY DEF Readers
<1>5. \A some : Added(some) \subseteq Lines
  BY DEF Added, Lines
<1> QED
  BY <1>1, <1>2, <1>3, <1>4, <1>5

\* Where a play and a run may be, and what they may publish.
LEMMA PlayTasks ==
    /\ "accounts" \in PlayTask /\ "rules" \in PlayTask /\ "check" \in PlayTask /\ "put back" \in PlayTask
    /\ "ospf" \in PlayTask /\ "remove" \in PlayTask /\ "capture" \in PlayTask /\ "ended" \in PlayTask
  BY DEF PlayTask

\* The steps of a push and of a restore, one by one.
LEMMA RunTasks ==
    /\ "not started" \in PushTask /\ "check" \in PushTask /\ "group" \in PushTask /\ "card" \in PushTask
    /\ "send" \in PushTask /\ "reply" \in PushTask /\ "ended" \in PushTask
    /\ "replace" \in RestoreTask /\ "proof" \in RestoreTask /\ "ended" \in RestoreTask
    /\ "replace" \notin PushTask /\ "proof" \notin PushTask
    /\ Pushes \subseteq Runs /\ Restores \subseteq Runs
  BY DEF PushTask, RestoreTask, Runs

\* What a run and a cleanup may publish, one by one.
LEMMA WhatIsSaid ==
    /\ "nothing" \in Published /\ "forbidden lines" \in Published /\ "nothing was sent" \in Published
    /\ "stopped before its card" \in Published /\ "rejected" \in Published /\ "changed" \in Published
    /\ "rejections" \in Published /\ "could not apply, or could not say" \in Published
    /\ "changed, reply unchecked" \in Published /\ "no Rollback Done" \in Published
    /\ "could not run the replace" \in Published /\ "restored" \in Published /\ "differs from the baseline" \in Published
    /\ "nothing" \in Ended /\ "canceled" \in Ended /\ "no open job" \in Ended /\ "refused" \in Ended
    /\ "could not be read" \in Ended
  BY DEF Published, Ended

-----------------------------------------------------------------------------
(* The router *)

\* A count goes on.
LEMMA OneMore == ASSUME NEW n \in Nat PROVE n + 1 \in Nat
  OBVIOUS

\* What is not in a set is said by FALSE.
LEMMA NotIn == ASSUME NEW x, NEW S, x \notin S PROVE (x \in S) = FALSE
  OBVIOUS

\* The play goes on to a step of its own.
LEMMA PlayMoves ==
    ASSUME play \in PlayState, NEW step \in PlayTask, Goes(step)
    PROVE  /\ play' \in PlayState /\ play'.at = step
           /\ play'.alone = play.alone /\ play'.shown = play.shown /\ play'.clean = play.clean
  BY DEF PlayState, Goes

\* What holds of the router and its play
RouterOK == RouterType /\ ProbeOK /\ AloneOK /\ RestoredIsClean

\* Where no push takes a line, what pushes took of the hostname stays as it is.
LEMMA SameName == UNCHANGED taken => UNCHANGED Renamed
  BY DEF Renamed

\* What a push has taken it keeps, so a router that was renamed was renamed.
LEMMA NameStays ==
    ASSUME RunType, RunsOK, NEW p \in Pushes, StartPush(p) \/ (Takes(p) /\ ~taken[p].sent)
    PROVE  Renamed => Renamed'
<1>1. \A q \in Pushes : q # p => taken'[q] = taken[q]
  BY DEF RunType, StartPush, Takes
<1>2. taken'[p].took = taken[p].took \/ taken[p].took = {}
  <2>1. CASE StartPush(p)
    <3>1. PICK lines \in Proposals : taken' = [taken EXCEPT ![p].asked = lines]
      BY <2>1 DEF StartPush
    <3> QED
      BY <3>1 DEF RunType
  <2>2. CASE ~taken[p].sent
    BY <2>2 DEF RunsOK
  <2> QED
    BY <2>1, <2>2
<1> QED
  BY <1>1, <1>2 DEF Renamed

\* The baseline stays clean where it stays, and where the router is no longer known.
LEMMA CleanStays ==
    ASSUME RouterOK, UNCHANGED <<baseline, sound>>, unproved' \in {unproved, TRUE}, proved' = FALSE, Renamed => Renamed'
    PROVE  RestoredIsClean'
  BY DEF RouterOK, RestoredIsClean, Clean

\* A step of the play, one action at a time.
LEMMA PlayStepKeeps ==
    ASSUME RouterOK, PlayGoes, Renamed => Renamed'
    PROVE  RouterOK'
<1>0. play \in PlayState /\ \A step \in PlayTask : Goes(step) =>
         /\ play' \in PlayState /\ play'.at = step
         /\ play'.alone = play.alone /\ play'.shown = play.shown /\ play'.clean = play.clean
  BY PlayMoves DEF RouterOK, RouterType
<1> USE LineFacts, PlayTasks, <1>0
<1>1. CASE Accounts
  <2>1. RouterType'
    BY <1>1 DEF RouterOK, PlayGoes, RouterType, Accounts, GivesUp, EndsPartWay
  <2>2. ProbeOK' /\ AloneOK'
    BY <1>1 DEF RouterOK, PlayGoes, RouterType, ProbeOK, AloneOK, Accounts, At, GivesUp, EndsPartWay
  <2>3. RestoredIsClean'
    BY <1>1, CleanStays DEF PlayGoes, Accounts
  <2> QED
    BY <2>1, <2>2, <2>3 DEF RouterOK
<1>2. CASE Populate
  <2>0. /\ play' \in PlayState /\ play.at = "rules" /\ play'.at \in {"rules", "check", "ended"}
        /\ play'.alone = play.alone /\ UNCHANGED <<running, baseline, unproved>>
    <3>1. CASE Goes("check") /\ UNCHANGED <<running, baseline, unproved>>
      BY <1>2, <3>1 DEF Populate, At
    <3>2. ASSUME NEW step \in {"rules", "ended"}, play' = [play EXCEPT !.tries = @ + 1, !.at = step]
          PROVE  play' \in PlayState /\ play'.at = step /\ play'.alone = play.alone
      <4>1. play.tries \in Nat
        BY DEF PlayState
      <4>2. play.tries + 1 \in Nat
        BY <4>1, OneMore
      <4> QED
        BY <3>2, <4>2 DEF PlayState
    <3> QED
      BY <1>2, <3>1, <3>2 DEF Populate, At
  <2>1. RouterType'
    BY <1>2, <2>0 DEF RouterOK, PlayGoes, RouterType, Populate
  <2>2. ProbeOK' /\ AloneOK'
    BY <2>0 DEF RouterOK, ProbeOK, AloneOK, At
  <2>3. RestoredIsClean'
    BY <1>2, CleanStays DEF PlayGoes, Populate
  <2> QED
    BY <2>1, <2>2, <2>3 DEF RouterOK
<1>3. CASE Probe
  <2>0. /\ play' \in PlayState /\ play.at = "check" /\ play'.alone = play.alone /\ UNCHANGED baseline
        /\ \/ play'.at \in {"check", "ospf", "ended"} /\ UNCHANGED <<running, unproved>>
           \/ /\ play'.at = "put back" /\ (play'.clean \/ Probed \in running)
              /\ running' = running \cup {Probed} /\ UNCHANGED unproved
           \/ play'.at = "ended" /\ running' = running \cup {Probed} /\ unproved' = TRUE
    BY ZenonT(60), <1>3 DEF Probe, At, GivesUp, PlayState
  <2>1. RouterType'
    BY <1>3, <2>0 DEF RouterOK, PlayGoes, RouterType, Probe
  <2>2. ProbeOK'
    <3>1. CASE unproved' = TRUE
      BY <3>1 DEF ProbeOK
    <3>2. CASE play'.at # "put back" /\ UNCHANGED <<running, unproved>>
      BY <2>0, <3>2 DEF RouterOK, ProbeOK, At
    <3>3. CASE play'.at = "put back" /\ (play'.clean \/ Probed \in running) /\ UNCHANGED unproved
      BY <2>0, <3>3 DEF RouterOK, ProbeOK, At
    <3> QED
      BY <2>0, <3>1, <3>2, <3>3
  <2>4. AloneOK'
    BY <2>0 DEF RouterOK, AloneOK, At
  <2>3. RestoredIsClean'
    BY <1>3, CleanStays DEF PlayGoes, Probe
  <2> QED
    BY <2>1, <2>2, <2>4, <2>3 DEF RouterOK
<1>4. CASE PutBack
  <2>1. RouterType'
    BY <1>4 DEF RouterOK, PlayGoes, RouterType, PutBack
  <2>2. /\ play.at = "put back" /\ play'.at = "ended" /\ play'.alone = play.alone /\ UNCHANGED baseline
        /\ unproved => unproved'
        /\ unproved' \/ Renamed \/ Probed \notin running'
    <3>1. play.at = "put back" /\ (play.clean \/ unproved \/ Renamed)
      BY <1>4 DEF RouterOK, ProbeOK, PutBack, At
    <3>2. CASE unproved' = TRUE
      BY <1>4, <3>1, <3>2 DEF PutBack
    <3>3. CASE running' = running \ {Probed} /\ UNCHANGED unproved
      BY <1>4, <3>1, <3>3 DEF PutBack
    <3>4. CASE ~play.clean /\ running' = running \cup {Probed} /\ UNCHANGED unproved
      BY <1>4, <3>1, <3>4 DEF PutBack
    <3> QED
      BY <1>4, <3>2, <3>3, <3>4 DEF PutBack
  <2>4. ProbeOK' /\ AloneOK'
    BY <2>2 DEF RouterOK, ProbeOK, AloneOK, At
  <2>3. RestoredIsClean'
    BY <1>4, CleanStays DEF PlayGoes, PutBack
  <2> QED
    BY <2>1, <2>4, <2>3 DEF RouterOK
<1>5. CASE ShowLoopback
  <2>0. play' \in PlayState
    <3>1. CASE play' = [play EXCEPT !.at = "remove", !.shown = Loopback \in running]
      <4>1. CASE Loopback \in running
        <5>1. play' = [play EXCEPT !.at = "remove", !.shown = TRUE]
          BY <3>1, <4>1
        <5> QED
          BY <5>1 DEF PlayState
      <4>2. CASE Loopback \notin running
        <5>1. play' = [play EXCEPT !.at = "remove", !.shown = FALSE]
          <6>1. (Loopback \in running) = FALSE
            BY <4>2, NotIn
          <6> QED
            BY <3>1, <6>1
        <5> QED
          BY <5>1 DEF PlayState
      <4> QED
        BY <4>1, <4>2
    <3> QED
      BY <1>5, <3>1 DEF ShowLoopback, GivesUp
  <2>1. RouterType'
    BY <1>5, <2>0 DEF RouterOK, PlayGoes, RouterType, ShowLoopback, GivesUp, PlayState, routerVars
  <2>2. ProbeOK' /\ AloneOK'
    BY <1>5 DEF RouterOK, PlayGoes, RouterType, ProbeOK, AloneOK, ShowLoopback, At, GivesUp, PlayState, routerVars
  <2>3. RestoredIsClean'
    BY <1>5, CleanStays DEF PlayGoes, ShowLoopback, routerVars
  <2> QED
    BY <2>1, <2>2, <2>3 DEF RouterOK
<1>6. CASE Ospf
  <2>1. Removals \subseteq OspfLines /\ (play.shown => Removals = OspfLines) /\ OspfLines \ {Loopback} \subseteq Removals
    BY DEF Removals
  <2>2. RouterType'
    BY <1>6, <2>1 DEF RouterOK, PlayGoes, RouterType, Ospf, GivesUp, EndsPartWay
  <2>3. ProbeOK'
    BY <1>6, <2>1 DEF RouterOK, PlayGoes, RouterType, ProbeOK, Ospf, At, GivesUp, EndsPartWay
  <2>4. AloneOK'
    <3> SUFFICES ASSUME play'.alone, play'.at \in {"rules", "check", "put back", "ospf", "remove", "capture"}
                 PROVE  /\ play'.at = "capture" /\ Readers \subseteq running'
                        /\ running' \cap OspfLines \in {{}, OspfLines}
      BY DEF AloneOK, At
    <3>1. /\ play.alone /\ play'.at = "capture" /\ Readers \subseteq running
          /\ running' = IF At("ospf") THEN running \cup OspfLines ELSE running \ Removals
      BY <1>6 DEF RouterOK, RouterType, AloneOK, Ospf, At, GivesUp, EndsPartWay
    <3>2. ~At("ospf") => At("remove") /\ (~play.shown => Loopback \notin running)
      BY <1>6, <3>1 DEF RouterOK, AloneOK, Ospf
    <3> QED
      BY <3>1, <3>2, <2>1
  <2>5. RestoredIsClean'
    BY <1>6, CleanStays DEF PlayGoes, Ospf
  <2> QED
    BY <2>2, <2>3, <2>4, <2>5 DEF RouterOK
<1>7. CASE Capture
  <2>1. RouterType'
    BY <1>7 DEF RouterOK, PlayGoes, RouterType, Capture, NotCaptured
  <2>2. ProbeOK' /\ AloneOK'
    BY <1>7 DEF RouterOK, PlayGoes, RouterType, ProbeOK, AloneOK, Capture, NotCaptured, At
  <2>3. RestoredIsClean'
    <3> SUFFICES ASSUME baseline' # {}, sound'
                 PROVE  Clean(baseline)'
      BY DEF PlayGoes, RestoredIsClean
    <3>1. CASE baseline' = running /\ play.alone /\ running \subseteq OwnLines
      BY <1>7, <3>1 DEF RouterOK, ProbeOK, AloneOK, Capture, At, Clean
    <3>2. CASE UNCHANGED <<baseline, sound>>
      BY <1>7, <3>2 DEF RouterOK, RestoredIsClean, Clean, Capture
    <3> QED
      BY <1>7, <3>1, <3>2 DEF Capture, NotCaptured
  <2> QED
    BY <2>1, <2>2, <2>3 DEF RouterOK
<1> QED
  BY <1>1, <1>2, <1>3, <1>4, <1>5, <1>6, <1>7 DEF PlayGoes, PlayStep

\* The start of a play, NACM's and an edit of the file.
LEMMA BesideKeeps ==
    ASSUME RouterOK, Beside, UNCHANGED proved, Renamed => Renamed'
    PROVE  RouterOK'
<1>1. RouterType'
  <2>1. play' = play \/ play' = [play EXCEPT !.at = "accounts", !.reader = 1, !.tries = 0, !.alone = TRUE]
    BY DEF Beside, NacmReady, StartPlay, EditOspf
  <2>2. play' \in PlayState
    <3>1. play \in PlayState
      BY DEF RouterOK, RouterType
    <3>2. "accounts" \in PlayTask
      BY PlayTasks
    <3>3. CASE play' = [play EXCEPT !.at = "accounts", !.reader = 1, !.tries = 0, !.alone = TRUE]
      BY <3>1, <3>2, <3>3 DEF PlayState
    <3> QED
      BY <2>1, <3>1, <3>3
  <2> QED
    BY <2>2 DEF RouterOK, Beside, RouterType, NacmReady, StartPlay, EditOspf, routerVars
<1>2. ProbeOK' /\ AloneOK'
  <2>1. /\ UNCHANGED <<running, baseline, unproved>>
        /\ play' = play \/ (play.at = "ended" /\ play'.at = "accounts")
    BY DEF RouterOK, RouterType, PlayState, Beside, NacmReady, StartPlay, EditOspf, routerVars, At
  <2> QED
    BY <2>1 DEF RouterOK, ProbeOK, AloneOK, At
<1>3. RestoredIsClean'
  BY DEF RouterOK, Beside, RestoredIsClean, Clean, NacmReady, StartPlay, EditOspf, routerVars
<1> QED
  BY <1>1, <1>2, <1>3 DEF RouterOK

\* A run that changes the router leaves no proof and no play alone; what it
\* leaves of the probe's hostname was there before.
LEMMA TouchKeeps ==
    ASSUME RouterOK, Touches, Rest, running' \subseteq Lines, Renamed => Renamed',
           Probed \in running' => Probed \in running \cup baseline \/ Renamed'
    PROVE  RouterOK'
<1>0. play' \in PlayState /\ play'.at = play.at /\ play'.clean = play.clean /\ ~play'.alone
  BY DEF RouterOK, RouterType, PlayState, Touches
<1>1. RouterType'
  BY <1>0 DEF RouterOK, RouterType, Touches, Rest
<1>2. ProbeOK' /\ AloneOK'
  BY <1>0 DEF RouterOK, ProbeOK, AloneOK, Rest, At
<1>3. RestoredIsClean'
  BY DEF RouterOK, RestoredIsClean, Clean, Touches, Rest
<1> QED
  BY <1>1, <1>2, <1>3 DEF RouterOK

\* A run that changes nothing of the router, but for a proof it has.
LEMMA UntouchedKeeps ==
    ASSUME RouterOK, Rest, UNCHANGED <<running, play>>, Renamed => Renamed',
           UNCHANGED proved \/ (proved' = TRUE /\ running = baseline)
    PROVE  RouterOK'
<1>1. RouterType'
  BY DEF RouterOK, RouterType, Rest
<1>2. ProbeOK' /\ AloneOK'
  BY DEF RouterOK, ProbeOK, AloneOK, Rest, At
<1>3. RestoredIsClean'
  BY DEF RouterOK, RestoredIsClean, Clean, Rest
<1> QED
  BY <1>1, <1>2, <1>3 DEF RouterOK

\* Starting a run touches no router.
LEMMA StartKeeps ==
    ASSUME RouterOK, RunType, RunsOK,
           (\E p \in Pushes : StartPush(p)) \/ \E r \in Restores : StartRestore(r)
    PROVE  RouterOK'
<1>1. Renamed => Renamed'
  BY NameStays, SameName DEF StartRestore
<1> QED
  BY <1>1, UntouchedKeeps DEF StartPush, StartRestore, Untouched

\* A push puts lines in and takes lines away; the hostname it brings is its own.
LEMMA PushKeeps ==
    ASSUME RouterOK, RunType, RunsOK, NEW p \in Pushes, PushStep(p)
    PROVE  RouterOK'
<1>1. CASE Send(p)
  <2>1. Touches /\ Rest /\ Takes(p) /\ ~taken[p].sent
    BY <1>1 DEF Send, RunsOK, IsAt
  <2>2. Renamed => Renamed'
    BY <2>1, NameStays
  <2>3. PICK some \in SUBSET taken[p].asked :
            /\ running' = (running \ Removed(some)) \cup Added(some)
            /\ taken' = [taken EXCEPT ![p].sent = TRUE, ![p].took = some]
    BY <2>1 DEF Takes
  <2>4. running' \subseteq Lines
    BY <2>3, LineFacts DEF RouterOK, RouterType
  <2>5. taken'[p].took = some
    BY <2>3 DEF RunType
  <2>6. Probed \in Added(some) => Renamed'
    BY <2>5 DEF Added, Renamed
  <2> QED
    BY <2>1, <2>2, <2>3, <2>4, <2>6, TouchKeeps
<1>2. CASE CheckLines(p) \/ AddGroup(p) \/ Decide(p) \/ ReadReply(p)
  BY <1>2, UntouchedKeeps, SameName DEF CheckLines, AddGroup, Decide, ReadReply, Untouched
<1> QED
  BY <1>1, <1>2 DEF PushStep

\* A replace takes lines away or brings the baseline's, and the proof only reads.
LEMMA RestoreKeeps ==
    ASSUME RouterOK, NEW r \in Restores, RestoreStep(r)
    PROVE  RouterOK'
<1>1. CASE Replace(r)
  <2>1. Touches /\ Rest
    BY <1>1 DEF Replace
  <2>2. running' \subseteq running \cup baseline
    BY <1>1 DEF Replace
  <2> QED
    BY <1>1, <2>1, <2>2, TouchKeeps, SameName DEF RouterOK, RouterType, Replace
<1>2. CASE Prove(r)
  BY <1>2, UntouchedKeeps, SameName DEF Prove, Differs
<1> QED
  BY <1>1, <1>2 DEF RestoreStep

-----------------------------------------------------------------------------
(* The runs *)

\* What a push publishes is so
PushReports ==
    \A p \in Pushes :
        /\ says[p] \in {"nothing was sent", "forbidden lines", "rejected", "stopped before its card"} => ~taken[p].sent
        /\ says[p] = "changed" => taken[p].took = taken[p].asked
        /\ says[p] = "rejections" => taken[p].took # taken[p].asked

PushesOK == RunType /\ RunsOK /\ PushReports

\* A run is at a step, has published something, and no other run has moved
Moved(r, to, what) ==
    /\ at' \in [Runs -> PushTask \cup RestoreTask] /\ says' \in [Runs -> Published]
    /\ \A q \in Pushes : at'[q] \in PushTask
    /\ at'[r] = to /\ says'[r] = what
    /\ \A q \in Runs \ {r} : at'[q] = at[q] /\ says'[q] = says[q]

\* What going on and ending with a word are to the other runs.
LEMMA RunMoves ==
    ASSUME RunType, NEW r \in Runs
    PROVE  /\ \A to \in PushTask \cup RestoreTask : (r \in Pushes => to \in PushTask) /\ GoesOn(r, to) => Moved(r, to, says[r])
           /\ \A what \in Published : Says(r, what) => Moved(r, "ended", what)
<1>1. ASSUME NEW to \in PushTask \cup RestoreTask, r \in Pushes => to \in PushTask, GoesOn(r, to)
      PROVE  Moved(r, to, says[r])
  BY <1>1 DEF RunType, GoesOn, Moved
<1>2. ASSUME NEW what \in Published, Says(r, what) PROVE Moved(r, "ended", what)
  <2>1. at' = [at EXCEPT ![r] = "ended"] /\ says' = [says EXCEPT ![r] = what]
    BY <1>2 DEF Says
  <2> QED
    BY <2>1, RunTasks DEF RunType, Moved
<1> QED
  BY <1>1, <1>2

\* A push's step, one action at a time.
LEMMA PushStepKeeps ==
    ASSUME PushesOK, NEW p \in Pushes, PushStep(p)
    PROVE  PushesOK'
<1>g. ASSUME NEW to \in PushTask, GoesOn(p, to) PROVE Moved(p, to, says[p])
  BY <1>g, RunMoves, RunTasks DEF PushesOK
<1>s. ASSUME NEW what \in Published, Says(p, what) PROVE Moved(p, "ended", what)
  BY <1>s, RunMoves, RunTasks DEF PushesOK
<1>n. at[p] # "ended" => says[p] = "nothing"
  BY DEF PushesOK, RunsOK
<1>u. ASSUME NEW to, NEW what, Moved(p, to, what), UNCHANGED taken,
             \/ to = "ended" \/ what = "nothing",
             at[p] \notin {"not started", "check", "group", "card", "send"} => to \notin {"check", "group", "card", "send", "not started"},
             what \in {"nothing was sent", "forbidden lines", "rejected", "stopped before its card"} => ~taken[p].sent,
             what = "changed" => taken[p].took = taken[p].asked,
             what = "rejections" => taken[p].took # taken[p].asked
      PROVE  PushesOK'
  <2>1. RunType'
    BY <1>u DEF PushesOK, RunType, Moved
  <2>2. \A q \in Pushes \ {p} : at'[q] = at[q] /\ says'[q] = says[q]
    BY <1>u, RunTasks DEF Moved
  <2>3. at'[p] = to /\ says'[p] = what
    BY <1>u DEF Moved
  <2>4. RunsOK'
    BY <1>u, <2>2, <2>3 DEF PushesOK, RunsOK
  <2>5. PushReports'
    BY <1>u, <2>2, <2>3 DEF PushesOK, PushReports
  <2> QED
    BY <2>1, <2>4, <2>5 DEF PushesOK
<1>e. at[p] \in {"not started", "check", "group", "card", "send"} => ~taken[p].sent
  BY DEF PushesOK, RunsOK
<1> USE RunTasks, WhatIsSaid
<1>1. CASE CheckLines(p)
  <2>1. at[p] = "check" /\ UNCHANGED taken
    BY <1>1 DEF CheckLines, IsAt
  <2>2. Moved(p, "group", says[p]) \/ Moved(p, "ended", "forbidden lines") \/ Moved(p, "ended", "nothing was sent")
    BY <1>1, <1>g, <1>s DEF CheckLines, Fails
  <2> QED
    BY <2>1, <2>2, <1>n, <1>u, <1>e
<1>2. CASE AddGroup(p)
  <2>1. at[p] = "group" /\ UNCHANGED taken
    BY <1>2 DEF AddGroup, IsAt
  <2>2. Moved(p, "card", says[p]) \/ Moved(p, "ended", "stopped before its card")
    BY <1>2, <1>g, <1>s DEF AddGroup, Fails
  <2> QED
    BY <2>1, <2>2, <1>n, <1>u, <1>e
<1>3. CASE Decide(p)
  <2>1. at[p] = "card" /\ UNCHANGED taken
    BY <1>3 DEF Decide, IsAt
  <2>2. Moved(p, "send", says[p]) \/ Moved(p, "ended", "rejected")
    BY <1>3, <1>g, <1>s DEF Decide
  <2> QED
    BY <2>1, <2>2, <1>n, <1>u, <1>e
<1>4. CASE Send(p)
  <2>1. Moved(p, "reply", says[p]) \/ Moved(p, "ended", "could not apply, or could not say")
    BY <1>4, <1>g, <1>s DEF Send, Fails
  <2>2. PICK some \in SUBSET taken[p].asked : taken' = [taken EXCEPT ![p].sent = TRUE, ![p].took = some]
    BY <1>4 DEF Send, Takes
  <2>3. some \in SUBSET Edits
    BY LinesAssumption DEF PushesOK, RunType
  <2>4. /\ taken' \in [Pushes -> [asked : Proposals \cup {{}}, sent : BOOLEAN, took : SUBSET Edits]]
        /\ \A q \in Pushes : taken'[q].took \subseteq taken'[q].asked
    BY <2>2, <2>3 DEF PushesOK, RunType
  <2>11. taken'[p].sent /\ \A q \in Pushes \ {p} : taken'[q] = taken[q]
    BY <2>2 DEF PushesOK, RunType
  <2>5. says[p] = "nothing"
    BY <1>4, <1>n DEF Send, IsAt
  <2>6. /\ at'[p] \in {"reply", "ended"} /\ says'[p] \in {"nothing", "could not apply, or could not say"}
        /\ at'[p] = "reply" => says'[p] = "nothing"
    BY <2>1, <2>5 DEF Moved
  <2>7. \A q \in Pushes \ {p} : at'[q] = at[q] /\ says'[q] = says[q]
    BY <2>1 DEF Moved
  <2>8. RunType'
    BY <2>1, <2>4 DEF RunType, Moved
  <2>9. RunsOK'
    BY <2>11, <2>6, <2>7 DEF PushesOK, RunsOK
  <2>10. PushReports'
    <3> SUFFICES ASSUME NEW q \in Pushes
                 PROVE  /\ says'[q] \in {"nothing was sent", "forbidden lines", "rejected", "stopped before its card"} => ~taken'[q].sent
                        /\ says'[q] = "changed" => taken'[q].took = taken'[q].asked
                        /\ says'[q] = "rejections" => taken'[q].took # taken'[q].asked
      BY DEF PushReports
    <3>1. CASE q = p
      BY <2>6, <3>1
    <3>2. CASE q # p
      <4>1. says'[q] = says[q] /\ taken'[q] = taken[q]
        BY <2>11, <2>7, <3>2
      <4>2. /\ says[q] \in {"nothing was sent", "forbidden lines", "rejected", "stopped before its card"} => ~taken[q].sent
            /\ says[q] = "changed" => taken[q].took = taken[q].asked
            /\ says[q] = "rejections" => taken[q].took # taken[q].asked
        BY DEF PushesOK, PushReports
      <4> QED
        BY ONLY <4>1, <4>2
    <3> QED
      BY <3>1, <3>2
  <2> QED
    BY <2>8, <2>9, <2>10 DEF PushesOK
<1>5. CASE ReadReply(p)
  <2>1. at[p] = "reply" /\ UNCHANGED taken
    BY <1>5 DEF ReadReply, IsAt
  <2>2. \/ taken[p].took = taken[p].asked /\ Moved(p, "ended", "changed")
        \/ taken[p].took # taken[p].asked /\ Moved(p, "ended", "rejections")
        \/ Moved(p, "ended", "changed, reply unchecked")
    BY <1>5, <1>s DEF ReadReply, Rejected, Fails
  <2> QED
    BY <2>1, <2>2, <1>u
<1> QED
  BY <1>1, <1>2, <1>3, <1>4, <1>5 DEF PushStep

\* A run at a restore's step is not a push.
LEMMA RestoreStepKeeps ==
    ASSUME PushesOK, NEW r \in Restores, RestoreStep(r)
    PROVE  PushesOK'
<1>1. r \in Runs /\ r \notin Pushes /\ UNCHANGED taken
  BY RunTasks, RunsAssumption DEF RestoreStep, Replace, Prove
<1>2. \E to, what : Moved(r, to, what)
  <2>1. \/ GoesOn(r, "proof")
        \/ \E what \in Published : Says(r, what)
    BY WhatIsSaid DEF RestoreStep, Replace, Prove, Fails, NotDone
  <2> QED
    BY <1>1, <2>1, RunMoves, RunTasks DEF PushesOK
<1>3. \A p \in Pushes : at'[p] = at[p] /\ says'[p] = says[p]
  BY <1>1, <1>2, RunTasks DEF Moved
<1>4. RunType'
  BY <1>1, <1>2 DEF PushesOK, RunType, Moved
<1>5. RunsOK'
  BY <1>1, <1>3 DEF PushesOK, RunsOK
<1>6. PushReports'
  BY <1>1, <1>3 DEF PushesOK, PushReports
<1> QED
  BY <1>4, <1>5, <1>6 DEF PushesOK

\* A run that starts has published nothing, and a push that starts is asked for lines.
LEMMA RunStartKeeps ==
    ASSUME PushesOK, (\E p \in Pushes : StartPush(p)) \/ \E r \in Restores : StartRestore(r)
    PROVE  PushesOK'
<1>1. ASSUME NEW p \in Pushes, StartPush(p) PROVE PushesOK'
  <2>1. PICK lines \in Proposals : taken' = [taken EXCEPT ![p].asked = lines]
    BY <1>1 DEF StartPush
  <2>2. at[p] = "not started" /\ at' = [at EXCEPT ![p] = "check"] /\ says' = says
    BY <1>1 DEF StartPush, IsAt, GoesOn
  <2>3. says[p] = "nothing" /\ ~taken[p].sent /\ taken[p].took = {}
    BY <2>2 DEF PushesOK, RunsOK
  <2>4. /\ taken' \in [Pushes -> [asked : Proposals \cup {{}}, sent : BOOLEAN, took : SUBSET Edits]]
        /\ ~taken'[p].sent /\ taken'[p].took = {}
        /\ \A q \in Pushes \ {p} : taken'[q] = taken[q]
    BY <2>1, <2>3 DEF PushesOK, RunType
  <2>5. RunType'
    BY <2>2, <2>4, RunTasks DEF PushesOK, RunType
  <2>6. /\ at'[p] = "check" /\ says'[p] = "nothing"
        /\ \A q \in Pushes \ {p} : at'[q] = at[q] /\ says'[q] = says[q]
    BY <2>2, <2>3, RunTasks DEF PushesOK, RunType
  <2>7. RunsOK'
    BY <2>4, <2>6 DEF PushesOK, RunsOK
  <2>8. PushReports'
    BY <2>4, <2>6 DEF PushesOK, PushReports
  <2> QED
    BY <2>5, <2>7, <2>8 DEF PushesOK
<1>2. ASSUME NEW r \in Restores, StartRestore(r) PROVE PushesOK'
  <2>1. UNCHANGED <<says, taken>> /\ at' = [at EXCEPT ![r] = "replace"] /\ at[r] = "not started"
    BY <1>2 DEF StartRestore, GoesOn, IsAt
  <2>3. \A q \in Pushes : at'[q] = at[q]
    BY <2>1, RunTasks, RunsAssumption DEF PushesOK, RunType
  <2>2. RunType'
    BY <2>1, <2>3, RunTasks DEF PushesOK, RunType
  <2>4. RunsOK'
    BY <2>1, <2>3 DEF PushesOK, RunsOK
  <2>5. PushReports'
    BY <2>1 DEF PushesOK, PushReports
  <2> QED
    BY <2>2, <2>4, <2>5 DEF PushesOK
<1> QED
  BY <1>1, <1>2

-----------------------------------------------------------------------------
(* The test jobs *)

\* A cleanup that says the jobs are gone left none of those it found
CleanupReports ==
    \A c \in Cleanups : cleanup[c].says \in {"canceled", "no open job"} =>
        \/ Cardinality(cleanup[c].listed) > ListLimit
        \/ \A j \in cleanup[c].listed : status[j] \notin SkillJobOpen

JobsOK == JobType /\ CleanupsOK /\ CleanupReports

\* A list of the query's length, of jobs that are open, is all of them or at its limit.
LEMMA ListedIsAll ==
    ASSUME NEW ids \in SUBSET Open,
           Cardinality(ids) = IF Cardinality(Open) <= ListLimit THEN Cardinality(Open) ELSE ListLimit
    PROVE  ids = Open \/ Cardinality(Open) > ListLimit
<1>1. IsFiniteSet(Open)
  BY ListAssumption, FS_Subset DEF Open
<1>2. Cardinality(Open) \in Nat
  BY <1>1, FS_CardinalityType
<1>3. CASE Cardinality(Open) <= ListLimit
  BY <1>1, <1>3, FS_Subset
<1> QED
  BY <1>2, <1>3, ListAssumption

\* A job that starts, or ends by hand, is never again one that did not start.
LEMMA JobMoves ==
    ASSUME JobsOK, NEW j \in Jobs, StartJob(j) \/ ByHand(j)
    PROVE  JobsOK'
<1>1. JobType'
  BY DEF JobsOK, JobType, StartJob, ByHand, SkillJobOpen
<1>2. /\ UNCHANGED cleanup
      /\ \A i \in Jobs : status[i] # "not started" =>
            status'[i] # "not started" /\ (status[i] \notin SkillJobOpen => status'[i] \notin SkillJobOpen)
  BY DEF JobsOK, JobType, StartJob, ByHand, SkillJobOpen
<1>3. \A c \in Cleanups : cleanup[c].listed \subseteq Jobs
  BY DEF JobsOK, JobType
<1>4. CleanupsOK'
  BY <1>2, <1>3 DEF JobsOK, CleanupsOK
<1>5. CleanupReports'
  BY <1>2, <1>3 DEF JobsOK, CleanupsOK, CleanupReports
<1> QED
  BY <1>1, <1>4, <1>5 DEF JobsOK

\* A cleanup lists the open jobs, or as many as the list returns.
LEMMA ListMoves ==
    ASSUME JobsOK, NEW c \in Cleanups, NEW failing, ListOpen(c, failing)
    PROVE  JobsOK'
<1>1. UNCHANGED status /\ cleanup[c].at = "not started"
  BY DEF ListOpen, Is
<1>2. CASE failing /\ Ends(c, "could not be read")
  <2>3. "could not be read" \in Ended
    BY WhatIsSaid
  <2>4. cleanup' \in [Cleanups -> [at : {"not started", "cancel", "ended"}, listed : SUBSET Jobs, ids : SUBSET Jobs, says : Ended]]
    BY <1>2, <2>3 DEF JobsOK, JobType, Ends
  <2>1. JobType'
    BY <1>1, <2>4 DEF JobsOK, JobType
  <2>2. CleanupsOK' /\ CleanupReports'
    BY ZenonT(60), <1>1, <1>2 DEF JobsOK, JobType, CleanupsOK, CleanupReports, Ends
  <2> QED
    BY <2>1, <2>2 DEF JobsOK
<1>3. ASSUME NEW ids \in SUBSET Open,
             Cardinality(ids) = IF Cardinality(Open) <= ListLimit THEN Cardinality(Open) ELSE ListLimit,
             cleanup' = [cleanup EXCEPT ![c] = [at |-> IF ids = {} THEN "ended" ELSE "cancel", listed |-> Open, ids |-> ids,
                                                says |-> IF ids = {} THEN "no open job" ELSE "nothing"]]
      PROVE  JobsOK'
  <2>1. Open \subseteq Jobs /\ \A j \in Open : status[j] # "not started"
    BY DEF Open, SkillJobOpen
  <2>2. ids = Open \/ Cardinality(Open) > ListLimit
    BY <1>3, ListedIsAll
  <2>3. JobType'
    BY <1>1, <1>3, <2>1, WhatIsSaid DEF JobsOK, JobType
  <2>4. CleanupsOK'
    BY <1>1, <1>3, <2>1, <2>2 DEF JobsOK, JobType, CleanupsOK
  <2>5. CleanupReports'
    BY <1>1, <1>3, <2>1, <2>2 DEF JobsOK, JobType, CleanupReports
  <2> QED
    BY <2>3, <2>4, <2>5 DEF JobsOK
<1> QED
  BY <1>2, <1>3 DEF ListOpen

\* A cleanup that canceled its ids has left none of them open.
LEMMA CancelMoves ==
    ASSUME JobsOK, NEW c \in Cleanups, NEW failing, Cancel(c, failing)
    PROVE  JobsOK'
<1>1. cleanup[c].at = "cancel" /\ cleanup[c].ids \subseteq Jobs /\ \A d \in Cleanups : cleanup[d].listed \subseteq Jobs
  BY DEF JobsOK, JobType, Cancel, Is
<1>2. PICK what \in {"canceled", "refused"} : Ends(c, what)
  BY DEF Cancel
<1>3. \E some \in SUBSET Jobs : status' = [j \in Jobs |-> IF j \in some THEN "canceled" ELSE status[j]]
  BY DEF Cancel, Open
<1>4. JobType'
  <2>1. status' \in [Jobs -> {"not started", "complete", "canceled"} \cup SkillJobOpen]
    BY <1>3 DEF JobsOK, JobType
  <2>2. what \in Ended
    BY WhatIsSaid
  <2>3. cleanup' \in [Cleanups -> [at : {"not started", "cancel", "ended"}, listed : SUBSET Jobs, ids : SUBSET Jobs, says : Ended]]
    BY <1>2, <2>2 DEF JobsOK, JobType, Ends
  <2> QED
    BY <2>1, <2>3 DEF JobType
<1>5. \A j \in Jobs : /\ status[j] # "not started" => status'[j] # "not started"
                      /\ status[j] \notin SkillJobOpen => status'[j] \notin SkillJobOpen
  BY <1>3 DEF SkillJobOpen
<1>6. CleanupsOK'
  BY <1>1, <1>2, <1>5 DEF JobsOK, JobType, CleanupsOK, Ends
<1>7. ASSUME cleanup'[c].says = "canceled", NEW j \in cleanup[c].ids
      PROVE  status'[j] \notin SkillJobOpen
  <2>1. status' = [i \in Jobs |-> IF i \in cleanup[c].ids \cap Open THEN "canceled" ELSE status[i]]
    <3>1. ASSUME Ends(c, "refused") PROVE FALSE
      <4>1. cleanup'[c].says = "refused"
        BY <3>1 DEF JobsOK, JobType, Ends
      <4> QED
        BY <1>7, <4>1
    <3> QED
      BY <3>1 DEF Cancel
  <2> QED
    BY <1>1, <1>7, <2>1 DEF Open, SkillJobOpen
<1>8. CleanupReports'
  <2> SUFFICES ASSUME NEW d \in Cleanups, cleanup'[d].says \in {"canceled", "no open job"},
                      ~(Cardinality(cleanup'[d].listed) > ListLimit), NEW j \in cleanup'[d].listed
               PROVE  status'[j] \notin SkillJobOpen
    BY DEF CleanupReports
  <2>1. cleanup'[d].listed = cleanup[d].listed
    BY <1>2 DEF JobsOK, JobType, Ends
  <2>2. CASE d = c
    <3>1. cleanup'[c].says = "canceled"
      BY <1>2, <2>2 DEF JobsOK, JobType, Ends
    <3> QED
      BY <1>1, <1>7, <2>1, <2>2, <3>1 DEF JobsOK, CleanupsOK
  <2>3. CASE d # c
    <3>1. cleanup'[d] = cleanup[d]
      BY <1>2, <2>3 DEF JobsOK, JobType, Ends
    <3> QED
      BY <1>1, <1>5, <3>1 DEF JobsOK, CleanupReports
  <2> QED
    BY <2>2, <2>3
<1> QED
  BY <1>4, <1>6, <1>8 DEF JobsOK

-----------------------------------------------------------------------------
(* The invariant *)

\* IInv speaks of the router, of the runs and of the test jobs apart.
LEMMA Parts ==
    /\ IInv <=> RouterOK /\ PushesOK /\ JobsOK
    /\ IInv' <=> RouterOK' /\ PushesOK' /\ JobsOK'
  BY DEF IInv, TypeOK, RouterOK, PushesOK, JobsOK, ReportsAreTrue, PushReports, CleanupReports

\* At first the router is at its baseline and nothing has run.
LEMMA InitIInv == Init => IInv
<1> SUFFICES ASSUME Init PROVE IInv
  OBVIOUS
<1>1. RouterOK
  <2>1. RouterType
    BY LineFacts, PlayTasks DEF Init, InitRouter, InitRuns, RouterType, PlayState
  <2>2. ProbeOK /\ AloneOK /\ RestoredIsClean
    BY LineFacts DEF Init, InitRouter, InitRuns, ProbeOK, AloneOK, RestoredIsClean, At
  <2> QED
    BY <2>1, <2>2 DEF RouterOK
<1>2. PushesOK
  BY RunTasks, WhatIsSaid DEF Init, InitRuns, PushesOK, RunType, RunsOK, PushReports
<1>3. JobsOK
  BY WhatIsSaid DEF Init, InitJobs, JobsOK, JobType, CleanupsOK, CleanupReports
<1> QED
  BY <1>1, <1>2, <1>3, Parts

\* What a step leaves alone it keeps.
LEMMA Kept ==
    /\ RouterOK /\ UNCHANGED <<env, playVars, proved, taken>> => RouterOK'
    /\ PushesOK /\ UNCHANGED <<at, says, taken>> => PushesOK'
    /\ JobsOK /\ UNCHANGED testVars => JobsOK'
<1>1. RouterOK /\ UNCHANGED <<env, playVars, proved, taken>> => RouterOK'
  <2> SUFFICES ASSUME RouterOK, UNCHANGED <<env, playVars, proved, taken>> PROVE RouterOK'
    OBVIOUS
  <2>0. UNCHANGED Renamed
    BY SameName
  <2>1. UNCHANGED <<env, running, baseline, nacm, wanted, play, plays, edits, sound, unproved, proved>>
    BY DEF playVars, routerVars
  <2>2. RouterType'
    BY <2>1 DEF RouterOK, RouterType
  <2>3. ProbeOK' /\ AloneOK'
    BY <2>0, <2>1 DEF RouterOK, ProbeOK, AloneOK, At
  <2>4. RestoredIsClean'
    BY <2>0, <2>1 DEF RouterOK, RestoredIsClean, Clean
  <2> QED
    BY <2>2, <2>3, <2>4 DEF RouterOK
<1>2. PushesOK /\ UNCHANGED <<at, says, taken>> => PushesOK'
  <2> SUFFICES ASSUME PushesOK, UNCHANGED <<at, says, taken>> PROVE PushesOK'
    OBVIOUS
  <2>1. RunType'
    BY DEF PushesOK, RunType
  <2>2. RunsOK' /\ PushReports'
    BY DEF PushesOK, RunsOK, PushReports
  <2> QED
    BY <2>1, <2>2 DEF PushesOK
<1>3. JobsOK /\ UNCHANGED testVars => JobsOK'
  BY DEF JobsOK, JobType, CleanupsOK, CleanupReports, testVars
<1> QED
  BY <1>1, <1>2, <1>3

\* Every step keeps the invariant.
LEMMA NextKeeps == IInv /\ Next => IInv'
<1> SUFFICES ASSUME IInv, Next PROVE RouterOK' /\ PushesOK' /\ JobsOK'
  BY Parts
<1>1. RouterOK /\ PushesOK /\ JobsOK
  BY Parts
<1>2. CASE (PlayGoes \/ (Beside /\ UNCHANGED proved)) /\ UNCHANGED <<at, says, taken, testVars>>
  BY <1>1, <1>2, Kept, PlayStepKeeps, BesideKeeps, SameName
<1>3. CASE (\E p \in Pushes : PushStep(p)) /\ UNCHANGED testVars
  BY <1>1, <1>3, Kept, PushKeeps, PushStepKeeps DEF PushesOK
<1>4. CASE (\E r \in Restores : RestoreStep(r)) /\ UNCHANGED testVars
  BY <1>1, <1>4, Kept, RestoreKeeps, RestoreStepKeeps
<1>5. CASE ((\E p \in Pushes : StartPush(p)) \/ \E r \in Restores : StartRestore(r)) /\ UNCHANGED testVars
  BY <1>1, <1>5, Kept, StartKeeps, RunStartKeeps DEF PushesOK
<1>6. CASE (\E j \in Jobs : StartJob(j) \/ ByHand(j)) /\ UNCHANGED <<env, playVars, runVars>>
  BY <1>1, <1>6, Kept, JobMoves DEF runVars
<1>7. CASE /\ \E c \in Cleanups : ListOpen(c, env.failing) \/ Cancel(c, env.failing)
           /\ UNCHANGED <<env, playVars, runVars>>
  BY <1>1, <1>7, Kept, ListMoves, CancelMoves DEF runVars
<1> QED
  BY <1>2, <1>3, <1>4, <1>5, <1>6, <1>7, NextCases

\* The invariant the properties rest on: the play alone on its router, the
\* probe's hostname, what a push has sent and what a cleanup was given.
THEOREM Inductive == Spec => []IInv
<1>1. IInv /\ [Next]_vars => IInv'
  <2>1. IInv /\ UNCHANGED vars => IInv'
    BY Kept, Parts DEF vars, runVars
  <2> QED
    BY <2>1, NextKeeps
<1> QED
  BY <1>1, InitIInv, PTL DEF Spec

\* Every variable keeps its shape, for any number of runs, plays and jobs, and
\* the router takes nothing of a push but what it was asked for.
THEOREM TypeCorrect == Spec => []TypeOK
<1>1. IInv => TypeOK
  BY DEF IInv
<1> QED
  BY <1>1, Inductive, PTL

\* A restore that says restored leaves the baseline, and the baseline is one the
\* eval runs may start from, however many plays, pushes and restores overlap.
THEOREM RestoresAreClean == Spec => []RestoredIsClean
<1>1. IInv => RestoredIsClean
  BY DEF IInv
<1> QED
  BY <1>1, Inductive, PTL

\* What a push and a cleanup publish is so, for any number of them and any limit
\* of the query.
THEOREM ReportsHold == Spec => []ReportsAreTrue
<1>1. IInv => ReportsAreTrue
  BY DEF IInv
<1> QED
  BY <1>1, Inductive, PTL
=============================================================================
