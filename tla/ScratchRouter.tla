---------------------------- MODULE ScratchRouter ----------------------------
(***************************************************************************)
(* A scratch router of the skills lab and the play that readies it         *)
(* (ansible/playbooks/skills-lab-devices.yml), one scripts/                *)
(* skills-lab-device.py command after the other: the two read accounts and *)
(* the NACM rules that make them read-only, the proof that they are, the   *)
(* standing OSPF lines, and the capture of the running configuration as    *)
(* bootflash:baseline.cfg, which the eval runner restores between runs.    *)
(*                                                                         *)
(* A configuration is a set of lines; the ends of all links are one line,  *)
(* "ports". The hostname counts only when it is not the file's: the line   *)
(* Probed, by the probe or by a push. A command that fails ends the play,  *)
(* which is run again.                                                     *)
(* Passwords, pins and the eval credentials are left out.                  *)
(***************************************************************************)
EXTENDS Naturals

CONSTANTS
    Environments,   \* what a behaviour is about: see Init of SkillsLab
    NacmAttempts    \* NACM_ATTEMPTS

VARIABLES
    env,            \* [runs, plays, edits, jobs, failing]
    running,        \* the running configuration
    baseline,       \* bootflash:baseline.cfg; empty until the first capture
    nacm,           \* "starting" after the boot, then "open", "rules" once the read rules are in force
    wanted,         \* lab.ospf.state of topology/skills-lab.yaml
    play,           \* [at, reader, tries, clean (the hostname its GET read), shown (Loopback0 was listed), alone]
    plays, edits,   \* how many, against env's bounds
    sound,          \* history: the baseline was captured, with no push's line live and no run beside the play
    unproved        \* history: a hostname the probe changed was not seen put back

routerVars == <<running, baseline, nacm>>
playVars == <<routerVars, wanted, play, plays, edits, sound, unproved>>

Own(name) == <<name, 1>>
ReaderNames == <<Own("restconf-reader"), Own("judge")>>
Readers == {ReaderNames[1], ReaderNames[2]}
Loopback == Own("Loopback0")
OspfLines == {Loopback, Own("ports"), Own("router ospf")}
Probed == Own("-nacm-check")
OwnLines == Readers \cup OspfLines \cup {Probed}

InitRouter ==
    /\ running = OspfLines /\ baseline = {} /\ nacm = "starting"
    /\ wanted = "present" /\ plays = 0 /\ edits = 0 /\ sound = TRUE /\ unproved = FALSE
    /\ play = [at |-> "ended", reader |-> 1, tries |-> 0, clean |-> TRUE, shown |-> FALSE, alone |-> TRUE]

At(step) == play.at = step
Goes(step) == play' = [play EXCEPT !.at = step]
GivesUp == env.failing /\ Goes("ended")

NacmReady ==
    /\ nacm = "starting" /\ nacm' = "open"
    /\ UNCHANGED <<env, running, baseline, wanted, play, plays, edits, sound, unproved>>

\* The play starts with the router's automation login, up to 20 minutes
StartPlay ==
    /\ At("ended") /\ plays < env.plays /\ plays' = plays + 1
    /\ play' = [play EXCEPT !.at = "accounts", !.reader = 1, !.tries = 0, !.alone = TRUE]
    /\ UNCHANGED <<env, routerVars, wanted, edits, sound, unproved>>

\* The router refuses a line, or the session ends, with any of the lines in
EndsPartWay(to) ==
    /\ GivesUp
    /\ \E some \in SUBSET (running \cup to) : running' = (running \ some) \cup (some \cap to)

Accounts ==
    /\ At("accounts")
    /\ \/ running' = running \cup Readers /\ Goes("rules")
       \/ EndsPartWay(running \cup Readers)
    /\ UNCHANGED <<env, baseline, nacm, wanted, plays, edits, sound, unproved>>

\* populate_read_rules: refused until NACM is up, tried again a fixed number of times;
\* what the router accepts need not be in force
Populate ==
    /\ At("rules")
    /\ \/ nacm # "starting" /\ nacm' = "rules" /\ Goes("check")
       \/ nacm # "starting" /\ env.failing /\ nacm' = "open" /\ Goes("check")
       \/ /\ nacm = "starting" \/ env.failing
          /\ play' = [play EXCEPT !.tries = @ + 1, !.at = IF play.tries + 1 < NacmAttempts THEN "rules" ELSE "ended"]
          /\ UNCHANGED nacm
    /\ UNCHANGED <<env, running, baseline, wanted, plays, edits, sound, unproved>>

\* check_readers, a reader: it GETs the hostname and PATCHes it with a suffix,
\* refused (403) only where the read rules are in force
Probe ==
    /\ At("check")
    /\ LET reader == ReaderNames[play.reader]
           next == IF play.reader = 1 THEN [play EXCEPT !.reader = 2] ELSE [play EXCEPT !.at = "ospf"]
           readable == reader \in running
           stops == Goes("ended") /\ UNCHANGED <<running, unproved>>
       IN \/ readable /\ nacm = "rules" /\ play' = next /\ UNCHANGED <<running, unproved>>
          \/ (~readable \/ env.failing) /\ stops
          \/ /\ readable /\ nacm # "rules" /\ running' = running \cup {Probed}
             /\ play' = [play EXCEPT !.at = "put back", !.clean = Probed \notin running]
             /\ UNCHANGED unproved
          \/ /\ readable /\ nacm # "rules" /\ GivesUp       \* the answer of the PATCH is lost
             /\ running' = running \cup {Probed} /\ unproved' = TRUE
    /\ UNCHANGED <<env, baseline, nacm, wanted, plays, edits, sound>>

\* _put_hostname_back, then the play ends. Mutant: the play ends at once.
NotPutBack ==
    /\ At("put back") /\ Goes("ended") /\ UNCHANGED <<env, routerVars, wanted, plays, edits, sound, unproved>>
PutBack ==
    /\ At("put back") /\ Goes("ended")
    /\ LET back == IF play.clean THEN running \ {Probed} ELSE running \cup {Probed}
       IN \/ running' = back /\ UNCHANGED unproved
          \/ env.failing /\ running' \in {running, back} /\ unproved' = TRUE
    /\ UNCHANGED <<env, baseline, nacm, wanted, plays, edits, sound>>

\* lab.ospf.state absent: which removals the router would accept, on a connection of its own
ShowLoopback ==
    /\ At("ospf") /\ wanted = "absent"
    /\ \/ play' = [play EXCEPT !.at = "remove", !.shown = Loopback \in running]
       \/ GivesUp
    /\ UNCHANGED <<env, routerVars, wanted, plays, edits, sound, unproved>>

\* removals_needed: Loopback0 is removed only where it was listed
Removals == IF play.shown THEN OspfLines ELSE OspfLines \ {Loopback}

\* The standing OSPF lines, or their removal; one line refused ends the play.
\* Mutant: the reply is not read.
ReplyUnread ==
    /\ \/ At("ospf") /\ wanted = "present"
       \/ At("remove")
    /\ LET to == IF At("ospf") THEN running \cup OspfLines ELSE running \ Removals
       IN /\ \/ running' = to
             \/ env.failing /\ running' \in {running \cup to, running \cap to}
          /\ Goes("capture")
    /\ UNCHANGED <<env, baseline, nacm, wanted, plays, edits, sound, unproved>>
Ospf ==
    /\ \/ At("ospf") /\ wanted = "present"
       \/ At("remove")
    /\ LET to == IF At("ospf") THEN running \cup OspfLines ELSE running \ Removals
           refused == At("remove") /\ play.shown /\ Loopback \notin running
       IN \/ ~refused /\ running' = to /\ Goes("capture")
          \/ refused /\ running' = to /\ Goes("ended")
          \/ EndsPartWay(to)
    /\ UNCHANGED <<env, baseline, nacm, wanted, plays, edits, sound, unproved>>

\* The save, the copy or the listing does not prove itself: the file is the old
\* one, or what the copy had written, OSPF being what comes last in it
NotCaptured ==
    /\ env.failing
    /\ \/ UNCHANGED <<baseline, sound>>
       \/ baseline' \in {running, running \ OspfLines} /\ sound' = FALSE

\* write memory, the copy and its listing, each proved by its own output
Capture ==
    /\ At("capture") /\ Goes("ended")
    /\ \/ baseline' = running /\ sound' = (play.alone /\ running \subseteq OwnLines)
       \/ NotCaptured
    /\ UNCHANGED <<env, running, nacm, wanted, plays, edits, unproved>>

\* A person edits topology/skills-lab.yaml, not under a play
EditOspf ==
    /\ edits < env.edits /\ edits' = edits + 1 /\ At("ended")
    /\ wanted' = IF wanted = "present" THEN "absent" ELSE "present"
    /\ UNCHANGED <<env, routerVars, play, plays, sound, unproved>>

PlayStep == Accounts \/ Populate \/ Probe \/ PutBack \/ ShowLoopback \/ Ospf \/ Capture
=============================================================================
