----------------------------- MODULE MCBranchVlan -----------------------------
(* Branch VLAN on small instances. *)
EXTENDS BranchVlan, TLC

MCSymmetry == Permutations(AddJobs)

\* MCActions: the name that may also be asked for by hand
ByHandName == CHOOSE n \in Names : TRUE

\* Who asks for what: by hand, or as the create action; with a change or not
MCByHand  == [name : Names, change : {FALSE}, action : {FALSE}]
MCActions == {q \in [name : Names, change : {FALSE}, action : BOOLEAN] : q.action \/ q.name = ByHandName}
MCAll     == [name : Names, change : BOOLEAN, action : BOOLEAN]
=============================================================================
