------------------------------ MODULE SignalDesk ------------------------------
(* One Signal post between its editors and those who publish it: what a        *)
(* preview shows is what SignalPosts has stored, so that an edit or a recheck  *)
(* while an approval waits moves the plan that PublishConfirmations compares.  *)
EXTENDS SignalPosts, PublicationStates

CONSTANTS Requests, Approvers, NoPlan

VARIABLES request, approval, publication, reached, direct

Desk == INSTANCE PublishConfirmations WITH plan <- stored

deskVars == <<request, approval, publication, reached, direct>>
vars == <<postVars, deskVars>>

Init == PostsInit /\ Desk!ConfirmationsInit

(* The editors' requests end with the process as well.                         *)
Stops == Desk!Crash /\ edit' = [e \in Editors |-> Idle] /\ UNCHANGED <<revision, stored, drive>>

Next ==
  \/ PostsNext /\ UNCHANGED deskVars
  \/ \E r \in Requests :
       /\ \/ Desk!Create(r) \/ Desk!Expire(r) \/ Desk!Deny(r) \/ Desk!ProviderDecides(r)
          \/ \E state \in PublicationState \ {"SUBMITTING"} : Desk!Settle(r, state)
       /\ UNCHANGED postVars
  \/ \E a \in Approvers, r \in Requests : Desk!Claim(a, r) /\ UNCHANGED postVars
  \/ \E a \in Approvers : Desk!ApprovalStep(a) /\ UNCHANGED postVars
  \/ Desk!PublishDirectly /\ UNCHANGED postVars
  \/ Stops

Spec == Init /\ [][Next]_vars

-------------------------------------------------------------------------------
(* Properties.                                                                 *)

(* Versions and revisions stay in their ranges, and every stored version is    *)
(* one that Drive has had.                                                     *)
TypeOK ==
  /\ revision \in 1 .. MaxRevision
  /\ stored \in [Lists -> Contents]
  /\ drive \in [Files -> 1 .. MaxVersion]
  /\ \A l \in Lists, f \in Files : stored[l][f] <= drive[f]
  /\ \A r \in Requests : request[r].status \in Desk!Statuses \cup {"NONE"}

ApprovedPlanIsSent == Desk!ApprovedPlanIsSent
RequestIsSentOnce == Desk!RequestIsSentOnce
PublishesAsPromised == Desk!PublishesAsPromised

Writes(e) == edit[e].pc = "writing" /\ edit'[e].pc = "idle"

(* An edit replaces the lists that its caller saw, although others were        *)
(* written while Drive was asked; only a recheck, which names no revision, may *)
(* have put an older list back in between.                                     *)
EditsReplaceWhatWasSeen ==
  [][\A e \in Editors :
       Writes(e) /\ edit[e].kind = "EDIT" /\ revision' # revision
         => Shown = edit[e].saw \/ edit[e].crossed]_vars
===============================================================================
