-------------------------- MODULE PublicationStates --------------------------
(* The delivery vocabulary of shared/publish.ts: the states of one row of    *)
(* signal_publications and the pure questions the server asks about a state. *)

PublicationState ==
  {"SUBMITTING", "SUBMITTED", "CONFIRMED", "PARTIAL", "FAILED", "UNCONFIRMED",
   "CANCELLED"}

(* publicationTracksProvider, the WHERE clause of the partial unique index   *)
(* and the double-submit check of submit() all name these three states.     *)
LiveStates == {"SUBMITTING", "SUBMITTED", "UNCONFIRMED"}

(* isReconcilableState: what an automatic check may still ask about.         *)
ReconcilableStates == {"SUBMITTING", "SUBMITTED"}

(* The states of a post at the provider as its record reports them, before   *)
(* the request arrives (SENT) and when it never does (REFUSED) included.     *)
RemoteState ==
  {"ABSENT", "SENT", "REFUSED", "SCHEDULED", "PROCESSING", "PUBLISHED",
   "FAILED", "DELETED"}

(* The five actions a person may commit against a submission.                *)
ProviderAction ==
  {"UPDATE_CONTENT", "UPDATE_SCHEDULE", "CANCEL", "RESTORE_AND_RESUBMIT",
   "RELEASE_LOCALLY"}
=============================================================================
