----------------------------- MODULE MCPublishing -----------------------------
(* Small instances of Publishing.                                              *)
EXTENDS PublishingInvariant, FiniteSets, TLC

(* Every id belongs to the one post there is.                                  *)
MCOnePost == [p \in Pubs |-> CHOOSE post \in Posts : TRUE]

MCSymmetry == Permutations(Handlers) \cup Permutations(Pubs)

(* Captions and instants are compared for equality and nothing else.           *)
MCPlanSymmetry == MCSymmetry \cup Permutations(Captions) \cup Permutations(Instants)

(* Signal, the row and the provider hold two different plans at most, each     *)
(* with a date.                                                                *)
MCTwoPlans ==
  LET held == {pub[p].sent : p \in Pubs} \cup {remote[p].held : p \in Pubs}
      plans == (held \ {None}) \cup {plan[post] : post \in Posts}
  IN Cardinality(plans) <= 2 /\ \A s \in plans : Publishable(s)
===============================================================================
