------------------------------ MODULE MCCatalog ------------------------------
(* Catalog for TLC. *)
EXTENDS Catalog, TLC

(* A schema with and one without column families. *)
MCTwoSchemas ==
    {[families |-> fams, deletion_protection |-> FALSE, change_stream_config |-> FALSE] :
        fams \in {<< >>, [f \in Family |-> CHOOSE g \in ValidRule : TRUE]}}

MCOneSchema ==
    {[families |-> [f \in Family |-> CHOOSE g \in ValidRule : TRUE],
      deletion_protection |-> FALSE, change_stream_config |-> FALSE]}

MCAllUpdates == UpdateRequest

(* Both fields at once, set for good. *)
MCOneUpdate == {[protect |-> TRUE, stream |-> TRUE]}

(* For the runs without liveness properties. *)
MCSymmetry == Permutations(Name) \union Permutations(Client) \union Permutations(Object)
=============================================================================
