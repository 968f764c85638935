------------------------------ MODULE MCCorpus ------------------------------
(***************************************************************************)
(* One situation, three activations and four days: long enough for a       *)
(* situation to be decided about, to go quiet and to pass the operational  *)
(* retention.                                                              *)
(***************************************************************************)
EXTENDS Corpus

MCPolicy == [sink |-> 1, training |-> 2, audit |-> 2]
MCCandidates == {[sink |-> 1, training |-> 2, audit |-> 3],
                 [sink |-> 2, training |-> 2, audit |-> 2]}

=============================================================================
