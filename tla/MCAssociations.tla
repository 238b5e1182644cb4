---------------------------- MODULE MCAssociations ----------------------------
(***************************************************************************)
(* Associations on small instances.                                        *)
(***************************************************************************)
EXTENDS Associations

\* Two facts with like embeddings that share a name.
MCFacts ==
    {[vector |-> "v", mentions |-> {"Meridian"}],
     [vector |-> "w", mentions |-> {"Meridian", "Byte"}]}

MCSimilarity == [v |-> [v |-> 100, w |-> 40], w |-> [v |-> 40, w |-> 100]]

MCEntityLimits == {<<2, 1>>}

\* Facts whose embeddings say nothing.
PlainFacts == {[vector |-> "v", mentions |-> {}]}
PlainSimilarity == [v |-> [v |-> 100]]
=============================================================================
