------------------------------ MODULE MCRecall ------------------------------
(***************************************************************************)
(* Recall on small instances, asked for one direction.                     *)
(***************************************************************************)
EXTENDS Recall

MCQuery == <<1, 0>>

\* The human's words: far; near; and nearly as near, so near that its code is
\* no farther.  An output of the model, nearer, that weight puts behind them;
\* its self-description, nearer still; a vector spoiled by a NaN; and one of
\* another length.  Ties come as soon as one is repeated.
MCFacts ==
    {[source_type |-> "UserUtterance",      embedding |-> <<1, -5>>],
     [source_type |-> "UserUtterance",      embedding |-> <<3, 4>>],
     [source_type |-> "UserUtterance",      embedding |-> <<11, 15>>],
     [source_type |-> "LlmGeneration",      embedding |-> <<7, 3>>],
     [source_type |-> "LlmSelfDescription", embedding |-> <<1, 0>>],
     [source_type |-> "ExternalDoc",        embedding |-> <<4, NaN>>],
     [source_type |-> "ExternalDoc",        embedding |-> <<1>>]}

\* Without the near tie, the NaN and the odd length.
PlainFacts ==
    {fact \in MCFacts : ~HasNaN(fact.embedding) /\ Len(fact.embedding) = 2
                        /\ fact.embedding # <<11, 15>>}
=============================================================================
