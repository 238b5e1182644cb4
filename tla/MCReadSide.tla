------------------------------ MODULE MCReadSide ------------------------------
(***************************************************************************)
(* ReadSide on a small instance: Recall's facts, moods from five recalled  *)
(* nodes, and every cell of the table beside ids that name none.           *)
(***************************************************************************)
EXTENDS MCRecall, ReadSide

\* A joy an hour old, a grief just now, a calm from the future that hardly
\* weighs, a node with a NaN valence, and one with a NaN intensity.
MCRecalled ==
    {[affect |-> [valence |-> 80, arousal |-> 60, intensity |-> 70],
      relevance |-> 90, node_time |-> 0],
     [affect |-> [valence |-> -90, arousal |-> 90, intensity |-> 40],
      relevance |-> 20, node_time |-> 3600],
     [affect |-> [valence |-> 10, arousal |-> 0, intensity |-> 5],
      relevance |-> -100, node_time |-> 7200],
     [affect |-> [valence |-> NaN, arousal |-> 50, intensity |-> 50],
      relevance |-> 50, node_time |-> 3600],
     [affect |-> [valence |-> 50, arousal |-> 50, intensity |-> NaN],
      relevance |-> 50, node_time |-> 0]}

MCAskedCells == Cells \cup {0, 25, 255}

\* Halved every 69 hundredths, and 0 after seven halvings.
MCExp == [x \in 0 .. Underflow |-> 100 \div 2 ^ (x \div 69)]
=============================================================================
