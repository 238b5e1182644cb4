------------------------------- MODULE ReadSide -------------------------------
(***************************************************************************)
(* What a host reads side by side: answers to its query (Recall), the mood *)
(* it derives from recalled nodes (AffectOverlay) and the boost between    *)
(* two cells (Topology).  None touches another's state and no property     *)
(* relates two of them, so the others rest at their start while one moves: *)
(* no order between them is lost.                                          *)
(***************************************************************************)
EXTENDS Recall, AffectOverlay, Topology

readSideVars == <<vars, moodVars, told>>

AtRest == stored = 0 /\ moods = 0 /\ told = {}

ReadSideInit == Init /\ MoodInit /\ TopologyInit

ReadSideNext ==
    \/ moods = 0 /\ told = {} /\ Next /\ UNCHANGED <<moodVars, told>>
    \/ stored = 0 /\ told = {} /\ MoodNext /\ UNCHANGED <<vars, told>>
    \/ AtRest /\ TopologyNext /\ UNCHANGED <<vars, moodVars>>

ReadSideSpec == ReadSideInit /\ [][ReadSideNext]_readSideVars
=============================================================================
