------------------------------- MODULE Topology -------------------------------
(***************************************************************************)
(* The default ontology of topology_24cell.rs: twenty-four cells of        *)
(* memory, which of them are neighbours, and the boost a pair is given.    *)
(* A cell id is a u8, so most ids name no cell at all.  Labels and         *)
(* descriptions are left out.                                              *)
(***************************************************************************)
EXTENDS Naturals

CellId == 0 .. 255
Cells == 1 .. 24

CONSTANT AskedCells     \* the cell ids callers ask with

ASSUME TopologyAssumption == AskedCells \subseteq CellId

VARIABLE told           \* what the last call was told, nothing at first

\* What each cell lists, cell 1 first.
Listed ==
  << {2, 3, 4, 8, 9, 11, 14, 15, 17, 19, 20, 22},
     {1, 3, 4, 13, 16, 17, 18, 19, 22, 23, 24},
     {1, 2, 4, 7, 10, 13, 17, 18, 21},
     {1, 2, 3, 13, 14, 17, 20, 21},
     {6, 7, 8, 11, 12, 15, 22, 23, 24},
     {5, 7, 8, 13, 14, 16, 17, 22},
     {3, 5, 6, 8, 10, 14, 15, 22},
     {1, 5, 6, 7, 15, 16, 18, 22, 23},
     {1, 10, 11, 12, 19, 20, 22, 24},
     {3, 7, 9, 11, 12, 18, 19, 21},
     {1, 5, 9, 10, 12, 19, 20, 24},
     {5, 9, 10, 11, 19, 21, 23, 24},
     {2, 3, 4, 6, 16, 17, 18, 21},
     {1, 4, 6, 7, 15, 17, 20, 21},
     {1, 5, 7, 8, 14, 16, 23, 24},
     {2, 6, 8, 13, 15, 18, 23, 24},
     {1, 2, 3, 4, 6, 13, 14, 18},
     {2, 3, 8, 10, 13, 16, 17, 21},
     {1, 2, 9, 10, 11, 12, 20, 22},
     {1, 4, 9, 11, 14, 19, 21, 22},
     {3, 4, 10, 12, 13, 14, 18, 20, 23},
     {1, 2, 5, 6, 7, 8, 9, 19, 20},
     {2, 5, 8, 12, 15, 16, 21, 24},
     {2, 5, 9, 11, 12, 15, 16, 23} >>

\* Mutant: one side of a listing was forgotten.
NeighborsOneWay(cell) == IF cell \in Cells THEN Listed[cell] \ {24} ELSE {}

\* get_cell, and the cells it lists; an unknown cell has no neighbours.
Neighbors(cell) == IF cell \in Cells THEN Listed[cell] ELSE {}

\* is_4d_neighbor: only cell_a's own list is looked at.
Is4dNeighbor(cell_a, cell_b) == cell_a = cell_b \/ cell_b \in Neighbors(cell_a)

\* topological_boost, in hundredths.
Boost(target_cell, query_cell) ==
    IF target_cell = query_cell THEN 100
    ELSE IF Is4dNeighbor(target_cell, query_cell) THEN 90
    ELSE 80

TopologyInit == told = {}

\* astrum_topological_boost.
AskBoost(cell_a, cell_b) ==
    told' = {[target |-> cell_a, query |-> cell_b, boost |-> Boost(cell_a, cell_b)]}

TopologyNext == \E a, b \in AskedCells : AskBoost(a, b)

-----------------------------------------------------------------------------
\* "The adjacency graph is symmetric (undirected)": although a lookup reads
\* one side's list only, no caller can tell which cell was the target and
\* which the query, be it a cell of the table or any other byte.
BoostIsMutual ==
    \A answer \in told : answer.boost = Boost(answer.query, answer.target)

=============================================================================
