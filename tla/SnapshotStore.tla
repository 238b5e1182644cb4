----------------------------- MODULE SnapshotStore -----------------------------
(***************************************************************************)
(* What save and load do for their callers, without temporary files: a     *)
(* save replaces the file at one instant by the engine as it is, a load    *)
(* gives that engine back to a program that can read its index, and        *)
(* whatever ends a program ends its engine and no file.  This is what      *)
(* astrum_memory.h promises under "persistence", but for one clause: the   *)
(* header has every snapshot of the other vector backend rejected, and     *)
(* Load follows persistence.rs, which accepts one that has no index.       *)
(* Snapshot implements it.                                                 *)
(***************************************************************************)

CONSTANTS
    Handles,        \* handles programs hold
    Paths,          \* names callers save to and load from
    Kinds,          \* vector backends a program may be built with
    NoEngine        \* what a handle holds before create and after destroy

VARIABLES
    engines,        \* handles -> the engine behind each
    files           \* the paths that exist -> the engine each holds

vars == <<engines, files>>

Init ==
    /\ engines = [h \in Handles |-> NoEngine]
    /\ files = << >>

\* A handle is opened, used or closed; files stay as they are.
Open(h) ==
    /\ engines[h] = NoEngine
    /\ engines'[h] # NoEngine
    /\ engines'[h].facts = {}

Work(h) ==
    /\ NoEngine \notin {engines[h], engines'[h]}
    /\ engines'[h].kind = engines[h].kind

Close(h) == engines'[h] = NoEngine

\* "A file with no index at all is portable" (persistence.rs); one with an
\* index goes back to a program of its own build only.
Load(h, p) ==
    /\ engines[h] = NoEngine
    /\ \E kind \in IF files[p].indexed THEN {files[p].kind} ELSE Kinds :
          engines'[h] = [files[p] EXCEPT !.kind = kind]

OnHandle(h) ==
    /\ engines' = [engines EXCEPT ![h] = engines'[h]]
    /\ \/ Open(h) \/ Work(h) \/ Close(h)
       \/ \E p \in DOMAIN files : Load(h, p)
    /\ UNCHANGED files

Save(h, p) ==
    /\ engines[h] # NoEngine
    /\ files' = [q \in DOMAIN files \cup {p} |->
                    IF q = p THEN engines[h] ELSE files[q]]
    /\ UNCHANGED engines

Next == \E h \in Handles : OnHandle(h) \/ \E p \in Paths : Save(h, p)

Spec == Init /\ [][Next]_vars
=============================================================================
