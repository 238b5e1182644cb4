------------------------------- MODULE Snapshot -------------------------------
(***************************************************************************)
(* Persistence: astrum_memory_save and astrum_memory_load (c_api.rs) over  *)
(* Snapshot::save and ::load (persistence.rs) and a file system.  A save   *)
(* serialises the engine, writes the text to a temporary file and renames  *)
(* that over the target; the handle's lock is held throughout, so a handle *)
(* does one thing at a time, but handles (of one program or of several)    *)
(* take their steps in any order and a program may die between any two.    *)
(*                                                                         *)
(* File system.  A name leads to an inode, a writer keeps the inode it     *)
(* opened whatever happens to the name, and opening an existing name       *)
(* empties its inode.  A process dying loses nothing that was written;     *)
(* power loss, which may, is not modelled.                                 *)
(*                                                                         *)
(* An engine is reduced to what a restart could get wrong: which facts it  *)
(* holds, how many ids it has drawn, whether it keeps a float that JSON    *)
(* lacks (a NaN or an infinity is written as null, which no f32 field      *)
(* reads back) in an affect or in the index, whether it has an index, and  *)
(* the kind of its build.  GraphNexus says the rest.                       *)
(***************************************************************************)
EXTENDS Naturals

CONSTANTS
    Handles,        \* handles programs hold, each on one engine or none
    Paths,          \* names callers save to and load from
    Temp,           \* path -> path.with_extension("tmp")
    Targets,        \* handle -> the paths it is saved to
    Build,          \* handle -> its program's vector backend, "f32" or "int8"
    Embeddings,     \* kinds of embedding callers pass, see AnyEmbedding
    Parts,          \* write calls that write_all needs for one text
    MaxDraws,       \* bound: ids one engine draws
    MaxSaves        \* bound: saves started, by all handles

\* A null pointer or a refused length, which leave no entry; finite numbers;
\* some NaN among them; or some infinity.
AnyEmbedding == {"none", "finite", "nan", "infinite"}

ASSUME SnapshotAssumption ==
    /\ Targets \in [Handles -> SUBSET Paths]
    /\ Paths \subseteq DOMAIN Temp
    /\ DOMAIN Build = Handles
    /\ Embeddings \subseteq AnyEmbedding
    /\ Parts \in Nat \ {0}
    /\ MaxDraws \in Nat
    /\ MaxSaves \in Nat

NoEngine == [kind |-> "none"]
Idle == [inode |-> 0]
Blank == [kind |-> "blank"]

VARIABLES
    engines,        \* handles -> engine
    saving,         \* handles -> the save in progress
    names,          \* the directory: name -> inode
    content,        \* inodes -> what each of the parts holds
    saves           \* saves started so far; the last one's inode, if it made one

vars == <<engines, saving, names, content, saves>>
disk == <<names, content, saves>>

Kinds == {Build[h] : h \in Handles}

Engine ==
    [facts   : SUBSET Nat,
     tainted : SUBSET Nat,          \* facts whose affect holds a NaN
     warped  : SUBSET Nat,          \* facts whose index entry has a NaN or infinity
     drawn   : Nat,
     indexed : BOOLEAN,             \* index: Some
     kind    : Kinds]

\* The f32 index stores the vector.  The int8 index stores codes, where a NaN
\* becomes 0, and the scale max|x| / 127, where max skips a NaN.
Warps(kind, embedding) ==
    embedding = "infinite" \/ (embedding = "nan" /\ kind = "f32")

Text(engine) == [i \in 1 .. Parts |-> engine]
Empty == [i \in 1 .. Parts |-> Blank]

Free(h) == engines[h] # NoEngine /\ saving[h] = Idle

Init ==
    /\ engines = [h \in Handles |-> NoEngine]
    /\ saving = [h \in Handles |-> Idle]
    /\ names = << >>
    /\ content = << >>
    /\ saves = 0

-----------------------------------------------------------------------------
(* The engine's life, as far as a snapshot shows it *)

Create(h) ==
    /\ engines[h] = NoEngine
    /\ engines' = [engines EXCEPT ![h] =
                      [facts |-> {}, tainted |-> {}, warped |-> {}, drawn |-> 0,
                       indexed |-> FALSE, kind |-> Build[h]]]
    /\ UNCHANGED <<saving, disk>>

\* The first embedding makes the index.
WithFact(engine, embedding) ==
    LET id == engine.drawn + 1
    IN  [facts   |-> engine.facts \cup {id},
         tainted |-> engine.tainted,
         warped  |-> engine.warped \cup {n \in {id} : Warps(engine.kind, embedding)},
         drawn   |-> id,
         indexed |-> engine.indexed \/ embedding # "none",
         kind    |-> engine.kind]

AddNode(h, embedding) ==
    /\ Free(h)
    /\ engines[h].drawn < MaxDraws
    /\ engines' = [engines EXCEPT ![h] = WithFact(engines[h], embedding)]
    /\ UNCHANGED <<saving, disk>>

\* clamp bounds an infinite affect and lets NaN through.
SetAffect(h, id, nan) ==
    /\ Free(h)
    /\ id \in engines[h].facts
    /\ engines' = [engines EXCEPT ![h].tainted =
                      IF nan THEN @ \cup {id} ELSE @ \ {id}]
    /\ UNCHANGED <<saving, disk>>

\* Whichever facts go, their index entries with them; the index, once made,
\* stays, even if it is empty.
EnforceCapacity(h, gone) ==
    /\ Free(h)
    /\ gone # {}
    /\ engines' = [engines EXCEPT ![h].facts = @ \ gone, ![h].tainted = @ \ gone,
                                  ![h].warped = @ \ gone]
    /\ UNCHANGED <<saving, disk>>

Destroy(h) ==
    /\ Free(h)
    /\ engines' = [engines EXCEPT ![h] = NoEngine]
    /\ UNCHANGED <<saving, disk>>

\* The program that holds h dies, in the middle of a save or not.
Crash(h) ==
    /\ engines[h] # NoEngine
    /\ engines' = [engines EXCEPT ![h] = NoEngine]
    /\ saving' = [saving EXCEPT ![h] = Idle]
    /\ UNCHANGED disk

-----------------------------------------------------------------------------
(* save *)

Opened(name) == IF name \in DOMAIN names THEN names[name] ELSE saves + 1

StartSaveAs(h, p, name) ==
    /\ Free(h)
    /\ saves < MaxSaves
    /\ names' = [n \in DOMAIN names \cup {name} |->
                    IF n = name THEN Opened(name) ELSE names[n]]
    /\ content' = [i \in DOMAIN content \cup {Opened(name)} |->
                      IF i = Opened(name) THEN Empty ELSE content[i]]
    /\ saves' = saves + 1
    /\ saving' = [saving EXCEPT ![h] = [inode |-> Opened(name), path |-> p,
                                        text |-> engines[h], written |-> 0]]
    /\ UNCHANGED engines

\* Mutants: write to the target itself; one temporary name for all.
StartSaveInPlace(h, p) == StartSaveAs(h, p, p)

StartSaveOneTemp(h, p) ==
    StartSaveAs(h, p, Temp[CHOOSE q \in Paths : TRUE])

\* Serialise, and open the temporary file: made if missing, emptied if not.
StartSave(h, p) == StartSaveAs(h, p, Temp[p])

\* Mutant: nothing stops at the end of the text.
WritePartOnAndOn(h) ==
    /\ saving[h] # Idle
    /\ content' = [content EXCEPT ![saving[h].inode][saving[h].written + 1] =
                      saving[h].text]
    /\ saving' = [saving EXCEPT ![h].written = @ + 1]
    /\ UNCHANGED <<engines, names, saves>>

WritePart(h) ==
    /\ saving[h] # Idle
    /\ saving[h].written < Parts
    /\ content' = [content EXCEPT ![saving[h].inode][saving[h].written + 1] =
                      saving[h].text]
    /\ saving' = [saving EXCEPT ![h].written = @ + 1]
    /\ UNCHANGED <<engines, names, saves>>

Renamed(from, to) ==
    [n \in (DOMAIN names \ {from}) \cup {to} |->
        IF n = to THEN names[from] ELSE names[n]]

\* The rename, and the return.  It fails if the temporary name is gone.
FinishSave(h) ==
    /\ saving[h] # Idle
    /\ saving[h].written = Parts
    /\ LET temp == Temp[saving[h].path]
       IN  names' = IF temp \in DOMAIN names
                    THEN Renamed(temp, saving[h].path) ELSE names
    /\ saving' = [saving EXCEPT ![h] = Idle]
    /\ UNCHANGED <<engines, content, saves>>

\* A write fails (a full disk, say), or the rename does: save returns 2 and
\* leaves the temporary file with as much as it wrote.
FailSave(h) ==
    /\ saving[h] # Idle
    /\ saving' = [saving EXCEPT ![h] = Idle]
    /\ UNCHANGED <<engines, disk>>

-----------------------------------------------------------------------------
(* load *)

\* The file holds one text from end to end.
IsWhole(inode) == content[inode][1] # Blank /\ content[inode] = Text(content[inode][1])

Stored(p) == content[names[p]][1]

\* No float was written as null.
Parses(text) == text.tainted = {} /\ text.warped = {}

\* Mutant: the index kind is not checked.
ReadableByAny(p, kind) == IsWhole(names[p]) /\ Parses(Stored(p))

\* from_json_slice_checked: it parses, and the index is none or of this build.
Readable(p, kind) ==
    /\ IsWhole(names[p])
    /\ Parses(Stored(p))
    /\ Stored(p).indexed => Stored(p).kind = kind

\* Mutant: the id generator starts afresh.
LoadReseeded(h, p) ==
    /\ engines[h] = NoEngine
    /\ p \in DOMAIN names
    /\ Readable(p, Build[h])
    /\ engines' = [engines EXCEPT ![h] =
                      [Stored(p) EXCEPT !.kind = Build[h], !.drawn = 0]]
    /\ UNCHANGED <<saving, disk>>

\* A load that fails returns NULL and changes nothing.
Load(h, p) ==
    /\ engines[h] = NoEngine
    /\ p \in DOMAIN names
    /\ Readable(p, Build[h])
    /\ engines' = [engines EXCEPT ![h] = [Stored(p) EXCEPT !.kind = Build[h]]]
    /\ UNCHANGED <<saving, disk>>

-----------------------------------------------------------------------------
Next ==
    \E h \in Handles :
        \/ Create(h) \/ \E p \in Paths : Load(h, p)
        \/ \E embedding \in Embeddings : AddNode(h, embedding)
        \/ Free(h) /\ \E id \in engines[h].facts, nan \in BOOLEAN : SetAffect(h, id, nan)
        \/ Free(h) /\ \E gone \in SUBSET engines[h].facts : EnforceCapacity(h, gone)
        \/ Destroy(h) \/ Crash(h)
        \/ \E p \in Targets[h] : StartSave(h, p)
        \/ WritePart(h) \/ FinishSave(h) \/ FailSave(h)

Spec == Init /\ [][Next]_vars

\* What callers must see to: handles do not share temporary files, and no
\* path is itself a temporary file.
Disciplined ==
    /\ \A p, q \in Paths : Temp[p] # q
    /\ \A g, h \in Handles : \A p \in Targets[g], q \in Targets[h] :
          Temp[p] = Temp[q] => g = h

-----------------------------------------------------------------------------
(* Properties *)

Save == [inode : 1 .. saves, path : Paths, text : Engine, written : 0 .. Parts]

\* Types; every name leads to an inode that exists.
TypeOK ==
    /\ engines \in [Handles -> Engine \cup {NoEngine}]
    /\ saving \in [Handles -> Save \cup {Idle}]
    /\ saves \in Nat
    /\ DOMAIN content \subseteq 1 .. saves
    /\ \A i \in DOMAIN content : content[i] \in [1 .. Parts -> Engine \cup {Blank}]
    /\ \A n \in DOMAIN names : names[n] \in DOMAIN content

\* "Write the whole engine ... to a JSON file, atomically" (astrum_memory.h,
\* persistence.rs): at every moment, whatever was interrupted, a file that
\* exists under a saved path holds one save from end to end.
FileHoldsOneSave == \A p \in Paths \cap DOMAIN names : IsWhole(names[p])

\* A save's temporary file stays its own until the rename: the rename cannot
\* fail for want of it, nor publish another's work.
SaveFindsItsTemp ==
    \A h \in Handles : saving[h] # Idle =>
        LET temp == Temp[saving[h].path]
        IN  temp \in DOMAIN names /\ names[temp] = saving[h].inode

\* After any sequence of saves, crashes and loads, of older files too, the
\* next id an engine draws is one none of its facts has: id_seed travels with
\* the facts.
IdsStayFresh ==
    \A h \in Handles : engines[h] # NoEngine =>
        /\ engines[h].facts \subseteq 1 .. engines[h].drawn
        /\ engines[h].tainted \cup engines[h].warped \subseteq engines[h].facts

\* "... so an engine survives a restart" (persistence.rs): what save wrote and
\* reported written, the same build can load.
SavedCanBeLoaded ==
    \A p \in Paths \cap DOMAIN names :
        IsWhole(names[p]) => Readable(p, Stored(p).kind)

Store == INSTANCE SnapshotStore
            WITH files <- [p \in Paths \cap DOMAIN names |-> Stored(p)]

\* Between disciplined callers saves are atomic: they implement SnapshotStore.
SavesLookAtomic == Store!Spec
=============================================================================
