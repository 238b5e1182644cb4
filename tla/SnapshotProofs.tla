---------------------------- MODULE SnapshotProofs ----------------------------
(***************************************************************************)
(* Between disciplined callers (Snapshot, Disciplined) a save is atomic.   *)
(* The inductive invariant IInv says where each save in progress stands:   *)
(* its temporary name leads to an inode no other name leads to, and that   *)
(* inode holds the text so far.  Hence nobody else writes to it, what the  *)
(* rename publishes is one text from end to end, and nobody writes to what *)
(* has been published.                                                     *)
(***************************************************************************)
EXTENDS Snapshot, TLAPS

\* Two names never lead to one inode: temporary files are moved, not linked.
NamesApart ==
    \A m, n \in DOMAIN names : names[m] = names[n] => m = n

\* What the first `written` parts of a text leave in an empty inode.
Prefix(text, written) == [i \in 1 .. Parts |-> IF i <= written THEN text ELSE Blank]

\* A save works for one of its handle's targets, on the engine as it is, in a
\* file of its own that holds what has been written.
SaveSound(h) ==
    saving[h] # Idle =>
        /\ saving[h].path \in Targets[h]
        /\ saving[h].text = engines[h]
        /\ engines[h] # NoEngine
        /\ Temp[saving[h].path] \in DOMAIN names
        /\ names[Temp[saving[h].path]] = saving[h].inode
        /\ content[saving[h].inode] = Prefix(saving[h].text, saving[h].written)

IInv ==
    /\ TypeOK
    /\ NamesApart
    /\ \A h \in Handles : SaveSound(h)
    /\ FileHoldsOneSave

-----------------------------------------------------------------------------
\* An engine is neither of the two tags that stand for its absence.
LEMMA EngineIsNoTag ==
    ASSUME NEW e \in Engine
    PROVE  e # NoEngine /\ e # Blank
BY DEF Engine, NoEngine, Blank

\* A save in progress is not the tag for none.
LEMMA SaveIsNotIdle ==
    ASSUME NEW s \in Save
    PROVE  s # Idle
BY DEF Save, Idle

\* At the end the prefix is the text, and then the file is whole.
LEMMA WholePrefix ==
    ASSUME NEW e \in Engine
    PROVE  /\ Prefix(e, Parts) = Text(e)
           /\ Text(e)[1] = e
           /\ Prefix(e, 0) = Empty
BY SnapshotAssumption DEF Prefix, Text, Empty

\* Writing the next part lengthens the prefix by one.
LEMMA PrefixGrows ==
    ASSUME NEW e, NEW w \in Nat, w + 1 \in 1 .. Parts
    PROVE  [Prefix(e, w) EXCEPT ![w + 1] = e] = Prefix(e, w + 1)
<1> DEFINE grown == [Prefix(e, w) EXCEPT ![w + 1] = e]
<1>1. grown = [i \in 1 .. Parts |-> IF i = w + 1 THEN e ELSE Prefix(e, w)[i]]
  BY DEF Prefix
<1>2. ASSUME NEW i \in 1 .. Parts
      PROVE  (IF i = w + 1 THEN e ELSE Prefix(e, w)[i]) = IF i <= w + 1 THEN e ELSE Blank
  <2>1. i \in Nat
    BY SnapshotAssumption
  <2>2. (i <= w + 1) <=> (i <= w \/ i = w + 1)
    BY <2>1
  <2>3. QED
    BY <2>2 DEF Prefix
<1>3. QED
  BY <1>1, <1>2 DEF Prefix

\* A step of the engine of a handle that is not saving keeps the invariant.
LEMMA EngineStep ==
    ASSUME IInv, UNCHANGED <<saving, disk>>,
           NEW h \in Handles, saving[h] = Idle,
           NEW e \in Engine \cup {NoEngine}, engines' = [engines EXCEPT ![h] = e]
    PROVE  IInv'
<1>1. TypeOK' BY DEF IInv, TypeOK, disk, Save
<1>2. NamesApart' BY DEF IInv, NamesApart, disk
<1>3. \A g \in Handles : SaveSound(g)'
  BY DEF IInv, TypeOK, SaveSound, disk
<1>4. FileHoldsOneSave' BY DEF IInv, FileHoldsOneSave, IsWhole, disk
<1> QED BY <1>1, <1>2, <1>3, <1>4 DEF IInv

\* A save that ends without a rename, or whose program dies, leaves a
\* temporary file behind and nothing else.
LEMMA DropStep ==
    ASSUME IInv, UNCHANGED disk,
           NEW h \in Handles, saving' = [saving EXCEPT ![h] = Idle],
           engines' \in {engines, [engines EXCEPT ![h] = NoEngine]}
    PROVE  IInv'
<1>1. TypeOK' BY DEF IInv, TypeOK, disk, Save
<1>2. NamesApart' BY DEF IInv, NamesApart, disk
<1>3. \A g \in Handles : SaveSound(g)'
  BY DEF IInv, TypeOK, SaveSound, disk
<1>4. FileHoldsOneSave' BY DEF IInv, FileHoldsOneSave, IsWhole, disk
<1> QED BY <1>1, <1>2, <1>3, <1>4 DEF IInv

\* What is known of a save in progress.
LEMMA InProgress ==
    ASSUME IInv, NEW h \in Handles, saving[h] # Idle
    PROVE  /\ saving[h] \in Save
           /\ saving[h].path \in Paths
           /\ saving[h].text \in Engine
           /\ saving[h].inode \in DOMAIN content
BY SnapshotAssumption DEF IInv, TypeOK, SaveSound, Save

\* Disciplined handles save in different files: to another's temporary name,
\* or to a path, another inode belongs.
LEMMA InodesApart ==
    ASSUME Disciplined, IInv, NEW h \in Handles, saving[h] # Idle
    PROVE  /\ \A p \in Paths \cap DOMAIN names : names[p] # saving[h].inode
           /\ \A g \in Handles \ {h} :
                 saving[g] # Idle => saving[g].inode # saving[h].inode
<1>1. \A p \in Paths \cap DOMAIN names : names[p] # saving[h].inode
  BY InProgress DEF IInv, NamesApart, SaveSound, Disciplined
<1>2. ASSUME NEW g \in Handles \ {h}, saving[g] # Idle
      PROVE  saving[g].inode # saving[h].inode
  <2>1. Temp[saving[g].path] # Temp[saving[h].path]
    BY <1>2 DEF IInv, SaveSound, Disciplined
  <2>2. QED
    BY <1>2, <2>1 DEF IInv, NamesApart, SaveSound
<1>3. QED
  BY <1>1, <1>2

\* Opening the temporary file disturbs no file and no other save.
LEMMA StartSaveStep ==
    ASSUME Disciplined, IInv, NEW h \in Handles, NEW p \in Targets[h], StartSave(h, p)
    PROVE  IInv'
<1> DEFINE name == Temp[p]
           inode == Opened(name)
           save == [inode |-> inode, path |-> p, text |-> engines[h], written |-> 0]
<1>1. /\ p \in Paths
      /\ engines[h] \in Engine /\ engines[h] # NoEngine
      /\ saving[h] = Idle
      /\ engines' = engines
      /\ saves \in Nat /\ saves' = saves + 1
      /\ saving' = [saving EXCEPT ![h] = save]
      /\ names' = [n \in DOMAIN names \cup {name} |-> IF n = name THEN inode ELSE names[n]]
      /\ content' = [i \in DOMAIN content \cup {inode} |->
                        IF i = inode THEN Empty ELSE content[i]]
  BY SnapshotAssumption DEF StartSave, StartSaveAs, Free, IInv, TypeOK
<1>2. /\ inode \in 1 .. saves'
      /\ \A n \in DOMAIN names \ {name} : names[n] # inode
  BY <1>1 DEF Opened, IInv, TypeOK, NamesApart
<1>3. \A n \in DOMAIN names \ {name} :
        /\ n \in DOMAIN names' /\ names'[n] = names[n]
        /\ content'[names[n]] = content[names[n]]
  BY <1>1, <1>2 DEF IInv, TypeOK
<1> HIDE DEF name, inode
<1>4. save \in Save' /\ save # Idle
  BY <1>1, <1>2, SnapshotAssumption DEF Save, Idle
<1>5. TypeOK'
  <2>1. saving' \in [Handles -> Save' \cup {Idle}]
    BY <1>1, <1>4 DEF IInv, TypeOK, Save
  <2>2. Empty \in [1 .. Parts -> Engine \cup {Blank}]
    BY DEF Empty
  <2>3. QED
    BY <1>1, <1>2, <2>1, <2>2 DEF IInv, TypeOK
<1>6. NamesApart'
  BY <1>1, <1>2, <1>3 DEF IInv, NamesApart
<1>7. ASSUME NEW g \in Handles
      PROVE  SaveSound(g)'
  <2>1. CASE g = h
    BY <1>1, <1>4, <2>1, WholePrefix DEF SaveSound, IInv, TypeOK, name
  <2>2. CASE g # h
    <3>1. saving'[g] = saving[g]
      BY <1>1, <2>2 DEF IInv, TypeOK
    <3>2. saving[g] # Idle => Temp[saving[g].path] \in DOMAIN names \ {name}
      BY <1>1, <2>2, <3>1 DEF IInv, SaveSound, Disciplined, name
    <3>3. SaveSound(g)
      BY DEF IInv
    <3>4. CASE saving[g] = Idle
      BY <3>1, <3>4 DEF SaveSound
    <3>5. CASE saving[g] # Idle
      <4> DEFINE own == Temp[saving[g].path]
      <4>1. /\ own \in DOMAIN names' /\ names'[own] = saving[g].inode
            /\ content'[saving[g].inode] = content[saving[g].inode]
        BY <1>3, <3>2, <3>3, <3>5 DEF SaveSound
      <4>2. QED
        BY <1>1, <3>1, <3>3, <3>5, <4>1 DEF SaveSound, Prefix
    <3>6. QED
      BY <3>4, <3>5
  <2>3. QED
    BY <2>1, <2>2
<1>8. FileHoldsOneSave'
  <2>1. \A q \in Paths : q # name
    BY <1>1 DEF Disciplined, name
  <2>2. ASSUME NEW q \in Paths \cap DOMAIN names'
        PROVE  IsWhole(names[q]) /\ names'[q] = names[q] /\ content'[names[q]] = content[names[q]]
    <3>1. q \in DOMAIN names \ {name}
      BY <1>1, <2>1
    <3>2. QED
      BY <1>3, <3>1 DEF IInv, FileHoldsOneSave
  <2>3. QED
    BY <2>2 DEF FileHoldsOneSave, IsWhole, Text
<1>9. QED
  BY <1>5, <1>6, <1>7, <1>8 DEF IInv

\* A write reaches the writer's own file only, and lengthens its prefix.
LEMMA WritePartStep ==
    ASSUME Disciplined, IInv, NEW h \in Handles, WritePart(h)
    PROVE  IInv'
<1> DEFINE inode == saving[h].inode
           text == saving[h].text
           k == saving[h].written + 1
<1>1. /\ saving[h] # Idle
      /\ k \in 1 .. Parts
      /\ engines' = engines /\ names' = names /\ saves' = saves
      /\ saving' = [saving EXCEPT ![h].written = k]
      /\ content' = [content EXCEPT ![inode] = [content[inode] EXCEPT ![k] = text]]
  BY InProgress, SnapshotAssumption DEF WritePart, Save
<1>2. /\ saving[h] \in Save
      /\ text \in Engine
      /\ inode \in DOMAIN content
      /\ content[inode] = Prefix(text, saving[h].written)
  BY <1>1, InProgress DEF IInv, SaveSound
<1>3. [content[inode] EXCEPT ![k] = text] = Prefix(text, k)
  BY <1>1, <1>2, PrefixGrows, SnapshotAssumption DEF Save
<1>4. /\ saving'[h] \in Save /\ saving'[h] # Idle
      /\ saving'[h].inode = inode /\ saving'[h].text = text
      /\ saving'[h].path = saving[h].path /\ saving'[h].written = k
  BY <1>1, <1>2, SaveIsNotIdle DEF Save, IInv, TypeOK
<1>5. /\ \A i \in DOMAIN content \ {inode} : content'[i] = content[i]
      /\ content'[inode] = Prefix(text, k)
      /\ DOMAIN content' = DOMAIN content
  BY <1>1, <1>2, <1>3
<1>6. Save' = Save
  BY <1>1 DEF Save
<1>7. TypeOK'
  <2>1. Prefix(text, k) \in [1 .. Parts -> Engine \cup {Blank}]
    BY <1>2 DEF Prefix
  <2>2. saving' \in [Handles -> Save' \cup {Idle}]
    BY <1>1, <1>4, <1>6 DEF IInv, TypeOK
  <2>3. QED
    BY <1>1, <1>5, <2>1, <2>2 DEF IInv, TypeOK
<1>8. NamesApart'
  BY <1>1 DEF IInv, NamesApart
<1> HIDE DEF inode, text, k
<1>9. ASSUME NEW g \in Handles
      PROVE  SaveSound(g)'
  <2>1. CASE g = h
    BY <1>1, <1>4, <1>5, <2>1 DEF IInv, SaveSound, inode, text
  <2>2. CASE g # h
    <3>1. saving'[g] = saving[g]
      BY <1>1, <2>2 DEF IInv, TypeOK
    <3>2. saving[g] # Idle => saving[g].inode \in DOMAIN content \ {inode}
      BY <1>1, <2>2, InProgress, InodesApart DEF inode
    <3>3. QED
      BY <1>1, <1>5, <3>1, <3>2 DEF IInv, SaveSound
  <2>3. QED
    BY <2>1, <2>2
<1>10. FileHoldsOneSave'
  <2>1. \A p \in Paths \cap DOMAIN names : names[p] \in DOMAIN content \ {inode}
    BY <1>1, InodesApart DEF IInv, TypeOK, inode
  <2>2. QED
    BY <1>1, <1>5, <2>1 DEF IInv, FileHoldsOneSave, IsWhole
<1>11. QED
  BY <1>7, <1>8, <1>9, <1>10 DEF IInv

\* The rename finds the temporary file, whole, and moves it to the target.
LEMMA FinishSaveStep ==
    ASSUME Disciplined, IInv, NEW h \in Handles, FinishSave(h)
    PROVE  /\ IInv'
           /\ names' = Renamed(Temp[saving[h].path], saving[h].path)
           /\ content[saving[h].inode] = Text(engines[h])
<1> DEFINE path == saving[h].path
           temp == Temp[path]
           inode == saving[h].inode
<1>1. /\ saving[h] # Idle
      /\ saving[h].text = engines[h] /\ engines[h] \in Engine
      /\ temp \in DOMAIN names /\ names[temp] = inode
      /\ content[inode] = Text(engines[h])
      /\ engines' = engines /\ content' = content /\ saves' = saves
      /\ saving' = [saving EXCEPT ![h] = Idle]
      /\ names' = Renamed(temp, path)
      /\ path \in Paths
  BY WholePrefix, InProgress DEF FinishSave, IInv, SaveSound
<1>2. /\ DOMAIN names' = (DOMAIN names \ {temp}) \cup {path}
      /\ names'[path] = inode
      /\ \A n \in DOMAIN names' \ {path} : n \in DOMAIN names /\ n # temp /\ names'[n] = names[n]
  BY <1>1 DEF Renamed
<1> HIDE DEF path, temp, inode
<1>3. TypeOK'
  BY <1>1, <1>2 DEF IInv, TypeOK, Save
<1>4. NamesApart'
  BY <1>1, <1>2 DEF IInv, NamesApart
<1>5. ASSUME NEW g \in Handles
      PROVE  SaveSound(g)'
  <2>1. CASE g = h
    BY <1>1, <2>1 DEF SaveSound, IInv, TypeOK
  <2>2. CASE g # h
    <3>1. saving'[g] = saving[g]
      BY <1>1, <2>2 DEF IInv, TypeOK
    <3>2. ASSUME saving[g] # Idle
          PROVE  /\ Temp[saving[g].path] \in DOMAIN names'
                 /\ names'[Temp[saving[g].path]] = names[Temp[saving[g].path]]
      <4>1. Temp[saving[g].path] # temp
        BY <1>1, <2>2, <3>2 DEF IInv, SaveSound, Disciplined, temp, path
      <4>2. Temp[saving[g].path] # path
        BY <1>1, <3>2, InProgress DEF Disciplined
      <4>3. Temp[saving[g].path] \in DOMAIN names
        BY <3>2 DEF IInv, SaveSound
      <4>4. QED
        BY <1>2, <4>1, <4>2, <4>3
    <3>3. QED
      BY <1>1, <3>1, <3>2 DEF IInv, SaveSound
  <2>3. QED
    BY <2>1, <2>2
<1>6. FileHoldsOneSave'
  <2>1. IsWhole(inode)
    BY <1>1, WholePrefix, EngineIsNoTag DEF IsWhole
  <2>2. QED
    BY <1>1, <1>2, <2>1 DEF IInv, FileHoldsOneSave, IsWhole
<1>7. QED
  BY <1>1, <1>3, <1>4, <1>5, <1>6 DEF IInv, path, temp, inode

\* Storing a fact makes an engine of the same build.
LEMMA WithFactIsEngine ==
    ASSUME NEW e \in Engine, NEW embedding
    PROVE  /\ WithFact(e, embedding) \in Engine
           /\ WithFact(e, embedding).kind = e.kind
<1>1. /\ e.facts \in SUBSET Nat /\ e.tainted \in SUBSET Nat /\ e.warped \in SUBSET Nat
      /\ e.drawn + 1 \in Nat /\ e.indexed \in BOOLEAN /\ e.kind \in Kinds
  BY DEF Engine
<1> DEFINE indexed == e.indexed \/ embedding # "none"
           added == {n \in {e.drawn + 1} : Warps(e.kind, embedding)}
<1>2. indexed \in BOOLEAN
  OBVIOUS
<1>3. added \in SUBSET Nat
  BY <1>1
<1>4. WithFact(e, embedding) =
        [facts |-> e.facts \cup {e.drawn + 1}, tainted |-> e.tainted,
         warped |-> e.warped \cup added, drawn |-> e.drawn + 1,
         indexed |-> indexed, kind |-> e.kind]
  BY DEF WithFact
<1> HIDE DEF indexed, added
<1>5. e.facts \cup {e.drawn + 1} \in SUBSET Nat /\ e.warped \cup added \in SUBSET Nat
  BY <1>1, <1>3
<1>6. WithFact(e, embedding).kind = e.kind
  BY <1>4
<1>7. ASSUME NEW f \in SUBSET Nat, NEW w \in SUBSET Nat, NEW d \in Nat, NEW b \in BOOLEAN
      PROVE  [facts |-> f, tainted |-> e.tainted, warped |-> w, drawn |-> d,
              indexed |-> b, kind |-> e.kind] \in Engine
  BY <1>1 DEF Engine
<1>8. QED
  BY <1>1, <1>2, <1>4, <1>5, <1>6, <1>7

\* Every step keeps the invariant.
LEMMA IInvStep ==
    ASSUME Disciplined, IInv, [Next]_vars
    PROVE  IInv'
<1> USE DEF IInv
<1>1. \A h \in Handles : engines[h] = NoEngine => saving[h] = Idle
  BY DEF SaveSound
<1>2. ASSUME NEW h \in Handles, Create(h)
      PROVE  IInv'
  <2>1. [facts |-> {}, tainted |-> {}, warped |-> {}, drawn |-> 0,
         indexed |-> FALSE, kind |-> Build[h]] \in Engine
    BY DEF Engine, Kinds
  <2>2. QED
    BY <1>1, <1>2, <2>1, EngineStep DEF Create
<1>3. ASSUME NEW h \in Handles, NEW p \in Paths, Load(h, p)
      PROVE  IInv'
  <2>1. Stored(p) \in Engine
    <3>1. p \in DOMAIN names /\ Stored(p) # Blank
      BY <1>3 DEF Load, Readable, IsWhole, Stored
    <3>2. names[p] \in DOMAIN content /\ 1 \in 1 .. Parts
      BY <3>1, SnapshotAssumption DEF TypeOK
    <3>3. content[names[p]] \in [1 .. Parts -> Engine \cup {Blank}]
      BY <3>2 DEF TypeOK
    <3>4. Stored(p) \in Engine \cup {Blank}
      BY <3>2, <3>3 DEF Stored
    <3>5. QED
      BY <3>1, <3>4
  <2>2. [Stored(p) EXCEPT !.kind = Build[h]] \in Engine
    BY <2>1 DEF Engine, Kinds
  <2>3. QED
    BY <1>1, <1>3, <2>2, EngineStep DEF Load
<1>4. ASSUME NEW h \in Handles, NEW embedding \in Embeddings, AddNode(h, embedding)
      PROVE  IInv'
  <2>1. engines[h] \in Engine /\ saving[h] = Idle
    BY <1>4 DEF AddNode, Free, TypeOK
  <2>2. WithFact(engines[h], embedding) \in Engine
    BY <2>1, WithFactIsEngine
  <2>3. QED
    BY <1>4, <2>1, <2>2, EngineStep DEF AddNode
<1>5. ASSUME NEW h \in Handles, Free(h), NEW id \in engines[h].facts, NEW nan \in BOOLEAN,
             SetAffect(h, id, nan)
      PROVE  IInv'
  <2>1. engines[h] \in Engine /\ saving[h] = Idle
    BY <1>5 DEF Free, TypeOK
  <2>2. [engines[h] EXCEPT !.tainted = IF nan THEN @ \cup {id} ELSE @ \ {id}] \in Engine
    BY <1>5, <2>1 DEF Engine
  <2>3. QED
    BY <1>5, <2>1, <2>2, EngineStep DEF SetAffect, TypeOK
<1>6. ASSUME NEW h \in Handles, NEW gone \in SUBSET engines[h].facts, EnforceCapacity(h, gone)
      PROVE  IInv'
  <2>1. engines[h] \in Engine /\ saving[h] = Idle
    BY <1>6 DEF EnforceCapacity, Free, TypeOK
  <2> DEFINE left == [engines[h] EXCEPT !.facts = @ \ gone, !.tainted = @ \ gone,
                                   !.warped = @ \ gone]
  <2>2. left \in Engine
    BY <2>1 DEF Engine
  <2>3. engines' = [engines EXCEPT ![h] = left]
    BY <1>6, <2>1 DEF EnforceCapacity, TypeOK, Engine
  <2>4. QED
    BY <1>6, <2>1, <2>2, <2>3, EngineStep DEF EnforceCapacity
<1>7. ASSUME NEW h \in Handles, Destroy(h)
      PROVE  IInv'
  BY <1>7, EngineStep DEF Destroy, Free
<1>8. ASSUME NEW h \in Handles, Crash(h)
      PROVE  IInv'
  BY <1>8, DropStep DEF Crash
<1>9. ASSUME NEW h \in Handles, FailSave(h)
      PROVE  IInv'
  BY <1>9, DropStep DEF FailSave
<1>10. CASE UNCHANGED vars
  BY <1>10 DEF vars, TypeOK, Save, NamesApart, SaveSound, FileHoldsOneSave, IsWhole
<1>11. QED
  BY <1>2, <1>3, <1>4, <1>5, <1>6, <1>7, <1>8, <1>9, <1>10,
     StartSaveStep, WritePartStep, FinishSaveStep DEF Next

\* Initially nothing is open, saved or being saved.
LEMMA IInvInit ==
    ASSUME Init
    PROVE  IInv
<1>1. DOMAIN names = {} /\ DOMAIN content = {}
  BY DEF Init
<1>2. QED
  BY <1>1 DEF Init, IInv, TypeOK, NamesApart, SaveSound, FileHoldsOneSave

-----------------------------------------------------------------------------
\* The invariant holds, given the discipline.
LEMMA Invariance ==
    ASSUME Disciplined
    PROVE  Spec => []IInv
<1>1. IInv /\ [Next]_vars => IInv'
  BY IInvStep
<1>2. QED
  BY <1>1, IInvInit, PTL DEF Spec

\* Types hold, and every name leads to an inode that exists.
THEOREM SnapshotTypesHold ==
    ASSUME Disciplined
    PROVE  Spec => []TypeOK
BY Invariance, PTL DEF IInv

\* However many handles save, fail and crash, in whatever order: a file under
\* a saved path holds one save from end to end.
THEOREM FilesAreWhole ==
    ASSUME Disciplined
    PROVE  Spec => []FileHoldsOneSave
BY Invariance, PTL DEF IInv

\* The rename that ends a save always finds the file that save wrote.
THEOREM RenamesFindTheirFile ==
    ASSUME Disciplined
    PROVE  Spec => []SaveFindsItsTemp
<1>1. IInv => SaveFindsItsTemp
  BY DEF IInv, SaveSound, SaveFindsItsTemp
<1>2. QED
  BY <1>1, Invariance, PTL

-----------------------------------------------------------------------------
(* Snapshot implements SnapshotStore. *)

Files == [p \in Paths \cap DOMAIN names |-> Stored(p)]

\* A step of one handle's engine, no file under a saved path disturbed.
LEMMA HandleRefines ==
    ASSUME IInv, NEW h \in Handles, Files' = Files,
           NEW e, engines' = [engines EXCEPT ![h] = e],
           \/ engines[h] = NoEngine /\ e # NoEngine /\ e.facts = {}
           \/ NoEngine \notin {engines[h], e} /\ e.kind = engines[h].kind
           \/ e = NoEngine
           \/ \E p \in DOMAIN Files :
                 /\ engines[h] = NoEngine
                 /\ \E kind \in IF Files[p].indexed THEN {Files[p].kind} ELSE Kinds :
                       e = [Files[p] EXCEPT !.kind = kind]
    PROVE  Store!Next
<1>1. engines'[h] = e
  BY DEF IInv, TypeOK
<1>2. Store!Open(h) \/ Store!Work(h) \/ Store!Close(h)
         \/ \E p \in DOMAIN Files : Store!Load(h, p)
  BY <1>1 DEF Store!Open, Store!Work, Store!Close, Store!Load, Files
<1>3. QED
  BY <1>1, <1>2 DEF Store!Next, Store!OnHandle, Files

\* While a temporary file is opened or written no saved path changes.
LEMMA SavingStutters ==
    ASSUME Disciplined, IInv, NEW h \in Handles,
           WritePart(h) \/ \E p \in Targets[h] : StartSave(h, p)
    PROVE  UNCHANGED <<engines, Files>>
<1>1. CASE WritePart(h)
  <2>1. /\ engines' = engines /\ names' = names
        /\ saving[h] # Idle
        /\ content' = [content EXCEPT ![saving[h].inode] =
                          [content[saving[h].inode] EXCEPT
                              ![saving[h].written + 1] = saving[h].text]]
    BY <1>1 DEF WritePart
  <2>2. \A p \in Paths \cap DOMAIN names : content'[names[p]] = content[names[p]]
    BY <2>1, InodesApart DEF IInv, TypeOK
  <2>3. QED
    BY <2>1, <2>2 DEF Files, Stored
<1>2. ASSUME NEW p \in Targets[h], StartSave(h, p)
      PROVE  UNCHANGED <<engines, Files>>
  <2> DEFINE name == Temp[p]
             inode == Opened(name)
  <2>1. /\ engines' = engines
        /\ names' = [n \in DOMAIN names \cup {name} |-> IF n = name THEN inode ELSE names[n]]
        /\ content' = [i \in DOMAIN content \cup {inode} |->
                          IF i = inode THEN Empty ELSE content[i]]
    BY <1>2 DEF StartSave, StartSaveAs
  <2>2. \A n \in DOMAIN names \ {name} : names[n] # inode
    BY DEF Opened, IInv, TypeOK, NamesApart
  <2> HIDE DEF inode
  <2>3. \A q \in Paths : q # name
    BY SnapshotAssumption DEF Disciplined
  <2> HIDE DEF name
  <2>4. Paths \cap DOMAIN names' = Paths \cap DOMAIN names
    BY <2>1, <2>3
  <2>5. \A q \in Paths \cap DOMAIN names :
           names'[q] = names[q] /\ content'[names[q]] = content[names[q]]
    BY <2>1, <2>2, <2>3 DEF IInv, TypeOK
  <2>6. QED
    BY <2>1, <2>4, <2>5 DEF Files, Stored
<1>3. QED
  BY <1>1, <1>2

\* The rename is the instant at which a save takes place.
LEMMA FinishSaves ==
    ASSUME Disciplined, IInv, NEW h \in Handles, FinishSave(h)
    PROVE  Store!Next
<1> DEFINE path == saving[h].path
           temp == Temp[path]
<1>1. /\ saving[h] # Idle
      /\ engines' = engines /\ content' = content
      /\ path \in Paths
      /\ engines[h] # NoEngine
      /\ names[temp] = saving[h].inode
  BY InProgress DEF FinishSave, IInv, SaveSound
<1>2. /\ names' = Renamed(temp, path)
      /\ content[names[temp]][1] = engines[h]
  <2>1. engines[h] \in Engine
    BY <1>1 DEF IInv, TypeOK
  <2>2. QED
    BY <1>1, <2>1, FinishSaveStep, WholePrefix
<1>3. \A q \in Paths : q # temp
  BY <1>1, SnapshotAssumption DEF Disciplined
<1> HIDE DEF path, temp
<1>4. Paths \cap DOMAIN names' = (Paths \cap DOMAIN names) \cup {path}
  BY <1>1, <1>2, <1>3 DEF Renamed
<1>5. \A q \in Paths \cap DOMAIN names' :
         content'[names'[q]][1] = IF q = path THEN engines[h] ELSE content[names[q]][1]
  BY <1>1, <1>2, <1>3 DEF Renamed
<1>6. Files' = [q \in DOMAIN Files \cup {path} |->
                   IF q = path THEN engines[h] ELSE Files[q]]
  BY <1>1, <1>4, <1>5 DEF Files, Stored
<1>7. Store!Save(h, path)
  BY <1>1, <1>6 DEF Store!Save, Files
<1>8. QED
  BY <1>1, <1>7 DEF Store!Next

\* Every step of Snapshot is a step of SnapshotStore or a stutter.
LEMMA SnapshotStepRefines ==
    ASSUME Disciplined, IInv, [Next]_vars
    PROVE  [Store!Next]_(Store!vars)
<1>1. UNCHANGED disk => Files' = Files
  BY DEF disk, Files, Stored
<1>2. ASSUME NEW h \in Handles, Create(h)
      PROVE  Store!Next
  <2> DEFINE new == [facts |-> {}, tainted |-> {}, warped |-> {}, drawn |-> 0,
                     indexed |-> FALSE, kind |-> Build[h]]
  <2>1. new \in Engine
    BY DEF Engine, Kinds
  <2>2. new # NoEngine /\ new.facts = {}
    BY <2>1, EngineIsNoTag
  <2>3. engines' = [engines EXCEPT ![h] = new] /\ engines[h] = NoEngine /\ UNCHANGED disk
    BY <1>2 DEF Create
  <2> HIDE DEF new
  <2>4. QED
    BY <1>1, <2>2, <2>3, HandleRefines
<1>3. ASSUME NEW h \in Handles, NEW p \in Paths, Load(h, p)
      PROVE  Store!Next
  <2>1. /\ engines[h] = NoEngine
        /\ engines' = [engines EXCEPT ![h] = [Stored(p) EXCEPT !.kind = Build[h]]]
        /\ p \in DOMAIN Files /\ Files[p] = Stored(p)
        /\ Stored(p).indexed => Stored(p).kind = Build[h]
        /\ UNCHANGED disk
    BY <1>3 DEF Load, Readable, Files
  <2>2. Build[h] \in IF Files[p].indexed THEN {Files[p].kind} ELSE Kinds
    BY <2>1 DEF Kinds
  <2>3. QED
    BY <1>1, <2>1, <2>2, HandleRefines
<1>4. ASSUME NEW h \in Handles, engines[h] # NoEngine,
             NEW e \in Engine, e.kind = engines[h].kind,
             engines' = [engines EXCEPT ![h] = e], UNCHANGED disk
      PROVE  Store!Next
  <2>1. e # NoEngine
    BY EngineIsNoTag
  <2>2. QED
    BY <1>1, <1>4, <2>1, HandleRefines
<1>5. ASSUME NEW h \in Handles, NEW embedding \in Embeddings, AddNode(h, embedding)
      PROVE  Store!Next
  <2>1. engines[h] \in Engine /\ engines[h] # NoEngine
    BY <1>5 DEF AddNode, Free, IInv, TypeOK
  <2>2. /\ WithFact(engines[h], embedding) \in Engine
        /\ WithFact(engines[h], embedding).kind = engines[h].kind
    BY <2>1, WithFactIsEngine
  <2>3. QED
    BY <1>4, <1>5, <2>1, <2>2 DEF AddNode
<1>6. ASSUME NEW h \in Handles, Free(h), NEW id \in engines[h].facts, NEW nan \in BOOLEAN,
             SetAffect(h, id, nan)
      PROVE  Store!Next
  <2> DEFINE e == [engines[h] EXCEPT !.tainted = IF nan THEN @ \cup {id} ELSE @ \ {id}]
  <2>1. engines[h] \in Engine /\ engines[h] # NoEngine
    BY <1>6 DEF Free, IInv, TypeOK
  <2>2. e \in Engine /\ e.kind = engines[h].kind
    BY <1>6, <2>1 DEF Engine
  <2>3. QED
    BY <1>4, <1>6, <2>1, <2>2 DEF SetAffect, IInv, TypeOK
<1>7. ASSUME NEW h \in Handles, NEW gone \in SUBSET engines[h].facts, EnforceCapacity(h, gone)
      PROVE  Store!Next
  <2> DEFINE e == [engines[h] EXCEPT !.facts = @ \ gone, !.tainted = @ \ gone,
                                   !.warped = @ \ gone]
  <2>1. engines[h] \in Engine /\ engines[h] # NoEngine
    BY <1>7 DEF EnforceCapacity, Free, IInv, TypeOK
  <2>2. e \in Engine /\ e.kind = engines[h].kind
    BY <2>1 DEF Engine
  <2>3. engines' = [engines EXCEPT ![h] = e]
    BY <1>7, <2>1 DEF EnforceCapacity, IInv, TypeOK, Engine
  <2>4. QED
    BY <1>4, <1>7, <2>1, <2>2, <2>3 DEF EnforceCapacity
<1>8. ASSUME NEW h \in Handles, Destroy(h) \/ Crash(h)
      PROVE  Store!Next
  BY <1>1, <1>8, HandleRefines DEF Destroy, Crash
<1>9. ASSUME NEW h \in Handles,
             \/ \E p \in Targets[h] : StartSave(h, p)
             \/ WritePart(h) \/ FailSave(h)
      PROVE  UNCHANGED Store!vars
  BY <1>1, <1>9, SavingStutters DEF FailSave, Store!vars, Files
<1>10. CASE UNCHANGED vars
  BY <1>10 DEF vars, Store!vars, Stored
<1>11. QED
  BY <1>2, <1>3, <1>5, <1>6, <1>7, <1>8, <1>9, <1>10, FinishSaves DEF Next

\* Disciplined callers cannot tell a save from one that replaces the file at
\* one instant, whatever was interrupted and whatever else goes on.
THEOREM SavesAreAtomic ==
    ASSUME Disciplined
    PROVE  Spec => SavesLookAtomic
<1>1. Init => Store!Init
  BY DEF Init, Store!Init
<1>2. IInv /\ [Next]_vars => [Store!Next]_(Store!vars)
  BY SnapshotStepRefines
<1>3. QED
  BY <1>1, <1>2, Invariance, PTL DEF Spec, SavesLookAtomic, Store!Spec

-----------------------------------------------------------------------------
(* The id generator travels with the facts. *)

\* No fact has an id the engine has yet to draw.
Fresh(e) ==
    /\ e.facts \subseteq 1 .. e.drawn
    /\ e.tainted \cup e.warped \subseteq e.facts

\* Everywhere an engine is kept: behind a handle, in a save, in a file.
FreshEverywhere ==
    /\ \A h \in Handles : engines[h] # NoEngine => Fresh(engines[h])
    /\ \A i \in DOMAIN content, k \in 1 .. Parts :
          content[i][k] # Blank => Fresh(content[i][k])

\* Steps of a handle's engine.
LEMMA FreshEngineStep ==
    ASSUME IInv, FreshEverywhere, UNCHANGED content,
           NEW h \in Handles, NEW e, engines' = [engines EXCEPT ![h] = e],
           e = NoEngine \/ Fresh(e)
    PROVE  FreshEverywhere'
BY DEF IInv, TypeOK, FreshEverywhere

LEMMA FreshStep ==
    ASSUME Disciplined, IInv, FreshEverywhere, [Next]_vars
    PROVE  FreshEverywhere'
<1>1. ASSUME NEW h \in Handles, Create(h)
      PROVE  FreshEverywhere'
  <2> DEFINE new == [facts |-> {}, tainted |-> {}, warped |-> {}, drawn |-> 0,
                     indexed |-> FALSE, kind |-> Build[h]]
  <2>1. Fresh(new)
    BY DEF Fresh
  <2>2. engines' = [engines EXCEPT ![h] = new] /\ content' = content
    BY <1>1 DEF Create, disk
  <2> HIDE DEF new
  <2>3. QED
    BY <2>1, <2>2, FreshEngineStep
<1>2. ASSUME NEW h \in Handles, NEW p \in Paths, Load(h, p)
      PROVE  FreshEverywhere'
  <2>1. /\ Stored(p) # Blank /\ Stored(p) \in Engine /\ Fresh(Stored(p))
        /\ engines' = [engines EXCEPT ![h] = [Stored(p) EXCEPT !.kind = Build[h]]]
        /\ content' = content
    <3>1. /\ p \in DOMAIN names /\ names[p] \in DOMAIN content
          /\ Stored(p) # Blank
          /\ 1 \in 1 .. Parts
      BY <1>2, SnapshotAssumption DEF Load, Readable, IsWhole, Stored, IInv, TypeOK
    <3>2. Stored(p) \in Engine
      BY <3>1 DEF Stored, IInv, TypeOK
    <3>3. Fresh(Stored(p))
      BY <3>1 DEF Stored, FreshEverywhere
    <3>4. QED
      BY <1>2, <3>1, <3>2, <3>3 DEF Load, disk
  <2>2. Fresh([Stored(p) EXCEPT !.kind = Build[h]])
    BY <2>1 DEF Fresh, Engine
  <2>3. QED
    BY <2>1, <2>2, FreshEngineStep
<1>3. ASSUME NEW h \in Handles, NEW embedding \in Embeddings, AddNode(h, embedding)
      PROVE  FreshEverywhere'
  <2>1. engines[h] \in Engine /\ Fresh(engines[h])
    BY <1>3 DEF AddNode, Free, IInv, TypeOK, FreshEverywhere
  <2> DEFINE grown == WithFact(engines[h], embedding)
  <2>2. Fresh(grown)
    <3>1. engines[h].drawn \in Nat
      BY <2>1 DEF Engine
    <3>2. (1 .. engines[h].drawn) \cup {engines[h].drawn + 1} = 1 .. engines[h].drawn + 1
      BY <3>1
    <3>3. /\ grown.facts = engines[h].facts \cup {engines[h].drawn + 1}
          /\ grown.tainted = engines[h].tainted
          /\ grown.warped \subseteq engines[h].warped \cup {engines[h].drawn + 1}
          /\ grown.drawn = engines[h].drawn + 1
      BY DEF WithFact
    <3> HIDE DEF grown
    <3>4. QED
      BY <2>1, <3>2, <3>3 DEF Fresh
  <2>3. engines' = [engines EXCEPT ![h] = grown] /\ content' = content
    BY <1>3 DEF AddNode, disk
  <2> HIDE DEF grown
  <2>4. QED
    BY <2>2, <2>3, FreshEngineStep
<1>4. ASSUME NEW h \in Handles, Free(h), NEW id \in engines[h].facts, NEW nan \in BOOLEAN,
             SetAffect(h, id, nan)
      PROVE  FreshEverywhere'
  <2> DEFINE e == [engines[h] EXCEPT !.tainted = IF nan THEN @ \cup {id} ELSE @ \ {id}]
  <2>1. engines[h] \in Engine /\ Fresh(engines[h])
    BY <1>4 DEF Free, IInv, TypeOK, FreshEverywhere
  <2>2. Fresh(e)
    BY <1>4, <2>1 DEF Fresh, Engine
  <2>3. engines' = [engines EXCEPT ![h] = e] /\ content' = content
    BY <1>4, <2>1 DEF SetAffect, IInv, TypeOK, disk
  <2> HIDE DEF e
  <2>4. QED
    BY <2>2, <2>3, FreshEngineStep
<1>5. ASSUME NEW h \in Handles, NEW gone \in SUBSET engines[h].facts, EnforceCapacity(h, gone)
      PROVE  FreshEverywhere'
  <2> DEFINE e == [engines[h] EXCEPT !.facts = @ \ gone, !.tainted = @ \ gone,
                                   !.warped = @ \ gone]
  <2>1. engines[h] \in Engine /\ Fresh(engines[h])
    BY <1>5 DEF EnforceCapacity, Free, IInv, TypeOK, FreshEverywhere
  <2>2. Fresh(e)
    BY <2>1 DEF Fresh, Engine
  <2>3. engines' = [engines EXCEPT ![h] = e] /\ content' = content
    BY <1>5, <2>1 DEF EnforceCapacity, IInv, TypeOK, Engine, disk
  <2> HIDE DEF e
  <2>4. QED
    BY <2>2, <2>3, FreshEngineStep
<1>6. ASSUME NEW h \in Handles, Destroy(h) \/ Crash(h)
      PROVE  FreshEverywhere'
  BY <1>6, FreshEngineStep DEF Destroy, Crash, disk
<1>7. ASSUME NEW h \in Handles, NEW p \in Targets[h], StartSave(h, p)
      PROVE  FreshEverywhere'
  <2>1. /\ engines' = engines
        /\ \A i \in DOMAIN content', k \in 1 .. Parts :
              \/ content'[i][k] = Blank
              \/ i \in DOMAIN content /\ content'[i] = content[i]
    BY <1>7 DEF StartSave, StartSaveAs, Empty
  <2>2. QED
    BY <2>1 DEF FreshEverywhere
<1>8. ASSUME NEW h \in Handles, WritePart(h)
      PROVE  FreshEverywhere'
  <2>1. /\ engines' = engines
        /\ Fresh(saving[h].text)
        /\ DOMAIN content' = DOMAIN content
        /\ content' = [content EXCEPT ![saving[h].inode] =
                          [content[saving[h].inode] EXCEPT
                              ![saving[h].written + 1] = saving[h].text]]
    BY <1>8 DEF WritePart, IInv, SaveSound, FreshEverywhere
  <2>2. \A i \in DOMAIN content, k \in 1 .. Parts :
           content'[i][k] \in {content[i][k], saving[h].text}
    BY <2>1 DEF IInv, TypeOK
  <2>3. QED
    BY <2>1, <2>2 DEF FreshEverywhere
<1>9. ASSUME NEW h \in Handles, FinishSave(h) \/ FailSave(h)
      PROVE  FreshEverywhere'
  BY <1>9 DEF FinishSave, FailSave, FreshEverywhere, disk
<1>10. CASE UNCHANGED vars
  BY <1>10 DEF vars, FreshEverywhere
<1>11. QED
  BY <1>1, <1>2, <1>3, <1>4, <1>5, <1>6, <1>7, <1>8, <1>9, <1>10 DEF Next

\* After any saves, crashes and loads, of older files too, the next id an
\* engine draws is none of its facts'.
THEOREM IdsAreFresh ==
    ASSUME Disciplined
    PROVE  Spec => []IdsStayFresh
<1>1. Init => FreshEverywhere
  <2> SUFFICES ASSUME Init PROVE FreshEverywhere
    OBVIOUS
  <2>1. \A i \in DOMAIN content : FALSE
    BY DEF Init
  <2>2. \A h \in Handles : engines[h] = NoEngine
    BY DEF Init
  <2>3. QED
    BY <2>1, <2>2 DEF FreshEverywhere
<1>2. IInv /\ FreshEverywhere /\ [Next]_vars => FreshEverywhere'
  BY FreshStep
<1>3. FreshEverywhere => IdsStayFresh
  BY DEF FreshEverywhere, Fresh, IdsStayFresh
<1>4. QED
  BY <1>1, <1>2, <1>3, Invariance, PTL DEF Spec
=============================================================================
