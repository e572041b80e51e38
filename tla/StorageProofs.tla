--------------------------- MODULE StorageProofs ---------------------------
(***************************************************************************)
(* Theorems about Storage, for any files, folders, quota, retention and    *)
(* number of uploads handled at once.                                      *)
(***************************************************************************)
EXTENDS Storage, FiniteSetTheorems, TLAPS

-----------------------------------------------------------------------------
(* The inductive invariant *)

\* The files stored, and those an upload under way may add.
Held == Used \cup {u.file : u \in uploads}

IInv == /\ TypeOK
        /\ IsFiniteSet(uploads)
        /\ Cardinality(Held) <= Limit + MaxOpen - 1

-----------------------------------------------------------------------------
(* Folders *)

\* What is removed with G holds G and is closed under CASCADE: the folders in a removed
\* folder are removed.
LEMMA GoneIsClosed ==
    ASSUME NEW G, G \subseteq Folders
    PROVE  /\ G \subseteq Gone(G) /\ Gone(G) \subseteq Folders
           /\ \A g \in Folders : folders[g].in \in Gone(G) => g \in Gone(G)
BY DEF Gone, Under

\* Removing rows leaves no foreign key behind.
LEMMA RemoveKeepsTypeOK ==
    ASSUME StorageAssumption, TypeOK, NEW F, NEW G, G \subseteq Folders, Remove(F, G),
           UNCHANGED <<uploads, today>>,
           batch' = None \/ batch' \subseteq Files, deaths' \in 0 .. MaxDeaths
    PROVE  TypeOK'
<1> DEFINE gone == Gone(G)
<1>1. gone \subseteq Folders /\ \A g \in Folders : folders[g].in \in gone => g \in gone
  BY GoneIsClosed
<1> HIDE DEF gone
<1>2. /\ folders' = [g \in Folders |-> IF g \in gone THEN NoRow ELSE folders[g]]
      /\ files' = [f \in Files |-> IF f \in F \/ files[f].in \in gone THEN NoRow ELSE files[f]]
  BY DEF Remove, gone
<1>3. NoRow \in Row(Folders \cup {None}) /\ NoRow.status = "none"
  BY DEF NoRow, Row, Day, StorageAssumption
<1>4. /\ files' \in [Files -> Row(Folders \cup {None})]
      /\ folders' \in [Folders -> Row(Folders \cup {None})]
  BY <1>2, <1>3 DEF TypeOK
<1>5. \A f \in Files : files'[f].status \in {"live", "trash"} =>
         files'[f].in = None \/ Exists(files[f].in)'
  <2> SUFFICES ASSUME NEW f \in Files, files'[f].status \in {"live", "trash"},
                      files'[f].in # None
               PROVE  Exists(files[f].in)'
    OBVIOUS
  <2>1. files'[f] = files[f] /\ files[f].in \notin gone
    BY <1>2, <1>3
  <2>2. Exists(files[f].in) /\ files[f].in \in Folders
    BY <2>1 DEF TypeOK, Used, FilesWith, Row
  <2> QED
    BY <1>2, <2>1, <2>2 DEF Exists
<1>6. \A g \in Folders : Exists(g)' => folders'[g].in = None \/ Exists(folders[g].in)'
  <2> SUFFICES ASSUME NEW g \in Folders, Exists(g)', folders'[g].in # None
               PROVE  Exists(folders[g].in)'
    OBVIOUS
  <2>1. folders'[g] = folders[g] /\ g \notin gone /\ Exists(g)
    BY <1>2, <1>3 DEF Exists
  <2>2. folders[g].in \notin gone
    BY <1>1, <2>1
  <2>3. Exists(folders[g].in) /\ folders[g].in \in Folders
    BY <2>1 DEF TypeOK, Row
  <2> QED
    BY <1>2, <2>1, <2>2, <2>3 DEF Exists
<1>7. \A f \in Used' : files'[f].in = None \/ Exists(files[f].in)'
  BY <1>5 DEF Used, FilesWith
<1> QED
  BY <1>4, <1>6, <1>7 DEF TypeOK

\* Rows that move to the trash and back, or files to another folder, leave none either, as
\* no folder disappears.
LEMMA KeptFoldersKeepTypeOK ==
    ASSUME StorageAssumption, TypeOK,
           files' \in [Files -> Row(Folders \cup {None})],
           folders' \in [Folders -> Row(Folders \cup {None})],
           uploads' \subseteq [file : Files, folder : Folders \cup {None}],
           UNCHANGED <<batch, today, deaths>>,
           \A g \in Folders : Exists(g) => Exists(g)' /\ folders'[g].in = folders[g].in,
           \A g \in Folders : Exists(g)' /\ ~Exists(g) =>
              folders'[g].in = None \/ Exists(folders'[g].in),
           \A f \in Used' : \/ files'[f].in = None
                            \/ files'[f].in \in Folders /\ Exists(files'[f].in)
                            \/ f \in Used /\ files'[f].in = files[f].in
    PROVE  TypeOK'
<1>1. \A f \in Used' : files'[f].in = None \/ Exists(files[f].in)'
  BY DEF TypeOK, Used, FilesWith, Row
<1>2. \A g \in Folders : Exists(g)' => folders'[g].in = None \/ Exists(folders[g].in)'
  <2> SUFFICES ASSUME NEW g \in Folders, Exists(g)', folders'[g].in # None
               PROVE  Exists(folders[g].in)'
    OBVIOUS
  <2>1. folders'[g].in \in Folders
    BY DEF Row
  <2>2. Exists(folders'[g].in)
    BY DEF TypeOK
  <2> QED
    BY <2>1, <2>2
<1> QED
  BY <1>1, <1>2 DEF TypeOK

-----------------------------------------------------------------------------
(* The quota *)

\* Any set of files is finite.
LEMMA FilesFinite ==
    ASSUME StorageAssumption, NEW S, S \subseteq Files
    PROVE  IsFiniteSet(S) /\ Cardinality(S) \in Nat
BY FS_Subset, FS_CardinalityType DEF StorageAssumption

\* What is held are files.
LEMMA HeldFiles ==
    ASSUME TypeOK
    PROVE  Held \subseteq Files
BY DEF TypeOK, Held, Used, FilesWith

\* Steps that hold no file more keep the bound.
LEMMA HeldShrinks ==
    ASSUME StorageAssumption, IInv, TypeOK', IsFiniteSet(uploads'), Held' \subseteq Held
    PROVE  IInv'
<1>1. Held \subseteq Files
  BY HeldFiles DEF IInv
<1>2. /\ IsFiniteSet(Held) /\ Cardinality(Held) \in Nat /\ Cardinality(Held') \in Nat
      /\ Cardinality(Held') <= Cardinality(Held)
  BY <1>1, FilesFinite, FS_Subset
<1>3. Limit \in Nat /\ MaxOpen \in Nat
  BY DEF StorageAssumption
<1> QED
  BY <1>2, <1>3 DEF IInv

\* An upload is counted below the limit: what it adds is at most what is under way.
LEMMA UploadKeepsIInv ==
    ASSUME StorageAssumption, IInv, NEW f \in Files, NEW folder \in Folders \cup {None},
           Upload(f, folder)
    PROVE  IInv'
<1> DEFINE u == [file |-> f, folder |-> folder]
           keys == {v.file : v \in uploads'}
           g == [v \in uploads' |-> v.file]
<1>1. /\ uploads' = uploads \cup {u} /\ UNCHANGED <<files, folders, batch, today, deaths>>
      /\ Cardinality(uploads) < MaxOpen /\ Cardinality(Used) + 1 <= Limit
  BY DEF Upload
<1>2. TypeOK'
  <2>1. u \in [file : Files, folder : Folders \cup {None}]
    OBVIOUS
  <2> HIDE DEF u
  <2>2. uploads' \subseteq [file : Files, folder : Folders \cup {None}]
    BY <1>1, <2>1 DEF IInv, TypeOK
  <2> QED
    BY <1>1, <2>2 DEF IInv, TypeOK, Used, FilesWith, Exists
<1>3. /\ IsFiniteSet(uploads') /\ Cardinality(uploads) \in Nat /\ Cardinality(uploads') \in Nat
      /\ Cardinality(uploads') <= Cardinality(uploads) + 1
  <2>1. IsFiniteSet(uploads)
    BY DEF IInv
  <2>2. Cardinality(uploads) \in Nat
    BY <2>1, FS_CardinalityType
  <2>3. IsFiniteSet(uploads') /\ Cardinality(uploads') \in Nat
    BY <1>1, <2>1, FS_AddElement, FS_CardinalityType
  <2>4. Cardinality(uploads')
          = IF u \in uploads THEN Cardinality(uploads) ELSE Cardinality(uploads) + 1
    BY <1>1, <2>1, FS_AddElement
  <2> QED
    BY <2>2, <2>3, <2>4
<1>4. g \in Surjection(uploads', keys)
  BY DEF Surjection
<1>5. IsFiniteSet(keys) /\ Cardinality(keys) <= Cardinality(uploads') /\ Cardinality(keys) \in Nat
  BY <1>3, <1>4, FS_Surjection, FS_CardinalityType
<1>6. IsFiniteSet(Used) /\ Cardinality(Used) \in Nat
  BY FilesFinite DEF Used, FilesWith
<1>7. Held' = Used \cup keys
  BY <1>1 DEF Held, Used, FilesWith
<1>8. /\ Cardinality(Used \cup keys)
           = Cardinality(Used) + Cardinality(keys) - Cardinality(Used \cap keys)
      /\ Cardinality(Used \cap keys) \in Nat
  BY <1>5, <1>6, FS_Union, FS_Subset, FS_CardinalityType
<1>9. Limit \in Nat /\ MaxOpen \in Nat
  BY DEF StorageAssumption
<1> HIDE DEF keys
<1>10. Cardinality(Held') <= Limit + MaxOpen - 1
  BY <1>1, <1>3, <1>5, <1>6, <1>7, <1>8, <1>9
<1> QED
  BY <1>2, <1>3, <1>10 DEF IInv
-----------------------------------------------------------------------------
(* Requests *)

\* Files and folders come from rows that are well formed.
LEMMA RowsTyped ==
    ASSUME StorageAssumption, TypeOK
    PROVE  /\ \A f \in Files : /\ Trashed(files[f]) \in Row(Folders \cup {None})
                               /\ Trashed(files[f]).in = files[f].in
                               /\ Trashed(files[f]).status = "trash"
                               /\ Restored(files[f]) \in Row(Folders \cup {None})
                               /\ Restored(files[f]).in = files[f].in
                               /\ Restored(files[f]).status = "live"
           /\ \A g \in Folders : /\ Trashed(folders[g]) \in Row(Folders \cup {None})
                                 /\ Trashed(folders[g]).in = folders[g].in
                                 /\ Trashed(folders[g]).status = "trash"
                                 /\ Restored(folders[g]) \in Row(Folders \cup {None})
                                 /\ Restored(folders[g]).in = folders[g].in
                                 /\ Restored(folders[g]).status = "live"
<1>1. 0 \in Day /\ today \in Day
  BY DEF TypeOK, Day, StorageAssumption
<1> QED
  BY <1>1 DEF TypeOK, Trashed, Restored, Row

\* Steps that only mark rows as in the trash or out of it.
LEMMA MarksKeepIInv ==
    ASSUME StorageAssumption, IInv, UNCHANGED <<uploads, batch, today, deaths>>,
           files' = [f \in Files |-> files'[f]],
           folders' = [g \in Folders |-> folders'[g]],
           \A f \in Files : \/ files'[f] = files[f]
                            \/ files[f].status = "live" /\ files'[f] = Trashed(files[f])
                            \/ files[f].status = "trash" /\ files'[f] = Restored(files[f]),
           \A g \in Folders : \/ folders'[g] = folders[g]
                              \/ folders[g].status = "live" /\ folders'[g] = Trashed(folders[g])
                              \/ folders[g].status = "trash" /\ folders'[g] = Restored(folders[g])
    PROVE  IInv'
<1>1. TypeOK
  BY DEF IInv
<1>2. \A f \in Files : /\ files'[f] \in Row(Folders \cup {None})
                       /\ files'[f].in = files[f].in
                       /\ files'[f].status \in {"live", "trash"}
                            => files[f].status \in {"live", "trash"}
  <2> SUFFICES ASSUME NEW f \in Files
               PROVE  /\ files'[f] \in Row(Folders \cup {None})
                      /\ files'[f].in = files[f].in
                      /\ files'[f].status \in {"live", "trash"}
                           => files[f].status \in {"live", "trash"}
    OBVIOUS
  <2>1. files[f] \in Row(Folders \cup {None})
    BY <1>1 DEF TypeOK
  <2>2. CASE files'[f] = files[f]
    BY <2>1, <2>2
  <2>3. CASE files[f].status = "live" /\ files'[f] = Trashed(files[f])
    BY <1>1, <2>3, RowsTyped
  <2>4. CASE files[f].status = "trash" /\ files'[f] = Restored(files[f])
    BY <1>1, <2>4, RowsTyped
  <2> QED
    BY <2>2, <2>3, <2>4
<1>3. \A g \in Folders : /\ folders'[g] \in Row(Folders \cup {None})
                         /\ folders'[g].in = folders[g].in
                         /\ Exists(g)' <=> Exists(g)
  BY <1>1, RowsTyped DEF TypeOK, Exists
<1>4. Used' \subseteq Used
  BY <1>2 DEF Used, FilesWith
<1>5. TypeOK'
  <2>1. /\ files' \in [Files -> Row(Folders \cup {None})]
        /\ folders' \in [Folders -> Row(Folders \cup {None})]
    BY <1>2, <1>3
  <2>2. \A f \in Used' : f \in Used /\ files'[f].in = files[f].in
    BY <1>2, <1>4 DEF Used, FilesWith
  <2>3. uploads' \subseteq [file : Files, folder : Folders \cup {None}]
    BY <1>1 DEF TypeOK
  <2> QED
    BY <1>1, <1>3, <2>1, <2>2, <2>3, KeptFoldersKeepTypeOK
<1>6. Held' \subseteq Held
  BY <1>4 DEF Held
<1> QED
  BY <1>5, <1>6, HeldShrinks DEF IInv

\* Flagging files and folders, and taking the flag back, holds no file more.
LEMMA TrashKeepsIInv ==
    ASSUME StorageAssumption, IInv,
           \/ \E F \in SUBSET Files : DeleteFiles(F)
           \/ \E g \in Folders : DeleteFolder(g)
           \/ \E F \in SUBSET Files, G \in SUBSET Folders : Restore(F, G)
    PROVE  IInv'
<1>0. /\ files = [f \in Files |-> files[f]]
      /\ folders = [g \in Folders |-> folders[g]]
  BY DEF IInv, TypeOK
<1>1. ASSUME NEW F \in SUBSET Files, DeleteFiles(F)
      PROVE  IInv'
  <2>1. \A f \in Files : \/ files'[f] = files[f]
                         \/ files[f].status = "live" /\ files'[f] = Trashed(files[f])
    BY <1>1 DEF DeleteFiles, FilesWith
  <2>2. /\ files' = [f \in Files |-> files'[f]] /\ UNCHANGED folders
        /\ UNCHANGED <<uploads, batch, today, deaths>>
    BY <1>1 DEF DeleteFiles, Others
  <2> QED
    BY <1>0, <2>1, <2>2, MarksKeepIInv
<1>2. ASSUME NEW g \in Folders, DeleteFolder(g)
      PROVE  IInv'
  <2> DEFINE under == Under({g}, FoldersWith("live"))
  <2>1. under \subseteq FoldersWith("live")
    <3>1. {g} \subseteq FoldersWith("live") /\ FoldersWith("live") \in SUBSET Folders
      BY <1>2 DEF DeleteFolder, FoldersWith
    <3> QED
      BY <3>1 DEF Under
  <2> HIDE DEF under
  <2>2. /\ folders' = [h \in Folders |-> IF h \in under THEN Trashed(folders[h]) ELSE folders[h]]
        /\ files' = [f \in Files |-> IF files[f].status = "live" /\ files[f].in \in under
                                     THEN Trashed(files[f]) ELSE files[f]]
        /\ UNCHANGED <<uploads, batch, today, deaths>>
    BY <1>2 DEF DeleteFolder, Others, under
  <2>3. /\ \A f \in Files : \/ files'[f] = files[f]
                            \/ files[f].status = "live" /\ files'[f] = Trashed(files[f])
        /\ \A h \in Folders : \/ folders'[h] = folders[h]
                              \/ folders[h].status = "live" /\ folders'[h] = Trashed(folders[h])
    BY <2>1, <2>2 DEF FoldersWith
  <2>4. /\ files' = [f \in Files |-> files'[f]]
        /\ folders' = [h \in Folders |-> folders'[h]]
    BY <2>2
  <2> QED
    BY <2>2, <2>3, <2>4, MarksKeepIInv
<1>3. ASSUME NEW F \in SUBSET Files, NEW G \in SUBSET Folders, Restore(F, G)
      PROVE  IInv'
  <2>1. /\ \A f \in Files : \/ files'[f] = files[f]
                            \/ files[f].status = "trash" /\ files'[f] = Restored(files[f])
        /\ \A h \in Folders : \/ folders'[h] = folders[h]
                              \/ folders[h].status = "trash" /\ folders'[h] = Restored(folders[h])
    BY <1>3 DEF Restore, FilesWith, FoldersWith
  <2>2. /\ files' = [f \in Files |-> files'[f]]
        /\ folders' = [h \in Folders |-> folders'[h]]
        /\ UNCHANGED <<uploads, batch, today, deaths>>
    BY <1>3 DEF Restore, Others
  <2> QED
    BY <2>1, <2>2, MarksKeepIInv
<1> QED
  BY <1>1, <1>2, <1>3

\* Removing rows, by a request or by the task.
LEMMA RemovalKeepsIInv ==
    ASSUME StorageAssumption, IInv,
           \/ \E F \in SUBSET Files, G \in SUBSET Folders : Purge(F, G)
           \/ \E f \in Files : SweepFile(f)
           \/ SweepFolders
    PROVE  IInv'
<1>1. PICK F \in SUBSET Files, G \in SUBSET Folders :
        /\ Remove(F, G) /\ UNCHANGED <<uploads, today>>
        /\ batch' = None \/ batch' \subseteq Files
        /\ deaths' \in 0 .. MaxDeaths
  <2>1. ASSUME NEW F \in SUBSET Files, NEW G \in SUBSET Folders, Purge(F, G)
        PROVE  /\ Remove(F, G) /\ UNCHANGED <<uploads, today>>
               /\ batch' = None \/ batch' \subseteq Files
               /\ deaths' \in 0 .. MaxDeaths
    BY <2>1 DEF Purge, Others, IInv, TypeOK
  <2>2. ASSUME NEW f \in Files, SweepFile(f)
        PROVE  /\ Remove({f}, {}) /\ UNCHANGED <<uploads, today>>
               /\ batch' = None \/ batch' \subseteq Files
               /\ deaths' \in 0 .. MaxDeaths
    BY <2>2 DEF SweepFile, IInv, TypeOK
  <2>3. CASE SweepFolders
    <3> DEFINE G == {g \in Folders : Stale(folders[g])}
    <3>1. /\ Remove({}, G) /\ UNCHANGED <<uploads, today>>
          /\ batch' = None
          /\ deaths' \in 0 .. MaxDeaths
      BY <2>3 DEF SweepFolders, IInv, TypeOK
    <3>2. G \in SUBSET Folders
      OBVIOUS
    <3> HIDE DEF G
    <3> QED
      BY <3>1, <3>2
  <2>4. {} \in SUBSET Folders /\ {} \in SUBSET Files /\ \A f \in Files : {f} \in SUBSET Files
    OBVIOUS
  <2> QED
    BY <2>1, <2>2, <2>3, <2>4
<1>2. TypeOK'
  BY <1>1, RemoveKeepsTypeOK DEF IInv
<1>3. Used' \subseteq Used
  BY <1>1 DEF Remove, NoRow, Used, FilesWith
<1>4. Held' \subseteq Held
  BY <1>1, <1>3 DEF Held
<1> QED
  BY <1>1, <1>2, <1>4, HeldShrinks DEF IInv
-----------------------------------------------------------------------------
(* Theorems *)

\* The invariant holds in every reachable state.
THEOREM StorageInvariant == Spec => []IInv
<1>0. StorageAssumption
  BY StorageAssumption
<1>1. Init => IInv
  <2> SUFFICES ASSUME Init PROVE IInv
    OBVIOUS
  <2>1. NoRow \in Row(Folders \cup {None}) /\ 0 \in Day
    BY <1>0 DEF NoRow, Row, Day, StorageAssumption
  <2>2. Used = {}
    BY DEF Init, Used, FilesWith, NoRow
  <2>3. TypeOK
    BY <1>0, <2>1, <2>2 DEF Init, TypeOK, NoRow, Exists, StorageAssumption
  <2>4. Held = {}
    BY <2>2 DEF Init, Held
  <2>5. IsFiniteSet({}) /\ Cardinality({}) = 0 /\ Limit + MaxOpen - 1 >= 0
    BY <1>0, FS_EmptySet DEF StorageAssumption
  <2> QED
    BY <2>3, <2>4, <2>5 DEF Init, IInv
<1>2. IInv /\ [Next]_vars => IInv'
  <2> SUFFICES ASSUME IInv, [Next]_vars PROVE IInv'
    OBVIOUS
  <2>0. TypeOK /\ IsFiniteSet(uploads) /\ 0 \in Day
    BY <1>0 DEF IInv, Day, StorageAssumption
  <2>1. ASSUME NEW f \in Files, NEW folder \in Folders \cup {None}, Upload(f, folder)
        PROVE  IInv'
    BY <1>0, <2>1, UploadKeepsIInv
  <2>2. ASSUME NEW f \in Files, NEW folder \in Folders \cup {None}, MoveFile(f, folder)
        PROVE  IInv'
    <3>1. /\ files' = [files EXCEPT ![f].in = folder]
          /\ files[f].status = "live" /\ UNCHANGED <<folders, uploads, batch, today, deaths>>
          /\ folder = None \/ (folder \in Folders /\ Exists(folder))
      BY <2>2 DEF MoveFile, Others, Places, FoldersWith, Exists
    <3>2. /\ files' \in [Files -> Row(Folders \cup {None})]
          /\ files'[f].in = folder
          /\ \A e \in Files : files'[e].status = files[e].status
          /\ \A e \in Files \ {f} : files'[e] = files[e]
      BY <2>0, <3>1 DEF TypeOK, Row
    <3>3. Used' = Used
      BY <3>2 DEF Used, FilesWith
    <3>4. Held' \subseteq Held
      BY <3>1, <3>3 DEF Held
    <3>5. \A e \in Used' : \/ files'[e].in = None
                           \/ files'[e].in \in Folders /\ Exists(files'[e].in)
                           \/ e \in Used /\ files'[e].in = files[e].in
      BY <3>1, <3>2, <3>3 DEF Used, FilesWith
    <3>6. TypeOK'
      BY <1>0, <2>0, <3>1, <3>2, <3>5, KeptFoldersKeepTypeOK DEF TypeOK, Exists
    <3> QED
      BY <1>0, <2>0, <3>1, <3>4, <3>6, HeldShrinks
  <2>3. ASSUME NEW g \in Folders, NEW parent \in Folders \cup {None}, CreateFolder(g, parent)
        PROVE  IInv'
    <3>1. /\ folders' = [folders EXCEPT ![g] = Live(parent)]
          /\ ~Exists(g) /\ UNCHANGED <<files, uploads, batch, today, deaths>>
          /\ parent = None \/ (parent \in Folders /\ Exists(parent))
      BY <2>3 DEF CreateFolder, Others, Places, FoldersWith, Exists
    <3>2. /\ folders' \in [Folders -> Row(Folders \cup {None})]
          /\ folders'[g].in = parent
          /\ \A h \in Folders \ {g} : folders'[h] = folders[h]
      BY <2>0, <3>1 DEF TypeOK, Row, Live
    <3>3. Used' = Used /\ Held' \subseteq Held
      BY <3>1 DEF Held, Used, FilesWith
    <3>4. /\ \A h \in Folders : Exists(h) => Exists(h)' /\ folders'[h].in = folders[h].in
          /\ \A h \in Folders : Exists(h)' /\ ~Exists(h) =>
                folders'[h].in = None \/ Exists(folders'[h].in)
      BY <3>1, <3>2 DEF Exists
    <3>5. TypeOK'
      BY <1>0, <2>0, <3>1, <3>2, <3>3, <3>4, KeptFoldersKeepTypeOK DEF TypeOK
    <3> QED
      BY <1>0, <2>0, <3>1, <3>3, <3>5, HeldShrinks
  <2>4. CASE \/ \E F \in SUBSET Files : DeleteFiles(F)
             \/ \E g \in Folders : DeleteFolder(g)
             \/ \E F \in SUBSET Files, G \in SUBSET Folders : Restore(F, G)
    BY <1>0, <2>4, TrashKeepsIInv
  <2>5. CASE \/ \E F \in SUBSET Files, G \in SUBSET Folders : Purge(F, G)
             \/ \E f \in Files : SweepFile(f)
             \/ SweepFolders
    BY <1>0, <2>5, RemovalKeepsIInv
  <2>6. ASSUME NEW u \in uploads, CommitUpload(u)
        PROVE  IInv'
    <3>1. /\ files' = [files EXCEPT ![u.file] = Live(u.folder)]
          /\ uploads' = uploads \ {u} /\ UNCHANGED <<folders, batch, today, deaths>>
          /\ u.folder = None \/ (u.folder \in Folders /\ Exists(u.folder))
      BY <2>6 DEF CommitUpload, Insertable, FoldersWith, Exists
    <3>2. u.file \in Files /\ u.folder \in Folders \cup {None}
      BY <2>0 DEF TypeOK
    <3>3. /\ files' \in [Files -> Row(Folders \cup {None})]
          /\ files'[u.file].in = u.folder
          /\ \A e \in Files \ {u.file} : files'[e] = files[e]
      BY <2>0, <3>1, <3>2 DEF TypeOK, Row, Live
    <3>4. Used' \subseteq Used \cup {u.file}
      BY <3>3 DEF Used, FilesWith
    <3>5. Held' \subseteq Held
      BY <3>1, <3>4 DEF Held
    <3>6. \A e \in Used' : \/ files'[e].in = None
                           \/ files'[e].in \in Folders /\ Exists(files'[e].in)
                           \/ e \in Used /\ files'[e].in = files[e].in
      BY <3>1, <3>3 DEF Used, FilesWith
    <3>7. uploads' \subseteq [file : Files, folder : Folders \cup {None}] /\ IsFiniteSet(uploads')
      BY <2>0, <3>1, FS_RemoveElement DEF TypeOK
    <3>8. TypeOK'
      BY <1>0, <2>0, <3>1, <3>3, <3>6, <3>7, KeptFoldersKeepTypeOK DEF TypeOK, Exists
    <3> QED
      BY <1>0, <3>5, <3>7, <3>8, HeldShrinks
  <2>7. ASSUME NEW u \in uploads, AbortUpload(u)
        PROVE  IInv'
    <3>1. /\ uploads' = uploads \ {u} /\ UNCHANGED <<files, folders, batch, today, deaths>>
          /\ IsFiniteSet(uploads')
      BY <2>0, <2>7, FS_RemoveElement DEF AbortUpload
    <3>2. TypeOK' /\ Held' \subseteq Held
      BY <2>0, <3>1 DEF TypeOK, Held, Used, FilesWith, Exists
    <3> QED
      BY <1>0, <3>1, <3>2, HeldShrinks
  <2>8. CASE StartSweep \/ SweepDies \/ NextDay \/ UNCHANGED vars
    <3>1. /\ UNCHANGED <<files, folders, uploads>>
          /\ batch' = None \/ batch' \subseteq Files
          /\ deaths' \in 0 .. MaxDeaths /\ today' \in Day
      BY <1>0, <2>0, <2>8
         DEF StartSweep, SweepDies, NextDay, vars, TypeOK, Day, StorageAssumption
    <3>2. TypeOK' /\ Held' \subseteq Held
      BY <2>0, <3>1 DEF TypeOK, Held, Used, FilesWith, Exists
    <3> QED
      BY <1>0, <2>0, <3>1, <3>2, HeldShrinks
  <2> QED
    BY <2>1, <2>2, <2>3, <2>4, <2>5, <2>6, <2>7, <2>8 DEF Next, OnFile, OnFolder, OnMany, Sweep
<1> QED
  BY <1>1, <1>2, PTL DEF Spec

\* No foreign key dangles: deletions cascade down to the last file (CASCADE on parent and
\* folder, _soft_delete_folder_recursive), whatever uploads commit meanwhile.
THEOREM NoKeyDangles == Spec => []TypeOK
<1>1. IInv => TypeOK
  BY DEF IInv
<1> QED
  BY <1>1, StorageInvariant, PTL

\* The quota is overrun by the uploads that overlap at most, as the trash counts.
THEOREM QuotaIsBounded == Spec => []QuotaOvershoot
<1>1. IInv => QuotaOvershoot
  <2> SUFFICES ASSUME IInv PROVE QuotaOvershoot
    OBVIOUS
  <2>1. Held \subseteq Files /\ Used \subseteq Held
    BY HeldFiles DEF IInv, Held
  <2>2. /\ IsFiniteSet(Held) /\ Cardinality(Held) \in Nat /\ Cardinality(Used) \in Nat
        /\ Cardinality(Used) <= Cardinality(Held)
    BY <2>1, StorageAssumption, FilesFinite, FS_Subset
  <2>3. Limit \in Nat /\ MaxOpen \in Nat
    BY StorageAssumption DEF StorageAssumption
  <2>4. Cardinality(Used) <= Limit + MaxOpen - 1
    BY <2>2, <2>3 DEF IInv
  <2> QED
    BY <2>4 DEF QuotaOvershoot, Used
<1> QED
  BY <1>1, StorageInvariant, PTL
=============================================================================
