------------------------------ MODULE Storage ------------------------------
(***************************************************************************)
(* The files and folders of one company, their trash and its quota         *)
(* (apps/storage): uploads are decided on the bytes that are stored,       *)
(* deletion is a flag and a date, and a nightly task removes what has been *)
(* in the trash for long enough.                                           *)
(*                                                                         *)
(* A request is one step, but for an upload, which counts first and        *)
(* inserts later, without a lock; the nightly task runs without a          *)
(* transaction, one file at a time, over a list it has read before.        *)
(* Who may see or change an item (shares, folder permissions) and the      *)
(* objects in S3 are left out, and so are the personal files of members    *)
(* and the attachments of tasks, which the code's sum adds to the files    *)
(* below: they have an upload refused earlier, and they raise the sum      *)
(* without an upload of the company's own.                                 *)
(***************************************************************************)
EXTENDS Integers, FiniteSets

CONSTANTS
    Files,      \* bound: primary keys of files, all of one size
    Folders,    \* bound: primary keys of folders
    None,       \* NULL
    Limit,      \* storage_limit_gb, in files
    Retention,  \* days an item stays in the trash: 30
    LastDay,    \* bound: the last day
    MaxOpen,    \* bound: uploads handled at the same time
    MaxDeaths   \* bound: times the nightly task dies

VARIABLES
    files,      \* files[f]: the row of storage_files
    folders,    \* folders[g]: the row of storage_folders
    uploads,    \* uploads that have been counted and not yet inserted
    batch,      \* what the nightly task has still to remove; None when it does not run
    today,      \* the date
    deaths      \* how often the nightly task has died

vars == <<files, folders, uploads, batch, today, deaths>>

ASSUME StorageAssumption ==
    /\ IsFiniteSet(Files) /\ IsFiniteSet(Folders)
    /\ None \notin Folders
    /\ {Limit, Retention, LastDay, MaxDeaths} \subseteq Nat
    /\ MaxOpen \in Nat \ {0}

-----------------------------------------------------------------------------
(* Reading *)

Day == 0 .. LastDay

\* "none" is a key without a row, never used or removed.  `at` is deleted_at.
Row(key) == [status : {"none", "live", "trash"}, in : key, at : Day]
NoRow    == [status |-> "none", in |-> None, at |-> 0]

\* A row as it is inserted.
Live(place) == [status |-> "live", in |-> place, at |-> 0]

FilesWith(status)   == {f \in Files : files[f].status = status}
FoldersWith(status) == {g \in Folders : folders[g].status = status}
Exists(g)           == folders[g].status # "none"

\* Mutant: the trash does not count.
UsedLive == FilesWith("live")

\* get_company_storage_used_bytes: "trashed files still occupy S3 storage".
Used == FilesWith("live") \cup FilesWith("trash")

\* The folders under G, themselves included, reached through those in S: the least set that
\* holds G and every folder of S whose parent it holds.
Under(G, S) ==
    LET Closed(C) == G \subseteq C /\ \A g \in S : folders[g].in \in C => g \in C
    IN  {g \in Folders : \A C \in SUBSET Folders : Closed(C) => g \in C}

Stale(row) == row.status = "trash" /\ row.at + Retention <= today

\* Where an upload or a move may put a file, and a new folder may stand.
Places == {None} \cup FoldersWith("live")

-----------------------------------------------------------------------------
(* Requests *)

\* What the requests about stored items leave alone.
Others == <<uploads, batch, today, deaths>>

CreateFolder(g, parent) ==
    /\ ~Exists(g)
    /\ parent \in Places \ {g}
    /\ folders' = [folders EXCEPT ![g] = Live(parent)]
    /\ UNCHANGED <<files, Others>>

\* create: the bytes stored are compared with the limit.
Upload(f, folder) ==
    /\ files[f].status = "none" /\ \A u \in uploads : u.file # f
    /\ Cardinality(uploads) < MaxOpen
    /\ folder \in Places
    /\ Cardinality(Used) + 1 <= Limit
    /\ uploads' = uploads \cup {[file |-> f, folder |-> folder]}
    /\ UNCHANGED <<files, folders, batch, today, deaths>>

\* The row of the folder has to be there still, in the trash or not.
Insertable(u) == u.folder \in {None} \cup FoldersWith("live") \cup FoldersWith("trash")

CommitUpload(u) ==
    /\ u \in uploads
    /\ Insertable(u)
    /\ files' = [files EXCEPT ![u.file] = Live(u.folder)]
    /\ uploads' = uploads \ {u}
    /\ UNCHANGED <<folders, batch, today, deaths>>

AbortUpload(u) ==
    /\ u \in uploads
    /\ uploads' = uploads \ {u}
    /\ UNCHANGED <<files, folders, batch, today, deaths>>

MoveFile(f, folder) ==
    /\ files[f].status = "live"
    /\ folder \in Places
    /\ files' = [files EXCEPT ![f].in = folder]
    /\ UNCHANGED <<folders, Others>>

Trashed(row)  == [row EXCEPT !.status = "trash", !.at = today]
Restored(row) == [row EXCEPT !.status = "live", !.at = 0]

\* destroy of one file and bulk_delete of several.
DeleteFiles(F) ==
    /\ F # {} /\ F \subseteq FilesWith("live")
    /\ files' = [f \in Files |-> IF f \in F THEN Trashed(files[f]) ELSE files[f]]
    /\ UNCHANGED <<folders, Others>>

\* _soft_delete_folder_recursive: a folder in the trash is not entered.
DeleteFolder(g) ==
    LET under == Under({g}, FoldersWith("live")) IN
    /\ folders[g].status = "live"
    /\ folders' = [h \in Folders |-> IF h \in under THEN Trashed(folders[h]) ELSE folders[h]]
    /\ files' = [f \in Files |-> IF files[f].status = "live" /\ files[f].in \in under
                                 THEN Trashed(files[f]) ELSE files[f]]
    /\ UNCHANGED Others

\* restore of a file, of a folder with the trashed files directly in it, and of several.
Restore(F, G) ==
    /\ F \subseteq FilesWith("trash") /\ G \subseteq FoldersWith("trash") /\ F \cup G # {}
    /\ folders' = [g \in Folders |-> IF g \in G THEN Restored(folders[g]) ELSE folders[g]]
    /\ files' = [f \in Files |-> IF f \in F \/ (files[f].status = "trash" /\ files[f].in \in G)
                                 THEN Restored(files[f]) ELSE files[f]]
    /\ UNCHANGED Others

\* Mutant: only the folder itself is removed.
GoneAlone(G) == G

\* The folders that go with G: CASCADE follows `parent`.
Gone(G) == Under(G, Folders)

\* The rows of the files F and of the folders G with all that is in them.
Remove(F, G) ==
    /\ folders' = [g \in Folders |-> IF g \in Gone(G) THEN NoRow ELSE folders[g]]
    /\ files' = [f \in Files |-> IF f \in F \/ files[f].in \in Gone(G) THEN NoRow ELSE files[f]]

\* permanent delete of a file, of a folder, of several, and of the whole trash.
Purge(F, G) ==
    /\ F \subseteq FilesWith("trash") /\ G \subseteq FoldersWith("trash") /\ F \cup G # {}
    /\ Remove(F, G)
    /\ UNCHANGED Others

-----------------------------------------------------------------------------
(* cleanup_deleted_files *)

\* Mutant: only the files outside folders are looked for.
DueOutside(f) == Stale(files[f]) /\ files[f].in = None

\* deleted_at__lte=cutoff
Due(f) == Stale(files[f])

StartSweep ==
    /\ batch = None
    /\ batch' = {f \in Files : Due(f)}
    /\ UNCHANGED <<files, folders, uploads, today, deaths>>

\* The row is removed as it was listed, restored or not.
SweepFile(f) ==
    /\ batch # None /\ f \in batch
    /\ Remove({f}, {})
    /\ batch' = batch \ {f}
    /\ UNCHANGED <<uploads, today, deaths>>

SweepFolders ==
    /\ batch = {}
    /\ Remove({}, {g \in Folders : Stale(folders[g])})
    /\ batch' = None
    /\ UNCHANGED <<uploads, today, deaths>>

\* S3 refuses a file three times, or the worker is stopped.
SweepDies ==
    /\ batch # None
    /\ deaths < MaxDeaths
    /\ batch' = None
    /\ deaths' = deaths + 1
    /\ UNCHANGED <<files, folders, uploads, today>>

\* Midnight; the task, started at three, is done by then.
NextDay ==
    /\ batch = None
    /\ today < LastDay
    /\ today' = today + 1
    /\ UNCHANGED <<files, folders, uploads, batch, deaths>>

-----------------------------------------------------------------------------
(* Specification *)

Init ==
    /\ files = [f \in Files |-> NoRow]
    /\ folders = [g \in Folders |-> NoRow]
    /\ uploads = {}
    /\ batch = None
    /\ today = 0
    /\ deaths = 0

OnFile(f) ==
    \E folder \in Folders \cup {None} : Upload(f, folder) \/ MoveFile(f, folder)

OnFolder(g) ==
    \/ \E parent \in Folders \cup {None} : CreateFolder(g, parent)
    \/ DeleteFolder(g)

OnMany(F, G) == Restore(F, G) \/ Purge(F, G)

Sweep == StartSweep \/ SweepFolders \/ \E f \in Files : SweepFile(f)

Next ==
    \/ \E f \in Files : OnFile(f)
    \/ \E g \in Folders : OnFolder(g)
    \/ \E F \in SUBSET Files : DeleteFiles(F)
    \/ \E F \in SUBSET Files, G \in SUBSET Folders : OnMany(F, G)
    \/ \E u \in uploads : CommitUpload(u) \/ AbortUpload(u)
    \/ Sweep
    \/ SweepDies
    \/ NextDay

\* The beat starts the task every night and the worker runs it to its end.
Spec == Init /\ [][Next]_vars /\ WF_vars(Sweep)

-----------------------------------------------------------------------------
(* Properties *)

\* The rows are well formed and no foreign key dangles: the folder of a file and the parent
\* of a folder exist, whatever CASCADE and the recursion of a deletion did to the tree.
TypeOK ==
    /\ files \in [Files -> Row(Folders \cup {None})]
    /\ folders \in [Folders -> Row(Folders \cup {None})]
    /\ uploads \subseteq [file : Files, folder : Folders \cup {None}]
    /\ batch = None \/ batch \subseteq Files
    /\ today \in Day /\ deaths \in 0 .. MaxDeaths
    /\ \A f \in Used : files[f].in = None \/ Exists(files[f].in)
    /\ \A g \in Folders : Exists(g) => folders[g].in = None \/ Exists(folders[g].in)

\* The quota counts the trash (companies/limits.py), so that no restore takes the files of
\* the company past it: only uploads that overlap can, by one file for each of them but the
\* first.  It says nothing of the whole sum, which the personal files of a member who joins
\* and the attachments of tasks raise too.
QuotaOvershoot == Cardinality(FilesWith("live") \cup FilesWith("trash")) <= Limit + MaxOpen - 1

\* "Celery removes what is older than 30 days in the trash": again and again nothing in the
\* trash is due, neither file nor folder, though the task may die and items keep coming.
TrashIsEmptied ==
    LET due == (\E f \in Files : Stale(files[f])) \/ (\E g \in Folders : Stale(folders[g]))
    IN  due ~> ~due
=============================================================================
