---------------------------- MODULE ReferenceData ----------------------------
(***************************************************************************)
(* A reference dataset: its row, its records and columns in the admin      *)
(* database, and the copy of its table in an external database.  The admin *)
(* database changes in one transaction per request (an upload: one per     *)
(* line), which locks the dataset's row from its first UPDATE; the         *)
(* external database is another connection, where every step commits.      *)
(* A request works on the instance of the row that it loaded, and each     *)
(* save writes all of it.                                                  *)
(***************************************************************************)
EXTENDS Naturals, FiniteSets

CONSTANTS
    AdminRequest,  \* requests of the admin site
    Record, Field, External,
    Nothing,
    MaxRequests,   \* bound on the requests that are made
    ExternalFaults \* bound on failing calls of the external database

ASSUME ReferenceDataAssumption ==
    /\ Nothing \notin AdminRequest \cup External
    /\ Field # {}  \* a dataset has its identifier
    /\ MaxRequests \in Nat /\ ExternalFaults \in Nat

VARIABLES
    refRow,      \* the row of ReferenceDataset
    refRecords,  \* records in the admin database
    refFields,   \* rows of ReferenceDatasetField
    refColumns,  \* columns of the table of records
    external,    \* the table of each external database
    rowLock,     \* which transaction has written the row
    adminEdit,       \* what each request is doing, and its transaction
    made,        \* requests so far
    overlap,     \* requests that ran at the same time: "none", "records", "other"
    externalFaults

refVars == <<refRow, refRecords, refFields, refColumns, external, rowLock, adminEdit, made,
             overlap, externalFaults>>
committed == <<refRow, refRecords, refFields, refColumns>>

NoTable == [exists |-> FALSE, records |-> {}, columns |-> {}]
NewRow == [published |-> FALSE, initial |-> FALSE, major |-> 1, minor |-> 0,
           publishedMajor |-> 0, publishedMinor |-> 0, ext |-> Nothing, deleted |-> FALSE]
IdleEdit == [pc |-> "idle", op |-> "none", inst |-> NewRow, was |-> NewRow, added |-> {},
         removed |-> {}, lines |-> {}, fields |-> {}, columns |-> {}, change |-> {},
         saved |-> {}]

RefInit ==
    /\ refRow = NewRow
    /\ refRecords = {}
    /\ refFields = {CHOOSE f \in Field : TRUE}
    /\ refColumns = refFields
    /\ external = [d \in External |-> NoTable]
    /\ rowLock = Nothing
    /\ adminEdit = [r \in AdminRequest |-> IdleEdit]
    /\ made = 0
    /\ overlap = "none"
    /\ externalFaults = 0

(***************************************************************************)
(* ReferenceDataset.save: manage_published, and the whole row.             *)
(***************************************************************************)

ManagePublished(row, wasPublished) ==
    IF ~ row.published THEN row
    ELSE LET first == IF row.initial THEN row
                      ELSE [row EXCEPT !.initial = TRUE, !.major = 1, !.minor = 0]
             next == CASE first.major > first.publishedMajor ->
                            <<first.publishedMajor + 1, 0>>
                       [] first.major <= first.publishedMajor
                          /\ first.minor > first.publishedMinor ->
                            <<first.publishedMajor, first.publishedMinor + 1>>
                       [] OTHER -> <<first.publishedMajor, first.publishedMinor>>
         IN IF wasPublished
            THEN [first EXCEPT !.publishedMajor = first.major, !.publishedMinor = first.minor]
            ELSE [first EXCEPT !.publishedMajor = next[1], !.publishedMinor = next[2],
                               !.major = next[1], !.minor = next[2]]

Saved(r, row) == ManagePublished(row, adminEdit[r].was.published)

\* The first UPDATE of the row waits for the transaction that wrote it last.
LocksRow(r) == rowLock \in {Nothing, r} /\ rowLock' = r

\* The records that the transaction of a request sees.
Visible(r) == (refRecords \ adminEdit[r].removed) \cup adminEdit[r].added

(***************************************************************************)
(* Requests begin by loading the row.                                      *)
(***************************************************************************)
RecordOps == {"save", "delete"}

Load(r, op, edited) ==
    /\ made < MaxRequests
    /\ adminEdit[r].pc = "idle"
    /\ made' = made + 1
    /\ adminEdit' = [adminEdit EXCEPT ![r] = edited]
    /\ LET busy == {s \in AdminRequest \ {r} : adminEdit[s].pc # "idle"} IN
       overlap' = IF busy = {} THEN overlap
                  ELSE IF op \in RecordOps /\ overlap # "other"
                          /\ \A s \in busy : adminEdit[s].op \in RecordOps
                       THEN "records" ELSE "other"
    /\ UNCHANGED <<committed, external, rowLock, externalFaults>>

Loaded(op, pc) ==
    [IdleEdit EXCEPT !.op = op, !.pc = pc, !.inst = refRow, !.was = refRow,
                 !.fields = refFields, !.columns = refColumns]

\* ReferenceDatasetAdminEditView and ReferenceDatasetAdminDeleteView.
LoadSaveRecord(r) ==
    \E k \in Record : Load(r, "save", [Loaded("save", "write") EXCEPT !.added = {k}])
LoadDeleteRecords(r) ==
    \E gone \in SUBSET refRecords :
       /\ Cardinality(gone) = 1 \/ gone = refRecords
       /\ Load(r, "delete", [Loaded("delete", "write") EXCEPT !.removed = gone])
\* ReferenceDatasetAdminUploadView.
LoadUpload(r) ==
    Load(r, "upload", [Loaded("upload", "line") EXCEPT !.lines = Record])
\* ReferenceDatasetAdmin: the form, and the inline forms of the fields.
LoadEdit(r) ==
    \E published \in BOOLEAN, ext \in External \cup {Nothing} :
    \E change \in {{}} \cup {{f} : f \in Field} :
       /\ ~ refRow.deleted
       /\ refFields # change
       /\ Load(r, "edit", [Loaded("edit", "form") EXCEPT !.inst.published = published,
                                                         !.inst.ext = ext, !.change = change])
LoadDelete(r) == ~ refRow.deleted /\ Load(r, "remove", Loaded("remove", "drop"))

(***************************************************************************)
(* save_record, delete_record and delete_all_records.                      *)
(***************************************************************************)
AfterWrite(r) ==
    IF adminEdit[r].op # "upload" /\ adminEdit[r].inst.ext # Nothing THEN "list" ELSE "commit"

NextMinor(r) == Saved(r, [adminEdit[r].inst EXCEPT !.minor = @ + 1])

\* The record and increment_minor_version.
WriteRecords(r) ==
    /\ adminEdit[r].pc = "write"
    /\ LocksRow(r)
    /\ adminEdit' = [adminEdit EXCEPT ![r].pc = AfterWrite(r),
                              ![r].inst = NextMinor(r)]
    /\ UNCHANGED <<committed, external, made, overlap, externalFaults>>

\* The next line of an upload, in a transaction of its own.
UploadLine(r) ==
    /\ adminEdit[r].pc = "line"
    /\ \E k \in adminEdit[r].lines :
          adminEdit' = [adminEdit EXCEPT ![r].pc = "write", ![r].added = {k}, ![r].lines = @ \ {k}]
    /\ UNCHANGED <<committed, external, rowLock, made, overlap, externalFaults>>

\* A line with errors is only logged.
SkipLine(r) ==
    /\ adminEdit[r].pc = "line"
    /\ \E k \in adminEdit[r].lines : adminEdit' = [adminEdit EXCEPT ![r].lines = @ \ {k}]
    /\ UNCHANGED <<committed, external, rowLock, made, overlap, externalFaults>>

UploadSyncs(r) ==
    /\ adminEdit[r].pc = "line"
    /\ adminEdit[r].lines = {}
    /\ adminEdit' = [adminEdit EXCEPT ![r].pc = IF adminEdit[r].inst.ext = Nothing THEN "commit" ELSE "list",
                              ![r].op = "synced"]
    /\ UNCHANGED <<committed, external, rowLock, made, overlap, externalFaults>>
(***************************************************************************)
(* sync_to_external_database: the records, as they are when the query runs, *)
(* one after the other, and then all others are deleted.                   *)
(***************************************************************************)
EditStep(r, from, to) ==
    /\ adminEdit[r].pc = from
    /\ adminEdit' = [adminEdit EXCEPT ![r].pc = to]

ListRecords(r) ==
    /\ adminEdit[r].pc = "list"
    /\ adminEdit' = [adminEdit EXCEPT ![r].pc = "copy", ![r].saved = Visible(r)]
    /\ UNCHANGED <<committed, external, rowLock, made, overlap, externalFaults>>

SyncsTo(r, records) ==
    LET d == adminEdit[r].inst.ext IN
    /\ external[d].exists
    /\ external' = [external EXCEPT ![d].records = records]
    /\ UNCHANGED <<committed, rowLock, made, overlap, externalFaults>>

CopyRecords(r) ==
    /\ EditStep(r, "copy", "prune")
    /\ SyncsTo(r, external[adminEdit[r].inst.ext].records \cup adminEdit[r].saved)

\* Mutant: what was deleted stays in the external database.
PruneNothing(r) ==
    /\ EditStep(r, "prune", IF adminEdit[r].op = "edit" THEN "columns" ELSE "commit")
    /\ SyncsTo(r, external[adminEdit[r].inst.ext].records)

PruneRecords(r) ==
    /\ EditStep(r, "prune", IF adminEdit[r].op = "edit" THEN "columns" ELSE "commit")
    /\ SyncsTo(r, external[adminEdit[r].inst.ext].records \cap adminEdit[r].saved)

(***************************************************************************)
(* ReferenceDataset.save, from the form of the admin site, and delete.     *)
(***************************************************************************)
ExtChanges(r) == adminEdit[r].inst.ext # adminEdit[r].was.ext

EditSave(r) ==
    /\ adminEdit[r].pc = "form"
    /\ LocksRow(r)
    /\ adminEdit' = [adminEdit EXCEPT
                   ![r].inst = Saved(r, adminEdit[r].inst),
                   ![r].pc = CASE ~ ExtChanges(r) -> "columns"
                               [] ExtChanges(r) /\ adminEdit[r].was.ext # Nothing -> "drop"
                               [] OTHER -> "create"]
    /\ UNCHANGED <<committed, external, made, overlap, externalFaults>>

\* _drop_external_database_table: a table that is not there is no error.
DropTable(r) ==
    /\ adminEdit[r].pc = "drop"
    /\ LET d == adminEdit[r].was.ext IN
       external' = IF d = Nothing THEN external ELSE [external EXCEPT ![d] = NoTable]
    /\ adminEdit' = [adminEdit EXCEPT ![r].pc = CASE adminEdit[r].op = "remove" -> "mark"
                                          [] adminEdit[r].op = "edit"
                                             /\ adminEdit[r].inst.ext # Nothing -> "create"
                                          [] OTHER -> "columns"]
    /\ UNCHANGED <<committed, rowLock, made, overlap, externalFaults>>

CreateRefTable(r) ==
    /\ EditStep(r, "create", "list")
    /\ LET d == adminEdit[r].inst.ext IN
       /\ ~ external[d].exists
       /\ external' = [external EXCEPT ![d] = [exists |-> TRUE, records |-> {},
                                               columns |-> adminEdit[r].fields]]
    /\ UNCHANGED <<committed, rowLock, made, overlap, externalFaults>>

\* The soft delete, which saves the row once more.
SoftDeleted(r) == Saved(r, [adminEdit[r].inst EXCEPT !.deleted = TRUE])

MarkDeleted(r) ==
    /\ adminEdit[r].pc = "mark"
    /\ LocksRow(r)
    /\ adminEdit' = [adminEdit EXCEPT ![r].pc = "commit",
                              ![r].inst = SoftDeleted(r)]
    /\ UNCHANGED <<committed, external, made, overlap, externalFaults>>

(***************************************************************************)
(* ReferenceDatasetField.save of a new field, and delete: the column comes *)
(* and goes in both databases.                                             *)
(***************************************************************************)
NextMajor(r) == Saved(r, [adminEdit[r].inst EXCEPT !.major = @ + 1, !.minor = 0])

NoChange(r) ==
    /\ adminEdit[r].change = {}
    /\ EditStep(r, "columns", "commit")
    /\ UNCHANGED <<committed, external, rowLock, made, overlap, externalFaults>>

AltersExternal(r, columns) ==
    LET d == adminEdit[r].inst.ext IN
    external' = IF d = Nothing THEN external ELSE [external EXCEPT ![d].columns = columns]

ExternalThere(r) ==
    adminEdit[r].inst.ext \in External => external[adminEdit[r].inst.ext].exists

\* The version of an empty dataset that was never changed stays 1.0.
WithNewField(r) ==
    LET inst == adminEdit[r].inst IN
    IF inst.major > 1 \/ inst.minor > 0 \/ Visible(r) # {} THEN NextMajor(r) ELSE inst

AddField(r) ==
    /\ adminEdit[r].pc = "columns"
    /\ adminEdit[r].change # {}
    /\ adminEdit[r].change \cap adminEdit[r].fields = {}
    /\ ExternalThere(r)
    /\ LET columns == adminEdit[r].columns \cup adminEdit[r].change IN
       /\ AltersExternal(r, columns)
       /\ adminEdit' = [adminEdit EXCEPT ![r].pc = "commit", ![r].columns = columns,
                                 ![r].fields = @ \cup adminEdit[r].change,
                                 ![r].inst = WithNewField(r)]
    /\ UNCHANGED <<committed, rowLock, made, overlap, externalFaults>>

RemoveField(r) ==
    /\ adminEdit[r].pc = "columns"
    /\ adminEdit[r].change # {}
    /\ adminEdit[r].change \subseteq adminEdit[r].fields \cap adminEdit[r].columns
    /\ ExternalThere(r)
    /\ LET columns == adminEdit[r].columns \ adminEdit[r].change IN
       /\ AltersExternal(r, columns)
       /\ adminEdit' = [adminEdit EXCEPT ![r].pc = "commit", ![r].columns = columns,
                                 ![r].fields = @ \ adminEdit[r].change,
                                 ![r].inst = NextMajor(r)]
    /\ UNCHANGED <<committed, rowLock, made, overlap, externalFaults>>

\* A new field whose column cannot be added is saved without it: any error of
\* either database is taken for a column that is there already, and the version
\* goes up as if it were.
AddFieldFails(r) ==
    /\ adminEdit[r].pc = "columns"
    /\ adminEdit[r].change # {}
    /\ adminEdit[r].change \cap adminEdit[r].fields = {}
    /\ externalFaults < ExternalFaults
    /\ externalFaults' = externalFaults + 1
    /\ adminEdit' = [adminEdit EXCEPT ![r].pc = "commit", ![r].fields = @ \cup adminEdit[r].change,
                              ![r].inst = WithNewField(r)]
    /\ UNCHANGED <<committed, external, rowLock, made, overlap>>

(***************************************************************************)
(* The end of a transaction.                                               *)
(***************************************************************************)
Ends(r) ==
    /\ adminEdit' = [adminEdit EXCEPT ![r] =
                   IF @.op = "upload" THEN [@ EXCEPT !.pc = "line", !.added = {}] ELSE IdleEdit]
    /\ rowLock' = IF rowLock = r THEN Nothing ELSE rowLock

Commit(r) ==
    /\ adminEdit[r].pc = "commit"
    /\ refRecords' = Visible(r)
    /\ IF adminEdit[r].op = "synced" THEN UNCHANGED <<refRow, refFields, refColumns>>
       ELSE /\ refRow' = adminEdit[r].inst
            /\ refFields' = (refFields \ (adminEdit[r].change \ adminEdit[r].fields))
                            \cup (adminEdit[r].change \cap adminEdit[r].fields)
            /\ refColumns' = (refColumns \ (adminEdit[r].change \ adminEdit[r].columns))
                             \cup (adminEdit[r].change \cap adminEdit[r].columns)
    /\ Ends(r)
    /\ UNCHANGED <<external, made, overlap, externalFaults>>

\* The external database fails, or has not, or still has, the table: the
\* transaction is rolled back, and what the external database did stays.
ExternalFails(r) ==
    /\ \/ /\ externalFaults < ExternalFaults
          /\ externalFaults' = externalFaults + 1
          /\ \/ adminEdit[r].pc \in {"copy", "prune", "create"}
             \/ adminEdit[r].pc = "drop" /\ adminEdit[r].was.ext # Nothing
       \/ /\ UNCHANGED externalFaults
          /\ \/ adminEdit[r].pc \in {"copy", "prune"} /\ ~ external[adminEdit[r].inst.ext].exists
             \/ adminEdit[r].pc = "create" /\ external[adminEdit[r].inst.ext].exists
             \/ adminEdit[r].pc = "columns" /\ adminEdit[r].change # {} /\ ~ ExternalThere(r)
    /\ Ends(r)
    /\ UNCHANGED <<committed, external, made, overlap>>

(***************************************************************************)
RefNext ==
    \E r \in AdminRequest :
       \/ LoadSaveRecord(r) \/ LoadDeleteRecords(r) \/ LoadUpload(r)
       \/ LoadEdit(r) \/ LoadDelete(r)
       \/ WriteRecords(r) \/ UploadLine(r) \/ SkipLine(r) \/ UploadSyncs(r)
       \/ ListRecords(r) \/ CopyRecords(r) \/ PruneRecords(r)
       \/ EditSave(r) \/ DropTable(r) \/ CreateRefTable(r) \/ MarkDeleted(r)
       \/ NoChange(r) \/ AddField(r) \/ RemoveField(r) \/ AddFieldFails(r)
       \/ Commit(r) \/ ExternalFails(r)

RefSpec == RefInit /\ [][RefNext]_refVars

(***************************************************************************)
(* Properties.                                                             *)
(***************************************************************************)
VersionedRow ==
    [published : BOOLEAN, initial : BOOLEAN, major : Nat, minor : Nat,
     publishedMajor : Nat, publishedMinor : Nat, ext : External \cup {Nothing},
     deleted : BOOLEAN]

RefTypeOK ==
    /\ refRow \in VersionedRow
    /\ refRecords \subseteq Record
    /\ refFields \subseteq Field /\ refColumns \subseteq Field
    /\ external \in [External -> [exists : BOOLEAN, records : SUBSET Record,
                                  columns : SUBSET Field]]
    /\ rowLock \in AdminRequest \cup {Nothing}
    /\ adminEdit \in [AdminRequest ->
                    [pc : {"idle", "write", "line", "list", "copy", "prune", "form", "drop",
                           "create", "mark", "columns", "commit"},
                     op : {"none", "save", "delete", "upload", "synced", "edit", "remove"},
                     inst : VersionedRow, was : VersionedRow,
                     added : SUBSET Record, removed : SUBSET Record, lines : SUBSET Record,
                     saved : SUBSET Record, fields : SUBSET Field, columns : SUBSET Field,
                     change : SUBSET Field]]
    /\ made \in 0 .. MaxRequests
    /\ overlap \in {"none", "records", "other"}
    /\ externalFaults \in 0 .. ExternalFaults

NoEdit == \A r \in AdminRequest : adminEdit[r].pc = "idle"

\* Between requests, the external database has the table of the dataset, and no
\* other, with the columns and records of the dataset: after edits of the
\* external database, fields, records, uploads and deletions, and however saves
\* and deletions of records interleave.  An upload, or an edit of the dataset,
\* that runs beside another request may break this, and so may an external
\* database that fails, until the next request that succeeds.
ExternalFollows ==
    NoEdit /\ overlap # "other" /\ externalFaults = 0
       => \A d \in External :
             external[d] = IF d = refRow.ext /\ ~ refRow.deleted
                           THEN [exists |-> TRUE, records |-> refRecords,
                                 columns |-> refColumns]
                           ELSE NoTable

\* A record that was saved or deleted is so in the external database by the time
\* its transaction commits, and what failing requests left there is repaired.
SaveRepairs ==
    [][\A r \in AdminRequest :
          adminEdit[r].op \in RecordOps /\ adminEdit[r].pc = "commit" /\ adminEdit'[r].pc = "idle"
          /\ refRow'.ext # Nothing /\ overlap # "other"
             => external[refRow'.ext].records = refRecords']_refVars

\* What users see as the version of a published dataset is its version.
PublishedIsCurrent ==
    refRow.published => /\ refRow.initial
                        /\ refRow.publishedMajor = refRow.major
                        /\ refRow.publishedMinor = refRow.minor

\* The published version of a dataset never goes back, whatever happens while
\* it is not published, if requests come one at a time.
PublishedNeverBack ==
    [][overlap' = "none" =>
          \/ refRow.publishedMajor < refRow'.publishedMajor
          \/ /\ refRow.publishedMajor = refRow'.publishedMajor
             /\ refRow.publishedMinor <= refRow'.publishedMinor]_refVars

\* Every field has its column, and every column its field, unless the external
\* database failed.
FieldsHaveColumns == externalFaults = 0 /\ overlap # "other" => refFields = refColumns

\* What a reference dataset promises: its columns are its fields, its external copy
\* follows its records and is repaired by the next save, and its published version is
\* current and never goes back (ReferenceDataset.save, save_record,
\* sync_to_external_database).
ReferencePromise ==
  /\ [](RefTypeOK /\ ExternalFollows /\ PublishedIsCurrent /\ FieldsHaveColumns)
  /\ SaveRepairs
  /\ PublishedNeverBack

(***************************************************************************)
(* Everything the proofs need to know of a reachable state.                *)
(***************************************************************************)
Current(row) ==
    row.published => /\ row.initial
                     /\ row.publishedMajor = row.major /\ row.publishedMinor = row.minor

Stages ==
    [none   |-> {"idle"},
     save   |-> {"write", "list", "copy", "prune", "commit"},
     delete |-> {"write", "list", "copy", "prune", "commit"},
     upload |-> {"line", "write", "commit"},
     synced |-> {"list", "copy", "prune", "commit"},
     edit   |-> {"form", "drop", "create", "list", "copy", "prune", "columns", "commit"},
     remove |-> {"drop", "mark", "commit"}]

\* What a request is doing, whichever others there are: once it has saved the row, the
\* version it will commit is current, and it keeps the row locked.
EditKept(r) ==
    /\ adminEdit[r].pc \in Stages[adminEdit[r].op]
    /\ adminEdit[r].op # "edit" => adminEdit[r].change = {}
    /\ adminEdit[r].op = "edit" => adminEdit[r].added = {} /\ adminEdit[r].removed = {}
    /\ adminEdit[r].pc \in {"list", "copy", "prune", "create"}
          => adminEdit[r].inst.ext # Nothing
    /\ adminEdit[r].op \in RecordOps /\ adminEdit[r].pc # "write" => rowLock = r
    /\ adminEdit[r].pc # "form" => Current(adminEdit[r].inst)

NobodyElse(r) == \A s \in AdminRequest \ {r} : adminEdit[s].pc = "idle"

\* Version a.b is c.d or a later one.
AtLeast(a, b, c, d) == c < a \/ (c = a /\ d <= b)

\* A saved row never has an older published version than the row in the database.
NotOlder(inst, was, row) ==
    /\ AtLeast(inst.publishedMajor, inst.publishedMinor, row.publishedMajor, row.publishedMinor)
    /\ inst.published /\ was.published =>
          inst.initial /\ AtLeast(inst.major, inst.minor,
                                  inst.publishedMajor, inst.publishedMinor)

\* What only an edit or a deletion changes of the row, and they run alone.
RowKept(r) ==
    LET op == adminEdit[r].op
        inst == adminEdit[r].inst IN
    /\ op \in RecordOps \cup {"upload", "synced"}
          => inst.ext = refRow.ext /\ inst.deleted = refRow.deleted
    /\ op \in {"edit", "remove"} => adminEdit[r].was.ext = refRow.ext /\ ~ refRow.deleted
    /\ op = "edit" => ~ inst.deleted
    /\ op = "remove" /\ adminEdit[r].pc = "commit" => inst.deleted

\* How far the copy of the records has come.
CopyKept(r) ==
    LET d == adminEdit[r].inst.ext IN
    /\ adminEdit[r].pc \in {"copy", "prune"} => adminEdit[r].saved = Visible(r)
    /\ adminEdit[r].pc = "prune" =>
          external[d].exists /\ adminEdit[r].saved \subseteq external[d].records
    /\ adminEdit[r].pc = "commit" /\ adminEdit[r].op \in RecordOps \cup {"synced"}
          /\ d \in External => external[d].records = Visible(r)

QuietKept(r) ==
    /\ adminEdit[r].pc # "idle" /\ adminEdit[r].op \notin RecordOps => NobodyElse(r)
    /\ RowKept(r)
    /\ CopyKept(r)

\* The database that has the table, between requests.
Live == IF refRow.deleted THEN Nothing ELSE refRow.ext

Tables(ext, columns) ==
    \A d \in External :
       IF d = ext THEN external[d].exists /\ external[d].columns = columns
       ELSE external[d] = NoTable

Holds(ext, records) == ext \in External => external[ext].records = records

\* An edit whose table is where it will be, and requests that have left no table.
Reached(r) ==
    /\ adminEdit[r].op = "edit"
    /\ adminEdit[r].pc \in {"list", "copy", "prune", "columns", "commit"}
Gone(r) ==
    \/ adminEdit[r].op = "edit" /\ adminEdit[r].pc = "create"
    \/ adminEdit[r].op = "remove" /\ adminEdit[r].pc \in {"mark", "commit"}

\* Requests whose external copy is not that of the committed records.
Lagging(r) ==
    \/ adminEdit[r].op \in {"upload", "synced"}
    \/ adminEdit[r].op \in RecordOps /\ adminEdit[r].pc \in {"prune", "commit"}
    \/ Reached(r) \/ Gone(r)

ColumnsAfter(columns, r) ==
    (columns \ (adminEdit[r].change \ adminEdit[r].columns))
        \cup (adminEdit[r].change \cap adminEdit[r].columns)

\* An edit changes the columns with the fields.
ColumnsKept(r) ==
    adminEdit[r].op = "edit" =>
       /\ adminEdit[r].fields = adminEdit[r].columns
       /\ adminEdit[r].columns = IF adminEdit[r].pc = "commit"
                                 THEN ColumnsAfter(refColumns, r) ELSE refColumns

\* Where the external table is, and what it holds.
ReachedKept(r) ==
    /\ Tables(adminEdit[r].inst.ext, adminEdit[r].columns)
    /\ adminEdit[r].pc \in {"columns", "commit"} => Holds(adminEdit[r].inst.ext, refRecords)

\* Requests that were alone, or only changed records, and no failure.
Quiet == overlap # "other"
Calm == Quiet /\ externalFaults = 0

RefInv ==
    /\ RefTypeOK
    /\ Current(refRow)
    /\ \A r \in AdminRequest : EditKept(r)
    /\ overlap = "none" =>
          \A r \in AdminRequest : adminEdit[r].pc # "idle" =>
             NobodyElse(r) /\ NotOlder(adminEdit[r].inst, adminEdit[r].was, refRow)
    /\ Quiet => \A r \in AdminRequest : QuietKept(r)
    /\ Calm =>
          /\ refFields = refColumns
          /\ \A r \in AdminRequest :
                /\ ColumnsKept(r)
                /\ Gone(r) => Tables(Nothing, {})
                /\ Reached(r) => ReachedKept(r)
          /\ (\A r \in AdminRequest : ~ Reached(r) /\ ~ Gone(r)) => Tables(Live, refColumns)
          /\ (\A r \in AdminRequest : ~ Lagging(r)) => Holds(Live, refRecords)
=============================================================================
