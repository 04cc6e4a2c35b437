------------------------------ MODULE CreateTable ------------------------------
(***************************************************************************)
(* Tables made of the CSV files of a user (apps/your_files): the forms one *)
(* after the other, each with what the last one put into its URL; the copy *)
(* of the file and the DAG run that Data Flow (Airflow) is asked for; and  *)
(* the pages that follow the tasks of the run.  The user has several tabs, *)
(* and changes files while they fill in the forms.                         *)
(***************************************************************************)
EXTENDS Naturals, Sequences, FiniteSets, TLC

CONSTANTS ImportTab, CsvFile, TableName,
          MaxCsvVersions,   \* bound on the versions of the files
          MaxImports,       \* bound on the imports started
          FlowFailures      \* bound on the errors of Data Flow and of polls

VARIABLES csvFile,    \* NOTEBOOKS_BUCKET: file -> [nr, columns], the newest is the highest
          uploaded,   \* AWS_UPLOADS_BUCKET: the same keys
          tables,     \* <<schema, name>> -> [nr, columns] of the file it was made of
          importTab,  \* tab -> the page it shows, with its parameters
          dagRuns,    \* the runs of the import DAG
          importBudget

importVars == <<csvFile, uploaded, tables, importTab, dagRuns, importBudget>>
Schemas == {"own", "team"}
Missing == [nr |-> 0, columns |-> {}]
Somewhere == Schemas \X TableName
ColumnSets == {{"a"}, {"a", "b"}}
ImportPage(t, p) == importTab[t].at = p
GoTo(t, page) == importTab' = [importTab EXCEPT ![t] = page]
Spare(what) == /\ importBudget[what] > 0
               /\ importBudget' = [importBudget EXCEPT ![what] = @ - 1]

ImportInit ==
  /\ csvFile = [f \in CsvFile |-> [nr |-> 1, columns |-> {"a"}]]
  /\ uploaded = [f \in CsvFile |-> Missing] /\ tables = [p \in Somewhere |-> Missing]
  /\ importTab = [t \in ImportTab |-> [at |-> "files"]]
  /\ dagRuns = <<>>
  /\ importBudget = [versions |-> MaxCsvVersions - 1, imports |-> MaxImports,
                     failures |-> FlowFailures]

\* The user saves a file again, with the same columns or others.
EditCsv(f, columns) ==
  /\ Spare("versions")
  /\ csvFile' = [csvFile EXCEPT ![f] = [nr |-> @.nr + 1, columns |-> columns]]
  /\ UNCHANGED <<uploaded, tables, importTab, dagRuns>>

(***************************************************************************)
(* The forms.                                                              *)
(***************************************************************************)
ChooseName(t, f, place) ==
  /\ importTab[t].at \in {"files", "success", "failed"} /\ Spare("imports")
  /\ GoTo(t, [at |-> "name", file |-> f, into |-> place, overwrite |-> FALSE])
  /\ UNCHANGED <<csvFile, uploaded, tables, dagRuns>>
\* CreateTableForm.clean
Exists(place) == tables[place] # Missing
NameTaken(t) == Exists(importTab[t].into) /\ ~importTab[t].overwrite
\* The question does not take the schema over: it is about the user's own.
PostName(t) ==
  /\ ImportPage(t, "name")
  /\ importTab' = IF NameTaken(t) THEN [importTab EXCEPT ![t].at = "exists"]
                  ELSE [importTab EXCEPT ![t].at = "types"]
  /\ UNCHANGED <<csvFile, uploaded, tables, dagRuns, importBudget>>
SayYes(t) ==
  /\ ImportPage(t, "exists")
  /\ GoTo(t, [at |-> "name", file |-> importTab[t].file, into |-> <<"own", importTab[t].into[2]>>,
              overwrite |-> TRUE])
  /\ UNCHANGED <<csvFile, uploaded, tables, dagRuns, importBudget>>
\* get_s3_csv_column_types
ColumnsNow(t) == csvFile[importTab[t].file].columns
\* "overwrite" is in the URL whatever its value is.
Typing(t, at, shown, seen, defined) ==
  [at |-> at, file |-> importTab[t].file, into |-> importTab[t].into, overwrite |-> TRUE,
   shown |-> shown, seen |-> seen, defined |-> defined]
ShowTypes(t) ==
  /\ ImportPage(t, "types")
  /\ GoTo(t, Typing(t, "typing", ColumnsNow(t), csvFile[importTab[t].file].nr, {}))
  /\ UNCHANGED <<csvFile, uploaded, tables, dagRuns, importBudget>>
\* The form is made of the file as it is now: each of its columns needs a type.
PostTypes(t) ==
  /\ ImportPage(t, "typing")
  /\ LET columns == ColumnsNow(t)
     IN IF columns \subseteq importTab[t].shown /\ ~NameTaken(t)
        THEN GoTo(t, Typing(t, "define", columns, importTab[t].seen, {}))
        ELSE GoTo(t, Typing(t, "typing", columns, csvFile[importTab[t].file].nr, {}))
  /\ UNCHANGED <<csvFile, uploaded, tables, dagRuns, importBudget>>
\* form_valid reads the file once more; a column the form has not is an error.
\* Mutant: such a column is taken as text.
DefineAnyColumn(t) ==
  /\ ImportPage(t, "define")
  /\ GoTo(t, Typing(t, "copy", importTab[t].shown, importTab[t].seen, ColumnsNow(t)))
  /\ UNCHANGED <<csvFile, uploaded, tables, dagRuns, importBudget>>
DefineColumns(t) ==
  /\ ImportPage(t, "define")
  /\ LET columns == ColumnsNow(t)
     IN GoTo(t, IF columns \subseteq importTab[t].shown
                THEN Typing(t, "copy", importTab[t].shown, importTab[t].seen, columns)
                ELSE [at |-> "failed"])
  /\ UNCHANGED <<csvFile, uploaded, tables, dagRuns, importBudget>>
CopyFile(t) ==
  /\ ImportPage(t, "copy")
  /\ uploaded' = [uploaded EXCEPT ![importTab[t].file] = csvFile[importTab[t].file]]
  /\ GoTo(t, Typing(t, "trigger", importTab[t].shown, importTab[t].seen, importTab[t].defined))
  /\ UNCHANGED <<csvFile, tables, dagRuns, importBudget>>
NewRun(t) == [file |-> importTab[t].file, into |-> importTab[t].into,
              columns |-> importTab[t].defined,
              shown |-> importTab[t].shown, seen |-> importTab[t].seen,
              done |-> 0, failed |-> FALSE, holds |-> Missing]
Trigger(t) ==
  /\ ImportPage(t, "trigger") /\ dagRuns' = Append(dagRuns, NewRun(t))
  /\ GoTo(t, [at |-> "follow", run |-> Len(dagRuns) + 1, step |-> 1])
  /\ UNCHANGED <<csvFile, uploaded, tables, importBudget>>
\* No run, or the answer is lost.
TriggerFails(t) ==
  /\ ImportPage(t, "trigger") /\ Spare("failures")
  /\ dagRuns' \in {dagRuns, Append(dagRuns, NewRun(t))} /\ GoTo(t, [at |-> "failed"])
  /\ UNCHANGED <<csvFile, uploaded, tables>>

(***************************************************************************)
(* The tasks of a run: get-table-config, create-temp-tables,               *)
(* insert-into-temp-table, swap-dataset-table-datasets_db.                 *)
(***************************************************************************)
RunOn(r) == dagRuns[r].done < 4 /\ ~dagRuns[r].failed
DagTask(r) ==
  /\ RunOn(r)
  /\ LET ours == dagRuns[r]
         fits == uploaded[ours.file].columns = ours.columns
         held == IF ours.done = 2 THEN [ours EXCEPT !.holds = uploaded[ours.file]] ELSE ours
     IN /\ dagRuns' = [dagRuns EXCEPT ![r] = IF ours.done = 2 /\ ~fits THEN [ours EXCEPT !.failed = TRUE]
                                            ELSE [held EXCEPT !.done = @ + 1]]
        /\ tables' = IF ours.done = 3 THEN [tables EXCEPT ![ours.into] = ours.holds] ELSE tables
  /\ UNCHANGED <<csvFile, uploaded, importTab, importBudget>>

(***************************************************************************)
(* The pages that follow a run, each its task: the CreateTable...View and  *)
(* pollForDagStateChange.                                                  *)
(***************************************************************************)
TaskOfPage(step) == step
TaskIsDone(t) == dagRuns[importTab[t].run].done >= TaskOfPage(importTab[t].step)
PollSuccess(t) ==
  /\ ImportPage(t, "follow") /\ TaskIsDone(t)
  /\ importTab' = IF importTab[t].step = 4 THEN [importTab EXCEPT ![t].at = "success"]
                  ELSE [importTab EXCEPT ![t].step = @ + 1]
  /\ UNCHANGED <<csvFile, uploaded, tables, dagRuns, importBudget>>
PollFailure(t) ==
  /\ ImportPage(t, "follow") /\ ~TaskIsDone(t) /\ dagRuns[importTab[t].run].failed
  /\ GoTo(t, [at |-> "failed"])
  /\ UNCHANGED <<csvFile, uploaded, tables, dagRuns, importBudget>>
\* Any answer but 200.
PollError(t) ==
  /\ ImportPage(t, "follow") /\ Spare("failures") /\ GoTo(t, [at |-> "failed"])
  /\ UNCHANGED <<csvFile, uploaded, tables, dagRuns>>

ImportStep(t) ==
  \/ PostName(t) \/ SayYes(t) \/ ShowTypes(t) \/ PostTypes(t)
  \/ DefineColumns(t) \/ CopyFile(t) \/ Trigger(t) \/ TriggerFails(t)
  \/ PollSuccess(t) \/ PollFailure(t) \/ PollError(t)
ImportNext ==
  \/ \E f \in CsvFile, columns \in ColumnSets : EditCsv(f, columns)
  \/ \E t \in ImportTab, f \in CsvFile, place \in Somewhere : ChooseName(t, f, place)
  \/ \E t \in ImportTab : ImportStep(t)
  \/ \E r \in 1..Len(dagRuns) : DagTask(r)
ImportSpec == ImportInit /\ [][ImportNext]_importVars

(***************************************************************************)
(* Properties.                                                             *)
(***************************************************************************)

(* Types; a tab says success only when the table of its run was swapped in.*)
ImportTypeOK ==
  /\ \A p \in Somewhere : tables[p].columns \subseteq {"a", "b"}
  /\ \A t \in ImportTab : importTab[t].at \in {"files", "name", "exists", "types", "typing",
       "define", "copy", "trigger", "follow", "success", "failed"}
  /\ \A t \in ImportTab : ImportPage(t, "success") => dagRuns[importTab[t].run].done = 4

(* However often the file changes while the forms are filled in, and       *)
(* whatever other tabs import: the table has no column the user was not    *)
(* shown, and is of no older a file.                                       *)
MadeOfWhatWasShown ==
  \A r \in 1..Len(dagRuns) : dagRuns[r].holds # Missing =>
    /\ dagRuns[r].holds.columns \subseteq dagRuns[r].shown
    /\ dagRuns[r].holds.nr >= dagRuns[r].seen

(***************************************************************************)
(* Why they hold: what each page of a tab, and each run, knows of the file.*)
(***************************************************************************)
CsvColumns == {"a", "b"}
CsvVersion == [nr : Nat, columns : SUBSET CsvColumns]
ImportTabType ==
  [at : {"files", "failed"}]
  \cup [at : {"name", "exists", "types"}, file : CsvFile, into : Somewhere, overwrite : BOOLEAN]
  \cup [at : {"typing", "define", "copy", "trigger"}, file : CsvFile, into : Somewhere,
        overwrite : {TRUE}, shown : SUBSET CsvColumns, seen : Nat, defined : SUBSET CsvColumns]
  \cup [at : {"follow", "success"}, run : Nat, step : 1..4]
DagRunType ==
  [file : CsvFile, into : Somewhere, columns : SUBSET CsvColumns, shown : SUBSET CsvColumns,
   seen : Nat, done : 0..4, failed : BOOLEAN, holds : CsvVersion]
ImportTypes ==
  /\ csvFile \in [CsvFile -> CsvVersion] /\ uploaded \in [CsvFile -> CsvVersion]
  /\ tables \in [Somewhere -> CsvVersion] /\ importTab \in [ImportTab -> ImportTabType]
  /\ dagRuns \in Seq(DagRunType)
ImportTabInv ==
  \A t \in ImportTab :
    /\ importTab[t].at \in {"typing", "define", "copy", "trigger"} =>
         importTab[t].seen <= csvFile[importTab[t].file].nr
    /\ importTab[t].at \in {"copy", "trigger"} => importTab[t].defined \subseteq importTab[t].shown
    /\ ImportPage(t, "trigger") => importTab[t].seen <= uploaded[importTab[t].file].nr
    /\ importTab[t].at \in {"follow", "success"} => importTab[t].run \in 1..Len(dagRuns)
    /\ ImportPage(t, "success") => dagRuns[importTab[t].run].done = 4
RunHolds(run) ==
  /\ run.columns \subseteq run.shown /\ run.seen <= uploaded[run.file].nr
  /\ run.holds # Missing => run.holds.columns \subseteq run.shown /\ run.holds.nr >= run.seen
ImportInv == /\ ImportTypes
             /\ \A f \in CsvFile : uploaded[f].nr <= csvFile[f].nr
             /\ ImportTabInv
             /\ \A r \in 1..Len(dagRuns) : RunHolds(dagRuns[r])

\* A table is made of the file and columns that its user was shown, and a page shows
\* the task of its own run (CreateTableConfirmDataTypesView, create-table pages).
ImportSafety ==
  /\ ImportTypeOK
  /\ MadeOfWhatWasShown
===============================================================================
