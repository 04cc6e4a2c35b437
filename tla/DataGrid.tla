------------------------------- MODULE DataGrid -------------------------------
(***************************************************************************)
(* The grid of a table: the page of data-grid.js, which fetches the rows a *)
(* block at a time as the user scrolls, filters and sorts, and the view    *)
(* DataGridDataView, which builds a query of each request.                 *)
(*                                                                         *)
(* The table has a first column, whose values differ (they are the rows'   *)
(* numbers here), and a text column, whose values do not.  PostgreSQL puts *)
(* rows that are equal in the sorted column in any order, another one for  *)
(* each query.                                                             *)
(***************************************************************************)
EXTENDS Integers, Sequences, FiniteSets

CONSTANTS
    LastRow,            \* rows the table may have
    GridBlock,          \* rows the grid asks for at a time
    GridLimit,          \* rows the view returns at most
    MaxGridSteps        \* bound: changes of the table and settings of the user

Row == 1 .. LastRow
TextOf(r) == IF r % 2 = 0 THEN "even" ELSE "odd"
NotLoaded == <<0>>
Endless == -1
Block == 0 .. LastRow \div GridBlock

VARIABLES
    gridTable,          \* the rows of the table
    gridFilter,         \* the text the user filters by, or "none"
    gridSort,           \* the column the user sorts by
    gridShown,          \* the columns the grid displays
    gridBlocks,         \* the rows of each block the grid holds
    gridAsked,          \* blocks asked for and not answered
    gridEnd,            \* the number of rows, once the grid knows it
    gridFile,           \* rows of the last download, as a sequence
    gridSteps,          \* changes and settings so far
    gridMoved           \* whether the table changed since the grid was emptied

gridVars == <<gridTable, gridFilter, gridSort, gridShown, gridBlocks, gridAsked,
              gridEnd, gridFile, gridSteps, gridMoved>>

GridInit ==
    /\ gridTable = Row
    /\ gridFilter = "none"
    /\ gridSort = "first"
    /\ gridShown = {"first", "text"}
    /\ gridBlocks = [b \in Block |-> NotLoaded]
    /\ gridAsked = {}
    /\ gridEnd = Endless
    /\ gridFile = NotLoaded
    /\ gridSteps = 0
    /\ gridMoved = FALSE

Matching(f) == {r \in gridTable : f = "none" \/ TextOf(r) = f}
-------------------------------------------------------------------------------
(***************************************************************************)
(* build_filtered_dataset_query, of the columns it is given.               *)
(***************************************************************************)
\* Mutant: no filter counts.
FilterNever(columns) == "none"

\* A filter counts when its column is one of the columns.
FilterIn(columns) == IF "text" \in columns THEN gridFilter ELSE "none"

\* The sort field, or else the first of the columns.
SortIn(columns) == IF gridSort \in columns THEN gridSort
                   ELSE IF "first" \in columns THEN "first" ELSE "text"

InOrder(s, by) ==
    \A i, j \in 1 .. Len(s) :
        i < j => IF by = "first" THEN s[i] < s[j]
                 ELSE TextOf(s[i]) = "even" \/ TextOf(s[j]) = "odd"

\* The orders in which the database may return the rows that match.
Results(columns) ==
    LET rows == Matching(FilterIn(columns))
        orders == [1 .. Cardinality(rows) -> rows]
    IN {s \in orders : /\ {s[i] : i \in DOMAIN s} = rows
                      /\ InOrder(s, SortIn(columns))}

Least(m, n) == IF m < n THEN m ELSE n

\* OFFSET start LIMIT limit
PageOf(s, start, limit) == SubSeq(s, start + 1, Least(start + limit, Len(s)))
-------------------------------------------------------------------------------
(***************************************************************************)
(* The grid.                                                               *)
(***************************************************************************)
Emptied ==
    /\ gridBlocks' = [b \in Block |-> NotLoaded]
    /\ gridAsked' = {}
    /\ gridEnd' = Endless
    /\ gridMoved' = FALSE

Spent == gridSteps < MaxGridSteps /\ gridSteps' = gridSteps + 1

\* The grid asks for a block when the user comes to the end of the last one.
AskBlock(b) ==
    /\ gridBlocks[b] = NotLoaded /\ b \notin gridAsked /\ gridEnd = Endless
    /\ b \in {0} \cup {k + 1 : k \in {j \in Block : gridBlocks[j] # NotLoaded}}
    /\ gridAsked' = gridAsked \cup {b}
    /\ UNCHANGED <<gridTable, gridFilter, gridSort, gridShown, gridBlocks,
                   gridEnd, gridFile, gridSteps, gridMoved>>

\* A block that is not full is the last one.
AnswerBlock(b) ==
    /\ b \in gridAsked
    /\ \E s \in Results({"first", "text"}) :
           LET rows == PageOf(s, b * GridBlock, Least(GridBlock, GridLimit)) IN
           /\ gridBlocks' = [gridBlocks EXCEPT ![b] = rows]
           /\ gridEnd' = IF Len(rows) < GridBlock THEN b * GridBlock + Len(rows)
                         ELSE Endless
    /\ gridAsked' = gridAsked \ {b}
    /\ UNCHANGED <<gridTable, gridFilter, gridSort, gridShown, gridFile,
                   gridSteps, gridMoved>>

\* Any other status: the block stays empty.
BlockFails(b) ==
    /\ b \in gridAsked
    /\ gridAsked' = gridAsked \ {b}
    /\ UNCHANGED <<gridTable, gridFilter, gridSort, gridShown, gridBlocks,
                   gridEnd, gridFile, gridSteps, gridMoved>>

FilterBy(f) ==
    /\ f # gridFilter /\ Spent
    /\ gridFilter' = f
    /\ Emptied
    /\ UNCHANGED <<gridTable, gridSort, gridShown, gridFile>>

SortBy(c) ==
    /\ c # gridSort /\ Spent
    /\ gridSort' = c
    /\ Emptied
    /\ UNCHANGED <<gridTable, gridFilter, gridShown, gridFile>>

\* A column is dragged out of the grid; its filter and its sort stay.
HideColumn(c) ==
    /\ c \in gridShown /\ Spent
    /\ gridShown' = gridShown \ {c}
    /\ UNCHANGED <<gridTable, gridFilter, gridSort, gridBlocks, gridAsked,
                   gridEnd, gridFile, gridMoved>>

ResetColumns ==
    /\ gridShown # {"first", "text"} /\ Spent
    /\ gridShown' = {"first", "text"}
    /\ gridSort' = "first"
    /\ IF gridSort = "first"
       THEN UNCHANGED <<gridBlocks, gridAsked, gridEnd, gridMoved>>
       ELSE Emptied
    /\ UNCHANGED <<gridTable, gridFilter, gridFile>>

\* The form of the button names the columns displayed, the filters and the sort.
FormColumns == gridShown

\* The file has the columns of the form; without any the request is refused.
Download ==
    /\ FormColumns # {}
    /\ gridFile' \in Results(FormColumns)
    /\ UNCHANGED <<gridTable, gridFilter, gridSort, gridShown, gridBlocks,
                   gridAsked, gridEnd, gridSteps, gridMoved>>

TableChanges(r) ==
    /\ Spent
    /\ gridTable' = IF r \in gridTable THEN gridTable \ {r} ELSE gridTable \cup {r}
    /\ gridMoved' = TRUE
    /\ UNCHANGED <<gridFilter, gridSort, gridShown, gridBlocks, gridAsked,
                   gridEnd, gridFile>>

GridNext ==
    \/ \E b \in Block : AskBlock(b) \/ AnswerBlock(b) \/ BlockFails(b)
    \/ \E f \in {"none", "even", "odd"} : FilterBy(f)
    \/ \E c \in {"first", "text"} : SortBy(c) \/ HideColumn(c)
    \/ ResetColumns \/ Download
    \/ \E r \in Row : TableChanges(r)

GridSpec == GridInit /\ [][GridNext]_gridVars
-------------------------------------------------------------------------------
\* The grid never holds a block after one that ended the table, nor rows the
\* filter leaves out while the table stays as it was.
GridTypeOK ==
    /\ gridTable \subseteq Row
    /\ gridFilter \in {"none", "even", "odd"}
    /\ gridSort \in {"first", "text"}
    /\ gridShown \subseteq {"first", "text"}
    /\ gridAsked \subseteq Block
    /\ gridEnd \in -1 .. LastRow
    /\ gridSteps \in 0 .. MaxGridSteps
    /\ gridMoved \in BOOLEAN
    /\ \A b \in Block : gridBlocks[b] # NotLoaded =>
           /\ Len(gridBlocks[b]) <= GridBlock
           /\ b > 0 => Len(gridBlocks[b - 1]) = GridBlock
           /\ ~gridMoved => \A i \in DOMAIN gridBlocks[b] :
                                gridBlocks[b][i] \in Matching(gridFilter)

\* The rows of the grid from its first block on.
Held(i) == gridBlocks[(i - 1) \div GridBlock][((i - 1) % GridBlock) + 1]

\* Scrolling to the end of a table that stays as it is, sorted by a column whose
\* values differ, shows each row that matches once and in order: the blocks of
\* separate queries fit together, and the end is found where it is.
ScrollShowsAll ==
    (gridEnd # Endless /\ ~gridMoved /\ gridSort = "first") =>
        /\ gridEnd = Cardinality(Matching(gridFilter))
        /\ {Held(i) : i \in 1 .. gridEnd} = Matching(gridFilter)
        /\ \A i, j \in 1 .. gridEnd : i < j => Held(i) < Held(j)

\* "Download a csv via the backend using current sort/filter options": a
\* download has the rows the filter of the grid lets through.
DownloadKeepsFilter ==
    [][Download => {gridFile'[i] : i \in DOMAIN gridFile'} = Matching(gridFilter)]_gridVars

\* A download of a grid that displays every column has the rows and the order
\* of the grid.
DownloadIsTheGrid ==
    [][(Download /\ gridShown = {"first", "text"}) =>
           /\ {gridFile'[i] : i \in DOMAIN gridFile'} = Matching(gridFilter)
           /\ InOrder(gridFile', gridSort)]_gridVars

\* What a grid promises: scrolling shows every row once, and a download with all
\* columns displayed is what the grid shows (data-grid.js,
\* build_filtered_dataset_query).
GridPromise ==
  /\ [](GridTypeOK /\ ScrollShowsAll)
  /\ DownloadIsTheGrid
===============================================================================
