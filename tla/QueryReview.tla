------------------------------ MODULE QueryReview ------------------------------
(***************************************************************************)
(* The SQL query of a data cut, that users download from.  Analysts edit   *)
(* it while the data cut is not published, superusers review it and        *)
(* publish.  A post of the admin site reads the rows, validates what was   *)
(* sent against them, and writes both rows in one transaction, of what it  *)
(* read; superusers also have a form of the query alone.                   *)
(***************************************************************************)
EXTENDS Naturals

CONSTANTS CutPost,      \* posts of the form of the data cut, at the same time
          MaxCutPosts   \* bound on the posts

VARIABLES cutPublished, \* the data cut is published
          cutQuery,     \* the row of CustomDatasetQuery: [sql, reviewed]
          cutTables,    \* rows of CustomDatasetQueryTable, by the SQL that reads them
          cutPost,      \* post -> what it read and writes
          approved,     \* SQL that a superuser sent as reviewed
          settled,      \* the rows were written by a post that read them as they were
          aside,        \* the form of the query alone changed the SQL last
          cutPosts      \* posts so far

cutVars == <<cutPublished, cutQuery, cutTables, cutPost, approved, settled, aside, cutPosts>>
CutSql == {"s1", "s2"}
NoPost == [at |-> "none", super |-> FALSE, published |-> FALSE, changed |-> FALSE,
           sql |-> "s1", reviewed |-> FALSE, fresh |-> FALSE]

CutInit ==
  /\ cutPublished = FALSE /\ cutQuery = [sql |-> "s1", reviewed |-> FALSE]
  /\ cutTables = {"s1"} /\ cutPost = [p \in CutPost |-> NoPost]
  /\ approved = {} /\ settled = TRUE /\ aside = FALSE /\ cutPosts = 0

\* The rows were written: what other posts read is no longer so.
Stale == [p \in CutPost |-> [cutPost[p] EXCEPT !.fresh = FALSE]]

\* Mutant: an edit leaves the query reviewed.
ReviewStays(published, sql, reviewed) == reviewed
\* CustomDatasetQueryInlineForm.clean: a reviewed query that is edited while the data
\* cut is not published is no longer reviewed.
ReviewAfter(published, sql, reviewed) ==
  reviewed /\ ~(cutQuery.reviewed /\ ~published /\ sql # cutQuery.sql)

\* What is sent of a query that is not reviewed is refused with a published data cut.
Valid(published, reviewed) == published => reviewed

\* A superuser sends the form, with any of the fields changed.
PostAsSuperuser(p) ==
  /\ cutPost[p].at = "none" /\ cutPosts < MaxCutPosts /\ cutPosts' = cutPosts + 1
  /\ \E published, reviewed \in BOOLEAN, sql \in CutSql :
       /\ Valid(published, reviewed)
       /\ cutPost' = [cutPost EXCEPT ![p] =
            [at |-> "valid", super |-> TRUE, published |-> published, sql |-> sql,
             changed |-> sql # cutQuery.sql \/ reviewed # cutQuery.reviewed,
             reviewed |-> ReviewAfter(published, sql, reviewed), fresh |-> TRUE]]
  /\ UNCHANGED <<cutPublished, cutQuery, cutTables, approved, settled, aside>>
\* An analyst, who may manage data cuts that are not published: "published" and
\* "reviewed" are read only for them.
PostAsAnalyst(p) ==
  /\ cutPost[p].at = "none" /\ cutPosts < MaxCutPosts /\ cutPosts' = cutPosts + 1
  /\ ~cutPublished
  /\ \E sql \in CutSql :
       cutPost' = [cutPost EXCEPT ![p] =
         [at |-> "valid", super |-> FALSE, published |-> FALSE, sql |-> sql,
          changed |-> sql # cutQuery.sql,
          reviewed |-> ReviewAfter(FALSE, sql, cutQuery.reviewed), fresh |-> TRUE]]
  /\ UNCHANGED <<cutPublished, cutQuery, cutTables, approved, settled, aside>>

\* CustomDatasetQueryInlineForm.save: the tables are those of the SQL that is written.
TablesSaved(sql) == {sql}
\* The transaction: the data cut's row, then the query's if it was changed in the form.
CommitPost(p) ==
  /\ cutPost[p].at = "valid" /\ cutPublished' = cutPost[p].published
  /\ IF cutPost[p].changed
     THEN /\ cutQuery' = [sql |-> cutPost[p].sql, reviewed |-> cutPost[p].reviewed]
          /\ cutTables' = TablesSaved(cutPost[p].sql) /\ aside' = FALSE
          /\ approved' = IF cutPost[p].super /\ cutPost[p].reviewed
                         THEN approved \cup {cutPost[p].sql} ELSE approved
     ELSE UNCHANGED <<cutQuery, cutTables, aside, approved>>
  /\ settled' = cutPost[p].fresh /\ cutPost' = [Stale EXCEPT ![p] = NoPost]
  /\ UNCHANGED cutPosts
\* The request fails, and its transaction with it.
FailPost(p) ==
  /\ cutPost[p].at = "valid" /\ cutPost' = [cutPost EXCEPT ![p] = NoPost]
  /\ UNCHANGED <<cutPublished, cutQuery, cutTables, approved, settled, aside, cutPosts>>

\* CustomDatasetQueryAdmin: its form checks nothing, and looks for no tables.
PostQueryAlone ==
  /\ cutPosts < MaxCutPosts /\ cutPosts' = cutPosts + 1
  /\ \E sql \in CutSql, reviewed \in BOOLEAN :
       /\ cutQuery' = [sql |-> sql, reviewed |-> reviewed]
       /\ approved' = IF reviewed THEN approved \cup {sql} ELSE approved
       /\ aside' = (aside \/ sql # cutQuery.sql)
  /\ settled' = FALSE /\ cutPost' = Stale
  /\ UNCHANGED <<cutPublished, cutTables>>

CutNext ==
  \/ \E p \in CutPost : PostAsSuperuser(p) \/ PostAsAnalyst(p) \/ CommitPost(p) \/ FailPost(p)
  \/ PostQueryAlone
CutSpec == CutInit /\ [][CutNext]_cutVars

-----------------------------------------------------------------------------
\* The state is well formed; only a superuser's post writes a published data cut.
CutTypeOK ==
  /\ cutPublished \in BOOLEAN /\ cutQuery \in [sql : CutSql, reviewed : BOOLEAN]
  /\ cutTables \subseteq CutSql /\ approved \subseteq CutSql
  /\ \A p \in CutPost : /\ cutPost[p].at = "none" <=> cutPost[p] = NoPost
                        /\ cutPost[p].published => cutPost[p].super

\* Users download what a superuser reviewed: whatever posts cross, the SQL of a query
\* that is reviewed is one that a superuser sent as reviewed (can_show_link_for_user;
\* CustomDatasetQueryInlineForm.clean takes the review back).
ReviewedAsSent == cutQuery.reviewed => cutQuery.sql \in approved

\* A data cut is published with a reviewed query only, as long as no post writes what
\* another changed since it was read ("You must review this SQL query before the
\* dataset can be published.").
PublishedAreReviewed == settled /\ cutPublished => cutQuery.reviewed

\* The tables of a query are those of its SQL, unless the SQL was changed by the
\* form of the query alone (dates of the data are taken from the tables).
TablesFollowSql == ~aside => cutTables = {cutQuery.sql}

(***************************************************************************)
(* What the proofs need to know besides.  A post that an analyst sent      *)
(* either leaves the query as it is or takes its review back; one that a   *)
(* superuser sent publishes a reviewed query; and a post whose rows are    *)
(* still as it read them, and that does not write the query's, publishes   *)
(* the query that is in the row.                                           *)
(***************************************************************************)
CutPostType == [at : {"none", "valid"}, super : BOOLEAN, published : BOOLEAN,
                changed : BOOLEAN, sql : CutSql, reviewed : BOOLEAN, fresh : BOOLEAN]
CutPostInv ==
  \A p \in CutPost :
    /\ cutPost[p].changed /\ cutPost[p].reviewed => cutPost[p].super
    /\ cutPost[p].published => cutPost[p].reviewed
    /\ cutPost[p].published /\ cutPost[p].fresh /\ ~cutPost[p].changed => cutQuery.reviewed
CutInv ==
  /\ cutPost \in [CutPost -> CutPostType] /\ settled \in BOOLEAN /\ aside \in BOOLEAN
  /\ CutTypeOK /\ CutPostInv /\ ReviewedAsSent /\ PublishedAreReviewed /\ TablesFollowSql

\* What users download is what a superuser reviewed: reviews, publishing and tables
\* belong to the SQL in the row, whatever posts cross (CustomDatasetQueryInlineForm,
\* CustomDatasetQueryAdmin).
CutSafety ==
  /\ CutTypeOK
  /\ ReviewedAsSent
  /\ PublishedAreReviewed
  /\ TablesFollowSql
=============================================================================
