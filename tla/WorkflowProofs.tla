------------------------------- MODULE WorkflowProofs -------------------------------
(***************************************************************************)
(* What people review, ask for and are told: queries and visualisations,   *)
(* projects, requests, notifications and dashboards. For any number of     *)
(* people, requests and runs that cross.                                   *)
(***************************************************************************)
EXTENDS QueryReview, VisualisationReview, VisualisationProject,
        RequestForms, Notifications, DashboardLinks, EmbeddedDashboard,
        FiniteSetTheorems, SequenceTheorems, WellFoundedInduction, TLAPS

(***************************************************************************)
(* The SQL that users download is the SQL that a superuser reviewed.       *)
(***************************************************************************)
\* The rows and forms of the start satisfy the strengthening.
LEMMA CutInitInv == CutInit => CutInv
<1> SUFFICES ASSUME CutInit PROVE CutInv
  OBVIOUS
<1>1. NoPost \in CutPostType
  BY DEF NoPost, CutPostType, CutSql
<1>2. CutTypeOK
  BY DEF CutInit, CutTypeOK, NoPost, CutSql
<1>3. CutPostInv
  BY DEF CutInit, CutPostInv, NoPost
<1> QED
  BY <1>1, <1>2, <1>3 DEF CutInit, CutInv, ReviewedAsSent, PublishedAreReviewed, TablesFollowSql

\* A post that is read and validated writes nothing yet: only what is known of
\* the posts can be disturbed.
LEMMA ValidationInv ==
  ASSUME CutInv, NEW p \in CutPost, PostAsSuperuser(p) \/ PostAsAnalyst(p)
  PROVE  CutInv'
<1>1. PICK post \in CutPostType :
         /\ cutPost' = [cutPost EXCEPT ![p] = post]
         /\ post.at = "valid"
         /\ post.changed /\ post.reviewed => post.super
         /\ post.published => post.reviewed /\ post.super
         /\ post.published /\ ~post.changed => cutQuery.reviewed
  <2>1. CASE PostAsSuperuser(p)
    <3>1. PICK published \in BOOLEAN, reviewed \in BOOLEAN, sql \in CutSql :
            /\ Valid(published, reviewed)
            /\ cutPost' = [cutPost EXCEPT ![p] =
                 [at |-> "valid", super |-> TRUE, published |-> published, sql |-> sql,
                  changed |-> sql # cutQuery.sql \/ reviewed # cutQuery.reviewed,
                  reviewed |-> ReviewAfter(published, sql, reviewed), fresh |-> TRUE]]
      BY <2>1 DEF PostAsSuperuser
    <3> DEFINE post == [at |-> "valid", super |-> TRUE, published |-> published, sql |-> sql,
                  changed |-> sql # cutQuery.sql \/ reviewed # cutQuery.reviewed,
                  reviewed |-> ReviewAfter(published, sql, reviewed), fresh |-> TRUE]
    <3>2. post \in CutPostType
      BY DEF CutPostType, ReviewAfter
    <3>3. post.published => post.reviewed
      BY <3>1 DEF Valid, ReviewAfter
    <3>4. post.published /\ ~post.changed => cutQuery.reviewed
      BY <3>1 DEF Valid
    <3> QED BY <3>1, <3>2, <3>3, <3>4
  <2>2. CASE PostAsAnalyst(p)
    <3>1. PICK sql \in CutSql :
            cutPost' = [cutPost EXCEPT ![p] =
              [at |-> "valid", super |-> FALSE, published |-> FALSE, sql |-> sql,
               changed |-> sql # cutQuery.sql,
               reviewed |-> ReviewAfter(FALSE, sql, cutQuery.reviewed), fresh |-> TRUE]]
      BY <2>2 DEF PostAsAnalyst
    <3> DEFINE post == [at |-> "valid", super |-> FALSE, published |-> FALSE, sql |-> sql,
               changed |-> sql # cutQuery.sql,
               reviewed |-> ReviewAfter(FALSE, sql, cutQuery.reviewed), fresh |-> TRUE]
    <3>2. post \in CutPostType
      BY DEF CutPostType, ReviewAfter
    <3>3. ~(post.changed /\ post.reviewed)
      BY DEF ReviewAfter
    <3> QED BY <3>1, <3>2, <3>3
  <2> QED BY <2>1, <2>2
<1>2. UNCHANGED <<cutPublished, cutQuery, cutTables, approved, settled, aside>>
  BY DEF PostAsSuperuser, PostAsAnalyst
<1>3. CutTypeOK'
  <2>1. cutPost' \in [CutPost -> CutPostType] /\ \A q \in CutPost : cutPost'[q] =
           IF q = p THEN post ELSE cutPost[q]
    BY <1>1 DEF CutInv
  <2>2. post # NoPost
    BY <1>1 DEF NoPost
  <2> QED BY <1>1, <1>2, <2>1, <2>2 DEF CutInv, CutTypeOK
<1>4. CutPostInv'
  BY <1>1, <1>2 DEF CutInv, CutPostInv, CutPostType
<1>5. cutPost' \in [CutPost -> CutPostType]
  BY <1>1 DEF CutInv
<1> QED
  BY <1>2, <1>3, <1>4, <1>5
  DEF CutInv, ReviewedAsSent, PublishedAreReviewed, TablesFollowSql

\* What the other posts read is stale once a row is written; nothing else of
\* them changes.
LEMMA StaleInv ==
  ASSUME CutInv
  PROVE  /\ Stale \in [CutPost -> CutPostType]
         /\ \A p \in CutPost : /\ ~Stale[p].fresh
                               /\ Stale[p].at = cutPost[p].at
                               /\ Stale[p].super = cutPost[p].super
                               /\ Stale[p].published = cutPost[p].published
                               /\ Stale[p].changed = cutPost[p].changed
                               /\ Stale[p].sql = cutPost[p].sql
                               /\ Stale[p].reviewed = cutPost[p].reviewed
                               /\ cutPost[p] = NoPost => Stale[p] = NoPost
                               /\ Stale[p] = NoPost => Stale[p].at = "none"
<1>1. cutPost \in [CutPost -> CutPostType]
  BY DEF CutInv
<1>2. ASSUME NEW p \in CutPost
      PROVE  /\ Stale[p] = [cutPost[p] EXCEPT !.fresh = FALSE]
             /\ Stale[p] \in CutPostType /\ cutPost[p] \in CutPostType
  BY <1>1 DEF Stale, CutPostType
<1>3. Stale \in [CutPost -> CutPostType]
  BY <1>2 DEF Stale
<1>4. ASSUME NEW p \in CutPost
      PROVE  /\ ~Stale[p].fresh
             /\ Stale[p].at = cutPost[p].at
             /\ Stale[p].super = cutPost[p].super
             /\ Stale[p].published = cutPost[p].published
             /\ Stale[p].changed = cutPost[p].changed
             /\ Stale[p].sql = cutPost[p].sql
             /\ Stale[p].reviewed = cutPost[p].reviewed
  BY <1>2 DEF CutPostType
<1>5. ASSUME NEW p \in CutPost
      PROVE  (cutPost[p] = NoPost => Stale[p] = NoPost) /\ (Stale[p] = NoPost => Stale[p].at = "none")
  BY <1>2 DEF NoPost
<1> QED BY <1>3, <1>4, <1>5

\* The transaction of a post that was validated.
LEMMA CutCommitInv ==
  ASSUME CutInv, NEW p \in CutPost, CommitPost(p)
  PROVE  CutInv'
<1> DEFINE post == cutPost[p]
<1>1. /\ cutPost \in [CutPost -> CutPostType] /\ post \in CutPostType
      /\ CutTypeOK /\ CutPostInv
  BY DEF CutInv
<1>2. cutPost' = [Stale EXCEPT ![p] = NoPost] /\ cutPublished' = post.published
      /\ settled' = post.fresh
  BY DEF CommitPost
<1>3. cutPost' \in [CutPost -> CutPostType]
  BY <1>2, StaleInv DEF CutPostType, NoPost, CutSql
<1>4. CutPostInv'
  BY <1>1, <1>2, StaleInv DEF CutPostInv, NoPost
<1>5. \A q \in CutPost : /\ cutPost'[q].at = "none" <=> cutPost'[q] = NoPost
                         /\ cutPost'[q].published => cutPost'[q].super
  <2> SUFFICES ASSUME NEW q \in CutPost
               PROVE  /\ cutPost'[q].at = "none" <=> cutPost'[q] = NoPost
                      /\ cutPost'[q].published => cutPost'[q].super
    OBVIOUS
  <2>1. CASE q = p
    BY <1>2, <2>1, StaleInv DEF NoPost
  <2>2. CASE q # p
    BY <1>1, <1>2, <2>2, StaleInv DEF CutTypeOK
  <2> QED BY <2>1, <2>2
<1>6. CASE post.changed
  <2>1. /\ cutQuery' = [sql |-> post.sql, reviewed |-> post.reviewed]
        /\ cutTables' = {post.sql} /\ aside' = FALSE
        /\ approved' = IF post.super /\ post.reviewed THEN approved \cup {post.sql}
                       ELSE approved
    BY <1>6 DEF CommitPost, TablesSaved
  <2>2. CutTypeOK'
    BY <1>1, <1>2, <1>5, <2>1 DEF CutTypeOK, CutPostType
  <2>3. (post.reviewed => post.super) /\ (post.published => post.reviewed)
    BY <1>1, <1>6 DEF CutPostInv
  <2>4. ReviewedAsSent'
    BY <2>1, <2>3 DEF ReviewedAsSent
  <2>5. PublishedAreReviewed' /\ TablesFollowSql'
    BY <1>2, <2>1, <2>3 DEF PublishedAreReviewed, TablesFollowSql
  <2> QED BY <1>1, <1>2, <1>3, <1>4, <2>1, <2>2, <2>4, <2>5 DEF CutInv, CutPostType
<1>7. CASE ~post.changed
  <2>1. UNCHANGED <<cutQuery, cutTables, aside, approved>>
    BY <1>7 DEF CommitPost
  <2>2. CutTypeOK'
    BY <1>1, <1>2, <1>5, <2>1 DEF CutTypeOK, CutPostType
  <2>3. ReviewedAsSent' /\ PublishedAreReviewed' /\ TablesFollowSql'
    BY <1>1, <1>2, <1>7, <2>1
    DEF CutInv, CutPostInv, ReviewedAsSent, PublishedAreReviewed, TablesFollowSql
  <2> QED BY <1>1, <1>2, <1>3, <1>4, <2>1, <2>2, <2>3 DEF CutInv, CutPostType
<1> QED BY <1>6, <1>7

\* A post that fails leaves the rows as they are.
LEMMA CutFailInv ==
  ASSUME CutInv, NEW p \in CutPost, FailPost(p)
  PROVE  CutInv'
<1>1. /\ cutPost' = [cutPost EXCEPT ![p] = NoPost]
      /\ UNCHANGED <<cutPublished, cutQuery, cutTables, approved, settled, aside>>
  BY DEF FailPost
<1>2. cutPost' \in [CutPost -> CutPostType]
  BY <1>1 DEF CutInv, CutPostType, NoPost, CutSql
<1>3. CutTypeOK' /\ CutPostInv'
  BY <1>1 DEF CutInv, CutTypeOK, CutPostInv, CutPostType, NoPost
<1> QED
  BY <1>1, <1>2, <1>3 DEF CutInv, ReviewedAsSent, PublishedAreReviewed, TablesFollowSql

\* The form of the query alone.
LEMMA QueryAloneInv ==
  ASSUME CutInv, PostQueryAlone
  PROVE  CutInv'
<1>1. PICK sql \in CutSql, reviewed \in BOOLEAN :
        /\ cutQuery' = [sql |-> sql, reviewed |-> reviewed]
        /\ approved' = IF reviewed THEN approved \cup {sql} ELSE approved
        /\ aside' = (aside \/ sql # cutQuery.sql)
  BY DEF PostQueryAlone
<1>2. settled' = FALSE /\ cutPost' = Stale /\ UNCHANGED <<cutPublished, cutTables>>
  BY DEF PostQueryAlone
<1>3. CutTypeOK'
  BY <1>1, <1>2, StaleInv DEF CutInv, CutTypeOK
<1>4. CutPostInv'
  BY <1>2, StaleInv DEF CutInv, CutPostInv
<1>5. ReviewedAsSent' /\ PublishedAreReviewed' /\ TablesFollowSql'
  BY <1>1, <1>2
  DEF CutInv, CutTypeOK, ReviewedAsSent, PublishedAreReviewed, TablesFollowSql
<1> QED BY <1>1, <1>2, <1>3, <1>4, <1>5, StaleInv DEF CutInv

\* The strengthening is an invariant of the posts.
THEOREM CutInvariance == CutSpec => []CutInv
<1>1. CutInv /\ [CutNext]_cutVars => CutInv'
  <2> SUFFICES ASSUME CutInv, [CutNext]_cutVars PROVE CutInv'
    OBVIOUS
  <2>1. CASE UNCHANGED cutVars
    BY <2>1 DEF cutVars, CutInv, CutTypeOK, CutPostInv, ReviewedAsSent,
                PublishedAreReviewed, TablesFollowSql
  <2>2. CASE CutNext
    BY <2>2, ValidationInv, CutCommitInv, CutFailInv, QueryAloneInv DEF CutNext
  <2> QED BY <2>1, <2>2
<1> QED BY CutInitInv, <1>1, PTL DEF CutSpec

\* What users download is what a superuser reviewed, a data cut is published with a
\* reviewed query, and its tables are those of its SQL, with the exceptions the code
\* leaves (CustomDatasetQueryInlineForm, CustomDatasetQueryAdmin).
THEOREM ReviewsAreSafe == CutSpec => []CutSafety
<1>1. CutInv => CutSafety
  BY DEF CutInv, CutSafety
<1> QED BY <1>1, CutInvariance, PTL

(***************************************************************************)
(* Visualisations are published when they were reviewed.                   *)
(***************************************************************************)
\* A set of natural numbers that is not empty has a least element.
LEMMA LeastOf ==
  ASSUME NEW S \in SUBSET Nat, S # {}
  PROVE  \E i \in S : \A j \in S : i <= j
<1> DEFINE R == {p \in Nat \X Nat : p[1] < p[2]}
<1>1. IsWellFoundedOn(R, Nat)
  BY NatLessThanWellFounded DEF OpToRel
<1> HIDE DEF R
<1>3. PICK i \in S : \A j \in S : ~ (<<j, i>> \in R)
  BY <1>1, WFMin
<1>4. ASSUME NEW j \in S PROVE i <= j
  <2>1. ~ (<<j, i>> \in R) /\ i \in Nat /\ j \in Nat
    BY <1>3
  <2>2. ~ (j < i)
    BY <2>1 DEF R
  <2> QED BY <2>1, <2>2
<1> QED BY <1>4

(***************************************************************************)
(* The review of a visualisation.                                          *)
(***************************************************************************)
\* The form is that of the developer's first approval, and a new one where there is none.
LEMMA MyApprovalIs ==
  ASSUME approvals \in Seq(ApprovalRow), NEW d \in Developer
  PROVE  /\ MyApproval(d) \in 0 .. Len(approvals)
         /\ MyApproval(d) = 0 => ApprovalsBy(d) = {}
<1> DEFINE mine == {i \in 1..Len(approvals) : approvals[i] = [by |-> d, approved |-> TRUE]}
<1>1. MyApproval(d) = IF mine = {} THEN 0 ELSE CHOOSE i \in mine : \A j \in mine : i <= j
  BY DEF MyApproval
<1>2. Len(approvals) \in Nat /\ \A i \in 1..Len(approvals) : approvals[i] \in ApprovalRow
  BY LenProperties, ElementOfSeq
<1>3. mine = ApprovalsBy(d)
  <2>1. ASSUME NEW i \in 1..Len(approvals)
        PROVE  approvals[i] = [by |-> d, approved |-> TRUE] <=> approvals[i].approved /\ approvals[i].by = d
    <3>1. PICK b \in Developer, a \in BOOLEAN : approvals[i] = [by |-> b, approved |-> a]
      BY <1>2 DEF ApprovalRow
    <3>2. CASE a = TRUE
      <4>1. approvals[i] = [by |-> b, approved |-> TRUE]
        BY <3>1, <3>2
      <4>2. approvals[i].approved /\ approvals[i].by = b
        BY <4>1
      <4>3. ASSUME approvals[i] = [by |-> d, approved |-> TRUE] PROVE b = d
        BY <4>1, <4>3
      <4> QED BY <4>1, <4>2, <4>3
    <3>3. CASE a = FALSE
      BY <3>1, <3>3
    <3> QED BY <3>2, <3>3
  <2> QED BY <2>1 DEF ApprovalsBy, Approvals
<1>4. mine \in SUBSET Nat
  BY <1>2
<1> HIDE DEF mine
<1>5. CASE mine = {}
  BY <1>1, <1>2, <1>3, <1>5
<1>6. CASE mine # {}
  <2>1. \E i \in mine : \A j \in mine : i <= j
    BY <1>4, <1>6, LeastOf
  <2>2. MyApproval(d) \in mine
    BY <1>1, <1>6, <2>1
  <2>3. mine \subseteq 1 .. Len(approvals)
    BY <1>2 DEF mine
  <2>4. MyApproval(d) \in 1 .. Len(approvals)
    BY <2>2, <2>3
  <2> QED BY <1>2, <2>4
<1> QED BY <1>5, <1>6

\* What is approved, and by whom, are finite sets.
LEMMA ApprovalsFinite ==
  ASSUME approvals \in Seq(ApprovalRow)
  PROVE  /\ IsFiniteSet(Approvals) /\ Cardinality(Approvals) \in Nat
         /\ \A d : IsFiniteSet(ApprovalsBy(d)) /\ Cardinality(ApprovalsBy(d)) \in Nat
<1>1. Len(approvals) \in Nat
  BY LenProperties
<1>2. IsFiniteSet(1 .. Len(approvals))
  BY <1>1, FS_Interval
<1>3. IsFiniteSet(Approvals)
  BY <1>2, FS_Subset DEF Approvals
<1>4. \A d : IsFiniteSet(ApprovalsBy(d))
  BY <1>3, FS_Subset DEF ApprovalsBy
<1> QED BY <1>3, <1>4, FS_CardinalityType

LEMMA NewApprovalsFinite ==
  \A d : /\ IsFiniteSet(NewApprovals(d)) /\ Cardinality(NewApprovals(d)) \in Nat
         /\ Cardinality(NewApprovals(d)) <= Cardinality(VisRequest)
         /\ Cardinality(VisRequest) \in Nat
<1>1. IsFiniteSet(VisRequest)
  BY ReviewAssumption
<1>2. \A d : NewApprovals(d) \in SUBSET VisRequest
  BY DEF NewApprovals
<1> QED BY <1>1, <1>2, FS_Subset, FS_CardinalityType

LEMMA ReviewInitInv == ReviewInit => ReviewInv
<1> SUFFICES ASSUME ReviewInit PROVE ReviewInv
  OBVIOUS
<1>1. /\ approvals \in Seq(ApprovalRow) /\ entries \in Seq(LogRow)
      /\ Len(approvals) = 0 /\ Len(entries) = 0
  BY EmptySeq DEF ReviewInit
<1>2. ASSUME NEW d \in Developer PROVE ApprovalsBy(d) = {} /\ NewApprovals(d) = {}
  BY <1>1 DEF ReviewInit, ApprovalsBy, Approvals, NewApprovals, Serving, NoRequest
<1>3. \A d \in Developer :
        /\ Cardinality(ApprovalsBy(d)) <= Cardinality(VisRequest)
        /\ Cardinality(ApprovalsBy(d)) + Cardinality(NewApprovals(d)) <= Cardinality(VisRequest)
  BY <1>2, FS_EmptySet, NewApprovalsFinite
<1>4. ReviewTypeOK
  <2>1. 0 \in 0..MaxVisRequests
    BY ReviewAssumption
  <2>2. reviewItem \in ReviewItem
    BY DEF ReviewInit, ReviewItem
  <2> QED BY <1>1, <1>3, <2>1, <2>2 DEF ReviewInit, ReviewTypeOK
<1>5. PublicationsWereReviewed /\ PublishedAsLogged
  <2>1. \A i \in 1..Len(entries) : FALSE
    BY <1>1
  <2>2. \A what : LogSays(what) = FALSE
    BY <2>1 DEF LogSays
  <2>3. visible = FALSE /\ reviewItem.published = FALSE
    BY DEF ReviewInit
  <2> QED BY <2>1, <2>2, <2>3 DEF PublicationsWereReviewed, PublishedAsLogged
<1>6. \A r \in VisRequest : serving[r] = NoRequest /\ ReadOnce(r) /\ ~Serving(r, "approval")
  BY DEF ReviewInit, Serving, NoRequest, ReadOnce
<1>7. /\ serving \in [VisRequest -> VisRequestType]
      /\ stood \in [VisRequest -> SUBSET {"approved", "visible"}]
      /\ raced \subseteq VisRequest /\ overwritten \in BOOLEAN
  BY DEF ReviewInit, VisRequestType
<1> QED BY <1>1, <1>3, <1>4, <1>5, <1>6, <1>7 DEF ReviewInv

LEMMA StandingIs ==
  /\ Standing \in SUBSET {"approved", "visible"}
  /\ "approved" \in Standing <=> IsApproved
  /\ "visible" \in Standing <=> visible
  BY DEF Standing

\* What a request has read stays read, and is still so unless a row was changed.
LEMMA StaysRead ==
  ASSUME ReviewInv, HistoryKept, ItemLogged => ItemLogged',
         NEW q \in VisRequest, serving'[q] = serving[q]
  PROVE  ReadOnce(q)' /\ (serving'[q] # NoRequest => Standing' \subseteq stood'[q])
<1>1. CASE serving[q] = NoRequest
  BY <1>1 DEF ReadOnce, Serving, NoRequest
<1>2. CASE serving[q] # NoRequest
  <2>1. stood'[q] = stood[q] \cup Standing'
    BY <1>2 DEF HistoryKept
  <2>2. q \notin raced' => q \notin raced /\ UNCHANGED <<approvals, reviewItem, visible>>
    BY <1>2 DEF HistoryKept
  <2>3. q \notin raced' => q \notin raced /\ UNCHANGED <<reviewItem, visible>>
                             /\ IsApproved' = IsApproved
    BY <2>2 DEF IsApproved, Approvals
  <2>4. ReadOnce(q)
    BY DEF ReviewInv
  <2>5. ReadOnce(q)'
    BY <2>1, <2>3, <2>4 DEF ReadOnce, Serving
  <2> QED BY <2>1, <2>5
<1> QED BY <1>1, <1>2

LEMMA NotedTypes ==
  ASSUME ReviewInv, HistoryKept
  PROVE  stood' \in [VisRequest -> SUBSET {"approved", "visible"}] /\ raced' \subseteq VisRequest
<1>1. Standing' \in SUBSET {"approved", "visible"}
  BY DEF Standing
<1>2. ASSUME NEW s \in VisRequest
      PROVE  (IF serving'[s] = NoRequest THEN {}
              ELSE IF serving[s] = NoRequest THEN Standing' ELSE stood[s] \cup Standing')
                \in SUBSET {"approved", "visible"}
  BY <1>1 DEF ReviewInv
<1> QED BY <1>2 DEF HistoryKept

\* What a step of one request has to show.
LEMMA RequestStepInv ==
  ASSUME ReviewInv, HistoryKept, NEW r \in VisRequest,
         approvals' \in Seq(ApprovalRow), Len(approvals) <= Len(approvals'),
         reviewItem' \in ReviewItem, visible' \in BOOLEAN, asked' \in 0..MaxVisRequests,
         entries' \in Seq(LogRow), overwritten' \in BOOLEAN,
         serving' \in [VisRequest -> VisRequestType],
         \A q \in VisRequest \ {r} : serving'[q] = serving[q],
         Serving(r, "approval")' => serving'[r].mine \in 0..Len(approvals'),
         ReadOnce(r)', serving'[r] # NoRequest => Standing' \subseteq stood'[r],
         \A d \in Developer :
           /\ Cardinality(ApprovalsBy(d)') <= Cardinality(VisRequest)
           /\ Cardinality(ApprovalsBy(d)') + Cardinality(NewApprovals(d)') <= Cardinality(VisRequest),
         PublicationsWereReviewed', PublishedAsLogged', ItemLogged => ItemLogged'
  PROVE  ReviewInv'
<1>1. stood' \in [VisRequest -> SUBSET {"approved", "visible"}] /\ raced' \subseteq VisRequest
  BY NotedTypes
<1>2. ReviewTypeOK'
  BY DEF ReviewTypeOK
<1>3. ASSUME NEW q \in VisRequest
      PROVE  /\ Serving(q, "approval")' => serving'[q].mine \in 0..Len(approvals')
             /\ serving'[q] # NoRequest => Standing' \subseteq stood'[q]
             /\ ReadOnce(q)'
  <2>1. CASE q = r
    BY <2>1
  <2>2. CASE q # r
    <3>1. serving'[q] = serving[q]
      BY <2>2
    <3>2. ReadOnce(q)' /\ (serving'[q] # NoRequest => Standing' \subseteq stood'[q])
      BY <3>1, StaysRead
    <3>3. Serving(q, "approval") => serving[q].mine \in 0..Len(approvals)
      BY DEF ReviewInv
    <3>4. Len(approvals) \in Nat /\ Len(approvals') \in Nat
      BY LenProperties DEF ReviewInv, ReviewTypeOK
    <3>5. Serving(q, "approval")' => serving'[q].mine \in 0..Len(approvals')
      BY <3>1, <3>3, <3>4 DEF Serving
    <3> QED BY <3>2, <3>5
  <2> QED BY <2>1, <2>2
<1> QED BY <1>1, <1>2, <1>3 DEF ReviewInv

\* A request that ends is no new approval any more.
LEMMA FinishRequestIs ==
  ASSUME ReviewInv, NEW r \in VisRequest, FinishRequest(r)
  PROVE  /\ serving' \in [VisRequest -> VisRequestType]
         /\ \A q \in VisRequest : serving'[q] = IF q = r THEN NoRequest ELSE serving[q]
         /\ \A d : NewApprovals(d)' = NewApprovals(d) \ {r}
<1>1. serving \in [VisRequest -> VisRequestType] /\ serving' = [serving EXCEPT ![r] = NoRequest]
  BY DEF ReviewInv, FinishRequest
<1>2. NoRequest \in VisRequestType /\ NoRequest.kind = "none"
  BY DEF VisRequestType, NoRequest
<1> QED BY <1>1, <1>2 DEF NewApprovals, Serving

\* A request that ends without an approval to make keeps the counts.
LEMMA CountsKept ==
  ASSUME ReviewInv, NEW r \in VisRequest, FinishRequest(r),
         approvals' \in Seq(ApprovalRow), \A d : ApprovalsBy(d)' \in SUBSET ApprovalsBy(d)
  PROVE  \A d \in Developer :
           /\ Cardinality(ApprovalsBy(d)') <= Cardinality(VisRequest)
           /\ Cardinality(ApprovalsBy(d)') + Cardinality(NewApprovals(d)') <= Cardinality(VisRequest)
<1> SUFFICES ASSUME NEW d \in Developer
             PROVE  /\ Cardinality(ApprovalsBy(d)') <= Cardinality(VisRequest)
                    /\ Cardinality(ApprovalsBy(d)') + Cardinality(NewApprovals(d)') <= Cardinality(VisRequest)
  OBVIOUS
<1>1. NewApprovals(d)' \in SUBSET NewApprovals(d)
  BY FinishRequestIs
<1>2. IsFiniteSet(ApprovalsBy(d)) /\ IsFiniteSet(NewApprovals(d))
  BY ApprovalsFinite, NewApprovalsFinite DEF ReviewInv, ReviewTypeOK
<1>3. /\ Cardinality(ApprovalsBy(d)') \in Nat /\ Cardinality(ApprovalsBy(d)') <= Cardinality(ApprovalsBy(d))
      /\ Cardinality(NewApprovals(d)') \in Nat /\ Cardinality(NewApprovals(d)') <= Cardinality(NewApprovals(d))
      /\ Cardinality(ApprovalsBy(d)) \in Nat /\ Cardinality(NewApprovals(d)) \in Nat
  BY <1>1, <1>2, FS_Subset, FS_CardinalityType
<1>4. Cardinality(ApprovalsBy(d)) + Cardinality(NewApprovals(d)) <= Cardinality(VisRequest)
  BY DEF ReviewInv
<1>5. Cardinality(VisRequest) \in Nat
  BY NewApprovalsFinite
<1> QED BY <1>3, <1>4, <1>5


\* A request that is only read for, or that reads on, makes nobody's approval.
LEMMA SameRowsKept ==
  ASSUME ReviewInv, UNCHANGED <<approvals, reviewItem, visible, entries, overwritten>>
  PROVE  /\ \A d : ApprovalsBy(d)' = ApprovalsBy(d)
         /\ PublicationsWereReviewed' /\ PublishedAsLogged' /\ ItemLogged' = ItemLogged
         /\ Standing' = Standing /\ IsApproved' = IsApproved
         /\ approvals' \in Seq(ApprovalRow) /\ Len(approvals) <= Len(approvals')
         /\ Len(approvals) \in Nat
         /\ reviewItem' \in ReviewItem /\ visible' \in BOOLEAN
         /\ entries' \in Seq(LogRow) /\ overwritten' \in BOOLEAN
<1>1. /\ approvals \in Seq(ApprovalRow) /\ Len(approvals) \in Nat
      /\ reviewItem \in ReviewItem /\ visible \in BOOLEAN /\ entries \in Seq(LogRow)
      /\ overwritten \in BOOLEAN
  BY LenProperties DEF ReviewInv, ReviewTypeOK
<1>2. PublicationsWereReviewed'
  BY DEF ReviewInv, PublicationsWereReviewed
<1>3. PublishedAsLogged' /\ ItemLogged' = ItemLogged
  BY DEF ReviewInv, PublishedAsLogged, LogSays, ItemLogged
<1>4. \A d : ApprovalsBy(d)' = ApprovalsBy(d)
  BY DEF ApprovalsBy, Approvals
<1>5. Standing' = Standing /\ IsApproved' = IsApproved
  BY DEF Standing, IsApproved, Approvals
<1> QED BY <1>1, <1>2, <1>3, <1>4, <1>5

\* A request that is loaded changes nothing else.  It counts as a new approval only where
\* its developer had none.
LEMMA LoadPageInv ==
  ASSUME ReviewInv, HistoryKept, NEW r \in VisRequest, NEW loaded \in VisRequestType, LoadPage(r, loaded),
         loaded # NoRequest,
         loaded.kind = "approval" => /\ loaded.mine \in 0..Len(approvals)
                                     /\ loaded.mine = 0 => ApprovalsBy(loaded.by) = {},
         loaded.kind \in {"publish", "item"} => loaded.item = reviewItem,
         loaded.kind = "publish" =>
           /\ loaded.what = "visualisation" => loaded.at # "template"
           /\ ~loaded.visible /\ loaded.approved = 0
  PROVE  ReviewInv'
<1>1. /\ serving \in [VisRequest -> VisRequestType] /\ serving' = [serving EXCEPT ![r] = loaded]
      /\ UNCHANGED <<approvals, reviewItem, visible, entries, overwritten>>
      /\ serving[r] = NoRequest
  BY DEF LoadPage, ReviewInv
<1>2. asked' \in 0..MaxVisRequests
  BY ReviewAssumption DEF LoadPage, ReviewInv, ReviewTypeOK
<1>3. /\ serving' \in [VisRequest -> VisRequestType] /\ serving'[r] = loaded
      /\ \A q \in VisRequest \ {r} : serving'[q] = serving[q]
  BY <1>1
<1>4. stood'[r] = Standing'
  BY <1>1, <1>3 DEF HistoryKept
<1>5. ReadOnce(r)'
  <2>1. reviewItem.published => ItemLogged'
    BY <1>1, SameRowsKept DEF ReviewInv, PublishedAsLogged
  <2> QED BY <1>1, <1>3, <2>1 DEF ReadOnce, Serving
<1>6. ASSUME NEW d \in Developer
      PROVE  /\ Cardinality(ApprovalsBy(d)') <= Cardinality(VisRequest)
             /\ Cardinality(ApprovalsBy(d)') + Cardinality(NewApprovals(d)') <= Cardinality(VisRequest)
  <2>0. ApprovalsBy(d)' = ApprovalsBy(d)
    BY <1>1, SameRowsKept
  <2>1. CASE loaded.kind = "approval" /\ loaded.by = d /\ loaded.mine = 0
    <3>1. ApprovalsBy(d)' = {}
      BY <2>0, <2>1
    <3>2. NewApprovals(d)' \in SUBSET VisRequest
      BY DEF NewApprovals
    <3> QED BY <3>1, <3>2, FS_EmptySet, FS_Subset, FS_CardinalityType, ReviewAssumption
  <2>2. CASE ~(loaded.kind = "approval" /\ loaded.by = d /\ loaded.mine = 0)
    <3>1. NewApprovals(d)' = NewApprovals(d)
      BY <1>1, <2>2 DEF NewApprovals, Serving, NoRequest
    <3> QED BY <2>0, <3>1 DEF ReviewInv, ReviewTypeOK
  <2> QED BY <2>1, <2>2
<1>7. Serving(r, "approval")' => serving'[r].mine \in 0..Len(approvals')
  BY <1>1, <1>3 DEF Serving
<1> QED BY <1>1, <1>2, <1>3, <1>4, <1>5, <1>6, <1>7, SameRowsKept, RequestStepInv

\* A request to publish that reads on.
LEMMA ReadsOnInv ==
  ASSUME ReviewInv, HistoryKept, NEW r \in VisRequest, ReadTemplate(r) \/ CountApprovals(r)
  PROVE  ReviewInv'
<1> DEFINE q == serving[r]
<1>1. /\ UNCHANGED <<approvals, reviewItem, visible, entries, asked, overwritten>>
      /\ q \in VisRequestType /\ q.kind = "publish" /\ serving \in [VisRequest -> VisRequestType]
      /\ ReadOnce(r)
  BY DEF ReadTemplate, CountApprovals, Publishing, Serving, ReviewInv
<1>2. q \in [kind : {"publish"}, what : Publication, publish : BOOLEAN, item : ReviewItem,
             at : {"template", "count", "save"}, visible : BOOLEAN, approved : Nat,
             by : SUBSET Developer] /\ q # NoRequest
  BY <1>1 DEF VisRequestType, NoRequest
<1>3. /\ approvals \in Seq(ApprovalRow) /\ visible \in BOOLEAN /\ asked \in 0..MaxVisRequests
  BY DEF ReviewInv, ReviewTypeOK
<1>4. Cardinality(Approvals) \in Nat /\ {approvals[i].by : i \in Approvals} \in SUBSET Developer
  <2>1. \A i \in Approvals : approvals[i].by \in Developer
    <3>1. \A i \in 1..Len(approvals) : approvals[i] \in ApprovalRow
      BY <1>3, ElementOfSeq
    <3> QED BY <3>1 DEF Approvals, ApprovalRow
  <2> QED BY <1>3, <2>1, ApprovalsFinite
<1>5. \E p \in [kind : {"publish"}, what : Publication, publish : BOOLEAN, item : ReviewItem,
             at : {"template", "count", "save"}, visible : BOOLEAN, approved : Nat,
             by : SUBSET Developer] :
        /\ serving' = [serving EXCEPT ![r] = p]
        /\ p.what = q.what /\ p.item = q.item /\ p.at # "template"
        /\ p.visible => q.visible \/ visible
        /\ p.approved = q.approved \/ p.approved = Cardinality(Approvals)
  <2>1. CASE ReadTemplate(r)
    <3> DEFINE p == [q EXCEPT !.at = "count", !.visible = visible]
    <3>1. serving' = [serving EXCEPT ![r] = p]
      BY <1>1, <2>1 DEF ReadTemplate
    <3>2. p \in [kind : {"publish"}, what : Publication, publish : BOOLEAN, item : ReviewItem,
             at : {"template", "count", "save"}, visible : BOOLEAN, approved : Nat,
             by : SUBSET Developer]
      BY <1>2, <1>3
    <3>3. /\ p.what = q.what /\ p.item = q.item /\ p.at # "template"
          /\ p.visible = visible /\ p.approved = q.approved
      BY <1>2
    <3> HIDE DEF p
    <3> QED BY <3>1, <3>2, <3>3
  <2>2. CASE CountApprovals(r)
    <3> DEFINE p == [q EXCEPT !.at = "save", !.approved = Cardinality(Approvals),
                              !.by = {approvals[i].by : i \in Approvals}]
    <3>1. serving' = [serving EXCEPT ![r] = p]
      BY <1>1, <2>2 DEF CountApprovals
    <3>2. p \in [kind : {"publish"}, what : Publication, publish : BOOLEAN, item : ReviewItem,
             at : {"template", "count", "save"}, visible : BOOLEAN, approved : Nat,
             by : SUBSET Developer]
      BY <1>2, <1>4
    <3>3. /\ p.what = q.what /\ p.item = q.item /\ p.at # "template"
          /\ p.visible = q.visible /\ p.approved = Cardinality(Approvals)
      BY <1>2
    <3> HIDE DEF p
    <3> QED BY <3>1, <3>2, <3>3
  <2> QED BY <2>1, <2>2
<1>6. PICK p \in [kind : {"publish"}, what : Publication, publish : BOOLEAN, item : ReviewItem,
             at : {"template", "count", "save"}, visible : BOOLEAN, approved : Nat,
             by : SUBSET Developer] :
        /\ serving' = [serving EXCEPT ![r] = p]
        /\ p.what = q.what /\ p.item = q.item /\ p.at # "template"
        /\ p.visible => q.visible \/ visible
        /\ p.approved = q.approved \/ p.approved = Cardinality(Approvals)
  BY <1>5
<1>7. /\ serving' \in [VisRequest -> VisRequestType] /\ serving'[r] = p /\ p.kind = "publish"
      /\ p # NoRequest /\ \A s \in VisRequest \ {r} : serving'[s] = serving[s]
  BY <1>1, <1>6 DEF VisRequestType, NoRequest
<1>8. stood'[r] = stood[r] \cup Standing' /\ (r \notin raced' => r \notin raced)
  BY <1>2, <1>7 DEF HistoryKept
<1>9. ReadOnce(r)'
  <2>1. p.visible => "visible" \in stood'[r] /\ (r \notin raced' => visible')
    BY <1>1, <1>6, <1>8, StandingIs, SameRowsKept DEF ReadOnce, Serving
  <2>2. p.approved >= 2 => "approved" \in stood'[r] /\ (r \notin raced' => IsApproved')
    <3>1. CASE p.approved = q.approved
      BY <1>1, <1>8, <3>1, SameRowsKept DEF ReadOnce, Serving
    <3>2. CASE p.approved = Cardinality(Approvals)
      <4>1. p.approved >= 2 => IsApproved
        BY <3>2 DEF IsApproved
      <4> QED BY <1>1, <1>8, <4>1, StandingIs, SameRowsKept
    <3> QED BY <1>6, <3>1, <3>2
  <2>3. /\ p.item.published => ItemLogged'
        /\ r \notin raced' => p.item = reviewItem'
    BY <1>1, <1>6, <1>8, SameRowsKept DEF ReadOnce, Serving
  <2> QED BY <1>6, <1>7, <2>1, <2>2, <2>3 DEF ReadOnce, Serving
<1>10. ASSUME NEW d \in Developer PROVE NewApprovals(d)' = NewApprovals(d)
  BY <1>1, <1>7 DEF NewApprovals, Serving
<1>11. \A d \in Developer :
           /\ Cardinality(ApprovalsBy(d)') <= Cardinality(VisRequest)
           /\ Cardinality(ApprovalsBy(d)') + Cardinality(NewApprovals(d)') <= Cardinality(VisRequest)
  BY <1>1, <1>10, SameRowsKept DEF ReviewInv, ReviewTypeOK
<1>12. ~Serving(r, "approval")'
  BY <1>7 DEF Serving
<1>13. asked' \in 0..MaxVisRequests
  BY <1>1, <1>3
<1> QED BY <1>1, <1>7, <1>8, <1>9, <1>11, <1>12, <1>13, SameRowsKept, RequestStepInv

\* A request that ends has read nothing.
LEMMA EndedReads ==
  ASSUME ReviewInv, NEW r \in VisRequest, FinishRequest(r)
  PROVE  serving'[r] = NoRequest /\ ReadOnce(r)' /\ ~Serving(r, "approval")'
<1>1. serving'[r] = NoRequest
  BY FinishRequestIs
<1> QED BY <1>1 DEF ReadOnce, Serving, NoRequest

LEMMA SaveApprovalInv ==
  ASSUME ReviewInv, HistoryKept, NEW r \in VisRequest, SaveApproval(r)
  PROVE  ReviewInv'
<1> DEFINE q == serving[r]
<1>1. /\ FinishRequest(r) /\ UNCHANGED <<reviewItem, visible, entries, asked, overwritten>>
      /\ approvals' = IF ~MayApprove(q) THEN approvals
                      ELSE IF q.mine = 0
                      THEN Append(approvals, [by |-> q.by, approved |-> TRUE])
                      ELSE IF q.approve THEN approvals
                      ELSE [approvals EXCEPT ![q.mine].approved = FALSE]
  BY DEF SaveApproval
<1>2. /\ approvals \in Seq(ApprovalRow) /\ Len(approvals) \in Nat
      /\ \A i \in 1..Len(approvals) : approvals[i] \in ApprovalRow
  BY LenProperties, ElementOfSeq DEF ReviewInv, ReviewTypeOK
<1>3. q.mine \in 0..Len(approvals) /\ q.by \in Developer
  <2>1. q \in VisRequestType /\ q.kind = "approval" /\ q.mine \in 0..Len(approvals)
    BY DEF SaveApproval, Serving, ReviewInv
  <2> QED BY <2>1 DEF VisRequestType, NoRequest
<1>4. /\ approvals' \in Seq(ApprovalRow)
      /\ Len(approvals) <= Len(approvals') /\ Len(approvals') \in Nat
      /\ \A d \in Developer :
           /\ Cardinality(ApprovalsBy(d)') <= Cardinality(VisRequest)
           /\ Cardinality(ApprovalsBy(d)') + Cardinality(NewApprovals(d)') <= Cardinality(VisRequest)
  <2>1. CASE approvals' = approvals
    <3>1. \A d : ApprovalsBy(d)' = ApprovalsBy(d)
      BY <2>1 DEF ApprovalsBy, Approvals
    <3>2. \A d : ApprovalsBy(d)' \in SUBSET ApprovalsBy(d)
      BY <3>1
    <3>3. approvals' \in Seq(ApprovalRow) /\ Len(approvals') = Len(approvals)
      BY <1>2, <2>1
    <3>4. \A d \in Developer :
             /\ Cardinality(ApprovalsBy(d)') <= Cardinality(VisRequest)
             /\ Cardinality(ApprovalsBy(d)') + Cardinality(NewApprovals(d)') <= Cardinality(VisRequest)
      BY <1>1, <3>2, <3>3, CountsKept
    <3> QED BY <1>2, <3>3, <3>4
  <2>2. CASE MayApprove(q) /\ q.mine # 0 /\ ~q.approve
    <3>1. q.mine \in 1..Len(approvals)
      BY <1>2, <1>3, <2>2
    <3> DEFINE row == [approvals[q.mine] EXCEPT !.approved = FALSE]
    <3>2. row \in ApprovalRow /\ ~row.approved
      BY <1>2, <3>1 DEF ApprovalRow
    <3>3. approvals' = [approvals EXCEPT ![q.mine] = row]
      BY <1>1, <2>2
    <3>4. /\ approvals' \in Seq(ApprovalRow) /\ Len(approvals') = Len(approvals)
          /\ \A j \in 1..Len(approvals) : approvals'[j] = IF j = q.mine THEN row ELSE approvals[j]
      BY <1>2, <3>1, <3>2, <3>3, ExceptSeq
    <3>5. \A d : ApprovalsBy(d)' \in SUBSET ApprovalsBy(d)
      BY <3>2, <3>4 DEF ApprovalsBy, Approvals
    <3>6. \A d \in Developer :
             /\ Cardinality(ApprovalsBy(d)') <= Cardinality(VisRequest)
             /\ Cardinality(ApprovalsBy(d)') + Cardinality(NewApprovals(d)') <= Cardinality(VisRequest)
      BY <1>1, <3>4, <3>5, CountsKept
    <3> QED BY <1>2, <3>4, <3>6
  <2>3. CASE MayApprove(q) /\ q.mine = 0
    <3> DEFINE row == [by |-> q.by, approved |-> TRUE]
               n == Len(approvals) + 1
    <3>1. row \in ApprovalRow
      BY <1>3 DEF ApprovalRow
    <3>2. /\ approvals' \in Seq(ApprovalRow) /\ Len(approvals') = n
          /\ \A j \in 1..Len(approvals) : approvals'[j] = approvals[j]
          /\ approvals'[n] = row
      BY <1>1, <1>2, <2>3, <3>1, AppendProperties
    <3>3. ASSUME NEW d
          PROVE  /\ d # q.by => ApprovalsBy(d)' = ApprovalsBy(d)
                 /\ d = q.by => ApprovalsBy(d)' = ApprovalsBy(d) \cup {n}
                 /\ n \notin ApprovalsBy(d)
      <4>1. 1..Len(approvals') = (1..Len(approvals)) \cup {n} /\ n \notin 1..Len(approvals)
        BY <1>2, <3>2
      <4>2. approvals'[n].approved /\ approvals'[n].by = q.by
        BY <3>2
      <4>3. Approvals' = Approvals \cup {n} /\ n \notin Approvals
        BY <3>2, <4>1, <4>2 DEF Approvals
      <4> QED BY <3>2, <4>1, <4>2, <4>3 DEF ApprovalsBy, Approvals
    <3>4. ASSUME NEW d \in Developer
          PROVE  /\ Cardinality(ApprovalsBy(d)') <= Cardinality(VisRequest)
                 /\ Cardinality(ApprovalsBy(d)') + Cardinality(NewApprovals(d)') <= Cardinality(VisRequest)
      <4>1. Cardinality(ApprovalsBy(d)) + Cardinality(NewApprovals(d)) <= Cardinality(VisRequest)
        BY DEF ReviewInv
      <4>2. /\ Cardinality(ApprovalsBy(d)) \in Nat /\ IsFiniteSet(ApprovalsBy(d))
            /\ Cardinality(NewApprovals(d)) \in Nat /\ IsFiniteSet(NewApprovals(d))
            /\ Cardinality(VisRequest) \in Nat
        BY <1>2, ApprovalsFinite, NewApprovalsFinite
      <4>3. NewApprovals(d)' = NewApprovals(d) \ {r}
        BY <1>1, FinishRequestIs
      <4>4. CASE d # q.by
        <5>1. ApprovalsBy(d)' = ApprovalsBy(d)
          BY <3>3, <4>4
        <5>2. Cardinality(NewApprovals(d)') <= Cardinality(NewApprovals(d)) /\ Cardinality(NewApprovals(d)') \in Nat
          BY <4>2, <4>3, FS_Subset, FS_CardinalityType
        <5> QED BY <4>1, <4>2, <5>1, <5>2
      <4>5. CASE d = q.by
        <5>1. r \in NewApprovals(d)
          BY <2>3, <4>5 DEF NewApprovals, SaveApproval
        <5>2. Cardinality(NewApprovals(d)') = Cardinality(NewApprovals(d)) - 1
          BY <4>2, <4>3, <5>1, FS_RemoveElement
        <5>3. Cardinality(ApprovalsBy(d)') = Cardinality(ApprovalsBy(d)) + 1
          <6>1. ApprovalsBy(d)' = ApprovalsBy(d) \cup {n} /\ n \notin ApprovalsBy(d)
            BY <3>3, <4>5
          <6> HIDE DEF n
          <6> QED BY <4>2, <6>1, FS_AddElement
        <5>4. Cardinality(NewApprovals(d)') \in Nat
          BY <4>2, <4>3, FS_Subset, FS_CardinalityType
        <5> QED BY <4>1, <4>2, <5>2, <5>3, <5>4
      <4> QED BY <4>4, <4>5
    <3> QED BY <1>2, <3>2, <3>4
  <2> QED BY <1>1, <2>1, <2>2, <2>3
<1>5. PublicationsWereReviewed' /\ PublishedAsLogged' /\ ItemLogged' = ItemLogged
  <2>1. PublicationsWereReviewed'
    BY <1>1 DEF ReviewInv, PublicationsWereReviewed
  <2>2. ItemLogged' = ItemLogged /\ \A what : LogSays(what)' = LogSays(what)
    BY <1>1 DEF ItemLogged, LogSays
  <2>3. PublishedAsLogged'
    BY <1>1, <2>2 DEF ReviewInv, PublishedAsLogged
  <2> QED BY <2>1, <2>2, <2>3
<1>6. /\ reviewItem' \in ReviewItem /\ visible' \in BOOLEAN /\ asked' \in 0..MaxVisRequests
      /\ entries' \in Seq(LogRow) /\ overwritten' \in BOOLEAN
  BY <1>1 DEF ReviewInv, ReviewTypeOK
<1> QED BY <1>1, <1>4, <1>5, <1>6, FinishRequestIs, EndedReads, RequestStepInv

\* What the log says when an entry is added to it.
LEMMA LogGrows ==
  ASSUME entries \in Seq(LogRow), NEW e \in LogRow, Log(e)
  PROVE  /\ entries' \in Seq(LogRow)
         /\ ItemLogged => ItemLogged'
         /\ e.what = "catalogue" /\ e.publish => ItemLogged'
         /\ \A what \in Publication :
              LogSays(what)' = IF e.what = what THEN e.publish ELSE LogSays(what)
         /\ PublicationsWereReviewed
            /\ (e.what \in Publication /\ e.publish =>
                  /\ Demanded(e.what) \subseteq e.stood
                  /\ ~e.raced => Demanded(e.what) \subseteq e.standing)
              => PublicationsWereReviewed'
<1> DEFINE n == Len(entries) + 1
<1>1. Len(entries) \in Nat /\ entries' = Append(entries, e)
  BY LenProperties DEF Log
<1>2. /\ entries' \in Seq(LogRow) /\ Len(entries') = n
      /\ \A i \in 1..Len(entries) : entries'[i] = entries[i]
      /\ entries'[n] = e
  BY <1>1, AppendProperties
<1>3. 1..Len(entries') = (1..Len(entries)) \cup {n} /\ n \notin 1..Len(entries)
      /\ \A i \in 1..Len(entries) : n > i /\ ~(i > n)
  BY <1>1, <1>2
<1>4. ~(n > n)
  BY <1>1
<1> HIDE DEF n
<1>5. (ItemLogged => ItemLogged') /\ (e.what = "catalogue" /\ e.publish => ItemLogged')
  BY <1>2, <1>3 DEF ItemLogged
<1>6. e.publish \in BOOLEAN
  BY DEF LogRow
<1>7. ASSUME NEW what \in Publication
      PROVE  LogSays(what)' = IF e.what = what THEN e.publish ELSE LogSays(what)
  <2>1. CASE e.what = what
    <3>1. e.publish => LogSays(what)'
      BY <1>2, <1>3, <1>4, <2>1 DEF LogSays
    <3>2. LogSays(what)' => e.publish
      BY <1>2, <1>3, <2>1 DEF LogSays
    <3> QED BY <1>6, <2>1, <3>1, <3>2 DEF LogSays
  <2>2. CASE e.what # what
    <3>1. LogSays(what) => LogSays(what)'
      BY <1>2, <1>3, <2>2 DEF LogSays
    <3>2. LogSays(what)' => LogSays(what)
      BY <1>2, <1>3, <2>2 DEF LogSays
    <3> QED BY <2>2, <3>1, <3>2 DEF LogSays
  <2> QED BY <2>1, <2>2
<1>8. PublicationsWereReviewed
            /\ (e.what \in Publication /\ e.publish =>
                  /\ Demanded(e.what) \subseteq e.stood
                  /\ ~e.raced => Demanded(e.what) \subseteq e.standing)
              => PublicationsWereReviewed'
  BY <1>2, <1>3 DEF PublicationsWereReviewed
<1> QED BY <1>2, <1>5, <1>7, <1>8

\* The other requests write the item, or whether the visualisation is published, and log
\* what they did.
LEMMA OtherRequestInv ==
  ASSUME ReviewInv, HistoryKept, NEW r \in VisRequest, FinishRequest(r), UNCHANGED <<approvals, asked>>,
         reviewItem' \in ReviewItem, visible' \in BOOLEAN, entries' \in Seq(LogRow),
         overwritten' \in BOOLEAN, PublicationsWereReviewed', PublishedAsLogged',
         ItemLogged => ItemLogged'
  PROVE  ReviewInv'
<1>1. \A d : ApprovalsBy(d)' = ApprovalsBy(d)
  BY DEF ApprovalsBy, Approvals
<1>2. \A d \in Developer :
           /\ Cardinality(ApprovalsBy(d)') <= Cardinality(VisRequest)
           /\ Cardinality(ApprovalsBy(d)') + Cardinality(NewApprovals(d)') <= Cardinality(VisRequest)
  BY <1>1, CountsKept DEF ReviewInv, ReviewTypeOK
<1>3. /\ approvals' \in Seq(ApprovalRow) /\ Len(approvals) <= Len(approvals')
      /\ asked' \in 0..MaxVisRequests
  BY LenProperties DEF ReviewInv, ReviewTypeOK
<1> QED BY <1>2, <1>3, FinishRequestIs, EndedReads, RequestStepInv

\* A publication finds what it wants, and logs it.
LEMMA PublishInv ==
  ASSUME ReviewInv, HistoryKept, NEW r \in VisRequest, PublishVisualisation(r) \/ PublishItem(r)
  PROVE  ReviewInv'
<1> DEFINE q == serving[r]
           e == LogEntry(r)
<1>1. /\ q \in VisRequestType /\ entries \in Seq(LogRow) /\ PublicationsWereReviewed
      /\ reviewItem \in ReviewItem /\ visible \in BOOLEAN /\ overwritten \in BOOLEAN
      /\ PublishedAsLogged /\ ReadOnce(r) /\ stood[r] \in SUBSET {"approved", "visible"}
  BY DEF ReviewInv, ReviewTypeOK
<1>2. q.kind = "publish"
  BY DEF PublishVisualisation, PublishItem, Publishing, Serving
<1>3. /\ q.what \in Publication /\ q.publish \in BOOLEAN /\ q.item \in ReviewItem
      /\ q.by \in SUBSET Developer /\ q.visible \in BOOLEAN
  BY <1>1, <1>2 DEF VisRequestType, NoRequest
<1>4. e \in LogRow
  <2>1. PICK b \in BOOLEAN : b <=> r \in raced
    <3>1. CASE r \in raced
      BY <3>1
    <3>2. CASE r \notin raced
      BY <3>2
    <3> QED BY <3>1, <3>2
  <2>2. e = [what |-> q.what, publish |-> q.publish, by |-> q.by, stood |-> stood[r],
             standing |-> Standing, raced |-> b]
    <3>1. b = (r \in raced)
      BY <2>1
    <3> QED BY <3>1 DEF LogEntry
  <2>3. e \in [what : Publication, publish : BOOLEAN, by : SUBSET Developer,
               stood : SUBSET {"approved", "visible"}, standing : SUBSET {"approved", "visible"},
               raced : BOOLEAN]
    BY <1>1, <1>3, <2>2, StandingIs
  <2> QED BY <2>3 DEF LogRow
<1>5. /\ e.what = q.what /\ e.publish = q.publish /\ e.stood = stood[r]
      /\ e.standing = Standing /\ e.raced = (r \in raced)
  BY DEF LogEntry
<1>6. /\ q.publish => q.approved >= 2
      /\ q.what = "catalogue" /\ q.publish => q.visible
  BY DEF PublishVisualisation, PublishItem, Publishing, MayPublish
<1>7. q.publish => /\ Demanded(q.what) \subseteq stood[r]
                   /\ r \notin raced => Demanded(q.what) \subseteq Standing
  BY <1>1, <1>2, <1>6, StandingIs DEF ReadOnce, Serving, Demanded
<1>8. Log(e) /\ FinishRequest(r) /\ UNCHANGED <<approvals, asked>>
  BY DEF PublishVisualisation, PublishItem
<1> HIDE DEF e
<1>9. /\ entries' \in Seq(LogRow) /\ (ItemLogged => ItemLogged') /\ PublicationsWereReviewed'
      /\ q.what = "catalogue" /\ q.publish => ItemLogged'
      /\ \A what \in Publication :
           LogSays(what)' = IF q.what = what THEN q.publish ELSE LogSays(what)
  BY <1>1, <1>4, <1>5, <1>7, <1>8, LogGrows
<1>10. CASE PublishVisualisation(r)
  <2>1. q.what = "visualisation" /\ visible' = q.publish /\ UNCHANGED <<reviewItem, overwritten>>
    BY <1>10 DEF PublishVisualisation, Publishing
  <2>2. LogSays("visualisation")' = q.publish /\ LogSays("catalogue")' = LogSays("catalogue")
    BY <1>9, <2>1 DEF Publication
  <2>3. PublishedAsLogged'
    BY <1>1, <1>9, <2>1, <2>2 DEF PublishedAsLogged
  <2> QED BY <1>1, <1>3, <1>8, <1>9, <2>1, <2>3, OtherRequestInv
<1>11. CASE PublishItem(r)
  <2>1. /\ q.what = "catalogue" /\ reviewItem' = [q.item EXCEPT !.published = q.publish]
        /\ overwritten' = FALSE /\ UNCHANGED visible
    BY <1>11 DEF PublishItem, Publishing
  <2>2. LogSays("catalogue")' = q.publish /\ LogSays("visualisation")' = LogSays("visualisation")
    BY <1>9, <2>1 DEF Publication
  <2>3. reviewItem' \in ReviewItem /\ reviewItem'.published = q.publish
    BY <1>3, <2>1 DEF ReviewItem
  <2>4. PublishedAsLogged'
    BY <1>1, <1>9, <2>1, <2>2, <2>3 DEF PublishedAsLogged
  <2> QED BY <1>1, <1>8, <1>9, <2>1, <2>3, <2>4, OtherRequestInv
<1> QED BY <1>10, <1>11

LEMMA RefusePublishInv ==
  ASSUME ReviewInv, HistoryKept, NEW r \in VisRequest, RefusePublish(r) PROVE ReviewInv'
<1>1. FinishRequest(r) /\ UNCHANGED <<approvals, reviewItem, visible, entries, asked, overwritten>>
  BY DEF RefusePublish, Respond
<1> QED BY <1>1, SameRowsKept, OtherRequestInv

\* A form writes back whether the item was published when it was loaded.
LEMMA SaveItemFormInv ==
  ASSUME ReviewInv, HistoryKept, NEW r \in VisRequest, SaveItemForm(r) PROVE ReviewInv'
<1> DEFINE q == serving[r]
           e == [what |-> "access type", publish |-> q.open]
<1>1. /\ q \in VisRequestType /\ entries \in Seq(LogRow) /\ PublicationsWereReviewed
      /\ visible \in BOOLEAN /\ overwritten \in BOOLEAN /\ q.kind = "item"
      /\ PublishedAsLogged /\ ReadOnce(r)
  BY DEF ReviewInv, ReviewTypeOK, SaveItemForm, Serving
<1>2. q.complete \in BOOLEAN /\ q.open \in BOOLEAN /\ q.item \in ReviewItem
  <2>1. q \in [kind : {"item"}, complete : BOOLEAN, open : BOOLEAN, item : ReviewItem]
    BY <1>1 DEF VisRequestType, NoRequest
  <2> QED BY <2>1
<1>3. /\ FinishRequest(r) /\ UNCHANGED <<approvals, visible, asked>>
      /\ Log(e) \/ UNCHANGED entries
      /\ reviewItem' = [q.item EXCEPT !.complete = q.complete, !.open = q.open]
      /\ overwritten' = (overwritten \/ r \in raced)
  BY DEF SaveItemForm
<1>4. e \in LogRow /\ e.what \notin Publication
  BY <1>2 DEF LogRow, Publication
<1>5. /\ entries' \in Seq(LogRow) /\ (ItemLogged => ItemLogged') /\ PublicationsWereReviewed'
      /\ \A what \in Publication : LogSays(what)' = LogSays(what)
  <2>1. CASE Log(e)
    <3>1. \A what \in Publication : e.what # what
      BY <1>4
    <3> HIDE DEF e
    <3> QED BY <1>1, <1>4, <2>1, <3>1, LogGrows
  <2>2. CASE UNCHANGED entries
    BY <1>1, <2>2 DEF ItemLogged, LogSays, PublicationsWereReviewed
  <2> QED BY <1>3, <2>1, <2>2
<1>6. reviewItem' \in ReviewItem /\ reviewItem'.published = q.item.published
  BY <1>2, <1>3 DEF ReviewItem
<1>7. q.item.published => ItemLogged
  BY <1>1 DEF ReadOnce, Serving
<1>8. r \notin raced => q.item = reviewItem
  BY <1>1 DEF ReadOnce, Serving
<1>9. PublishedAsLogged'
  BY <1>1, <1>3, <1>5, <1>6, <1>7, <1>8 DEF PublishedAsLogged, Publication
<1>10. overwritten' \in BOOLEAN
  BY <1>1, <1>3
<1> QED BY <1>1, <1>3, <1>5, <1>6, <1>9, <1>10, OtherRequestInv

LEMMA LoadReviewInv ==
  ASSUME ReviewInv, HistoryKept, NEW r \in VisRequest,
         \/ \E d \in Developer, b \in BOOLEAN : LoadApproval(r, d, b)
         \/ \E what \in {"visualisation", "catalogue"}, b \in BOOLEAN : LoadPublish(r, what, b)
         \/ \E b, c \in BOOLEAN : LoadItemForm(r, b, c)
  PROVE  ReviewInv'
<1>1. reviewItem \in ReviewItem /\ approvals \in Seq(ApprovalRow) /\ Len(approvals) \in Nat
  BY LenProperties DEF ReviewInv, ReviewTypeOK
<1>2. ASSUME NEW d \in Developer, NEW b \in BOOLEAN, LoadApproval(r, d, b) PROVE ReviewInv'
  <2> DEFINE loaded == [kind |-> "approval", by |-> d, approve |-> b, mine |-> MyApproval(d)]
  <2>1. MyApproval(d) \in 0..Len(approvals) /\ (MyApproval(d) = 0 => ApprovalsBy(d) = {})
    BY <1>1, MyApprovalIs
  <2>2. loaded \in VisRequestType /\ loaded # NoRequest
    BY <1>1, <2>1 DEF VisRequestType, NoRequest
  <2>3. LoadPage(r, loaded)
    BY <1>2 DEF LoadApproval
  <2> QED BY <2>1, <2>2, <2>3, LoadPageInv
<1>3. ASSUME NEW what \in {"visualisation", "catalogue"}, NEW b \in BOOLEAN, LoadPublish(r, what, b)
      PROVE ReviewInv'
  <2> DEFINE loaded == [kind |-> "publish", what |-> what, publish |-> b, item |-> reviewItem,
                        at |-> IF what = "catalogue" THEN "template" ELSE "count",
                        visible |-> FALSE, approved |-> 0, by |-> {}]
  <2>2. loaded \in VisRequestType /\ loaded # NoRequest
    BY <1>1 DEF VisRequestType, NoRequest, Publication
  <2>3. LoadPage(r, loaded)
    BY <1>3 DEF LoadPublish
  <2> QED BY <1>1, <2>2, <2>3, LoadPageInv
<1>4. ASSUME NEW b \in BOOLEAN, NEW c \in BOOLEAN, LoadItemForm(r, b, c) PROVE ReviewInv'
  <2> DEFINE loaded == [kind |-> "item", complete |-> b, open |-> c, item |-> reviewItem]
  <2>2. loaded \in VisRequestType /\ loaded # NoRequest
    BY <1>1 DEF VisRequestType, NoRequest, Publication
  <2>3. LoadPage(r, loaded)
    BY <1>4 DEF LoadItemForm
  <2> QED BY <1>1, <2>2, <2>3, LoadPageInv
<1> QED BY <1>2, <1>3, <1>4

\* In every state, what a request has read was so at some moment, and is so still unless
\* another has changed a row; and there is an approval of its developer for each approval
\* that was logged (VisualisationApprovalForm, _set_published_on_visualisation).
THEOREM ReviewInvariance == ReviewSpec => []ReviewInv
<1>1. ReviewInv /\ [ReviewNext]_reviewVars => ReviewInv'
  <2> SUFFICES ASSUME ReviewInv, [ReviewNext]_reviewVars PROVE ReviewInv'
    OBVIOUS
  <2>1. CASE UNCHANGED reviewVars
    <3>1. ReviewTypeOK' /\ \A d : NewApprovals(d)' = NewApprovals(d) /\ ApprovalsBy(d)' = ApprovalsBy(d)
      BY <2>1 DEF reviewVars, ReviewInv, ReviewTypeOK, Approvals, ApprovalsBy, NewApprovals, Serving
    <3>2. PublicationsWereReviewed' /\ PublishedAsLogged' /\ ItemLogged' = ItemLogged
          /\ Standing' = Standing /\ IsApproved' = IsApproved
      BY <2>1, SameRowsKept DEF reviewVars
    <3>3. \A r \in VisRequest : ReadOnce(r)'
      BY <2>1, <3>2 DEF reviewVars, ReviewInv, ReadOnce, Serving
    <3> QED BY <2>1, <3>1, <3>2, <3>3 DEF reviewVars, ReviewInv, Serving
  <2>2. CASE ReviewNext
    <3>1. HistoryKept
      BY <2>2 DEF ReviewNext
    <3>2. PICK r \in VisRequest : VisView(r)
      BY <2>2 DEF ReviewNext
    <3> QED
      BY <3>1, <3>2, LoadReviewInv, SaveApprovalInv, ReadsOnInv, PublishInv, RefusePublishInv,
         SaveItemFormInv DEF VisView
  <2> QED BY <2>1, <2>2
<1> QED BY ReviewInitInv, <1>1, PTL DEF ReviewSpec

\* A publication has found its approvals, and what is published is what the log says last,
\* for any developers and requests that cross (_set_published_on_visualisation,
\* _set_published_on_catalogue_item).
THEOREM ReviewIsSafe == ReviewSpec => []ReviewSafety
<1>1. ReviewInv => ReviewSafety
  BY DEF ReviewInv, ReviewSafety
<1> QED BY <1>1, ReviewInvariance, PTL

(***************************************************************************)
(* Visualisations and their GitLab projects.                               *)
(***************************************************************************)
LEMMA ProjectInitInv == ProjectInit => ProjectInv
<1> SUFFICES ASSUME ProjectInit PROVE ProjectInv
  OBVIOUS
<1>1. NoName \in 0..MaxAttempts /\ Never \in 0..Never /\ 0 \in 0..MaxHour /\ 0 \in 0..MaxProjectRequests
  BY ProjectAssumption DEF NoName, Never
<1>2. \A r \in ProjectRequest : request[r] = Idle0 /\ request[r].kind = "none"
  BY DEF ProjectInit, Idle0
<1>3. ProjectTypes
  BY <1>1 DEF ProjectInit, ProjectTypes, ProjectRequestRow
<1>4. ProjectTypeOK
  BY <1>1 DEF ProjectInit, ProjectTypeOK, NoName
<1>5. CacheHolds /\ AnswersHold /\ DatasetsHold
  BY <1>2 DEF ProjectInit, CacheHolds, AnswersHold, DatasetsHold, RequestKind
<1> QED BY <1>3, <1>4, <1>5 DEF ProjectInit, ProjectInv

\* What a request of each kind holds.
LEMMA ProjectRequestIs ==
  ASSUME ProjectInv, NEW r \in ProjectRequest
  PROVE  /\ request[r] \in ProjectRequestRow
         /\ request[r].kind \in {"create", "shown", "error"} => request[r] \in
              [kind : {"create", "shown", "error"}, project : Project, attempt : 0..MaxAttempts]
         /\ request[r].kind \in {"asking", "answered", "admitted"} => request[r] \in
              [kind : {"asking", "answered", "admitted"}, by : ProjectDeveloper, at : 0..MaxHour]
         /\ RequestKind(r, "release") => request[r] \in [kind : {"release"}, commit : VisCommit, step : {1, 2}]
         /\ request[r].kind \in {"give", "remove"} => request[r] \in [kind : {"give", "remove"}, user : Viewer]
         /\ RequestKind(r, "datasets") => request[r] \in
              [kind : {"datasets"}, selectable : SUBSET Source, chosen : SUBSET Source,
               give : SUBSET Source, remove : SUBSET Source]
<1>1. request[r] \in ProjectRequestRow
  BY DEF ProjectInv, ProjectTypes
<1> QED BY <1>1 DEF ProjectRequestRow, RequestKind, Idle0

\* A request that goes on with n, at the same hour.
LEMMA ProjectRequestMoves ==
  ASSUME ProjectInv, NEW r \in ProjectRequest, NEW n \in ProjectRequestRow,
         request' = [request EXCEPT ![r] = n], UNCHANGED <<hour, wasMember>>,
         n.kind = "answered" => n.at <= wasMember[n.by] /\ hour <= n.at + 1,
         n.kind = "datasets" => n.give \subseteq n.selectable /\ n.remove \subseteq n.selectable
  PROVE  /\ request' \in [ProjectRequest -> ProjectRequestRow]
         /\ DatasetsHold' /\ AnswersHold'
         /\ ~(RequestKind(r, "release") /\ request[r].step = 2) \/ (n.kind = "release" /\ n.step = 2)
              => (StopIsDue => StopIsDue')
         /\ n.kind = "release" /\ n.step = 2 => StopIsDue'
<1>1. /\ request' \in [ProjectRequest -> ProjectRequestRow]
      /\ \A q \in ProjectRequest : request'[q] = IF q = r THEN n ELSE request[q]
  BY DEF ProjectInv, ProjectTypes
<1>5. AnswersHold'
  BY <1>1 DEF ProjectInv, AnswersHold, RequestKind
<1>2. DatasetsHold'
  BY <1>1 DEF ProjectInv, DatasetsHold, RequestKind
<1>3. n.kind = "release" /\ n.step = 2 => StopIsDue'
  BY <1>1 DEF StopIsDue, RequestKind
<1>4. ASSUME StopIsDue, ~(RequestKind(r, "release") /\ request[r].step = 2) \/ (n.kind = "release" /\ n.step = 2)
      PROVE  StopIsDue'
  <2>1. PICK q \in ProjectRequest : RequestKind(q, "release") /\ request[q].step = 2
    BY <1>4 DEF StopIsDue
  <2>2. RequestKind(q, "release")' /\ request'[q].step = 2
    BY <1>1, <1>4, <2>1 DEF RequestKind
  <2> QED BY <2>2 DEF StopIsDue
<1> QED BY <1>1, <1>2, <1>3, <1>4, <1>5

\* A request other than a release goes on; the instance and the tag stay.
LEMMA ProjectRequestSteps ==
  ASSUME ProjectInv, NEW r \in ProjectRequest, NEW n \in ProjectRequestRow,
         request' = [request EXCEPT ![r] = n],
         ~RequestKind(r, "release"),
         n.kind = "answered" => n.at <= wasMember[n.by] /\ hour <= n.at + 1,
         n.kind = "datasets" => n.give \subseteq n.selectable /\ n.remove \subseteq n.selectable,
         viewers' \subseteq Viewer, readable' \subseteq Source, template' \in [Project -> 0..MaxAttempts],
         \A p, q \in Project : p # q /\ template'[p] # NoName => template'[p] # template'[q],
         cachedAt' \in [ProjectDeveloper -> 0..Never], CacheHolds', requested' \in 0..MaxProjectRequests,
         UNCHANGED <<hour, member, wasMember, released, instance, abandoned, held>>
  PROVE  ProjectInv'
<1>1. /\ request' \in [ProjectRequest -> ProjectRequestRow] /\ DatasetsHold' /\ AnswersHold'
      /\ StopIsDue => StopIsDue'
  BY ProjectRequestMoves
<1>2. ProjectTypes'
  BY <1>1 DEF ProjectInv, ProjectTypes
<1>3. ProjectTypeOK'
  BY DEF ProjectInv, ProjectTypeOK
<1> QED BY <1>1, <1>2, <1>3 DEF ProjectInv

\* The check of the developer: what is asked, answered and cached.
LEMMA AdmissionInv ==
  ASSUME ProjectInv, NEW r \in ProjectRequest,
         \/ \E d \in ProjectDeveloper : Ask(r, d)
         \/ GitlabAnswers(r) \/ CacheAnswer(r)
  PROVE  ProjectInv'
<1>0. /\ viewers \subseteq Viewer /\ readable \subseteq Source /\ template \in [Project -> 0..MaxAttempts]
      /\ \A p, q \in Project : p # q /\ template[p] # NoName => template[p] # template[q]
      /\ requested \in 0..MaxProjectRequests /\ CacheHolds
      /\ hour \in 0..MaxHour /\ cachedAt \in [ProjectDeveloper -> 0..Never]
      /\ wasMember \in [ProjectDeveloper -> 0..MaxHour]
      /\ Idle0 \in ProjectRequestRow /\ Idle0.kind = "none" /\ 0 \in 0..MaxHour
  BY ProjectAssumption DEF ProjectInv, ProjectTypeOK, ProjectTypes, ProjectRequestRow, Idle0
<1>1. \A k \in {"asking", "answered", "admitted"}, d \in ProjectDeveloper, h \in 0..MaxHour :
        /\ Asked(k, d, h) \in ProjectRequestRow
        /\ Asked(k, d, h).kind = k /\ Asked(k, d, h).by = d /\ Asked(k, d, h).at = h
  BY DEF Asked, ProjectRequestRow
<1>2. ASSUME NEW d \in ProjectDeveloper, Ask(r, d) PROVE ProjectInv'
  <2>1. PICK k \in {"asking", "admitted"} : request' = [request EXCEPT ![r] = Asked(k, d, 0)]
    BY <1>2 DEF Ask
  <2>2. /\ ~RequestKind(r, "release")
        /\ UNCHANGED <<hour, member, wasMember, cachedAt, released, instance, abandoned, held, viewers,
                       readable, template>>
        /\ requested' \in 0..MaxProjectRequests
    BY <1>0, <1>2, ProjectAssumption DEF Ask, RequestKind, Idle0, gitlabVars, instanceVars, accessVars
  <2>3. CacheHolds'
    BY <1>0, <2>2 DEF CacheHolds
  <2>4. PICK n : n = Asked(k, d, 0)
    OBVIOUS
  <2>5. n \in ProjectRequestRow /\ n.kind \notin {"answered", "datasets"}
    BY <1>0, <1>1, <2>4
  <2> QED BY <1>0, <2>1, <2>2, <2>3, <2>4, <2>5, ProjectRequestSteps
<1>3. CASE GitlabAnswers(r)
  <2>1. /\ RequestKind(r, "asking") /\ ~RequestKind(r, "release") /\ request[r].by \in ProjectDeveloper
        /\ UNCHANGED <<hour, member, wasMember, cachedAt, released, instance, abandoned, held, viewers,
                       readable, template, requested>>
    BY <1>3, ProjectRequestIs DEF GitlabAnswers, RequestKind, gitlabVars, instanceVars, accessVars
  <2>2. PICK n \in ProjectRequestRow :
          /\ request' = [request EXCEPT ![r] = n] /\ n.kind # "datasets"
          /\ n.kind = "answered" => n.at = hour /\ n.by \in member /\ n.by \in ProjectDeveloper
    <3>1. CASE request[r].by \in member
      <4>1. PICK n : n = Asked("answered", request[r].by, hour)
        OBVIOUS
      <4>4. /\ Asked("answered", request[r].by, hour) \in ProjectRequestRow
            /\ Asked("answered", request[r].by, hour).kind = "answered"
            /\ Asked("answered", request[r].by, hour).by = request[r].by
            /\ Asked("answered", request[r].by, hour).at = hour
        BY <1>0, <1>1, <2>1
      <4>2. n \in ProjectRequestRow /\ n.kind = "answered" /\ n.at = hour /\ n.by = request[r].by
        BY <4>1, <4>4
      <4>3. request' = [request EXCEPT ![r] = n]
        BY <1>3, <3>1, <4>1 DEF GitlabAnswers
      <4> QED BY <2>1, <3>1, <4>2, <4>3
    <3>2. CASE request[r].by \notin member
      <4>1. request' = [request EXCEPT ![r] = Idle0]
        BY <1>3, <3>2 DEF GitlabAnswers, RequestEnds
      <4> QED BY <1>0, <4>1
    <3> QED BY <3>1, <3>2
  <2>3. n.kind = "answered" => n.at <= wasMember[n.by] /\ hour <= n.at + 1
    BY <1>0, <2>2 DEF CacheHolds
  <2>4. CacheHolds'
    BY <1>0, <2>1 DEF CacheHolds
  <2> QED BY <1>0, <2>1, <2>2, <2>3, <2>4, ProjectRequestSteps
<1>4. CASE CacheAnswer(r)
  <2>1. /\ RequestKind(r, "answered") /\ ~RequestKind(r, "release") /\ request[r].by \in ProjectDeveloper
        /\ request[r].at \in 0..MaxHour
        /\ cachedAt' = [cachedAt EXCEPT ![request[r].by] = hour]
        /\ UNCHANGED <<hour, member, wasMember, released, instance, abandoned, held, viewers, readable,
                       template, requested>>
    BY <1>4, ProjectRequestIs DEF CacheAnswer, RequestKind, instanceVars, accessVars
  <2>2. PICK n : n = Asked("admitted", request[r].by, 0)
    OBVIOUS
  <2>0. 0 \in 0..MaxHour
    BY ProjectAssumption
  <2>3. n \in ProjectRequestRow /\ n.kind = "admitted"
    BY <1>1, <2>1, <2>2, <2>0
  <2>4. request' = [request EXCEPT ![r] = n]
    BY <1>4, <2>2 DEF CacheAnswer
  <2>5. request[r].at <= wasMember[request[r].by] /\ hour <= request[r].at + 1
    BY <2>1 DEF ProjectInv, AnswersHold
  <2>6. hour <= wasMember[request[r].by] + 1
    BY <1>0, <2>1, <2>5
  <2>7. hour \in 0..Never
    BY <1>0, ProjectAssumption DEF Never
  <2>8. cachedAt' \in [ProjectDeveloper -> 0..Never]
    BY <1>0, <2>1, <2>7
  <2>9. CacheHolds'
    <3> SUFFICES ASSUME NEW e \in ProjectDeveloper
                 PROVE  /\ wasMember'[e] <= hour' /\ (e \in member' => wasMember'[e] = hour')
                        /\ cachedAt'[e] # Never =>
                             cachedAt'[e] <= hour' /\ cachedAt'[e] <= wasMember'[e] + 1
      BY DEF CacheHolds
    <3>1. cachedAt'[e] = IF e = request[r].by THEN hour ELSE cachedAt[e]
      BY <1>0, <2>1
    <3> QED BY <1>0, <2>1, <2>6, <3>1 DEF CacheHolds
  <2> QED BY <1>0, <2>1, <2>3, <2>4, <2>8, <2>9, ProjectRequestSteps
<1> QED BY <1>2, <1>3, <1>4

\* A request that goes on and changes neither tag nor instance.
LEMMA ProjectRequestGoes ==
  ASSUME ProjectInv, NEW r \in ProjectRequest, NEW n \in ProjectRequestRow,
         request' = [request EXCEPT ![r] = n],
         ~RequestKind(r, "release"), n.kind # "answered",
         n.kind = "datasets" => n.give \subseteq n.selectable /\ n.remove \subseteq n.selectable,
         viewers' \subseteq Viewer, readable' \subseteq Source, template' \in [Project -> 0..MaxAttempts],
         \A p, q \in Project : p # q /\ template'[p] # NoName => template'[p] # template'[q],
         UNCHANGED <<gitlabVars, released, instanceVars, held, requested>>
  PROVE  ProjectInv'
<1>1. UNCHANGED <<hour, member, wasMember, cachedAt, released, instance, abandoned, held, requested>>
  BY DEF gitlabVars, instanceVars
<1>2. /\ cachedAt' \in [ProjectDeveloper -> 0..Never] /\ CacheHolds'
      /\ requested' \in 0..MaxProjectRequests
  BY <1>1 DEF ProjectInv, ProjectTypes, ProjectTypeOK, CacheHolds
<1> QED BY <1>1, <1>2, ProjectRequestSteps

\* Requests other than releases.
LEMMA PagesOfProject ==
  ASSUME ProjectInv, NEW r \in ProjectRequest,
         \/ CreateTemplate(r) \/ LookAgain(r) \/ ProjectShown(r)
         \/ GiveAccess(r) \/ RemoveAccess(r)
         \/ \E s \in Source : GiveDataset(r, s) \/ RemoveDataset(r, s)
         \/ DatasetsSaved(r)
  PROVE  ProjectInv'
<1>0. /\ viewers \subseteq Viewer /\ readable \subseteq Source /\ template \in [Project -> 0..MaxAttempts]
      /\ \A p, q \in Project : p # q /\ template[p] # NoName => template[p] # template[q]
      /\ request \in [ProjectRequest -> ProjectRequestRow]
      /\ Idle0 \in ProjectRequestRow /\ Idle0.kind = "none"
  BY DEF ProjectInv, ProjectTypeOK, ProjectTypes, ProjectRequestRow, Idle0
<1>1. CASE CreateTemplate(r)
  <2>1. /\ RequestKind(r, "create") /\ request[r].attempt < MaxAttempts
        /\ UNCHANGED <<gitlabVars, released, instanceVars, viewers, readable, held, requested>>
        /\ request[r] \in [kind : {"create", "shown", "error"}, project : Project, attempt : 0..MaxAttempts]
    BY <1>1, ProjectRequestIs DEF CreateTemplate, accessVars, RequestKind
  <2>2. CASE NameIsFree(request[r].project, request[r].attempt)
    <3>1. /\ template' = [template EXCEPT ![request[r].project] = request[r].attempt]
          /\ request' = [request EXCEPT ![r] = Idle0]
      BY <1>1, <2>2 DEF CreateTemplate, RequestEnds
    <3>2. \A q \in Project : template[q] # request[r].attempt
      BY <2>2 DEF NameIsFree, Free
    <3>3. /\ template' \in [Project -> 0..MaxAttempts]
          /\ \A p, q \in Project : p # q /\ template'[p] # NoName => template'[p] # template'[q]
      BY <1>0, <2>1, <3>1, <3>2
    <3>4. ~RequestKind(r, "release")
      BY <2>1 DEF RequestKind
    <3> QED BY <1>0, <2>1, <3>1, <3>3, <3>4, ProjectRequestGoes
  <2>3. CASE ~NameIsFree(request[r].project, request[r].attempt)
    <3>1. /\ request' = [request EXCEPT ![r].attempt = request[r].attempt + 1]
          /\ UNCHANGED template
      BY <1>1, <2>3 DEF CreateTemplate
    <3>2. PICK n : n = [request[r] EXCEPT !.attempt = request[r].attempt + 1]
      OBVIOUS
    <3>3. request[r].attempt + 1 \in 0..MaxAttempts
      BY <2>1, ProjectAssumption
    <3>4. /\ n \in [kind : {"create", "shown", "error"}, project : Project, attempt : 0..MaxAttempts]
          /\ n.kind \notin {"answered", "datasets"}
      BY <2>1, <3>2, <3>3
    <3>5. n \in ProjectRequestRow /\ request' = [request EXCEPT ![r] = n] /\ ~RequestKind(r, "release")
      BY <2>1, <3>1, <3>2, <3>4 DEF ProjectRequestRow, RequestKind
    <3> QED BY <1>0, <2>1, <3>1, <3>4, <3>5, ProjectRequestGoes
  <2> QED BY <2>2, <2>3
<1>2. CASE LookAgain(r)
  <2>1. /\ RequestKind(r, "create")
        /\ UNCHANGED <<gitlabVars, template, released, instanceVars, viewers, readable, held, requested>>
        /\ request[r] \in [kind : {"create", "shown", "error"}, project : Project, attempt : 0..MaxAttempts]
    BY <1>2, ProjectRequestIs DEF LookAgain, accessVars, RequestKind
  <2>2. PICK k \in {"error", "shown"} : request' = [request EXCEPT ![r].kind = k]
    BY <1>2 DEF LookAgain
  <2>3. PICK n : n = [request[r] EXCEPT !.kind = k]
    OBVIOUS
  <2>4. /\ n \in [kind : {"create", "shown", "error"}, project : Project, attempt : 0..MaxAttempts]
        /\ n.kind \notin {"answered", "datasets"}
    BY <2>1, <2>2, <2>3
  <2>5. n \in ProjectRequestRow /\ request' = [request EXCEPT ![r] = n] /\ ~RequestKind(r, "release")
    BY <2>1, <2>2, <2>3, <2>4 DEF ProjectRequestRow, RequestKind
  <2> QED BY <1>0, <2>1, <2>4, <2>5, ProjectRequestGoes
<1>3. CASE ProjectShown(r) \/ GiveAccess(r) \/ RemoveAccess(r) \/ DatasetsSaved(r)
  <2>1. /\ request' = [request EXCEPT ![r] = Idle0] /\ ~RequestKind(r, "release")
        /\ UNCHANGED <<gitlabVars, template, released, instanceVars, readable, held, requested>>
    BY <1>3 DEF ProjectShown, GiveAccess, RemoveAccess, DatasetsSaved, RequestEnds, RequestKind, accessVars
  <2>2. viewers' \subseteq Viewer
    BY <1>0, <1>3, ProjectRequestIs
       DEF ProjectShown, GiveAccess, RemoveAccess, DatasetsSaved, RequestKind, accessVars
  <2> QED BY <1>0, <2>1, <2>2, ProjectRequestGoes
<1>4. CASE \E s \in Source : GiveDataset(r, s) \/ RemoveDataset(r, s)
  <2>1. PICK s \in Source : GiveDataset(r, s) \/ RemoveDataset(r, s)
    BY <1>4
  <2>2. /\ RequestKind(r, "datasets") /\ readable' \subseteq Source
        /\ UNCHANGED <<gitlabVars, template, released, instanceVars, viewers, held, requested>>
    BY <1>0, <2>1 DEF GiveDataset, RemoveDataset
  <2>3. /\ request[r] \in [kind : {"datasets"}, selectable : SUBSET Source, chosen : SUBSET Source,
                           give : SUBSET Source, remove : SUBSET Source]
        /\ request[r].give \subseteq request[r].selectable
        /\ request[r].remove \subseteq request[r].selectable
    BY <2>2, ProjectRequestIs DEF ProjectInv, DatasetsHold
  <2>4. PICK n : /\ n = [request[r] EXCEPT !.give = request[r].give \ {s}]
                      \/ n = [request[r] EXCEPT !.remove = request[r].remove \ {s}]
                 /\ request' = [request EXCEPT ![r] = n]
    <3>1. \/ request' = [request EXCEPT ![r].give = request[r].give \ {s}]
          \/ request' = [request EXCEPT ![r].remove = request[r].remove \ {s}]
      BY <2>1 DEF GiveDataset, RemoveDataset
    <3> QED BY <1>0, <3>1
  <2>5. /\ n \in [kind : {"datasets"}, selectable : SUBSET Source, chosen : SUBSET Source,
                  give : SUBSET Source, remove : SUBSET Source]
        /\ n.give \subseteq n.selectable /\ n.remove \subseteq n.selectable /\ n.kind # "answered"
    BY <2>3, <2>4
  <2>6. n \in ProjectRequestRow /\ ~RequestKind(r, "release")
    BY <2>2, <2>5 DEF ProjectRequestRow, RequestKind
  <2> QED BY <1>0, <2>2, <2>4, <2>5, <2>6, ProjectRequestGoes
<1> QED BY <1>1, <1>2, <1>3, <1>4

\* A release: once the tag is moved, the instance is about to be stopped, or left.
LEMMA ReleaseInv ==
  ASSUME ProjectInv, NEW r \in ProjectRequest, Retag(r) \/ StopInstance(r) \/ ReleaseFails(r)
  PROVE  ProjectInv'
<1>1. /\ request[r] \in [kind : {"release"}, commit : VisCommit, step : {1, 2}]
      /\ RequestKind(r, "release")
      /\ UNCHANGED <<hour, member, wasMember, cachedAt, template, viewers, readable, held, requested>>
  BY ProjectRequestIs DEF Retag, StopInstance, ReleaseFails, accessVars, gitlabVars
<1>2. PICK n \in ProjectRequestRow :
        /\ request' = [request EXCEPT ![r] = n] /\ n.kind \notin {"answered", "datasets"}
        /\ \/ /\ n.kind = "release" /\ n.step = 2 /\ UNCHANGED <<instance, abandoned>>
              /\ released' = request[r].commit
           \/ instance' = "none" /\ released' = released /\ abandoned' = FALSE
           \/ ReleaseFails(r)
  <2>0. Idle0 \in ProjectRequestRow /\ Idle0.kind \notin {"answered", "datasets"}
    BY DEF ProjectRequestRow, Idle0
  <2>1. CASE Retag(r)
    <3>1. /\ request' = [request EXCEPT ![r].step = 2] /\ released' = request[r].commit
          /\ UNCHANGED <<instance, abandoned>>
      BY <2>1 DEF Retag, RetagStep, instanceVars
    <3>2. PICK n : n = [request[r] EXCEPT !.step = 2]
      OBVIOUS
    <3>3. n \in [kind : {"release"}, commit : VisCommit, step : {1, 2}] /\ n.step = 2
      BY <1>1, <3>2
    <3>4. n \in ProjectRequestRow /\ request' = [request EXCEPT ![r] = n]
      BY <3>1, <3>2, <3>3 DEF ProjectRequestRow
    <3> QED BY <3>1, <3>3, <3>4
  <2>2. CASE StopInstance(r)
    <3>1. /\ request' = [request EXCEPT ![r] = Idle0] /\ instance' = "none" /\ released' = released
          /\ abandoned' = FALSE
      BY <2>2 DEF StopInstance, RetagStep, RequestEnds
    <3> QED BY <2>0, <3>1
  <2>3. CASE ReleaseFails(r)
    <3>1. request' = [request EXCEPT ![r] = Idle0]
      BY <2>3 DEF ReleaseFails, RequestEnds
    <3> QED BY <2>0, <2>3, <3>1
  <2> QED BY <2>1, <2>2, <2>3
<1>3. /\ request' \in [ProjectRequest -> ProjectRequestRow] /\ DatasetsHold' /\ AnswersHold'
      /\ n.kind = "release" /\ n.step = 2 => StopIsDue'
      /\ ~(RequestKind(r, "release") /\ request[r].step = 2) => (StopIsDue => StopIsDue')
  BY <1>1, <1>2, ProjectRequestMoves
<1>4. /\ instance' \in {"none", "starting", released'} \/ StopIsDue' \/ abandoned'
      /\ abandoned' \in BOOLEAN
  <2>1. CASE ReleaseFails(r)
    <3>1. /\ instance' = instance /\ released' = released
          /\ abandoned' = (abandoned \/ (request[r].step = 2 /\ instance \in VisCommit))
      BY <2>1 DEF ReleaseFails
    <3>2. instance \in {"none", "starting", released} \/ StopIsDue \/ abandoned
      BY DEF ProjectInv
    <3>3. instance \in VisCommit \cup {"none", "starting"} /\ abandoned \in BOOLEAN
      BY DEF ProjectInv, ProjectTypeOK, ProjectTypes
    <3> QED BY <1>1, <1>3, <3>1, <3>2, <3>3
  <2>2. CASE ~ReleaseFails(r)
    BY <1>2, <1>3, <2>2 DEF ProjectInv, ProjectTypes
  <2> QED BY <2>1, <2>2
<1>5. ProjectTypes'
  BY <1>1, <1>3, <1>4 DEF ProjectInv, ProjectTypes
<1>6. ProjectTypeOK'
  BY <1>1, <1>2 DEF ProjectInv, ProjectTypeOK, ReleaseFails
<1>7. CacheHolds'
  BY <1>1 DEF ProjectInv, CacheHolds
<1> QED BY <1>3, <1>4, <1>5, <1>6, <1>7 DEF ProjectInv

\* Time, GitLab, the visitors and the administrators.
LEMMA ProjectWorldInv ==
  ASSUME ProjectInv,
         \/ HourPasses \/ StartInstance \/ RunTask \/ InstanceEnds
         \/ \E d \in ProjectDeveloper :
              LeaveProject(d) \/ JoinProject(d) \/ \E s \in Source : LoseDataset(d, s)
  PROVE  ProjectInv'
<1>1. UNCHANGED <<cachedAt, template, released, viewers, readable, request, requested>>
  BY DEF HourPasses, StartInstance, RunTask, InstanceEnds, LeaveProject, JoinProject, LoseDataset,
         accessVars, gitlabVars
<1>2. DatasetsHold' /\ (StopIsDue => StopIsDue')
  BY <1>1 DEF ProjectInv, DatasetsHold, StopIsDue, RequestKind
<1>3. /\ instance' \in {"none", "starting", released'} \/ StopIsDue' \/ abandoned'
      /\ instance' \in VisCommit \cup {"none", "starting"} /\ abandoned' \in BOOLEAN
  BY <1>1, <1>2
     DEF ProjectInv, ProjectTypeOK, ProjectTypes, HourPasses, StartInstance, RunTask, InstanceEnds,
         LeaveProject, JoinProject, LoseDataset, instanceVars
<1>4. ProjectTypeOK'
  BY <1>1, <1>3 DEF ProjectInv, ProjectTypeOK
<1>0. /\ hour \in Nat /\ wasMember \in [ProjectDeveloper -> 0..MaxHour]
      /\ cachedAt \in [ProjectDeveloper -> 0..Never] /\ CacheHolds /\ AnswersHold
      /\ \A r \in ProjectRequest : RequestKind(r, "answered") =>
            request[r].by \in ProjectDeveloper /\ request[r].at \in Nat
  BY ProjectRequestIs DEF ProjectInv, ProjectTypes, RequestKind
<1>5. CASE HourPasses
  <2>1. /\ hour < MaxHour /\ hour' = hour + 1 /\ member' = member /\ held' = held
        /\ wasMember' = [d \in ProjectDeveloper |-> IF d \in member THEN hour + 1 ELSE wasMember[d]]
        /\ \A r \in ProjectRequest : RequestKind(r, "answered") => request[r].at = hour
    BY <1>5 DEF HourPasses, accessVars
  <2>2. hour' \in 0..MaxHour
    BY <2>1, ProjectAssumption DEF ProjectInv, ProjectTypes
  <2>3. ProjectTypes'
    BY <1>1, <1>3, <2>1, <2>2 DEF ProjectInv, ProjectTypes
  <2>4. \A e \in ProjectDeveloper : /\ wasMember'[e] \in Nat /\ wasMember[e] \in Nat
                                    /\ wasMember[e] <= wasMember'[e] /\ wasMember'[e] <= hour + 1
                                    /\ e \in member => wasMember'[e] = hour + 1
    <3> SUFFICES ASSUME NEW e \in ProjectDeveloper
                 PROVE  /\ wasMember'[e] \in Nat /\ wasMember[e] \in Nat
                        /\ wasMember[e] <= wasMember'[e] /\ wasMember'[e] <= hour + 1
                        /\ e \in member => wasMember'[e] = hour + 1
      OBVIOUS
    <3>1. wasMember[e] \in Nat /\ wasMember[e] <= hour /\ (e \in member => wasMember[e] = hour)
      BY <1>0 DEF CacheHolds
    <3>2. wasMember'[e] = IF e \in member THEN hour + 1 ELSE wasMember[e]
      BY <2>1
    <3> QED BY <1>0, <3>1, <3>2
  <2>5. CacheHolds'
    <3> SUFFICES ASSUME NEW e \in ProjectDeveloper
                 PROVE  /\ wasMember'[e] <= hour' /\ (e \in member' => wasMember'[e] = hour')
                        /\ cachedAt'[e] # Never =>
                             cachedAt'[e] <= hour' /\ cachedAt'[e] <= wasMember'[e] + 1
      BY DEF CacheHolds
    <3>1. cachedAt'[e] # Never => cachedAt'[e] <= hour /\ cachedAt'[e] <= wasMember[e] + 1
      BY <1>0, <1>1 DEF CacheHolds
    <3>2. cachedAt'[e] \in Nat
      BY <1>0, <1>1
    <3>3. /\ wasMember'[e] \in Nat /\ wasMember[e] \in Nat /\ hour \in Nat
          /\ wasMember[e] <= wasMember'[e] /\ wasMember'[e] <= hour + 1
          /\ (e \in member => wasMember'[e] = hour + 1)
      BY <1>0, <2>4
    <3>4. member' = member /\ hour' = hour + 1
      BY <2>1
    <3> QED BY <3>1, <3>2, <3>3, <3>4
  <2>6. AnswersHold'
    <3> SUFFICES ASSUME NEW r \in ProjectRequest, RequestKind(r, "answered")'
                 PROVE  request'[r].at <= wasMember'[request'[r].by] /\ hour' <= request'[r].at + 1
      BY DEF AnswersHold
    <3>1. RequestKind(r, "answered") /\ request'[r] = request[r]
      BY <1>1 DEF RequestKind
    <3>2. /\ request[r].by \in ProjectDeveloper /\ request[r].at \in Nat /\ request[r].at = hour
          /\ request[r].at <= wasMember[request[r].by]
      BY <1>0, <2>1, <3>1 DEF AnswersHold
    <3> QED BY <1>0, <2>1, <2>4, <3>1, <3>2
  <2> QED BY <1>2, <1>3, <1>4, <2>3, <2>5, <2>6 DEF ProjectInv
<1>6. CASE \E d \in ProjectDeveloper : JoinProject(d)
  <2>1. PICK d \in ProjectDeveloper : JoinProject(d)
    BY <1>6
  <2>2. /\ hour' = hour /\ member' = member \cup {d} /\ held' = held
        /\ wasMember' = [wasMember EXCEPT ![d] = hour]
    BY <2>1 DEF JoinProject, accessVars
  <2>3. ProjectTypes'
    BY <1>1, <1>3, <2>2 DEF ProjectInv, ProjectTypes
  <2>4. \A e \in ProjectDeveloper :
          /\ wasMember[e] \in Nat /\ wasMember'[e] = IF e = d THEN hour ELSE wasMember[e]
    BY <1>0, <2>2
  <2>5. CacheHolds'
    <3> SUFFICES ASSUME NEW e \in ProjectDeveloper
                 PROVE  /\ wasMember'[e] <= hour' /\ (e \in member' => wasMember'[e] = hour')
                        /\ cachedAt'[e] # Never =>
                             cachedAt'[e] <= hour' /\ cachedAt'[e] <= wasMember'[e] + 1
      BY DEF CacheHolds
    <3>1. cachedAt'[e] # Never => cachedAt'[e] <= hour /\ cachedAt'[e] <= wasMember[e] + 1
      BY <1>0, <1>1 DEF CacheHolds
    <3>2. cachedAt'[e] \in Nat
      BY <1>0, <1>1
    <3>3. wasMember[e] <= hour /\ (e \in member => wasMember[e] = hour)
      BY <1>0 DEF CacheHolds
    <3> QED BY <1>0, <2>2, <2>4, <3>1, <3>2, <3>3
  <2>6. AnswersHold'
    <3> SUFFICES ASSUME NEW r \in ProjectRequest, RequestKind(r, "answered")'
                 PROVE  request'[r].at <= wasMember'[request'[r].by] /\ hour' <= request'[r].at + 1
      BY DEF AnswersHold
    <3>1. RequestKind(r, "answered") /\ request'[r] = request[r]
      BY <1>1 DEF RequestKind
    <3>2. /\ request[r].by \in ProjectDeveloper /\ request[r].at \in Nat
          /\ request[r].at <= wasMember[request[r].by] /\ hour <= request[r].at + 1
      BY <1>0, <3>1 DEF AnswersHold
    <3>3. wasMember[request[r].by] <= hour
      BY <1>0, <3>2 DEF CacheHolds
    <3> QED BY <1>0, <2>2, <2>4, <3>1, <3>2, <3>3
  <2> QED BY <1>2, <1>3, <1>4, <2>3, <2>5, <2>6 DEF ProjectInv
<1>7. CASE ~HourPasses /\ ~\E d \in ProjectDeveloper : JoinProject(d)
  <2>1. /\ hour' = hour /\ wasMember' = wasMember /\ member' \subseteq member
        /\ held' \in [ProjectDeveloper -> SUBSET Source]
    BY <1>7 DEF ProjectInv, ProjectTypes, StartInstance, RunTask, InstanceEnds, LeaveProject, LoseDataset,
                gitlabVars, accessVars
  <2>2. ProjectTypes'
    BY <1>1, <1>3, <2>1 DEF ProjectInv, ProjectTypes
  <2>3. CacheHolds'
    BY <1>0, <1>1, <2>1 DEF CacheHolds
  <2>4. AnswersHold'
    BY <1>0, <1>1, <2>1 DEF AnswersHold, RequestKind
  <2> QED BY <1>2, <1>3, <1>4, <2>2, <2>3, <2>4 DEF ProjectInv
<1> QED BY <1>5, <1>6, <1>7

\* An admitted request begins with nothing done and, for datasets, with what its developer
\* may select.
LEMMA BeginRequestInv ==
  ASSUME ProjectInv, NEW r \in ProjectRequest, NEW n \in ProjectRequestRow, BeginRequest(r, n),
         n.kind # "answered",
         n.kind = "datasets" => n.give \subseteq n.selectable /\ n.remove \subseteq n.selectable
  PROVE  ProjectInv'
<1>1. /\ request' = [request EXCEPT ![r] = n] /\ ~RequestKind(r, "release")
      /\ UNCHANGED <<gitlabVars, template, released, instanceVars, viewers, readable, held, requested>>
  BY DEF BeginRequest, RequestKind, accessVars
<1>2. /\ viewers' \subseteq Viewer /\ readable' \subseteq Source /\ template' \in [Project -> 0..MaxAttempts]
      /\ \A p, q \in Project : p # q /\ template'[p] # NoName => template'[p] # template'[q]
  BY <1>1 DEF ProjectInv, ProjectTypeOK
<1> QED BY <1>1, <1>2, ProjectRequestGoes

LEMMA BeginsProject ==
  ASSUME ProjectInv, NEW r \in ProjectRequest,
         \/ \E p \in Project : OpenProject(r, p)
         \/ \E c \in VisCommit : BeginRelease(r, c)
         \/ \E u \in Viewer : BeginGive(r, u) \/ BeginRemove(r, u)
         \/ RequestKind(r, "admitted") /\ \E chosen \in SUBSET Source : BeginDatasets(r, chosen)
  PROVE  ProjectInv'
<1>1. ASSUME NEW p \in Project, OpenProject(r, p) PROVE ProjectInv'
  <2>1. PICK n : /\ n = [kind |-> IF template[p] = NoName THEN "create" ELSE "shown",
                         project |-> p, attempt |-> 0]
                 /\ BeginRequest(r, n)
    BY <1>1 DEF OpenProject
  <2>2. 0 \in 0..MaxAttempts
    BY ProjectAssumption
  <2>3. n \in ProjectRequestRow /\ n.kind \in {"create", "shown"}
    BY <2>1, <2>2 DEF ProjectRequestRow
  <2> QED BY <2>1, <2>3, BeginRequestInv
<1>2. ASSUME NEW c \in VisCommit, BeginRelease(r, c) PROVE ProjectInv'
  <2>1. PICK n : n = [kind |-> "release", commit |-> c, step |-> 1] /\ BeginRequest(r, n)
    BY <1>2 DEF BeginRelease
  <2>2. n \in ProjectRequestRow /\ n.kind = "release"
    BY <2>1 DEF ProjectRequestRow
  <2> QED BY <2>1, <2>2, BeginRequestInv
<1>3. ASSUME NEW u \in Viewer, BeginGive(r, u) \/ BeginRemove(r, u) PROVE ProjectInv'
  <2>1. PICK k \in {"give", "remove"} : BeginRequest(r, [kind |-> k, user |-> u])
    BY <1>3 DEF BeginGive, BeginRemove
  <2>2. PICK n : n = [kind |-> k, user |-> u] /\ BeginRequest(r, n)
    BY <2>1
  <2>3. n \in ProjectRequestRow /\ n.kind \in {"give", "remove"}
    BY <2>2 DEF ProjectRequestRow
  <2> QED BY <2>2, <2>3, BeginRequestInv
<1>4. ASSUME NEW chosen \in SUBSET Source, RequestKind(r, "admitted"), BeginDatasets(r, chosen)
      PROVE  ProjectInv'
  <2>0. PICK mine : mine = held[request[r].by]
    OBVIOUS
  <2>1. PICK n : /\ n = [kind |-> "datasets", selectable |-> mine, chosen |-> chosen,
                         give |-> (chosen \cap mine) \ readable,
                         remove |-> (readable \cap mine) \ chosen]
                 /\ BeginRequest(r, n)
    BY <1>4, <2>0 DEF BeginDatasets
  <2>2. mine \in SUBSET Source
    BY <1>4, <2>0, ProjectRequestIs DEF ProjectInv, ProjectTypes, RequestKind
  <2>3. /\ n \in ProjectRequestRow /\ n.kind = "datasets"
        /\ n.give \subseteq n.selectable /\ n.remove \subseteq n.selectable
    BY <2>1, <2>2 DEF ProjectRequestRow
  <2> QED BY <2>1, <2>3, BeginRequestInv
<1> QED BY <1>1, <1>2, <1>3, <1>4

\* The strengthened invariant holds in every reachable state.
THEOREM ProjectInvariance == ProjectSpec => []ProjectInv
<1>1. ProjectInv /\ [ProjectNext]_projectVars => ProjectInv'
  <2> SUFFICES ASSUME ProjectInv, [ProjectNext]_projectVars PROVE ProjectInv'
    OBVIOUS
  <2>1. ASSUME NEW r \in ProjectRequest, ProjectView(r) PROVE ProjectInv'
    BY <2>1, AdmissionInv, BeginsProject, PagesOfProject, ReleaseInv DEF ProjectView
  <2>2. CASE UNCHANGED projectVars
    BY <2>2 DEF projectVars, gitlabVars, accessVars, ProjectInv, ProjectTypes, ProjectTypeOK, CacheHolds,
                AnswersHold, DatasetsHold, StopIsDue, RequestKind
  <2> QED BY <2>1, <2>2, ProjectWorldInv DEF ProjectNext
<1> QED BY <1>1, ProjectInitInv, PTL DEF ProjectSpec

\* Only the cache and the answer of GitLab admit a request.
LEMMA OnlyAdmissionAdmits ==
  ASSUME ProjectInv, ProjectNext, NEW r \in ProjectRequest,
         ~RequestKind(r, "admitted"), RequestKind(r, "admitted")'
  PROVE  \E q \in ProjectRequest : (\E d \in ProjectDeveloper : Ask(q, d)) \/ CacheAnswer(q)
<1>1. request \in [ProjectRequest -> ProjectRequestRow]
  BY DEF ProjectInv, ProjectTypes
<1>2. UNCHANGED request => FALSE
  BY DEF RequestKind
<1>3. PICK q \in ProjectRequest : ProjectView(q)
  BY <1>2 DEF ProjectNext, HourPasses, StartInstance, RunTask, InstanceEnds, LeaveProject, JoinProject, LoseDataset
<1>4. ASSUME NEW n, n.kind # "admitted", request' = [request EXCEPT ![q] = n] PROVE FALSE
  BY <1>1, <1>4 DEF RequestKind
<1>5. GitlabAnswers(q) => FALSE
  <2>1. Idle0.kind # "admitted" /\ Asked("answered", request[q].by, hour).kind # "admitted"
    BY DEF Idle0, Asked
  <2> QED BY <1>4, <2>1 DEF GitlabAnswers, RequestEnds
<1>6. ASSUME NEW n, n.kind # "admitted", BeginRequest(q, n) PROVE FALSE
  BY <1>4, <1>6 DEF BeginRequest
<1>7. /\ \A p \in Project : OpenProject(q, p) => FALSE
      /\ \A c \in VisCommit : BeginRelease(q, c) => FALSE
      /\ \A u \in Viewer : BeginGive(q, u) \/ BeginRemove(q, u) => FALSE
      /\ \A chosen \in SUBSET Source : BeginDatasets(q, chosen) => FALSE
  <2>1. ASSUME NEW p \in Project, OpenProject(q, p) PROVE FALSE
    BY <1>6, <2>1 DEF OpenProject
  <2>2. ASSUME NEW c \in VisCommit, BeginRelease(q, c) PROVE FALSE
    BY <1>6, <2>2 DEF BeginRelease
  <2>3. ASSUME NEW u \in Viewer, BeginGive(q, u) PROVE FALSE
    BY <1>6, <2>3 DEF BeginGive
  <2>4. ASSUME NEW u \in Viewer, BeginRemove(q, u) PROVE FALSE
    BY <1>6, <2>4 DEF BeginRemove
  <2>5. ASSUME NEW chosen \in SUBSET Source, BeginDatasets(q, chosen) PROVE FALSE
    <3> DEFINE mine == held[request[q].by]
               n == [kind |-> "datasets", selectable |-> mine, chosen |-> chosen,
                     give |-> (chosen \cap mine) \ readable,
                     remove |-> (readable \cap mine) \ chosen]
    <3>1. n.kind # "admitted"
      OBVIOUS
    <3>2. BeginRequest(q, n)
      BY <2>5 DEF BeginDatasets
    <3> HIDE DEF n
    <3> QED BY <1>6, <3>1, <3>2
  <2> QED BY <2>1, <2>2, <2>3, <2>4, <2>5
<1>8. ASSUME NEW q1 \in ProjectRequest, RequestEnds(q1) PROVE FALSE
  BY <1>1, <1>8 DEF RequestEnds, RequestKind, Idle0
<1>9. ~(Retag(q) \/ CreateTemplate(q) \/ LookAgain(q)) /\ ~\E s \in Source : GiveDataset(q, s) \/ RemoveDataset(q, s)
  <2>1. ASSUME request'[q].kind \in {"release", "datasets", "create", "shown", "error", "none"},
               \A p \in ProjectRequest \ {q} : request'[p] = request[p]
        PROVE  FALSE
    BY <2>1 DEF RequestKind
  <2>2. Retag(q) => request'[q].kind = "release" /\ \A p \in ProjectRequest \ {q} : request'[p] = request[p]
    BY <1>1, ProjectRequestIs DEF Retag, RetagStep, RequestKind
  <2>3. CreateTemplate(q) => FALSE
    <3>1. ASSUME CreateTemplate(q), request' = [request EXCEPT ![q].attempt = request[q].attempt + 1]
          PROVE  request'[q].kind = "create" /\ \A p \in ProjectRequest \ {q} : request'[p] = request[p]
      BY <1>1, <3>1, ProjectRequestIs DEF CreateTemplate, RequestKind
    <3> QED BY <1>8, <2>1, <3>1 DEF CreateTemplate
  <2>4. LookAgain(q) => request'[q].kind \in {"shown", "error"} /\ \A p \in ProjectRequest \ {q} : request'[p] = request[p]
    BY <1>1, ProjectRequestIs DEF LookAgain, RequestKind
  <2>5. ASSUME NEW s \in Source, GiveDataset(q, s) \/ RemoveDataset(q, s)
        PROVE  request'[q].kind = "datasets" /\ \A p \in ProjectRequest \ {q} : request'[p] = request[p]
    BY <1>1, <2>5, ProjectRequestIs DEF GiveDataset, RemoveDataset, RequestKind
  <2> QED BY <2>1, <2>2, <2>3, <2>4, <2>5
<1> QED BY <1>3, <1>5, <1>7, <1>8, <1>9
        DEF ProjectView, ProjectShown, StopInstance, ReleaseFails, GiveAccess, RemoveAccess, DatasetsSaved, RetagStep

(* What the pages of a GitLab project promise, whatever their number, the      *)
(* bound on the requests and the time a membership is cached                   *)
(* (_application_template, gitlab_has_developer_access, retag and              *)
(* visualisation_datasets_html_POST of apps/applications): types, templates    *)
(* of their own and releases that reach the users (or failed after their tag)  *)
(* in every state, and of every step that a template stays, that a membership  *)
(* is of the last hours, and that only what a developer could select is        *)
(* changed.                                                                    *)
THEOREM ProjectIsKept == ProjectSpec => ProjectPromise
<1>1. ProjectInv => ProjectTypeOK /\ ReleaseReachesUsers
  BY DEF ProjectInv, ReleaseReachesUsers, StopIsDue
<1>2. ProjectInv /\ [ProjectNext]_projectVars =>
        [\A p \in Project : template[p] # NoName => template'[p] = template[p]]_projectVars
  <2> SUFFICES ASSUME ProjectInv, ProjectNext, NEW p \in Project, template[p] # NoName
               PROVE  template'[p] = template[p]
    OBVIOUS
  <2>1. CASE UNCHANGED template
    BY <2>1
  <2>2. CASE \E r \in ProjectRequest : CreateTemplate(r)
    <3>1. PICK r \in ProjectRequest : CreateTemplate(r)
      BY <2>2
    <3>2. template' # template =>
            /\ template[request[r].project] = NoName
            /\ template' = [template EXCEPT ![request[r].project] = request[r].attempt]
      BY <3>1 DEF CreateTemplate, NameIsFree, Free
    <3> QED BY <3>2 DEF ProjectInv, ProjectTypeOK
  <2>3. UNCHANGED template \/ \E r \in ProjectRequest : CreateTemplate(r)
    <3>1. ASSUME NEW r \in ProjectRequest, ProjectView(r)
          PROVE  UNCHANGED template \/ CreateTemplate(r)
      BY <3>1 DEF ProjectView, Ask, GitlabAnswers, CacheAnswer, ReleaseFails, OpenProject, BeginRelease, BeginGive, BeginRemove, BeginDatasets,
                  BeginRequest, LookAgain, ProjectShown, Retag, StopInstance, GiveAccess,
                  RemoveAccess, GiveDataset, RemoveDataset, DatasetsSaved
    <3>2. (\E r \in ProjectRequest : ProjectView(r)) \/ UNCHANGED template
      BY DEF ProjectNext, HourPasses, StartInstance, RunTask, InstanceEnds, LeaveProject, JoinProject,
             LoseDataset
    <3> QED BY <3>1, <3>2
  <2> QED BY <2>1, <2>2, <2>3
<1>3. ProjectInv /\ ProjectInv' /\ [ProjectNext]_projectVars =>
        [/\ \A d \in ProjectDeveloper : Cached(d)' => hour' <= wasMember'[d] + CacheHours
         /\ \A r \in ProjectRequest :
              ~RequestKind(r, "admitted") /\ RequestKind(r, "admitted")' =>
                hour' <= wasMember'[request'[r].by] + CacheHours]_projectVars
  <2> SUFFICES ASSUME ProjectInv, ProjectInv', ProjectNext
               PROVE  /\ \A d \in ProjectDeveloper : Cached(d)' => hour' <= wasMember'[d] + CacheHours
                      /\ \A r \in ProjectRequest :
                           ~RequestKind(r, "admitted") /\ RequestKind(r, "admitted")' =>
                             hour' <= wasMember'[request'[r].by] + CacheHours
    OBVIOUS
  <2>1. ASSUME NEW d \in ProjectDeveloper, Cached(d)' PROVE hour' <= wasMember'[d] + CacheHours
    <3>1. cachedAt'[d] # Never /\ hour' < cachedAt'[d] + CacheHours
      BY <2>1 DEF Cached
    <3>2. cachedAt'[d] # Never => cachedAt'[d] <= wasMember'[d] + 1
      BY DEF ProjectInv, CacheHolds
    <3>3. hour' \in Nat /\ cachedAt'[d] \in Nat /\ wasMember'[d] \in Nat
      BY DEF ProjectInv, ProjectTypes
    <3> QED BY <3>1, <3>2, <3>3, ProjectAssumption
  <2>2. ASSUME NEW r \in ProjectRequest, ~RequestKind(r, "admitted"), RequestKind(r, "admitted")'
        PROVE  hour' <= wasMember'[request'[r].by] + CacheHours
    <3>1. PICK q \in ProjectRequest : (\E d \in ProjectDeveloper : Ask(q, d)) \/ CacheAnswer(q)
      BY <2>2, OnlyAdmissionAdmits
    <3>2. request \in [ProjectRequest -> ProjectRequestRow]
      BY DEF ProjectInv, ProjectTypes
    <3>3. CASE CacheAnswer(q)
      <4>1. /\ request' = [request EXCEPT ![q] = Asked("admitted", request[q].by, 0)]
            /\ RequestKind(q, "answered") /\ UNCHANGED <<hour, wasMember>>
        BY <3>3 DEF CacheAnswer
      <4>2. r = q /\ request'[r].by = request[q].by
        BY <2>2, <3>2, <4>1 DEF RequestKind, Asked
      <4>3. /\ request[q].at <= wasMember[request[q].by] /\ hour <= request[q].at + 1
            /\ request[q].by \in ProjectDeveloper /\ request[q].at \in Nat
        BY <4>1, ProjectRequestIs DEF ProjectInv, AnswersHold, RequestKind
      <4>4. hour \in Nat /\ wasMember[request[q].by] \in Nat
        BY <4>3 DEF ProjectInv, ProjectTypes
      <4> QED BY <4>1, <4>2, <4>3, <4>4, ProjectAssumption
    <3>4. ASSUME NEW d \in ProjectDeveloper, Ask(q, d) PROVE hour' <= wasMember'[request'[r].by] + CacheHours
      <4>1. /\ request' = [request EXCEPT ![q] = Asked(IF Cached(d) THEN "admitted" ELSE "asking", d, 0)]
            /\ UNCHANGED <<hour, wasMember, cachedAt>>
        BY <3>4 DEF Ask, gitlabVars
      <4>2. Cached(d) /\ request'[r].by = d
        BY <2>2, <3>2, <4>1 DEF RequestKind, Asked
      <4>3. Cached(d)'
        BY <4>1, <4>2 DEF Cached
      <4> QED BY <2>1, <4>2, <4>3
    <3> QED BY <3>1, <3>3, <3>4
  <2> QED BY <2>1, <2>2
<1>4. ProjectInv /\ [ProjectNext]_projectVars =>
        [\A s \in Source : (s \in readable) # (s \in readable') =>
           \E r \in ProjectRequest : RequestKind(r, "datasets") /\ s \in request[r].selectable]_projectVars
  <2> SUFFICES ASSUME ProjectInv, ProjectNext, NEW s \in Source, (s \in readable) # (s \in readable')
               PROVE  \E r \in ProjectRequest : RequestKind(r, "datasets") /\ s \in request[r].selectable
    OBVIOUS
  <2>1. PICK r \in ProjectRequest, t \in Source : GiveDataset(r, t) \/ RemoveDataset(r, t)
    BY DEF ProjectNext, ProjectView, HourPasses, StartInstance, RunTask, InstanceEnds, LeaveProject,
           JoinProject, LoseDataset, Ask, GitlabAnswers, CacheAnswer, ReleaseFails,
           OpenProject, BeginRelease, BeginGive, BeginRemove, BeginDatasets, BeginRequest, CreateTemplate,
           LookAgain, ProjectShown, Retag, StopInstance, GiveAccess, RemoveAccess, DatasetsSaved, accessVars
  <2>2. s = t
    BY <2>1 DEF GiveDataset, RemoveDataset
  <2>3. /\ RequestKind(r, "datasets")
        /\ s \in request[r].give \/ s \in request[r].remove
    BY <2>1, <2>2 DEF GiveDataset, RemoveDataset, ToRemove
  <2>4. /\ request[r].give \subseteq request[r].selectable
        /\ request[r].remove \subseteq request[r].selectable
    BY <2>3 DEF ProjectInv, DatasetsHold
  <2> QED BY <2>3, <2>4
<1> QED BY <1>1, <1>2, <1>3, <1>4, ProjectInvariance, PTL
        DEF ProjectSpec, ProjectPromise, TemplateStays, GitlabAccessIsFresh, OnlySelectableChanges

(***************************************************************************)
(* The wizards that ask for data and for access.                           *)
(***************************************************************************)
LEMMA TicketsOfFinite ==
  ASSUME tickets \in Seq([of : Form, row : FormRowType])
  PROVE  \A q : IsFiniteSet(TicketsOf(q)) /\ Cardinality(TicketsOf(q)) \in Nat
<1>1. IsFiniteSet(1 .. Len(tickets))
  BY LenProperties, FS_Interval
<1>2. \A q : TicketsOf(q) \in SUBSET (1 .. Len(tickets))
  BY DEF TicketsOf
<1> QED BY <1>1, <1>2, FS_Subset, FS_CardinalityType

LEMMA FormInitInv == FormInit => FormInv
<1> SUFFICES ASSUME FormInit PROVE FormInv
  OBVIOUS
<1>1. tickets \in Seq([of : Form, row : FormRowType]) /\ Len(tickets) = 0
  BY EmptySeq DEF FormInit
<1>2. \A q : TicketsOf(q) = {}
  BY <1>1 DEF TicketsOf
<1>3. \A q \in Form : ~TicketKnown(q) /\ excused[q] = 0 /\ formRow[q] = NoRow
  BY DEF FormInit, TicketKnown, TabOn
<1>4. TicketsExcused
  BY <1>2, <1>3, FS_EmptySet DEF TicketsExcused
<1>5. formTab \in [FormTab -> FormTabType] /\ FormTabInv
  <2>1. \A t \in FormTab : formTab[t] = [at |-> "away"] /\ [at |-> "away"] \in FormTabType
    BY DEF FormInit, FormTabType
  <2>2. formTab \in [FormTab -> FormTabType]
    BY <2>1 DEF FormInit
  <2> QED BY <2>1, <2>2 DEF FormTabInv, TabOn
<1>6. DataTicketsAreComplete
  BY <1>1 DEF DataTicketsAreComplete
<1>7. formRow \in [Form -> {NoRow} \cup FormRowType] /\ excused \in [Form -> Nat]
  BY DEF FormInit
<1> QED BY <1>1, <1>3, <1>4, <1>5, <1>6, <1>7 DEF FormInv

\* A tab that goes from page to page changes nothing but what it shows.
LEMMA TabMovesInv ==
  ASSUME FormInv, NEW t \in FormTab, NEW s \in FormTabType,
         formTab' = [formTab EXCEPT ![t] = s], UNCHANGED <<formRow, tickets, excused>>,
         formTab[t].at # "save", s.at # "save",
         s.at # "away" => formRow[s.of] # NoRow,
         s.at \in {"answer", "ticket"} => TicketIs(s.row, s.of),
         s.at = "ticket" => s.row.ticket = 0 /\ Complete(s.row),
         s.at = "confirmed" => TicketsOf(s.of) # {}
  PROVE  FormInv'
<1>1. /\ formTab \in [FormTab -> FormTabType] /\ formTab' \in [FormTab -> FormTabType]
      /\ \A u \in FormTab : formTab'[u] = IF u = t THEN s ELSE formTab[u]
  BY DEF FormInv
<1>2. \A q : TicketsOf(q)' = TicketsOf(q)
  BY DEF TicketsOf
<1>3. \A q \in Form : TicketKnown(q)' = TicketKnown(q)
  BY <1>1 DEF TicketKnown, TabOn
<1>4. TicketsExcused'
  BY <1>2, <1>3 DEF TicketsExcused, FormInv
<1>5. FormTabInv'
  BY <1>1, <1>2 DEF FormTabInv, FormInv, TabOn, RowOf, TicketIs
<1>6. \A q \in Form : formRow'[q] # NoRow => TicketIs(formRow[q], q)'
  BY <1>2 DEF FormInv, TicketIs
<1> QED BY <1>1, <1>4, <1>5, <1>6 DEF FormInv, DataTicketsAreComplete

\* What a tab shows.
LEMMA TabIs ==
  ASSUME FormInv, NEW t \in FormTab
  PROVE  /\ formTab[t] \in FormTabType
         /\ formTab[t].at # "away" => formTab[t].of \in Form /\ RowOf(t) \in FormRowType
         /\ TabOn(t, "page") => formTab[t].page \in FormPage /\ formTab[t].change \in BOOLEAN
         /\ TabOn(t, "answer") =>
              /\ formTab[t].page \in FormPage \ {"check"} /\ formTab[t].change \in BOOLEAN
         /\ formTab[t].at \in {"answer", "ticket", "save"} => formTab[t].row \in FormRowType
<1>1. formTab[t] \in FormTabType
  BY DEF FormInv
<1>2. formTab[t].at # "away" => formTab[t].of \in Form
  BY <1>1 DEF FormTabType
<1>3. formTab[t].at # "away" => RowOf(t) \in FormRowType
  BY <1>2 DEF FormInv, FormTabInv, TabOn, RowOf
<1>4. TabOn(t, "page") => formTab[t].page \in FormPage /\ formTab[t].change \in BOOLEAN
  BY <1>1 DEF FormTabType, TabOn
<1>5. TabOn(t, "answer") => formTab[t].page \in FormPage \ {"check"} /\ formTab[t].change \in BOOLEAN
  BY <1>1 DEF FormTabType, TabOn
<1>6. formTab[t].at \in {"answer", "ticket", "save"} => formTab[t].row \in FormRowType
  BY <1>1 DEF FormTabType
<1> QED BY <1>1, <1>2, <1>3, <1>4, <1>5, <1>6

LEMMA StartInv ==
  ASSUME FormInv, NEW t \in FormTab, NEW q \in Form, NEW row \in FormRowType, NEW page \in FormPage,
         TabOn(t, "away"), formRow[q] = NoRow, row.ticket = 0,
         formRow' = [formRow EXCEPT ![q] = row], Shows(t, q, page), UNCHANGED <<tickets, excused>>
  PROVE  FormInv'
<1> DEFINE s == [at |-> "page", of |-> q, page |-> page, change |-> FALSE]
<1>1. s \in FormTabType
  BY DEF FormTabType
<1>2. /\ formTab \in [FormTab -> FormTabType] /\ formTab' \in [FormTab -> FormTabType]
      /\ \A u \in FormTab : formTab'[u] = IF u = t THEN s ELSE formTab[u]
  BY <1>1 DEF FormInv, Shows
<1>3. row # NoRow
  BY DEF NoRow, FormRowType
<1>4. /\ formRow' \in [Form -> {NoRow} \cup FormRowType]
      /\ \A p \in Form : formRow'[p] = IF p = q THEN row ELSE formRow[p]
  BY DEF FormInv
<1>5. \A p : TicketsOf(p)' = TicketsOf(p)
  BY DEF TicketsOf
<1>6. \A p \in Form : TicketKnown(p)' = TicketKnown(p)
  BY <1>2, <1>4 DEF TicketKnown, TabOn
<1>7. TicketsExcused'
  BY <1>5, <1>6 DEF TicketsExcused, FormInv
<1>8. \A p \in Form : formRow'[p] # NoRow => TicketIs(formRow[p], p)'
  BY <1>4, <1>5 DEF FormInv, TicketIs
<1>9. FormTabInv'
  <2> SUFFICES ASSUME NEW u \in FormTab
      PROVE /\ ~TabOn(u, "away")' => RowOf(u)' # NoRow
            /\ formTab'[u].at \in {"answer", "ticket", "save"} => TicketIs(formTab[u].row, formTab[u].of)'
            /\ TabOn(u, "ticket")' => formTab'[u].row.ticket = 0 /\ Complete(formTab[u].row)'
            /\ TabOn(u, "save")' => formTab'[u].row.ticket # 0
            /\ TabOn(u, "confirmed")' => TicketsOf(formTab[u].of)' # {}
    BY DEF FormTabInv
  <2>1. CASE u = t
    BY <1>2, <1>3, <1>4, <2>1 DEF TabOn, RowOf
  <2>2. CASE u # t
    <3>1. formTab'[u] = formTab[u] /\ (formTab[u].at # "away" => formTab[u].of \in Form)
      BY <1>2, <2>2, TabIs
    <3> QED BY <1>3, <1>4, <1>5, <3>1 DEF FormInv, FormTabInv, TabOn, RowOf, TicketIs, Complete
  <2> QED BY <2>1, <2>2
<1> QED BY <1>2, <1>4, <1>7, <1>8, <1>9 DEF FormInv, DataTicketsAreComplete

LEMMA StartsInv ==
  ASSUME FormInv, NEW t \in FormTab, NEW q \in Form,
         \/ StartDataRequest(t, q) \/ StartToolsRequest(t, q)
         \/ \E toolsToo \in BOOLEAN : StartDatasetRequest(t, q, toolsToo)
  PROVE  FormInv'
<1>1. \A kind \in {"data", "tools", "dataset", "both"} :
        /\ Rows(kind) \in FormRowType /\ Rows(kind).ticket = 0
        /\ [Rows(kind) EXCEPT !.given = {"dataset"}] \in FormRowType
        /\ [Rows(kind) EXCEPT !.given = {"dataset"}].ticket = 0
  BY DEF Rows, FormRowType, FormPage
<1>2. {"who", "tools-1", "check"} \subseteq FormPage
  BY DEF FormPage
<1>3. CASE StartDataRequest(t, q)
  BY <1>1, <1>2, <1>3, StartInv DEF StartDataRequest
<1>4. CASE StartToolsRequest(t, q)
  BY <1>1, <1>2, <1>4, StartInv DEF StartToolsRequest
<1>5. ASSUME NEW toolsToo \in BOOLEAN, StartDatasetRequest(t, q, toolsToo) PROVE FormInv'
  <2> DEFINE page == IF toolsToo THEN "tools-1" ELSE "check"
  <2>1. page \in FormPage
    BY <1>2
  <2>2. PICK kind \in {"dataset", "both"} :
        /\ formRow' = [formRow EXCEPT ![q] = [Rows(kind) EXCEPT !.given = {"dataset"}]]
        /\ Shows(t, q, page) /\ TabOn(t, "away") /\ formRow[q] = NoRow /\ UNCHANGED <<tickets, excused>>
    BY <1>5 DEF StartDatasetRequest
  <2> HIDE DEF page
  <2> QED BY <1>1, <2>1, <2>2, StartInv
<1> QED BY <1>3, <1>4, <1>5

LEMMA BrowseInv ==
  ASSUME FormInv, NEW t \in FormTab,
         \/ \E u \in FormTab : OpenInTab(t, u)
         \/ ReadForPage(t) \/ Submit(t) \/ OpenConfirmation(t) \/ BackToCheck(t)
         \/ \E page \in {"who", "description", "dataset"} : ChangeAnswer(t, page)
  PROVE  FormInv'
<1>0. /\ \A u \in FormTab : ~TabOn(u, "away") => RowOf(u) # NoRow
      /\ \A q \in Form : formRow[q] # NoRow => TicketIs(formRow[q], q)
  BY DEF FormInv, FormTabInv
<1>1. ASSUME NEW u \in FormTab, OpenInTab(t, u) PROVE FormInv'
  <2> DEFINE s == [at |-> "page", of |-> formTab[u].of, page |-> formTab[u].page, change |-> FALSE]
  <2>1. s \in FormTabType /\ formRow[s.of] # NoRow
    BY <1>0, <1>1, TabIs DEF OpenInTab, TabOn, FormTabType, RowOf
  <2>2. formTab' = [formTab EXCEPT ![t] = s] /\ formTab[t].at = "away" /\ UNCHANGED <<formRow, tickets, excused>>
    BY <1>1 DEF OpenInTab, Shows, TabOn
  <2> QED BY <2>1, <2>2, TabMovesInv
<1>2. CASE ReadForPage(t)
  <2> DEFINE s == [at |-> "answer", of |-> formTab[t].of, page |-> formTab[t].page,
                   change |-> formTab[t].change, row |-> RowOf(t)]
  <2>1. s \in FormTabType /\ formRow[s.of] # NoRow
    BY <1>0, <1>2, TabIs DEF ReadForPage, TabOn, FormTabType, RowOf
  <2>2. formTab' = [formTab EXCEPT ![t] = s] /\ formTab[t].at = "page" /\ UNCHANGED <<formRow, tickets, excused>>
    BY <1>2 DEF ReadForPage, TabOn
  <2>3. TicketIs(s.row, s.of)
    BY <1>0, <1>2, TabIs DEF ReadForPage, TabOn, RowOf
  <2> QED BY <2>1, <2>2, <2>3, TabMovesInv
<1>3. CASE Submit(t)
  <2>1. /\ formTab[t].of \in Form /\ RowOf(t) \in FormRowType /\ RowOf(t) # NoRow
        /\ formTab[t].at = "page" /\ UNCHANGED <<formRow, tickets, excused>>
        /\ TicketIs(RowOf(t), formTab[t].of)
    BY <1>0, <1>3, TabIs DEF Submit, TabOn, RowOf
  <2>2. CASE ~Unsubmitted(RowOf(t))
    <3> DEFINE s == [at |-> "confirmed", of |-> formTab[t].of]
    <3>1. s \in FormTabType /\ formRow[s.of] # NoRow /\ TicketsOf(s.of) # {}
      BY <2>1, <2>2 DEF FormTabType, RowOf, TicketIs, Unsubmitted
    <3>2. formTab' = [formTab EXCEPT ![t] = s]
      BY <1>3, <2>2 DEF Submit
    <3> QED BY <2>1, <3>1, <3>2, TabMovesInv
  <2>3. CASE Unsubmitted(RowOf(t)) /\ Complete(RowOf(t))
    <3> DEFINE s == [at |-> "ticket", of |-> formTab[t].of, row |-> RowOf(t)]
    <3>1. s \in FormTabType /\ formRow[s.of] # NoRow
      BY <2>1 DEF FormTabType, RowOf
    <3>2. formTab' = [formTab EXCEPT ![t] = s]
      BY <1>3, <2>3 DEF Submit
    <3>3. TicketIs(s.row, s.of) /\ s.row.ticket = 0 /\ Complete(s.row)
      BY <2>1, <2>3 DEF Unsubmitted
    <3> QED BY <2>1, <3>1, <3>2, <3>3, TabMovesInv
  <2>4. CASE Unsubmitted(RowOf(t)) /\ ~Complete(RowOf(t))
    <3> DEFINE s == [at |-> "error", of |-> formTab[t].of]
    <3>1. s \in FormTabType /\ formRow[s.of] # NoRow
      BY <2>1 DEF FormTabType, RowOf
    <3>2. formTab' = [formTab EXCEPT ![t] = s]
      BY <1>3, <2>4 DEF Submit
    <3> QED BY <2>1, <3>1, <3>2, TabMovesInv
  <2> QED BY <2>2, <2>3, <2>4
<1>4. CASE BackToCheck(t)
  <2> DEFINE s == [at |-> "page", of |-> formTab[t].of, page |-> "check", change |-> FALSE]
  <2>1. s \in FormTabType /\ formRow[s.of] # NoRow
    BY <1>0, <1>4, TabIs DEF BackToCheck, TabOn, FormTabType, RowOf, FormPage
  <2>2. formTab' = [formTab EXCEPT ![t] = s] /\ formTab[t].at # "save" /\ UNCHANGED <<formRow, tickets, excused>>
    BY <1>4 DEF BackToCheck, Shows
  <2> QED BY <2>1, <2>2, TabMovesInv
<1>5. ASSUME NEW page \in {"who", "description", "dataset"}, ChangeAnswer(t, page) PROVE FormInv'
  <2> DEFINE s == [at |-> "page", of |-> formTab[t].of, page |-> page, change |-> TRUE]
  <2>0. /\ formTab[t].at = "page" /\ formTab[t] \in FormTabType /\ formTab[t].of \in Form
        /\ formRow[formTab[t].of] # NoRow /\ page \in FormPage
    BY <1>0, <1>5, TabIs DEF ChangeAnswer, TabOn, RowOf, FormPage
  <2>1. s \in FormTabType
    BY <2>0 DEF FormTabType
  <2>4. formTab' = [formTab EXCEPT ![t] = s] /\ UNCHANGED <<formRow, tickets, excused>>
    BY <1>5 DEF ChangeAnswer
  <2> QED BY <2>0, <2>1, <2>4, TabMovesInv
<1>6. CASE OpenConfirmation(t)
  <2>1. /\ formTab[t].of \in Form /\ RowOf(t) \in FormRowType /\ RowOf(t) # NoRow
        /\ formTab[t].at = "page" /\ UNCHANGED <<formRow, tickets, excused>>
        /\ TicketIs(RowOf(t), formTab[t].of) /\ RowOf(t).kind # "data"
    BY <1>0, <1>6, TabIs DEF OpenConfirmation, TabOn, RowOf
  <2>2. CASE ~Unsubmitted(RowOf(t))
    <3> DEFINE s == [at |-> "confirmed", of |-> formTab[t].of]
    <3>1. s \in FormTabType /\ formRow[s.of] # NoRow /\ TicketsOf(s.of) # {}
      BY <2>1, <2>2 DEF FormTabType, RowOf, TicketIs, Unsubmitted
    <3>2. formTab' = [formTab EXCEPT ![t] = s]
      BY <1>6, <2>2 DEF OpenConfirmation
    <3> QED BY <2>1, <3>1, <3>2, TabMovesInv
  <2>3. CASE Unsubmitted(RowOf(t))
    <3> DEFINE s == [at |-> "ticket", of |-> formTab[t].of, row |-> RowOf(t)]
    <3>1. s \in FormTabType /\ formRow[s.of] # NoRow
      BY <2>1 DEF FormTabType, RowOf
    <3>2. formTab' = [formTab EXCEPT ![t] = s]
      BY <1>6, <2>3 DEF OpenConfirmation
    <3>3. TicketIs(s.row, s.of) /\ s.row.ticket = 0 /\ Complete(s.row)
      BY <2>1, <2>3 DEF Unsubmitted, Complete
    <3> QED BY <2>1, <3>1, <3>2, <3>3, TabMovesInv
  <2> QED BY <2>2, <2>3
<1> QED BY <1>1, <1>2, <1>3, <1>4, <1>5, <1>6

\* What a request that writes the row needs of it: the ticket of the old row is either
\* kept, or counted among the excuses (two tabs, or a page read before the ticket).
LEMMA WriteRowInv ==
  ASSUME FormInv, NEW t \in FormTab, NEW row \in FormRowType, NEW s \in FormTabType,
         formTab[t].at \in {"answer", "save"}, TicketIs(row, formTab[t].of),
         formRow' = [formRow EXCEPT ![formTab[t].of] = row],
         formTab' = [formTab EXCEPT ![t] = s],
         s.at \in {"page", "confirmed"}, s.of = formTab[t].of, UNCHANGED tickets,
         s.at = "confirmed" => row.ticket # 0,
         excused' \in [Form -> Nat],
         \A q \in Form : excused'[q] >= excused[q],
         TabOn(t, "save") => row.ticket # 0,
         RowOf(t).ticket # 0 /\ row.ticket = 0 =>
           excused'[formTab[t].of] >= excused[formTab[t].of] + 1
  PROVE  FormInv'
<1> DEFINE o == formTab[t].of
<1>1. /\ formTab \in [FormTab -> FormTabType] /\ formTab' \in [FormTab -> FormTabType]
      /\ \A u \in FormTab : formTab'[u] = IF u = t THEN s ELSE formTab[u]
  BY DEF FormInv
<1>2. o \in Form /\ row # NoRow
  BY TabIs DEF NoRow, FormRowType
<1>3. /\ formRow' \in [Form -> {NoRow} \cup FormRowType]
      /\ \A p \in Form : formRow'[p] = IF p = o THEN row ELSE formRow[p]
  BY <1>2 DEF FormInv
<1>4. \A p : TicketsOf(p)' = TicketsOf(p)
  BY DEF TicketsOf
<1>5. \A p \in Form : formRow'[p] # NoRow => TicketIs(formRow[p], p)'
  BY <1>3, <1>4 DEF FormInv, TicketIs
<1>6. FormTabInv'
  <2> SUFFICES ASSUME NEW u \in FormTab
      PROVE /\ ~TabOn(u, "away")' => RowOf(u)' # NoRow
            /\ formTab'[u].at \in {"answer", "ticket", "save"} => TicketIs(formTab[u].row, formTab[u].of)'
            /\ TabOn(u, "ticket")' => formTab'[u].row.ticket = 0 /\ Complete(formTab[u].row)'
            /\ TabOn(u, "save")' => formTab'[u].row.ticket # 0
            /\ TabOn(u, "confirmed")' => TicketsOf(formTab[u].of)' # {}
    BY DEF FormTabInv
  <2>1. CASE u = t
    BY <1>1, <1>2, <1>3, <1>4, <2>1 DEF TabOn, RowOf, TicketIs
  <2>2. CASE u # t
    <3>1. formTab'[u] = formTab[u] /\ (formTab[u].at # "away" => formTab[u].of \in Form)
      BY <1>1, <2>2, TabIs
    <3> QED BY <1>2, <1>3, <1>4, <3>1 DEF FormInv, FormTabInv, TabOn, RowOf, TicketIs, Complete
  <2> QED BY <2>1, <2>2
<1>7. TicketsExcused'
  <2> SUFFICES ASSUME NEW q \in Form
      PROVE Cardinality(TicketsOf(q)') <= excused'[q] + (IF TicketKnown(q)' THEN 1 ELSE 0)
    BY DEF TicketsExcused
  <2>1. /\ Cardinality(TicketsOf(q)) <= excused[q] + (IF TicketKnown(q) THEN 1 ELSE 0)
        /\ Cardinality(TicketsOf(q)) \in Nat /\ excused[q] \in Nat /\ excused'[q] \in Nat
        /\ excused'[q] >= excused[q] /\ TicketsOf(q)' = TicketsOf(q)
    BY <1>4, TicketsOfFinite DEF TicketsExcused, FormInv
  <2>2. CASE TicketKnown(q) => TicketKnown(q)'
    BY <2>1, <2>2
  <2>3. CASE TicketKnown(q) /\ ~TicketKnown(q)'
    <3>1. q = o
      BY <1>1, <1>2, <1>3, <2>3 DEF TicketKnown, TabOn
    <3>2. row.ticket = 0
      BY <1>2, <1>3, <2>3, <3>1 DEF TicketKnown
    <3>3. ~TabOn(t, "save")
      BY <3>2
    <3>4. \A u \in FormTab : ~(TabOn(u, "save") /\ formTab[u].of = q)
      BY <1>1, <2>3, <3>3 DEF TicketKnown, TabOn
    <3>5. RowOf(t).ticket # 0
      BY <2>3, <3>1, <3>4 DEF TicketKnown, RowOf
    <3> QED BY <2>1, <3>1, <3>2, <3>5
  <2> QED BY <2>2, <2>3
<1> QED BY <1>1, <1>3, <1>5, <1>6, <1>7 DEF FormInv, DataTicketsAreComplete

LEMMA SaveAnswerInv ==
  ASSUME FormInv, NEW t \in FormTab, NEW yes \in BOOLEAN, SaveAnswer(t, yes)
  PROVE  FormInv'
<1>1. /\ formTab[t].at = "answer" /\ formTab[t].page \in FormPage \ {"check"}
      /\ formTab[t].change \in BOOLEAN /\ formTab[t].row \in FormRowType
      /\ formTab[t].of \in Form /\ UNCHANGED tickets
      /\ TicketIs(formTab[t].row, formTab[t].of)
  BY TabIs DEF SaveAnswer, TabOn, FormInv, FormTabInv
<1> DEFINE shown == formTab[t]
           given == [shown.row EXCEPT !.given = @ \cup {shown.page}]
           row == CASE shown.page = "who" -> [given EXCEPT !.owner = yes]
                    [] shown.page = "tools-2" -> [given EXCEPT !.spss = yes]
                    [] OTHER -> given
           s == [at |-> "page", of |-> shown.of, page |-> PageAfter(row, shown.page, shown.change),
                 change |-> shown.change]
<1>2. given \in FormRowType /\ given.ticket = shown.row.ticket
  BY <1>1 DEF FormRowType
<1>3. row \in FormRowType /\ row.ticket = shown.row.ticket
  <2> HIDE DEF given
  <2> QED BY <1>2 DEF FormRowType
<1>4. PageAfter(row, shown.page, shown.change) \in FormPage
  <2> HIDE DEF row
  <2> QED BY <1>1 DEF PageAfter, FormPage
<1>5. /\ formRow' = [formRow EXCEPT ![shown.of] = row]
      /\ excused' = [excused EXCEPT ![shown.of] = @ + Loses(t, row)]
      /\ formTab' = [formTab EXCEPT ![t] = s]
  BY DEF SaveAnswer
<1> HIDE DEF row
<1>6. s \in FormTabType
  BY <1>1, <1>4 DEF FormTabType
<1>7. Loses(t, row) \in {0, 1} /\ (RowOf(t).ticket # 0 /\ row.ticket = 0 => Loses(t, row) = 1)
  BY DEF Loses
<1> DEFINE l == Loses(t, row)
<1>8. /\ excused' \in [Form -> Nat] /\ \A q \in Form : excused'[q] >= excused[q]
      /\ l = 1 => excused'[shown.of] >= excused[shown.of] + 1
  <2>1. l \in Nat /\ excused \in [Form -> Nat] /\ shown.of \in Form
    BY <1>1, <1>7 DEF FormInv
  <2>2. excused' = [excused EXCEPT ![shown.of] = @ + l]
    BY <1>5
  <2> HIDE DEF l
  <2>3. \A q \in Form : excused'[q] = IF q = shown.of THEN excused[q] + l ELSE excused[q]
    BY <2>1, <2>2
  <2>4. excused' \in [Form -> Nat]
    BY <2>1, <2>2
  <2> QED BY <2>1, <2>3, <2>4
<1>9. TicketIs(row, shown.of)
  BY <1>1, <1>3 DEF TicketIs
<1>10. s.at = "page" /\ s.of = formTab[t].of
  OBVIOUS
<1> HIDE DEF s, l
<1>11. RowOf(t).ticket # 0 /\ row.ticket = 0 => excused'[formTab[t].of] >= excused[formTab[t].of] + 1
  BY <1>7, <1>8 DEF l
<1>12. formRow' = [formRow EXCEPT ![formTab[t].of] = row]
  BY <1>5
<1> QED BY <1>1, <1>3, <1>5, <1>6, <1>8, <1>9, <1>10, <1>11, <1>12, WriteRowInv DEF TabOn

LEMMA SaveTicketInv ==
  ASSUME FormInv, NEW t \in FormTab, SaveTicket(t)
  PROVE  FormInv'
<1>1. /\ formTab[t].at = "save" /\ formTab[t].row \in FormRowType /\ formTab[t].of \in Form
      /\ TicketIs(formTab[t].row, formTab[t].of) /\ formTab[t].row.ticket # 0
      /\ UNCHANGED <<tickets, excused>>
  BY TabIs DEF SaveTicket, TabOn, FormInv, FormTabInv
<1> DEFINE s == [at |-> "confirmed", of |-> formTab[t].of]
<1>2. s \in FormTabType /\ s.at = "confirmed" /\ s.of = formTab[t].of
  BY <1>1 DEF FormTabType
<1>3. formTab' = [formTab EXCEPT ![t] = s] /\ formRow' = [formRow EXCEPT ![formTab[t].of] = formTab[t].row]
  BY DEF SaveTicket
<1>4. excused' \in [Form -> Nat] /\ \A q \in Form : excused'[q] >= excused[q]
  BY <1>1 DEF FormInv
<1> HIDE DEF s
<1> QED BY <1>1, <1>2, <1>3, <1>4, WriteRowInv

LEMMA FailAfterTicketInv ==
  ASSUME FormInv, NEW t \in FormTab, FailAfterTicket(t)
  PROVE  FormInv'
<1> DEFINE s == [at |-> "error", of |-> formTab[t].of]
           o == formTab[t].of
<1>1. /\ formTab[t].at = "save" /\ o \in Form /\ s \in FormTabType /\ RowOf(t) # NoRow
      /\ UNCHANGED <<tickets, formRow>>
  BY TabIs DEF FailAfterTicket, TabOn, FormTabType, FormInv, FormTabInv
<1>2. /\ formTab \in [FormTab -> FormTabType] /\ formTab' \in [FormTab -> FormTabType]
      /\ \A u \in FormTab : formTab'[u] = IF u = t THEN s ELSE formTab[u]
  BY <1>1 DEF FormInv, FailAfterTicket
<1>3. /\ excused' \in [Form -> Nat]
      /\ \A q \in Form : excused'[q] = IF q = o THEN excused[q] + 1 ELSE excused[q]
  BY <1>1 DEF FormInv, FailAfterTicket
<1>4. \A q : TicketsOf(q)' = TicketsOf(q)
  BY <1>1 DEF TicketsOf
<1>5. \A q \in Form : q # o => TicketKnown(q)' = TicketKnown(q)
  BY <1>1, <1>2 DEF TicketKnown, TabOn
<1>6. TicketsExcused'
  <2> SUFFICES ASSUME NEW q \in Form
      PROVE Cardinality(TicketsOf(q)') <= excused'[q] + (IF TicketKnown(q)' THEN 1 ELSE 0)
    BY DEF TicketsExcused
  <2>1. /\ Cardinality(TicketsOf(q)) <= excused[q] + (IF TicketKnown(q) THEN 1 ELSE 0)
        /\ Cardinality(TicketsOf(q)) \in Nat /\ excused[q] \in Nat /\ TicketsOf(q)' = TicketsOf(q)
        /\ excused'[q] = IF q = o THEN excused[q] + 1 ELSE excused[q]
    BY <1>3, <1>4, TicketsOfFinite DEF TicketsExcused, FormInv
  <2>2. q # o => TicketKnown(q)' = TicketKnown(q)
    BY <1>5
  <2> QED BY <2>1, <2>2
<1>7. FormTabInv'
  <2> SUFFICES ASSUME NEW u \in FormTab
      PROVE /\ ~TabOn(u, "away")' => RowOf(u)' # NoRow
            /\ formTab'[u].at \in {"answer", "ticket", "save"} => TicketIs(formTab[u].row, formTab[u].of)'
            /\ TabOn(u, "ticket")' => formTab'[u].row.ticket = 0 /\ Complete(formTab[u].row)'
            /\ TabOn(u, "save")' => formTab'[u].row.ticket # 0
            /\ TabOn(u, "confirmed")' => TicketsOf(formTab[u].of)' # {}
    BY DEF FormTabInv
  <2>1. CASE u = t
    BY <1>1, <1>2, <2>1 DEF TabOn, RowOf
  <2>2. CASE u # t
    <3>1. formTab'[u] = formTab[u]
      BY <1>2, <2>2
    <3> QED BY <1>1, <1>4, <3>1 DEF FormInv, FormTabInv, TabOn, RowOf, TicketIs, Complete
  <2> QED BY <2>1, <2>2
<1>8. \A q \in Form : formRow'[q] # NoRow => TicketIs(formRow[q], q)'
  BY <1>1, <1>4 DEF FormInv, TicketIs
<1> QED BY <1>1, <1>2, <1>3, <1>6, <1>7, <1>8 DEF FormInv, DataTicketsAreComplete

LEMMA MakeTicketInv ==
  ASSUME FormInv, NEW t \in FormTab, MakeTicket(t)
  PROVE  FormInv'
<1>1. /\ formTab[t].at = "ticket" /\ formTab[t] \in FormTabType /\ RowOf(t) # NoRow
      /\ formTab[t].row.ticket = 0 /\ Complete(formTab[t].row) /\ UNCHANGED formRow
      /\ tickets \in Seq([of : Form, row : FormRowType])
  BY TabIs DEF MakeTicket, TabOn, FormInv, FormTabInv
<1>2. PICK o \in Form, r \in FormRowType : formTab[t] = [at |-> "ticket", of |-> o, row |-> r]
  <2>1. formTab[t] \in [at : {"ticket", "save"}, of : Form, row : FormRowType]
    BY <1>1 DEF FormTabType
  <2> QED BY <1>1, <2>1
<1> DEFINE n == Len(tickets) + 1
           r1 == [r EXCEPT !.ticket = n]
           s == [at |-> "save", of |-> o, row |-> r1]
           k == [of |-> o, row |-> r]
<1>3. n \in Nat /\ n # 0 /\ Len(tickets) \in Nat
  BY <1>1, LenProperties
<1>4. r1 \in FormRowType /\ r1.ticket = n
  BY <1>3 DEF FormRowType
<1>5. s \in FormTabType
  BY <1>4 DEF FormTabType
<1>6. /\ formTab \in [FormTab -> FormTabType] /\ formTab' \in [FormTab -> FormTabType]
      /\ \A u \in FormTab : formTab'[u] = IF u = t THEN s ELSE formTab[u]
  <2>1. formTab' = [formTab EXCEPT ![t] = s] /\ formTab \in [FormTab -> FormTabType]
    BY <1>2 DEF MakeTicket, FormInv
  <2> QED BY <1>5, <2>1
<1>7. /\ tickets' \in Seq([of : Form, row : FormRowType]) /\ Len(tickets') = n
      /\ \A i \in 1..Len(tickets) : tickets'[i] = tickets[i]
      /\ tickets'[n] = k
  <2>1. tickets' = Append(tickets, k) /\ k \in [of : Form, row : FormRowType]
    BY <1>2 DEF MakeTicket
  <2> HIDE DEF k
  <2> QED BY <1>1, <2>1, AppendProperties, LenProperties
<1>8. /\ TicketsOf(o)' = TicketsOf(o) \cup {n} /\ n \notin TicketsOf(o)
      /\ \A q : q # o => TicketsOf(q)' = TicketsOf(q)
  <2>1. \A i : i \in 1..Len(tickets') <=> i \in 1..Len(tickets) \/ i = n
    BY <1>3, <1>7
  <2>2. n \notin 1..Len(tickets)
    BY <1>3
  <2>3. tickets'[n].of = o
    BY <1>7
  <2> HIDE DEF n, k
  <2> QED BY <1>7, <2>1, <2>2, <2>3 DEF TicketsOf
<1>9. \A q : TicketsOf(q) \subseteq TicketsOf(q)'
  BY <1>8
<1> HIDE DEF n, k, r1
<1>10. \A q \in Form : formRow'[q] # NoRow => TicketIs(formRow[q], q)'
  BY <1>1, <1>9 DEF FormInv, TicketIs
<1>11. FormTabInv'
  <2> SUFFICES ASSUME NEW u \in FormTab
      PROVE /\ ~TabOn(u, "away")' => RowOf(u)' # NoRow
            /\ formTab'[u].at \in {"answer", "ticket", "save"} => TicketIs(formTab[u].row, formTab[u].of)'
            /\ TabOn(u, "ticket")' => formTab'[u].row.ticket = 0 /\ Complete(formTab[u].row)'
            /\ TabOn(u, "save")' => formTab'[u].row.ticket # 0
            /\ TabOn(u, "confirmed")' => TicketsOf(formTab[u].of)' # {}
    BY DEF FormTabInv
  <2>1. CASE u = t
    <3>1. formTab'[u] = s /\ formRow'[o] # NoRow /\ n \in TicketsOf(o)'
      BY <1>1, <1>2, <1>6, <1>8, <2>1 DEF RowOf
    <3> QED BY <1>3, <1>4, <3>1 DEF TabOn, RowOf, TicketIs
  <2>2. CASE u # t
    <3>1. formTab'[u] = formTab[u]
      BY <1>6, <2>2
    <3>2. /\ ~TabOn(u, "away") => RowOf(u) # NoRow
          /\ formTab[u].at \in {"answer", "ticket", "save"} => TicketIs(formTab[u].row, formTab[u].of)
          /\ TabOn(u, "ticket") => formTab[u].row.ticket = 0 /\ Complete(formTab[u].row)
          /\ TabOn(u, "save") => formTab[u].row.ticket # 0
          /\ TabOn(u, "confirmed") => TicketsOf(formTab[u].of) # {}
      BY DEF FormInv, FormTabInv
    <3> QED BY <1>1, <1>9, <3>1, <3>2 DEF TabOn, RowOf, TicketIs, Complete
  <2> QED BY <2>1, <2>2
<1>12. DataTicketsAreComplete'
  <2> SUFFICES ASSUME NEW i \in 1..Len(tickets'), tickets'[i].row.kind = "data"
      PROVE Required \subseteq tickets'[i].row.given
    BY DEF DataTicketsAreComplete
  <2>1. CASE i \in 1..Len(tickets)
    BY <1>7, <2>1 DEF FormInv, DataTicketsAreComplete
  <2>2. CASE i = n
    <3>1. tickets'[i].row = r /\ formTab[t].row = r
      BY <1>2, <1>7, <2>2 DEF k
    <3> QED BY <1>1, <3>1 DEF Complete
  <2>3. i \in 1..Len(tickets) \/ i = n
    BY <1>3, <1>7 DEF n
  <2> QED BY <2>1, <2>2, <2>3
<1>13. /\ excused' \in [Form -> Nat]
       /\ \A q \in Form : q # o => excused'[q] = excused[q]
       /\ \/ excused'[o] = excused[o] + 1
          \/ excused'[o] = excused[o] /\ Submitting(o) = {t} /\ Loses(t, r) = 0
  <2>1. formTab[t].of = o /\ formTab[t].row = r /\ excused \in [Form -> Nat]
    BY <1>2 DEF FormInv
  <2> QED BY <2>1 DEF MakeTicket
<1>14. TicketKnown(o)' /\ \A q \in Form : q # o => (TicketKnown(q) <=> TicketKnown(q)')
  BY <1>1, <1>2, <1>6 DEF TicketKnown, TabOn
<1>15. TicketsExcused'
  <2> SUFFICES ASSUME NEW q \in Form
      PROVE Cardinality(TicketsOf(q)') <= excused'[q] + (IF TicketKnown(q)' THEN 1 ELSE 0)
    BY DEF TicketsExcused
  <2>1. /\ Cardinality(TicketsOf(q)) <= excused[q] + (IF TicketKnown(q) THEN 1 ELSE 0)
        /\ Cardinality(TicketsOf(q)) \in Nat /\ excused[q] \in Nat /\ IsFiniteSet(TicketsOf(q))
    BY <1>1, TicketsOfFinite DEF TicketsExcused, FormInv
  <2>2. CASE q # o
    BY <1>8, <1>13, <1>14, <2>1, <2>2
  <2>3. CASE q = o
    <3>1. Cardinality(TicketsOf(o)') = Cardinality(TicketsOf(o)) + 1
      BY <1>8, <2>1, <2>3, FS_AddElement
    <3>2. CASE excused'[o] = excused[o] + 1
      BY <1>14, <2>1, <2>3, <3>1, <3>2
    <3>3. CASE excused'[o] = excused[o] /\ Submitting(o) = {t} /\ Loses(t, r) = 0
      <4>1. \A u \in FormTab : ~(TabOn(u, "save") /\ formTab[u].of = o)
        <5> SUFFICES ASSUME NEW u \in FormTab, TabOn(u, "save"), formTab[u].of = o PROVE FALSE
          OBVIOUS
        <5>1. u \in Submitting(o)
          BY DEF Submitting, TabOn
        <5> QED BY <1>1, <3>3, <5>1 DEF TabOn
      <4>2. formRow[o].ticket = 0
        BY <1>1, <1>2, <3>3 DEF Loses, RowOf
      <4>3. ~TicketKnown(o)
        BY <4>1, <4>2 DEF TicketKnown
      <4> QED BY <1>14, <2>1, <2>3, <3>1, <3>3, <4>3
    <3> QED BY <1>13, <3>2, <3>3
  <2> QED BY <2>2, <2>3
<1> QED BY <1>1, <1>6, <1>7, <1>10, <1>11, <1>12, <1>13, <1>15 DEF FormInv

\* In every state, the number in a row is that of a ticket about the row, and a ticket that
\* no row names has its request still under way, or an excuse (RequestDataCheckAnswers,
\* AccessRequestConfirmationPage).
THEOREM FormInvariance == FormSpec => []FormInv
<1>1. FormInit => FormInv
  BY FormInitInv
<1>2. FormInv /\ [FormNext]_formVars => FormInv'
  <2> SUFFICES ASSUME FormInv, [FormNext]_formVars PROVE FormInv'
    OBVIOUS
  <2>1. ASSUME NEW t \in FormTab, FormStep(t) PROVE FormInv'
    BY <2>1, StartsInv, BrowseInv, SaveAnswerInv, MakeTicketInv, SaveTicketInv, FailAfterTicketInv
       DEF FormStep
  <2>2. CASE UNCHANGED formVars
    <3>1. UNCHANGED <<formRow, formTab, tickets, excused>>
      BY <2>2 DEF formVars
    <3>2. \A q : TicketsOf(q)' = TicketsOf(q)
      BY <3>1 DEF TicketsOf
    <3>3. \A q : TicketKnown(q)' = TicketKnown(q)
      BY <3>1 DEF TicketKnown, TabOn
    <3> QED BY <3>1, <3>2, <3>3
            DEF FormInv, TicketsExcused, DataTicketsAreComplete, TicketIs, FormTabInv, TabOn, RowOf
  <2> QED BY <2>1, <2>2 DEF FormNext
<1> QED BY <1>1, <1>2, PTL DEF FormSpec

\* A tab goes on, alone on its form; the row it shows may be written, and keeps its kind.
LEMMA WalkStep ==
  ASSUME FormInv, WalkInv, NEW t \in FormTab, NEW s, NEW row, NEW q \in Form,
         formTab' = [formTab EXCEPT ![t] = s], s.at # "away", s.of = q,
         formRow' = [formRow EXCEPT ![q] = row],
         row.kind = formRow[q].kind \/ formRow[q] = NoRow,
         s.at \in {"answer", "ticket", "save"} => s.row.kind = row.kind,
         formTab[t].at # "away" => formTab[t].of = q,
         formTab[t].at = "away" => formRow[q] = NoRow \/ astray'[q],
         astray' \in [Form -> BOOLEAN], \A p \in Form : astray[p] => astray'[p],
         row.kind # "data" /\ ~astray'[q] =>
           /\ s.at \in {"answer", "ticket", "save"} => SameAnswers(s.row, row)
           /\ s.at \in {"page", "answer"} =>
                s.page \in AccessPage /\ Before(row, s.page) \subseteq row.given
           /\ s.at \in {"ticket", "save", "confirmed", "error"} => Needed(row) \subseteq row.given
           /\ row.given \subseteq AccessPage,
         AccessTicketsAreComplete'
  PROVE  WalkInv'
<1>1. /\ \A u \in FormTab : formTab'[u] = IF u = t THEN s ELSE formTab[u]
      /\ \A p \in Form : formRow'[p] = IF p = q THEN row ELSE formRow[p]
  BY DEF FormInv
<1>2. \A u \in FormTab : formTab[u].at # "away" => formTab[u].of \in Form /\ RowOf(u) # NoRow
  BY TabIs DEF FormInv, FormTabInv, TabOn
<1>3. ASSUME NEW u \in FormTab, formTab'[u].at # "away", RowOf(u)'.kind # "data",
             ~astray'[formTab'[u].of]
      PROVE  InTurn(u)'
  <2>1. CASE u = t
    <3>1. /\ formTab'[u] = s /\ RowOf(u)' = row /\ row.kind # "data" /\ ~astray'[q]
      BY <1>1, <1>3, <2>1 DEF RowOf
    <3>2. ASSUME NEW v \in FormTab \ {t}, formTab'[v].at # "away", formTab'[v].of = q PROVE FALSE
      <4>1. formTab'[v] = formTab[v] /\ RowOf(v) = formRow[q] /\ formRow[q] # NoRow
        BY <1>1, <1>2, <3>2 DEF RowOf
      <4>2. formTab[t].at # "away" /\ formTab[t].of = q
        BY <3>1, <4>1
      <4>3. RowOf(t).kind # "data" /\ ~astray[q]
        BY <3>1, <4>1, <4>2 DEF RowOf
      <4> QED BY <3>2, <4>1, <4>2, <4>3 DEF WalkInv, InTurn
    <3> QED BY <2>1, <3>1, <3>2 DEF InTurn
  <2>2. CASE u # t
    <3>1. formTab'[u] = formTab[u] /\ formTab[u].of \in Form /\ formTab[u].at # "away"
          /\ RowOf(u) # NoRow
      BY <1>1, <1>2, <1>3, <2>2
    <3>2. CASE formTab[u].of # q
      <4>1. RowOf(u)' = RowOf(u) /\ ~astray[formTab[u].of]
        BY <1>1, <1>3, <3>1, <3>2 DEF RowOf
      <4>2. InTurn(u)
        BY <1>3, <3>1, <4>1 DEF WalkInv
      <4>3. \A v \in FormTab \ {u} : formTab'[v].at # "away" => formTab'[v].of # formTab[u].of
        BY <1>1, <3>2, <4>2 DEF InTurn
      <4> QED BY <3>1, <4>1, <4>2, <4>3 DEF InTurn
    <3>3. CASE formTab[u].of = q
      <4>1. formRow[q] # NoRow /\ RowOf(u)' = row /\ ~astray'[q] /\ RowOf(u) = formRow[q]
        BY <1>1, <1>3, <3>1, <3>3 DEF RowOf
      <4>2. formTab[t].at # "away" /\ formTab[t].of = q /\ ~astray[q] /\ RowOf(u).kind # "data"
        BY <1>3, <4>1
      <4> QED BY <2>2, <3>1, <3>3, <4>2 DEF WalkInv, InTurn
    <3> QED BY <3>2, <3>3
  <2> QED BY <2>1, <2>2
<1>4. ASSUME NEW u \in FormTab, formTab'[u].at \in {"answer", "ticket", "save"}
      PROVE  formTab'[u].row.kind = RowOf(u)'.kind
  <2>1. CASE u = t
    BY <1>1, <1>4, <2>1 DEF RowOf
  <2>2. CASE u # t
    <3>1. /\ formTab'[u] = formTab[u] /\ formTab[u].of \in Form /\ RowOf(u) # NoRow
          /\ formTab[u].row.kind = RowOf(u).kind
      BY <1>1, <1>2, <1>4, <2>2 DEF WalkInv
    <3> QED BY <1>1, <3>1 DEF RowOf
  <2> QED BY <2>1, <2>2
<1> QED BY <1>3, <1>4 DEF WalkInv

\* What a form in turn shows, of the tab that goes on.
LEMMA TurnIs ==
  ASSUME WalkInv, NEW t \in FormTab, formTab[t].at # "away", RowOf(t).kind # "data",
         ~astray[formTab[t].of]
  PROVE  InTurn(t)
BY DEF WalkInv

\* The tickets stay as they are, and no form finds its way back.
LEMMA TicketsStayComplete ==
  ASSUME FormInv, WalkInv, UNCHANGED tickets, \A p \in Form : astray[p] => astray'[p]
  PROVE  AccessTicketsAreComplete'
<1>1. \A i \in 1..Len(tickets) : tickets[i].of \in Form
  <2>1. tickets \in Seq([of : Form, row : FormRowType])
    BY DEF FormInv
  <2>2. \A i \in 1..Len(tickets) : tickets[i] \in [of : Form, row : FormRowType]
    BY <2>1, ElementOfSeq
  <2> QED BY <2>2
<1> QED BY <1>1 DEF WalkInv, AccessTicketsAreComplete

\* A row that is not written.
LEMMA RowStays ==
  ASSUME FormInv, NEW q \in Form, UNCHANGED formRow
  PROVE  formRow' = [formRow EXCEPT ![q] = formRow[q]]
BY DEF FormInv

LEMMA StartWalk ==
  ASSUME FormInv, WalkInv, NEW t \in FormTab, NEW q \in Form,
         \/ StartDataRequest(t, q) \/ StartToolsRequest(t, q)
         \/ \E toolsToo \in BOOLEAN : StartDatasetRequest(t, q, toolsToo)
  PROVE  WalkInv'
<1>1. /\ formRow[q] = NoRow /\ formTab[t].at = "away" /\ UNCHANGED <<tickets, astray>>
  BY DEF StartDataRequest, StartToolsRequest, StartDatasetRequest, TabOn
<1>2. AccessTicketsAreComplete' /\ astray' \in [Form -> BOOLEAN] /\ \A p \in Form : astray[p] => astray'[p]
  BY <1>1, TicketsStayComplete DEF WalkInv
<1>3. ASSUME NEW row, NEW page, formRow' = [formRow EXCEPT ![q] = row], Shows(t, q, page),
             row.kind # "data" => /\ page \in AccessPage /\ Before(row, page) \subseteq row.given
                                  /\ row.given \subseteq AccessPage
      PROVE  WalkInv'
  <2> DEFINE s == [at |-> "page", of |-> q, page |-> page, change |-> FALSE]
  <2>1. formTab' = [formTab EXCEPT ![t] = s] /\ s.at = "page" /\ s.of = q /\ s.page = page
    BY <1>3 DEF Shows
  <2> HIDE DEF s
  <2> QED BY <1>1, <1>2, <1>3, <2>1, WalkStep
<1>4. CASE StartDataRequest(t, q)
  BY <1>3, <1>4 DEF StartDataRequest, Rows
<1>5. CASE StartToolsRequest(t, q)
  <2> DEFINE row == Rows("tools")
  <2>1. "tools-1" \in AccessPage /\ Before(row, "tools-1") \subseteq row.given /\ row.given \subseteq AccessPage
    BY DEF AccessPage, Before, FirstPage, Rows
  <2>2. formRow' = [formRow EXCEPT ![q] = row] /\ Shows(t, q, "tools-1")
    BY <1>5 DEF StartToolsRequest
  <2> HIDE DEF row
  <2> QED BY <1>3, <2>1, <2>2
<1>6. ASSUME NEW toolsToo \in BOOLEAN, StartDatasetRequest(t, q, toolsToo) PROVE WalkInv'
  <2> DEFINE row == [Rows(IF toolsToo THEN "both" ELSE "dataset") EXCEPT !.given = {"dataset"}]
             page == IF toolsToo THEN "tools-1" ELSE "check"
  <2>1. page \in AccessPage /\ Before(row, page) \subseteq row.given /\ row.given \subseteq AccessPage
    <3>1. row.given = {"dataset"} /\ row.kind = IF toolsToo THEN "both" ELSE "dataset"
      BY DEF Rows
    <3> HIDE DEF row
    <3> QED BY <3>1 DEF AccessPage, Before, FirstPage, Needed
  <2>2. formRow' = [formRow EXCEPT ![q] = row] /\ Shows(t, q, page)
    BY <1>6 DEF StartDatasetRequest
  <2> HIDE DEF row, page
  <2> QED BY <1>3, <2>1, <2>2
<1> QED BY <1>4, <1>5, <1>6

LEMMA BrowseWalk ==
  ASSUME FormInv, WalkInv, NEW t \in FormTab,
         \/ \E u \in FormTab : OpenInTab(t, u)
         \/ ReadForPage(t) \/ Submit(t) \/ OpenConfirmation(t) \/ BackToCheck(t) \/ FailAfterTicket(t)
         \/ \E page \in {"who", "description", "dataset"} : ChangeAnswer(t, page)
  PROVE  WalkInv'
<1>0. /\ UNCHANGED <<formRow, tickets>> /\ astray \in [Form -> BOOLEAN]
  BY DEF OpenInTab, ReadForPage, Submit, OpenConfirmation, BackToCheck, FailAfterTicket, ChangeAnswer, WalkInv
<1>1. ASSUME NEW s, formTab' = [formTab EXCEPT ![t] = s], s.at # "away", s.of = formTab[t].of,
             formTab[t].at # "away", UNCHANGED astray,
             s.at \in {"answer", "ticket"} => s.row = RowOf(t), s.at # "save",
             RowOf(t).kind # "data" /\ InTurn(t) =>
               /\ s.at \in {"page", "answer"} =>
                    s.page \in AccessPage /\ Before(RowOf(t), s.page) \subseteq RowOf(t).given
               /\ s.at \in {"ticket", "confirmed", "error"} => Needed(RowOf(t)) \subseteq RowOf(t).given
      PROVE  WalkInv'
  <2>1. s.of \in Form /\ RowOf(t) = formRow[s.of]
    BY <1>1, TabIs DEF RowOf
  <2>2. AccessTicketsAreComplete' /\ formRow' = [formRow EXCEPT ![s.of] = RowOf(t)]
    BY <1>0, <1>1, <2>1, TicketsStayComplete, RowStays
  <2>3. RowOf(t).kind # "data" /\ ~astray[s.of] => InTurn(t) /\ RowOf(t).given \subseteq AccessPage
    BY <1>1, TurnIs DEF InTurn
  <2>4. s.at \in {"answer", "ticket", "save"} =>
          SameAnswers(s.row, RowOf(t)) /\ s.row.kind = RowOf(t).kind
    BY <1>1 DEF SameAnswers
  <2>9. PICK q \in Form : q = s.of /\ RowOf(t) = formRow[q]
    BY <2>1
  <2>5. PICK row : row = formRow[q] /\ row = RowOf(t) /\ q = s.of
    BY <2>9
  <2>6. row.kind # "data" /\ ~astray'[q] =>
           /\ s.at \in {"answer", "ticket", "save"} => SameAnswers(s.row, row)
           /\ s.at \in {"page", "answer"} =>
                s.page \in AccessPage /\ Before(row, s.page) \subseteq row.given
           /\ s.at \in {"ticket", "save", "confirmed", "error"} => Needed(row) \subseteq row.given
           /\ row.given \subseteq AccessPage
    BY <1>1, <2>3, <2>4, <2>5
  <2>7. /\ formRow' = [formRow EXCEPT ![q] = row] /\ row.kind = formRow[q].kind
        /\ s.at \in {"answer", "ticket", "save"} => s.row.kind = row.kind
        /\ astray' \in [Form -> BOOLEAN] /\ \A p \in Form : astray[p] => astray'[p]
    BY <1>0, <1>1, <2>2, <2>4, <2>5
  <2>8. s.of = q /\ formTab[t].of = q
    BY <1>1, <2>5
  <2>10. formTab' = [formTab EXCEPT ![t] = s] /\ s.at # "away" /\ formTab[t].at # "away"
    BY <1>1
  <2>11. AccessTicketsAreComplete'
    BY <2>2
  <2> QED BY <2>6, <2>7, <2>8, <2>10, <2>11, WalkStep
<1>2. ASSUME NEW s, NEW q \in Form, formTab' = [formTab EXCEPT ![t] = s], s.at # "away", s.of = q,
             formTab[t].at # "away" => formTab[t].of = q, GoesAstray(q),
             s.at \in {"answer", "ticket", "save"} => s.row.kind = formRow[q].kind
      PROVE  WalkInv'
  <2>1. astray' \in [Form -> BOOLEAN] /\ astray'[q] /\ \A p \in Form : astray[p] => astray'[p]
    BY <1>0, <1>2 DEF GoesAstray
  <2>2. AccessTicketsAreComplete' /\ formRow' = [formRow EXCEPT ![q] = formRow[q]]
    BY <1>0, <2>1, TicketsStayComplete, RowStays
  <2> QED BY <1>2, <2>1, <2>2, WalkStep
<1>3. ASSUME NEW u \in FormTab, OpenInTab(t, u) PROVE WalkInv'
  <2> DEFINE s == [at |-> "page", of |-> formTab[u].of, page |-> formTab[u].page, change |-> FALSE]
  <2>1. /\ formTab' = [formTab EXCEPT ![t] = s] /\ s.at = "page" /\ s.of = formTab[u].of
        /\ formTab[t].at = "away" /\ GoesAstray(formTab[u].of) /\ formTab[u].of \in Form
    BY <1>3, TabIs DEF OpenInTab, Shows, TabOn
  <2> HIDE DEF s
  <2> QED BY <1>2, <2>1
<1>4. CASE OpenConfirmation(t)
  <2>1. PICK s : /\ formTab' = [formTab EXCEPT ![t] = s] /\ s.at \in {"ticket", "confirmed"}
                 /\ s.of = formTab[t].of /\ (s.at = "ticket" => s.row.kind = RowOf(t).kind)
    <3>1. CASE Unsubmitted(RowOf(t))
      <4> DEFINE n == [at |-> "ticket", of |-> formTab[t].of, row |-> RowOf(t)]
      <4>1. /\ formTab' = [formTab EXCEPT ![t] = n] /\ n.at = "ticket" /\ n.of = formTab[t].of
            /\ n.row = RowOf(t)
        BY <1>4, <3>1 DEF OpenConfirmation
      <4> HIDE DEF n
      <4> QED BY <4>1
    <3>2. CASE ~Unsubmitted(RowOf(t))
      <4> DEFINE n == [at |-> "confirmed", of |-> formTab[t].of]
      <4>1. formTab' = [formTab EXCEPT ![t] = n] /\ n.at = "confirmed" /\ n.of = formTab[t].of
        BY <1>4, <3>2 DEF OpenConfirmation
      <4> HIDE DEF n
      <4> QED BY <4>1
    <3> QED BY <3>1, <3>2
  <2>2. /\ formTab[t].of \in Form /\ GoesAstray(formTab[t].of)
        /\ RowOf(t) = formRow[formTab[t].of]
    BY <1>4, TabIs DEF OpenConfirmation, TabOn, RowOf
  <2> QED BY <1>2, <2>1, <2>2
<1>5. CASE ReadForPage(t)
  <2> DEFINE s == [at |-> "answer", of |-> formTab[t].of, page |-> formTab[t].page,
                   change |-> formTab[t].change, row |-> RowOf(t)]
  <2>1. /\ formTab' = [formTab EXCEPT ![t] = s] /\ s.at = "answer" /\ s.of = formTab[t].of
        /\ s.page = formTab[t].page /\ s.row = RowOf(t)
        /\ formTab[t].at = "page" /\ UNCHANGED astray
    BY <1>5 DEF ReadForPage, TabOn
  <2> HIDE DEF s
  <2> QED BY <1>1, <2>1 DEF InTurn, SameAnswers
<1>6. CASE BackToCheck(t)
  <2> DEFINE s == [at |-> "page", of |-> formTab[t].of, page |-> "check", change |-> FALSE]
  <2>1. /\ formTab' = [formTab EXCEPT ![t] = s] /\ s.at = "page" /\ s.of = formTab[t].of
        /\ s.page = "check" /\ formTab[t].at \in {"confirmed", "error"} /\ UNCHANGED astray
    BY <1>6 DEF BackToCheck, Shows
  <2>2. "check" \in AccessPage /\ \A row : Before(row, "check") = Needed(row)
    BY DEF AccessPage, Before
  <2> HIDE DEF s
  <2> QED BY <1>1, <2>1, <2>2 DEF InTurn
<1>7. CASE FailAfterTicket(t)
  <2> DEFINE s == [at |-> "error", of |-> formTab[t].of]
  <2>1. /\ formTab' = [formTab EXCEPT ![t] = s] /\ s.at = "error" /\ s.of = formTab[t].of
        /\ formTab[t].at = "save" /\ UNCHANGED astray
    BY <1>7 DEF FailAfterTicket, TabOn
  <2> HIDE DEF s
  <2> QED BY <1>1, <2>1 DEF InTurn
<1>8. ASSUME NEW page \in {"who", "description", "dataset"}, ChangeAnswer(t, page) PROVE WalkInv'
  <2> DEFINE s == [at |-> "page", of |-> formTab[t].of, page |-> page, change |-> TRUE]
  <2>1. /\ formTab' = [formTab EXCEPT ![t] = s] /\ s.at = "page" /\ s.of = formTab[t].of
        /\ s.page = page /\ formTab[t].at = "page" /\ formTab[t].page = "check" /\ UNCHANGED astray
        /\ page \in RowOf(t).given
    BY <1>8 DEF ChangeAnswer, TabOn
  <2>2. RowOf(t).given \subseteq AccessPage =>
          page \in AccessPage /\ \A row : Before(row, page) = Before(row, "check")
    BY <2>1 DEF AccessPage, Before
  <2> HIDE DEF s
  <2> QED BY <1>1, <2>1, <2>2 DEF InTurn
<1>9. CASE Submit(t)
  <2>1. /\ formTab[t].at = "page" /\ formTab[t].page = "check" /\ UNCHANGED astray
        /\ \A row : Before(row, "check") = Needed(row)
    BY <1>9 DEF Submit, TabOn, Before
  <2>2. PICK s : /\ formTab' = [formTab EXCEPT ![t] = s] /\ s.at \in {"ticket", "confirmed", "error"}
                 /\ s.of = formTab[t].of /\ (s.at = "ticket" => s.row = RowOf(t))
    <3>1. CASE ~Unsubmitted(RowOf(t))
      <4> DEFINE n == [at |-> "confirmed", of |-> formTab[t].of]
      <4>1. formTab' = [formTab EXCEPT ![t] = n] /\ n.at = "confirmed" /\ n.of = formTab[t].of
        BY <1>9, <3>1 DEF Submit
      <4> HIDE DEF n
      <4> QED BY <4>1
    <3>2. CASE Unsubmitted(RowOf(t)) /\ Complete(RowOf(t))
      <4> DEFINE n == [at |-> "ticket", of |-> formTab[t].of, row |-> RowOf(t)]
      <4>1. /\ formTab' = [formTab EXCEPT ![t] = n] /\ n.at = "ticket" /\ n.of = formTab[t].of
            /\ n.row = RowOf(t)
        BY <1>9, <3>2 DEF Submit
      <4> HIDE DEF n
      <4> QED BY <4>1
    <3>3. CASE Unsubmitted(RowOf(t)) /\ ~Complete(RowOf(t))
      <4> DEFINE n == [at |-> "error", of |-> formTab[t].of]
      <4>1. formTab' = [formTab EXCEPT ![t] = n] /\ n.at = "error" /\ n.of = formTab[t].of
        BY <1>9, <3>3 DEF Submit
      <4> HIDE DEF n
      <4> QED BY <4>1
    <3> QED BY <3>1, <3>2, <3>3
  <2>3. RowOf(t).kind # "data" /\ InTurn(t) => Needed(RowOf(t)) \subseteq RowOf(t).given
    BY <2>1 DEF InTurn
  <2> QED BY <1>1, <2>1, <2>2, <2>3
<1> QED BY <1>3, <1>4, <1>5, <1>6, <1>7, <1>8, <1>9

\* An answer leads to a page that follows it.
LEMMA AnswerLeadsOn ==
  ASSUME NEW was, NEW row, NEW page \in AccessPage \ {"check"}, NEW change,
         was.given \subseteq AccessPage, Before(was, page) \subseteq was.given,
         row.kind = was.kind, row.given = was.given \cup {page},
         page # "tools-2" => row.spss = was.spss
  PROVE  /\ PageAfter(row, page, change) \in AccessPage /\ row.given \subseteq AccessPage
         /\ Before(row, PageAfter(row, page, change)) \subseteq row.given
<1>0. row.given \subseteq AccessPage /\ page \in row.given /\ FirstPage(row) = FirstPage(was)
  BY DEF FirstPage
<1>1. CASE page = "dataset"
  <2>1. Needed(row) = Needed(was) /\ FirstPage(was) \subseteq Needed(was)
    BY <1>0, <1>1 DEF Needed
  <2>2. Needed(was) \subseteq was.given
    BY <1>1 DEF Before
  <2>3. PageAfter(row, page, change) \in {"tools-1", "check"}
    BY <1>1 DEF PageAfter
  <2> QED BY <1>0, <2>1, <2>2, <2>3 DEF Before, AccessPage
<1>2. CASE page = "tools-1"
  <2>1. PageAfter(row, page, change) = "tools-2" /\ FirstPage(was) \subseteq was.given
    BY <1>2 DEF PageAfter, Before
  <2> QED BY <1>0, <1>2, <2>1 DEF Before, AccessPage
<1>3. CASE page = "tools-2"
  <2>1. FirstPage(was) \cup {"tools-1"} \subseteq was.given
    BY <1>3 DEF Before
  <2>2. CASE row.spss
    <3>1. PageAfter(row, page, change) = "tools-3"
      BY <1>3, <2>2 DEF PageAfter
    <3> QED BY <1>0, <1>3, <2>1, <3>1 DEF Before, AccessPage
  <2>3. CASE ~row.spss
    <3>1. PageAfter(row, page, change) = "check"
      BY <1>3, <2>3 DEF PageAfter
    <3> QED BY <1>0, <1>3, <2>1, <2>3, <3>1 DEF Before, AccessPage, Needed
  <2> QED BY <2>2, <2>3
<1>4. CASE page = "tools-3"
  <2>1. PageAfter(row, page, change) = "check" /\ FirstPage(was) \cup {"tools-1", "tools-2"} \subseteq was.given
    BY <1>4 DEF PageAfter, Before
  <2> QED BY <1>0, <1>4, <2>1 DEF Before, AccessPage, Needed
<1> QED BY <1>1, <1>2, <1>3, <1>4 DEF AccessPage

LEMMA AnswerWalk ==
  ASSUME FormInv, WalkInv, NEW t \in FormTab, NEW yes \in BOOLEAN, SaveAnswer(t, yes)
  PROVE  WalkInv'
<1> DEFINE shown == formTab[t]
           given == [shown.row EXCEPT !.given = @ \cup {shown.page}]
           row == CASE shown.page = "who" -> [given EXCEPT !.owner = yes]
                    [] shown.page = "tools-2" -> [given EXCEPT !.spss = yes]
                    [] OTHER -> given
           s == [at |-> "page", of |-> shown.of, page |-> PageAfter(row, shown.page, shown.change),
                 change |-> shown.change]
<1>1. /\ formTab[t].at = "answer" /\ formTab[t].page \in FormPage \ {"check"}
      /\ formTab[t].row \in FormRowType /\ formTab[t].of \in Form /\ UNCHANGED <<tickets, astray>>
      /\ astray \in [Form -> BOOLEAN]
  BY TabIs DEF SaveAnswer, TabOn, WalkInv
<1>2. /\ formRow' = [formRow EXCEPT ![shown.of] = row] /\ formTab' = [formTab EXCEPT ![t] = s]
  BY DEF SaveAnswer
<1>3. /\ row.kind = shown.row.kind /\ row.given = shown.row.given \cup {shown.page}
      /\ shown.page # "tools-2" => row.spss = shown.row.spss
  <2>1. given \in FormRowType /\ given.kind = shown.row.kind /\ given.spss = shown.row.spss
        /\ given.given = shown.row.given \cup {shown.page}
    BY <1>1 DEF FormRowType, FormPage
  <2> HIDE DEF given
  <2> QED BY <2>1 DEF FormRowType
<1>4. s.at = "page" /\ s.of = shown.of /\ s.page = PageAfter(row, shown.page, shown.change)
  OBVIOUS
<1> HIDE DEF row, s
<1>5. AccessTicketsAreComplete'
  BY <1>1, TicketsStayComplete
<1>6. row.kind = RowOf(t).kind /\ RowOf(t) = formRow[shown.of]
  BY <1>1, <1>3 DEF WalkInv, RowOf
<1>7. ASSUME row.kind # "data", ~astray[shown.of]
      PROVE  /\ s.page \in AccessPage /\ row.given \subseteq AccessPage
             /\ Before(row, s.page) \subseteq row.given
  <2>1. InTurn(t)
    BY <1>1, <1>6, <1>7, TurnIs
  <2>2. SameAnswers(shown.row, RowOf(t)) /\ RowOf(t).given \subseteq AccessPage
        /\ shown.page \in AccessPage /\ Before(RowOf(t), shown.page) \subseteq RowOf(t).given
    BY <1>1, <2>1 DEF InTurn
  <2>3. Before(shown.row, shown.page) = Before(RowOf(t), shown.page)
    BY <2>2 DEF SameAnswers, Before, Needed, FirstPage
  <2>4. shown.page \in AccessPage \ {"check"}
    BY <1>1, <2>2
  <2> QED BY <1>3, <1>4, <2>2, <2>3, <2>4, AnswerLeadsOn DEF SameAnswers
<1> QED BY <1>1, <1>2, <1>4, <1>5, <1>6, <1>7, WalkStep

LEMMA SaveTicketWalk ==
  ASSUME FormInv, WalkInv, NEW t \in FormTab, SaveTicket(t)
  PROVE  WalkInv'
<1> DEFINE s == [at |-> "confirmed", of |-> formTab[t].of]
           row == formTab[t].row
<1>1. /\ formTab[t].at = "save" /\ formTab[t].of \in Form /\ UNCHANGED <<tickets, astray>>
      /\ formTab' = [formTab EXCEPT ![t] = s] /\ formRow' = [formRow EXCEPT ![formTab[t].of] = row]
      /\ s.at = "confirmed" /\ s.of = formTab[t].of /\ astray \in [Form -> BOOLEAN]
  BY TabIs DEF SaveTicket, TabOn, WalkInv
<1> HIDE DEF s
<1>2. AccessTicketsAreComplete' /\ row.kind = RowOf(t).kind /\ RowOf(t) = formRow[formTab[t].of]
  BY <1>1, TicketsStayComplete DEF WalkInv, RowOf
<1>3. ASSUME row.kind # "data", ~astray[formTab[t].of]
      PROVE  Needed(row) \subseteq row.given /\ row.given \subseteq AccessPage
  <2>1. SameAnswers(row, RowOf(t)) /\ Needed(RowOf(t)) \subseteq RowOf(t).given
        /\ RowOf(t).given \subseteq AccessPage
    BY <1>1, <1>2, <1>3, TurnIs DEF InTurn
  <2> QED BY <2>1 DEF SameAnswers, Needed, FirstPage
<1> HIDE DEF row
<1> QED BY <1>1, <1>2, <1>3, WalkStep

LEMMA MakeTicketWalk ==
  ASSUME FormInv, WalkInv, NEW t \in FormTab, MakeTicket(t)
  PROVE  WalkInv'
<1>1. /\ formTab[t].at = "ticket" /\ formTab[t].of \in Form /\ formTab[t].row \in FormRowType
      /\ UNCHANGED <<formRow, astray>> /\ astray \in [Form -> BOOLEAN]
      /\ tickets' = Append(tickets, [of |-> formTab[t].of, row |-> formTab[t].row])
      /\ tickets \in Seq([of : Form, row : FormRowType])
  BY TabIs DEF MakeTicket, TabOn, WalkInv, FormInv
<1> DEFINE row == formTab[t].row
           o == formTab[t].of
           saved == [row EXCEPT !.ticket = Len(tickets) + 1]
           s == [at |-> "save", of |-> o, row |-> saved]
           k == [of |-> o, row |-> row]
<1>2. formTab' = [formTab EXCEPT ![t] = s] /\ s.at = "save" /\ s.of = o /\ s.row = saved
  BY DEF MakeTicket
<1>3. SameAnswers(saved, row)
  BY <1>1 DEF SameAnswers, FormRowType
<1>4. row.kind = RowOf(t).kind /\ RowOf(t) = formRow[o]
  BY <1>1 DEF WalkInv, RowOf
<1>5. formRow' = [formRow EXCEPT ![o] = formRow[o]]
  BY <1>1, RowStays
<1> HIDE DEF s, saved
<1>6. ASSUME row.kind # "data", ~astray[o]
      PROVE  /\ SameAnswers(saved, RowOf(t)) /\ Needed(RowOf(t)) \subseteq RowOf(t).given
             /\ RowOf(t).given \subseteq AccessPage /\ Needed(row) \subseteq row.given
  <2>1. SameAnswers(row, RowOf(t)) /\ Needed(RowOf(t)) \subseteq RowOf(t).given
        /\ RowOf(t).given \subseteq AccessPage
    BY <1>1, <1>4, <1>6, TurnIs DEF InTurn
  <2> QED BY <1>3, <2>1 DEF SameAnswers, Needed, FirstPage
<1>7. AccessTicketsAreComplete'
  <2>1. /\ Len(tickets') = Len(tickets) + 1 /\ Len(tickets) \in Nat
        /\ \A i \in 1..Len(tickets) : tickets'[i] = tickets[i]
        /\ tickets'[Len(tickets) + 1] = k
    <3>1. k \in [of : Form, row : FormRowType]
      BY <1>1
    <3> HIDE DEF k
    <3> QED BY <1>1, <3>1, AppendProperties, LenProperties DEF k
  <2>2. k.of = o /\ k.row = row
    OBVIOUS
  <2> HIDE DEF k, o, row
  <2> SUFFICES ASSUME NEW i \in 1..Len(tickets'), tickets'[i].row.kind # "data", ~astray[tickets'[i].of]
               PROVE  Needed(tickets'[i].row) \subseteq tickets'[i].row.given
    BY <1>1 DEF AccessTicketsAreComplete
  <2>3. CASE i \in 1..Len(tickets)
    BY <2>1, <2>3 DEF WalkInv, AccessTicketsAreComplete
  <2>4. CASE i = Len(tickets) + 1
    BY <1>6, <2>1, <2>2, <2>4
  <2>5. i \in 1..Len(tickets) \/ i = Len(tickets) + 1
    BY <2>1
  <2> QED BY <2>3, <2>4, <2>5
<1>8. saved.kind = formRow[o].kind
  BY <1>3, <1>4 DEF SameAnswers
<1>12. PICK q \in Form : q = o
  BY <1>1
<1>9. PICK stored : q = o /\ stored = formRow[q]
  BY <1>12
<1>10. stored.kind # "data" /\ ~astray'[q] =>
         /\ SameAnswers(s.row, stored) /\ Needed(stored) \subseteq stored.given
         /\ stored.given \subseteq AccessPage
  BY <1>1, <1>2, <1>4, <1>6, <1>9
<1>11. /\ formRow' = [formRow EXCEPT ![q] = stored] /\ s.row.kind = stored.kind
       /\ formTab[t].of = q /\ s.of = q /\ formTab[t].at # "away"
       /\ astray' \in [Form -> BOOLEAN] /\ \A p \in Form : astray[p] => astray'[p]
  BY <1>1, <1>2, <1>5, <1>8, <1>9
<1> HIDE DEF o, row
<1> QED BY <1>2, <1>7, <1>9, <1>10, <1>11, WalkStep

\* A form that is gone through in turn keeps to it.
THEOREM WalkInvariance == FormSpec => []WalkInv
<1>1. FormInit => WalkInv
  <2> SUFFICES ASSUME FormInit PROVE WalkInv
    OBVIOUS
  <2>1. Len(tickets) = 0 /\ astray \in [Form -> BOOLEAN] /\ \A t \in FormTab : formTab[t].at = "away"
    BY EmptySeq DEF FormInit
  <2> QED BY <2>1 DEF WalkInv, AccessTicketsAreComplete
<1>2. FormInv /\ WalkInv /\ [FormNext]_formVars => WalkInv'
  <2> SUFFICES ASSUME FormInv, WalkInv, [FormNext]_formVars PROVE WalkInv'
    OBVIOUS
  <2>1. ASSUME NEW t \in FormTab, FormStep(t) PROVE WalkInv'
    BY <2>1, StartWalk, BrowseWalk, AnswerWalk, SaveTicketWalk, MakeTicketWalk DEF FormStep
  <2>2. CASE UNCHANGED formVars
    BY <2>2 DEF formVars, WalkInv, InTurn, AccessTicketsAreComplete, RowOf
  <2> QED BY <2>1, <2>2 DEF FormNext
<1> QED BY <1>1, <1>2, FormInvariance, PTL DEF FormSpec

\* A request ends in one ticket, for any number of requests, tabs, reloads and answers that
\* fail; that of a data request has all its answers (RequestDataCheckAnswers), that of an
\* access request those of its journey when its pages were gone through in turn in one tab
\* (AccessRequestConfirmationPage, which does not look).
THEOREM FormIsSafe == FormSpec => []FormSafety
<1>1. FormInv /\ WalkInv => FormSafety
  <2> SUFFICES ASSUME FormInv, WalkInv PROVE FormSafety
    OBVIOUS
  <2>1. \A q \in Form : formRow[q] # NoRow => TicketIs(formRow[q], q) /\ formRow[q].ticket \in Nat
    BY DEF FormInv, FormRowType
  <2>2. tickets \in Seq([of : Form, row : FormRowType]) /\ Len(tickets) \in Nat
    BY LenProperties DEF FormInv
  <2>3. FormTypeOK
    BY <2>1, <2>2 DEF FormTypeOK, TicketIs, TicketsOf, FormInv, FormTabInv
  <2>4. OneTicketEach
    <3> SUFFICES ASSUME NEW q \in Form PROVE Cardinality(TicketsOf(q)) <= 1 + excused[q]
      BY DEF OneTicketEach
    <3>1. /\ Cardinality(TicketsOf(q)) <= excused[q] + (IF TicketKnown(q) THEN 1 ELSE 0)
          /\ Cardinality(TicketsOf(q)) \in Nat /\ excused[q] \in Nat
      BY <2>2, TicketsOfFinite DEF FormInv, TicketsExcused
    <3> QED BY <3>1
  <2> QED BY <2>3, <2>4 DEF FormSafety, FormInv, WalkInv, TicketsAreComplete
<1> QED BY <1>1, FormInvariance, WalkInvariance, PTL

(***************************************************************************)
(* Emails about changes of datasets.                                       *)
(***************************************************************************)
LEMMA NotifyInitInv == NotifyInit => NotifyInv
<1> SUFFICES ASSUME NotifyInit PROVE NotifyInv
  OBVIOUS
<1>1. /\ notified = {} /\ DOMAIN told = {} /\ DOMAIN mails = {} /\ cut = 0
      /\ \A w \in NotifyTask : sender[w].at = "idle"
      /\ told \in [DOMAIN told -> {"unsent", "sent"}] /\ mails \in [DOMAIN mails -> Nat]
  BY DEF NotifyInit, IdleRun
<1>2. tableVersion \in [Subject -> Version] /\ metadata \in [Subject -> Seq(Version)]
  BY EmptySeq DEF NotifyInit, Version
<1>3. /\ wants \in [Subscriber \X Subject -> [kind : {"none", "columns", "all"}, since : Nat]]
      /\ writer \in [MetadataTask -> {IdleRun} \cup [at : {"insert"}, of : Subject, date : Nat]]
      /\ sender \in [NotifyTask -> SenderRun]
  BY DEF NotifyInit, SenderRun
<1>4. NotifyTypes
  BY <1>1, <1>2, <1>3 DEF NotifyTypes
<1>5. \A w \in NotifyTask : InsertedBy(w) = {}
  BY <1>1 DEF InsertedBy, Phase
<1> QED BY <1>1, <1>4, <1>5 DEF NotifyInv, NotifyTypeOK, SubscribersAreTold, NotifyCreating,
           NotifyLocks, MailsCounted, Phase

\* What a transaction is doing.
LEMMA SenderIs ==
  ASSUME NotifyInv, NEW w \in NotifyTask
  PROVE  /\ sender[w] \in SenderRun
         /\ Phase(w, "create") => sender[w] \in
              [at : {"create"}, left : SUBSET Subject, made : SUBSET Change, told : SUBSET Note]
         /\ Phase(w, "send") => sender[w] \in [at : {"send"}, left : SUBSET Note]
         /\ Phase(w, "locked") => sender[w] \in
              [at : {"locked"}, left : SUBSET Note, note : Note, mailed : BOOLEAN]
         /\ InsertedBy(w) \subseteq Change
<1>1. sender[w] \in SenderRun
  BY DEF NotifyInv, NotifyTypes
<1> QED BY <1>1 DEF SenderRun, Phase, IdleRun, InsertedBy

\* Rows of the metadata are only added: what was noted, and what it changed, stays.
LEMMA NotedStays ==
  ASSUME NotifyTypes, metadata' \in [Subject -> Seq(Version)],
         \A o \in Subject : /\ Len(metadata[o]) <= Len(metadata'[o])
                            /\ \A i \in 1..Len(metadata[o]) : metadata'[o][i] = metadata[o][i]
  PROVE  \A c \in Change : Noted(c) => Noted(c)' /\ (SchemaChange(c)' <=> SchemaChange(c))
<1> SUFFICES ASSUME NEW c \in Change, Noted(c) PROVE Noted(c)' /\ (SchemaChange(c)' <=> SchemaChange(c))
  OBVIOUS
<1>1. PICK o \in Subject, i \in Nat : c = <<o, i>>
  BY DEF Change
<1>2. Len(metadata[o]) \in Nat /\ Len(metadata'[o]) \in Nat
  BY LenProperties DEF NotifyTypes
<1>3. i \in 1..Len(metadata[o]) /\ i \in 1..Len(metadata'[o])
  BY <1>1, <1>2 DEF Noted
<1>4. PICK j : j = i - 1
  OBVIOUS
<1>5. i # 1 => j \in 1..Len(metadata[o])
  BY <1>2, <1>3, <1>4
<1>6. /\ SchemaChange(c) <=> i = 1 \/ metadata[o][i].structure # metadata[o][j].structure
      /\ SchemaChange(c)' <=> i = 1 \/ metadata'[o][i].structure # metadata'[o][j].structure
  BY <1>1, <1>4 DEF SchemaChange, Columns
<1> QED BY <1>1, <1>3, <1>5, <1>6 DEF Noted

\* Subscriptions change only from now on: who is steady was steady before.
LEMMA TellingStays ==
  ASSUME NotifyInv, UNCHANGED <<notified, told, mails, sender, cut>>, NotifyTypes',
         \A c \in Change : Noted(c) => Noted(c)',
         \A c \in Change, s \in Subscriber : Noted(c) /\ Steady(s, c)' => Steady(s, c)
  PROVE  NotifyInv'
<1>1. \A v : InsertedBy(v)' = InsertedBy(v)
  BY DEF InsertedBy, Phase
<1>2. notified \subseteq Change /\ \A v \in NotifyTask : InsertedBy(v) \subseteq Change
  BY SenderIs DEF NotifyInv, NotifyTypes
<1>3. NotifyTypeOK'
  BY <1>1 DEF NotifyInv, NotifyTypeOK
<1>4. \A c \in notified : Noted(c)
  BY DEF NotifyInv, NotifyCreating
<1>5. SubscribersAreTold'
  BY <1>2, <1>4 DEF NotifyInv, SubscribersAreTold
<1>6. NotifyCreating'
  <2>1. \A c \in notified : Noted(c)'
    BY <1>2, <1>4
  <2>2. \A v \in NotifyTask : \A c \in InsertedBy(v)' : Noted(c)'
    BY <1>1, <1>2 DEF NotifyInv, NotifyCreating
  <2>3. ASSUME NEW v \in NotifyTask, Phase(v, "create")'
        PROVE /\ \A p \in sender'[v].told : p[1] \in sender'[v].made
              /\ \A c \in sender'[v].made, s \in Subscriber :
                   Steady(s, c)' => <<c, s>> \in sender'[v].told
    <3>1. Phase(v, "create") /\ InsertedBy(v) = sender[v].made
      BY <2>3 DEF Phase, InsertedBy
    <3>2. \A c \in sender[v].made : Noted(c) /\ c \in Change
      BY <1>2, <3>1 DEF NotifyInv, NotifyCreating
    <3> QED BY <3>1, <3>2 DEF NotifyInv, NotifyCreating
  <2> QED BY <2>1, <2>2, <2>3 DEF NotifyCreating
<1>7. NotifyLocks'
  BY DEF NotifyInv, NotifyLocks, Phase
<1>8. MailsCounted'
  BY DEF NotifyInv, MailsCounted, Mailed, Phase
<1> QED BY <1>3, <1>5, <1>6, <1>7, <1>8 DEF NotifyInv

LEMMA SubjectsInv ==
  ASSUME NotifyInv,
         \/ \E o \in Subject, both \in BOOLEAN : ChangeSubject(o, both)
         \/ \E w \in MetadataTask : InsertRow(w) \/ \E o \in Subject : ReadDate(w, o)
  PROVE  NotifyInv'
<1>0. NotifyTypes
  BY DEF NotifyInv
<1>1. ASSUME NEW o \in Subject, NEW both \in BOOLEAN, ChangeSubject(o, both) PROVE NotifyInv'
  <2>1. tableVersion \in [Subject -> Version] /\ tableVersion[o] \in Version
    BY <1>0 DEF NotifyTypes
  <2>2. PICK v : v = [structure |-> IF both THEN tableVersion[o].date + 1 ELSE tableVersion[o].structure,
                      data |-> tableVersion[o].date + 1, date |-> tableVersion[o].date + 1]
    OBVIOUS
  <2>3. v \in Version
    BY <2>1, <2>2 DEF Version
  <2>4. tableVersion' = [tableVersion EXCEPT ![o] = v]
    BY <1>1, <2>2 DEF ChangeSubject
  <2>5. tableVersion' \in [Subject -> Version]
    BY <2>1, <2>3, <2>4
  <2>6. UNCHANGED <<metadata, wants, notified, told, mails, writer, sender, cut>>
    BY <1>1 DEF ChangeSubject
  <2>7. NotifyTypes'
    BY <1>0, <2>5, <2>6 DEF NotifyTypes
  <2> QED BY <2>6, <2>7, TellingStays DEF Steady, Wanted, SchemaChange, Columns, Noted
<1>2. ASSUME NEW w \in MetadataTask, InsertRow(w) PROVE NotifyInv'
  <2>1. /\ writer[w] \in {IdleRun} \cup [at : {"insert"}, of : Subject, date : Nat]
        /\ writer[w].at = "insert"
    BY <1>0, <1>2 DEF NotifyTypes, InsertRow
  <2>2. writer[w].of \in Subject /\ writer[w].date \in Nat
    BY <2>1 DEF IdleRun
  <2> DEFINE o == writer[w].of
             row == [tableVersion[o] EXCEPT !.date = writer[w].date]
  <2>3. row \in Version
    <3>1. tableVersion[o] \in Version
      BY <1>0, <2>2 DEF NotifyTypes
    <3> QED BY <2>2, <3>1 DEF Version
  <2>4. metadata' = [metadata EXCEPT ![o] = Append(metadata[o], row)]
    BY <1>2 DEF InsertRow
  <2>5. /\ metadata \in [Subject -> Seq(Version)] /\ o \in Subject
        /\ \A p \in Subject : metadata[p] \in Seq(Version) /\ Len(metadata[p]) \in Nat
    BY <1>0, <2>2, LenProperties DEF NotifyTypes
  <2> HIDE DEF row, o
  <2>6. /\ Append(metadata[o], row) \in Seq(Version)
        /\ Len(Append(metadata[o], row)) = Len(metadata[o]) + 1
        /\ \A i \in 1..Len(metadata[o]) : Append(metadata[o], row)[i] = metadata[o][i]
    BY <2>3, <2>5, AppendProperties
  <2>7. /\ metadata' \in [Subject -> Seq(Version)]
        /\ \A p \in Subject : /\ Len(metadata[p]) <= Len(metadata'[p])
                              /\ \A i \in 1..Len(metadata[p]) : metadata'[p][i] = metadata[p][i]
    BY <2>4, <2>5, <2>6
  <2>8. \A c \in Change : Noted(c) => Noted(c)' /\ (SchemaChange(c)' <=> SchemaChange(c))
    BY <1>0, <2>7, NotedStays
  <2>9. /\ UNCHANGED <<tableVersion, wants, notified, told, mails, sender, cut>>
        /\ writer' \in [MetadataTask -> {IdleRun} \cup [at : {"insert"}, of : Subject, date : Nat]]
    BY <1>0, <1>2 DEF InsertRow, NotifyTypes
  <2>10. NotifyTypes'
    BY <1>0, <2>7, <2>9 DEF NotifyTypes
  <2>11. \A c \in Change, s \in Subscriber : Noted(c) /\ Steady(s, c)' => Steady(s, c)
    BY <2>8, <2>9 DEF Steady, Wanted
  <2> QED BY <2>8, <2>9, <2>10, <2>11, TellingStays
<1>3. ASSUME NEW w \in MetadataTask, NEW o \in Subject, ReadDate(w, o) PROVE NotifyInv'
  <2>1. tableVersion[o].date \in Nat
    BY <1>0 DEF NotifyTypes, Version
  <2>2. UNCHANGED <<tableVersion, metadata, wants, notified, told, mails, sender, cut>>
    BY <1>3 DEF ReadDate
  <2>3. writer' \in [MetadataTask -> {IdleRun} \cup [at : {"insert"}, of : Subject, date : Nat]]
    BY <1>0, <1>3, <2>1 DEF ReadDate, NotifyTypes
  <2>4. NotifyTypes'
    BY <1>0, <2>2, <2>3 DEF NotifyTypes
  <2> QED BY <2>2, <2>4, TellingStays DEF Steady, Wanted, SchemaChange, Columns, Noted
<1> QED BY <1>1, <1>2, <1>3

LEMMA SubscribingInv ==
  ASSUME NotifyInv, NEW s \in Subscriber, NEW o \in Subject,
         Unsubscribe(s, o) \/ \E kind \in {"columns", "all"} : Subscribe(s, o, kind)
  PROVE  NotifyInv'
<1> DEFINE W == [kind : {"none", "columns", "all"}, since : Nat]
<1>0. /\ NotifyTypes /\ wants \in [Subscriber \X Subject -> W] /\ <<s, o>> \in Subscriber \X Subject
      /\ Len(metadata[o]) \in Nat
  BY LenProperties DEF NotifyInv, NotifyTypes
<1>1. /\ UNCHANGED <<tableVersion, metadata, writer, notified, told, mails, sender, cut>>
      /\ \A c : SchemaChange(c)' = SchemaChange(c)
      /\ \A c : Noted(c)' = Noted(c)
  BY DEF Unsubscribe, Subscribe, subjects, SchemaChange, Columns, Noted
<1>2. PICK x \in W : /\ wants' = [wants EXCEPT ![<<s, o>>] = x]
                     /\ x.kind = "none" \/ x.since = Len(metadata[o])
  <2>1. CASE Unsubscribe(s, o)
    <3>1. [wants[<<s, o>>] EXCEPT !.kind = "none"] \in W
      BY <1>0
    <3> QED BY <1>0, <2>1, <3>1 DEF Unsubscribe
  <2>2. ASSUME NEW kind \in {"columns", "all"}, Subscribe(s, o, kind)
        PROVE \E x \in W : /\ wants' = [wants EXCEPT ![<<s, o>>] = x]
                           /\ x.kind = "none" \/ x.since = Len(metadata[o])
    <3>1. PICK x : x = [kind |-> kind, since |-> Len(metadata[o])]
      OBVIOUS
    <3>2. x \in W /\ x.since = Len(metadata[o])
      BY <1>0, <3>1
    <3>3. wants' = [wants EXCEPT ![<<s, o>>] = x]
      BY <2>2, <3>1 DEF Subscribe
    <3> QED BY <3>2, <3>3
  <2> QED BY <2>1, <2>2
<1>3. wants' \in [Subscriber \X Subject -> W]
      /\ \A q \in Subscriber \X Subject : wants'[q] = IF q = <<s, o>> THEN x ELSE wants[q]
  BY <1>0, <1>2
<1>4. NotifyTypes'
  BY <1>0, <1>1, <1>3 DEF NotifyTypes
<1>5. ASSUME NEW c \in Change, NEW u \in Subscriber, Noted(c), Steady(u, c)' PROVE Steady(u, c)
  <2>1. PICK p \in Subject, i \in Nat : c = <<p, i>>
    BY DEF Change
  <2>2. <<u, p>> \in Subscriber \X Subject
    OBVIOUS
  <2>3. CASE <<u, p>> # <<s, o>>
    BY <1>1, <1>3, <1>5, <2>1, <2>2, <2>3 DEF Steady, Wanted
  <2>4. CASE <<u, p>> = <<s, o>>
    <3>1. wants'[<<u, p>>] = x /\ i <= Len(metadata[o])
      BY <1>3, <1>5, <2>1, <2>4, <1>0 DEF Noted
    <3>2. x.since < i /\ x.kind # "none"
      BY <1>5, <2>1, <3>1 DEF Steady, Wanted
    <3> QED BY <1>0, <1>2, <3>1, <3>2
  <2> QED BY <2>3, <2>4
<1> QED BY <1>1, <1>4, <1>5, TellingStays

\* A transaction goes on and nothing else changes: what it must have made, and
\* which rows it may hold.
LEMMA SenderMovesInv ==
  ASSUME NotifyInv, NEW w \in NotifyTask, NEW s \in SenderRun,
         sender' = [sender EXCEPT ![w] = s],
         UNCHANGED <<subjects, wants, notified, told, mails>>, cut' \in Nat,
         s.at = "create" =>
           /\ \A p \in s.told : p[1] \in s.made
           /\ \A c \in s.made : Noted(c) /\ c \notin notified
           /\ \A c \in s.made, u \in Subscriber : Steady(u, c) => <<c, u>> \in s.told
           /\ \A v \in NotifyTask \ {w} : InsertedBy(v) \cap s.made = {},
         s.at = "locked" =>
           /\ s.note \in DOMAIN told /\ told[s.note] = "unsent"
           /\ \A v \in NotifyTask \ {w} : Phase(v, "locked") => sender[v].note # s.note,
         s.at = "locked" => ~s.mailed,
         Phase(w, "locked") /\ sender[w].mailed => cut' >= cut + 1,
         cut' >= cut
  PROVE  NotifyInv'
<1>1. /\ sender \in [NotifyTask -> SenderRun] /\ sender' \in [NotifyTask -> SenderRun]
      /\ \A v \in NotifyTask : sender'[v] = IF v = w THEN s ELSE sender[v]
      /\ UNCHANGED <<tableVersion, metadata, writer>>
  BY DEF NotifyInv, NotifyTypes, subjects
<1>2. NotifyTypes'
  BY <1>1 DEF NotifyInv, NotifyTypes
<1>3. \A c : /\ SchemaChange(c)' = SchemaChange(c) /\ Noted(c)' = Noted(c)
             /\ \A u : Steady(u, c)' = Steady(u, c)
  BY <1>1 DEF SchemaChange, Columns, Noted, Steady, Wanted
<1>4. \A v \in NotifyTask :
        InsertedBy(v)' = IF v = w THEN (IF s.at = "create" THEN s.made ELSE {}) ELSE InsertedBy(v)
  BY <1>1 DEF InsertedBy, Phase
<1>5. NotifyTypeOK'
  BY <1>4 DEF NotifyInv, NotifyTypeOK
<1>6. SubscribersAreTold'
  BY <1>3 DEF NotifyInv, SubscribersAreTold
<1>7. NotifyCreating'
  <2>1. \A c \in notified : Noted(c)'
    BY <1>3 DEF NotifyInv, NotifyCreating
  <2>2. \A v \in NotifyTask : \A c \in InsertedBy(v)' : Noted(c)'
    BY <1>3, <1>4 DEF NotifyInv, NotifyCreating
  <2>3. ASSUME NEW v \in NotifyTask, Phase(v, "create")'
        PROVE /\ \A p \in sender'[v].told : p[1] \in sender'[v].made
              /\ \A c \in sender'[v].made, u \in Subscriber :
                   Steady(u, c)' => <<c, u>> \in sender'[v].told
    <3>1. CASE v = w
      BY <1>1, <1>3, <2>3, <3>1 DEF Phase
    <3>2. CASE v # w
      <4>1. Phase(v, "create") /\ sender'[v] = sender[v]
        BY <1>1, <2>3, <3>2 DEF Phase
      <4> QED BY <1>3, <4>1 DEF NotifyInv, NotifyCreating
    <3> QED BY <3>1, <3>2
  <2> QED BY <2>1, <2>2, <2>3 DEF NotifyCreating
<1>8. NotifyLocks'
  BY <1>1 DEF NotifyInv, NotifyLocks, Phase
<1>9. MailsCounted'
  <2> SUFFICES ASSUME NEW p \in DOMAIN mails
      PROVE mails[p] <= cut' + (IF Mailed(p)' THEN 1 ELSE 0)
    BY DEF MailsCounted
  <2>1. /\ mails[p] <= cut + (IF Mailed(p) THEN 1 ELSE 0)
        /\ mails[p] \in Nat /\ cut \in Nat /\ cut' \in Nat
    BY DEF NotifyInv, NotifyTypes, MailsCounted
  <2>2. CASE Mailed(p) => Mailed(p)'
    BY <2>1, <2>2
  <2>3. CASE Mailed(p) /\ ~Mailed(p)'
    <3>1. Phase(w, "locked") /\ sender[w].mailed
      BY <1>1, <2>3 DEF Mailed, Phase
    <3> QED BY <2>1, <3>1
  <2> QED BY <2>2, <2>3
<1> QED BY <1>2, <1>5, <1>6, <1>7, <1>8, <1>9 DEF NotifyInv

\* What a new notification is: of a row of the metadata, the newest that changed it.
LEMMA NewestIsNoted ==
  ASSUME NotifyTypes, NEW o \in Subject
  PROVE  \A c \in Newest(o) : c \in Change /\ Noted(c)
<1>1. Len(metadata[o]) \in Nat
  BY LenProperties DEF NotifyTypes
<1> QED BY <1>1 DEF Newest, Changelog, Change, Noted

LEMMA CreatingInv ==
  ASSUME NotifyInv, NEW w \in NotifyTask,
         StartCreating(w) \/ \E o \in Subject : CreateFor(w, o)
  PROVE  NotifyInv'
<1>0. NotifyTypes /\ cut \in Nat
  BY DEF NotifyInv, NotifyTypes
<1>1. CASE StartCreating(w)
  <2> DEFINE s == [at |-> "create", left |-> Subject, made |-> {}, told |-> {}]
  <2>1. s \in SenderRun
    BY DEF SenderRun
  <2>2. /\ sender' = [sender EXCEPT ![w] = s] /\ ~Phase(w, "locked")
        /\ UNCHANGED <<subjects, wants, notified, told, mails, cut>>
    BY <1>1 DEF StartCreating, Phase, IdleRun
  <2>3. cut' \in Nat /\ cut' >= cut
    BY <1>0, <2>2
  <2>4. s.at = "create" /\ s.told = {} /\ s.made = {}
    OBVIOUS
  <2> HIDE DEF s
  <2> QED BY <1>0, <2>1, <2>2, <2>3, <2>4, SenderMovesInv
<1>2. ASSUME NEW o \in Subject, CreateFor(w, o) PROVE NotifyInv'
  <2> DEFINE new == Newest(o) \ (notified \cup sender[w].made)
             more == {p \in new \X Subscriber : Wanted(p[2], p[1])}
             s == [at |-> "create", left |-> sender[w].left \ {o}, made |-> sender[w].made \cup new,
                   told |-> sender[w].told \cup more]
  <2>1. /\ sender' = [sender EXCEPT ![w] = s] /\ Phase(w, "create")
        /\ UNCHANGED <<subjects, wants, notified, told, mails, cut>>
        /\ \A v \in NotifyTask \ {w} : Newest(o) \cap InsertedBy(v) = {}
    BY <1>2 DEF CreateFor
  <2>2. \A c \in new : c \in Change /\ Noted(c) /\ c \notin notified
    BY <1>0, NewestIsNoted
  <2>3. \A p \in more : p \in Note /\ p[1] \in new
    BY <2>2 DEF Note
  <2>4. \A c \in new, u \in Subscriber : Wanted(u, c) => <<c, u>> \in more
    OBVIOUS
  <2>5. sender[w] \in [at : {"create"}, left : SUBSET Subject, made : SUBSET Change, told : SUBSET Note]
    BY <2>1, SenderIs
  <2>6. InsertedBy(w) = sender[w].made
    BY <2>1 DEF InsertedBy
  <2>7. /\ \A p \in sender[w].told : p[1] \in sender[w].made
        /\ \A c \in sender[w].made : Noted(c) /\ c \notin notified
        /\ \A v \in NotifyTask \ {w} : InsertedBy(v) \cap sender[w].made = {}
        /\ \A c \in sender[w].made, u \in Subscriber : Steady(u, c) => <<c, u>> \in sender[w].told
    BY <2>1, <2>6 DEF NotifyInv, NotifyTypeOK, NotifyCreating
  <2>8. \A v \in NotifyTask \ {w} : InsertedBy(v) \cap new = {}
    BY <2>1
  <2> HIDE DEF new, more
  <2>9. s \in SenderRun /\ s.at = "create"
    BY <2>2, <2>3, <2>5 DEF SenderRun
  <2>10. /\ \A p \in s.told : p[1] \in s.made
         /\ \A c \in s.made : Noted(c) /\ c \notin notified
         /\ \A v \in NotifyTask \ {w} : InsertedBy(v) \cap s.made = {}
    BY <2>2, <2>3, <2>7, <2>8
  <2>11. \A c \in s.made, u \in Subscriber : Steady(u, c) => <<c, u>> \in s.told
    BY <2>4, <2>7 DEF Steady
  <2>12. ~Phase(w, "locked")
    BY <2>1 DEF Phase
  <2> HIDE DEF s
  <2>13. cut' \in Nat /\ cut' >= cut
    BY <1>0, <2>1
  <2> QED BY <1>0, <2>1, <2>9, <2>10, <2>11, <2>12, <2>13, SenderMovesInv
<1> QED BY <1>1, <1>2

LEMMA CommitCreatedInv ==
  ASSUME NotifyInv, NEW w \in NotifyTask, CommitCreated(w)
  PROVE  NotifyInv'
<1> DEFINE made == sender[w].made
           news == sender[w].told
<1>1. /\ Phase(w, "create") /\ notified' = notified \cup made
      /\ told' = [p \in news \cup DOMAIN told |-> IF p \in news THEN "unsent" ELSE told[p]]
      /\ sender' = [sender EXCEPT ![w] = [at |-> "list"]]
      /\ UNCHANGED <<tableVersion, metadata, writer, wants, mails, cut>>
  BY DEF CommitCreated, subjects
<1>2. sender[w] \in [at : {"create"}, left : SUBSET Subject, made : SUBSET Change, told : SUBSET Note]
  BY <1>1, SenderIs
<1>3. made \subseteq Change /\ news \subseteq Note /\ InsertedBy(w) = made
  BY <1>1, <1>2 DEF InsertedBy
<1>4. /\ \A p \in news : p[1] \in made
      /\ \A c \in made, u \in Subscriber : Steady(u, c) => <<c, u>> \in news
      /\ \A c \in made : Noted(c) /\ c \notin notified
      /\ \A v \in NotifyTask \ {w} : InsertedBy(v) \cap made = {}
  BY <1>1, <1>3 DEF NotifyInv, NotifyTypeOK, NotifyCreating
<1>5. /\ \A p \in DOMAIN told : p[1] \in notified /\ told[p] \in {"unsent", "sent"}
      /\ DOMAIN told \subseteq Note
  BY DEF NotifyInv, NotifyTypeOK, NotifyTypes
<1> HIDE DEF made, news
<1>6. DOMAIN told' = news \cup DOMAIN told /\ \A p \in DOMAIN told : p \notin news /\ told'[p] = told[p]
  BY <1>1, <1>4, <1>5
<1>7. \A p \in news : told'[p] = "unsent"
  BY <1>1
<1>8. told' \in [DOMAIN told' -> {"unsent", "sent"}]
  <2>1. \A p \in news \cup DOMAIN told : (IF p \in news THEN "unsent" ELSE told[p]) \in {"unsent", "sent"}
    BY <1>5
  <2>2. told' \in [news \cup DOMAIN told -> {"unsent", "sent"}]
    BY <1>1, <2>1
  <2> QED BY <1>6, <2>2
<1>9. /\ sender \in [NotifyTask -> SenderRun] /\ sender' \in [NotifyTask -> SenderRun]
      /\ \A v \in NotifyTask : sender'[v] = IF v = w THEN [at |-> "list"] ELSE sender[v]
  <2>1. [at |-> "list"] \in SenderRun
    BY DEF SenderRun
  <2> QED BY <1>1, <2>1 DEF NotifyInv, NotifyTypes
<1>10. NotifyTypes'
  BY <1>1, <1>3, <1>5, <1>6, <1>8, <1>9 DEF NotifyInv, NotifyTypes
<1>11. \A c : /\ SchemaChange(c)' = SchemaChange(c) /\ Noted(c)' = Noted(c)
              /\ \A u : Steady(u, c)' = Steady(u, c)
  BY <1>1 DEF SchemaChange, Columns, Noted, Steady, Wanted
<1>12. \A v \in NotifyTask : InsertedBy(v)' = IF v = w THEN {} ELSE InsertedBy(v)
  BY <1>9 DEF InsertedBy, Phase
<1>13. NotifyTypeOK'
  <2>1. \A p \in DOMAIN told' : p[1] \in notified' /\ told'[p] \in {"unsent", "sent"}
    BY <1>1, <1>4, <1>5, <1>6, <1>7
  <2>2. \A v, u \in NotifyTask : v # u => InsertedBy(v)' \cap InsertedBy(u)' = {}
    BY <1>12 DEF NotifyInv, NotifyTypeOK
  <2>3. \A v \in NotifyTask : InsertedBy(v)' \cap notified' = {}
    BY <1>1, <1>4, <1>12 DEF NotifyInv, NotifyTypeOK
  <2> QED BY <2>1, <2>2, <2>3 DEF NotifyTypeOK
<1>14. SubscribersAreTold'
  BY <1>1, <1>4, <1>6, <1>11 DEF NotifyInv, SubscribersAreTold
<1>15. NotifyCreating'
  <2>1. \A c \in notified' : Noted(c)'
    BY <1>1, <1>4, <1>11 DEF NotifyInv, NotifyCreating
  <2>2. \A v \in NotifyTask : \A c \in InsertedBy(v)' : Noted(c)'
    BY <1>11, <1>12 DEF NotifyInv, NotifyCreating
  <2>3. ASSUME NEW v \in NotifyTask, Phase(v, "create")'
        PROVE /\ \A p \in sender'[v].told : p[1] \in sender'[v].made
              /\ \A c \in sender'[v].made, u \in Subscriber :
                   Steady(u, c)' => <<c, u>> \in sender'[v].told
    <3>1. Phase(v, "create") /\ sender'[v] = sender[v]
      BY <1>9, <2>3 DEF Phase
    <3> QED BY <1>11, <3>1 DEF NotifyInv, NotifyCreating
  <2> QED BY <2>1, <2>2, <2>3 DEF NotifyCreating
<1>16. NotifyLocks'
  BY <1>6, <1>9 DEF NotifyInv, NotifyLocks, Phase
<1>17. MailsCounted'
  <2>1. \A p : Mailed(p) => Mailed(p)'
    BY <1>6, <1>9, <1>1 DEF Mailed, Phase
  <2>2. /\ cut' = cut /\ mails' = mails /\ cut \in Nat
        /\ \A p \in DOMAIN mails : /\ mails[p] \in Nat
                                   /\ mails[p] <= cut + (IF Mailed(p) THEN 1 ELSE 0)
    BY <1>1 DEF NotifyInv, NotifyTypes, MailsCounted
  <2>3. ASSUME NEW p \in DOMAIN mails PROVE mails[p] <= cut + (IF Mailed(p)' THEN 1 ELSE 0)
    <3>1. (Mailed(p) => Mailed(p)') /\ mails[p] \in Nat /\ mails[p] <= cut + (IF Mailed(p) THEN 1 ELSE 0)
      BY <2>1, <2>2
    <3> QED BY <2>2, <3>1
  <2> QED BY <2>2, <2>3 DEF MailsCounted
<1> QED BY <1>10, <1>13, <1>14, <1>15, <1>16, <1>17 DEF NotifyInv

LEMMA SendingInv ==
  ASSUME NotifyInv, NEW w \in NotifyTask,
         \/ ListUnsent(w) \/ MailRefused(w) \/ EndOfRun(w) \/ SenderDies(w)
         \/ \E p \in DOMAIN told : LockNote(w, p)
  PROVE  NotifyInv'
<1>0. NotifyTypes /\ cut \in Nat /\ DOMAIN told \subseteq Note
      /\ \A p \in DOMAIN told : told[p] \in {"unsent", "sent"}
  BY DEF NotifyInv, NotifyTypes
<1>1. CASE ListUnsent(w)
  <2> DEFINE s == [at |-> "send", left |-> {p \in DOMAIN told : told[p] = "unsent"}]
  <2>1. s \in SenderRun
    BY <1>0 DEF SenderRun
  <2>2. /\ sender' = [sender EXCEPT ![w] = s] /\ ~Phase(w, "locked")
        /\ UNCHANGED <<subjects, wants, notified, told, mails, cut>>
    BY <1>1 DEF ListUnsent, Phase
  <2>3. cut' \in Nat /\ cut' >= cut
    BY <1>0, <2>2
  <2>4. s.at = "send"
    OBVIOUS
  <2> HIDE DEF s
  <2> QED BY <1>0, <2>1, <2>2, <2>3, <2>4, SenderMovesInv
<1>2. CASE MailRefused(w)
  <2> DEFINE s == [at |-> "send", left |-> sender[w].left]
  <2>1. s \in SenderRun
    BY <1>2, SenderIs DEF SenderRun, MailRefused
  <2>2. /\ sender' = [sender EXCEPT ![w] = s] /\ ~sender[w].mailed
        /\ UNCHANGED <<subjects, wants, notified, told, mails, cut>>
    BY <1>2 DEF MailRefused
  <2>3. cut' \in Nat /\ cut' >= cut
    BY <1>0, <2>2
  <2>4. s.at = "send"
    OBVIOUS
  <2> HIDE DEF s
  <2> QED BY <1>0, <2>1, <2>2, <2>3, <2>4, SenderMovesInv
<1>3. CASE EndOfRun(w)
  <2>1. IdleRun \in SenderRun
    BY DEF SenderRun
  <2>2. /\ sender' = [sender EXCEPT ![w] = IdleRun] /\ ~Phase(w, "locked")
        /\ UNCHANGED <<subjects, wants, notified, told, mails, cut>>
    BY <1>3 DEF EndOfRun, Phase
  <2>3. cut' \in Nat /\ cut' >= cut
    BY <1>0, <2>2
  <2>4. IdleRun.at = "idle"
    BY DEF IdleRun
  <2> QED BY <1>0, <2>1, <2>2, <2>3, <2>4, SenderMovesInv
<1>4. CASE SenderDies(w)
  <2>1. IdleRun \in SenderRun /\ IdleRun.at = "idle"
    BY DEF SenderRun, IdleRun
  <2>2. /\ sender' = [sender EXCEPT ![w] = IdleRun]
        /\ UNCHANGED <<subjects, wants, notified, told, mails>>
        /\ cut' = IF Phase(w, "locked") /\ sender[w].mailed THEN cut + 1 ELSE cut
    BY <1>4 DEF SenderDies
  <2>3. cut' \in Nat /\ cut' >= cut /\ (Phase(w, "locked") /\ sender[w].mailed => cut' >= cut + 1)
    BY <1>0, <2>2
  <2> QED BY <2>1, <2>2, <2>3, SenderMovesInv
<1>5. ASSUME NEW p \in DOMAIN told, LockNote(w, p) PROVE NotifyInv'
  <2>1. /\ sender[w] \in [at : {"send"}, left : SUBSET Note] /\ Phase(w, "send") /\ ~Phase(w, "locked")
        /\ UNCHANGED <<subjects, wants, notified, told, mails, cut>> /\ FreeToLock(p)
    BY <1>5, SenderIs DEF LockNote, Phase
  <2>2. CASE told[p] = "sent"
    <3> DEFINE s == [at |-> "send", left |-> sender[w].left \ {p}]
    <3>1. sender' = [sender EXCEPT ![w] = s]
      BY <1>5, <2>2 DEF LockNote
    <3>2. s \in [at : {"send"}, left : SUBSET Note]
      BY <2>1
    <3>3. s \in SenderRun /\ s.at = "send"
      BY <3>2 DEF SenderRun
    <3> HIDE DEF s
    <3>4. cut' \in Nat /\ cut' >= cut
      BY <1>0, <2>1
    <3> QED BY <1>0, <2>1, <3>1, <3>3, <3>4, SenderMovesInv
  <2>3. CASE told[p] # "sent"
    <3> DEFINE s == [at |-> "locked", left |-> sender[w].left \ {p}, note |-> p, mailed |-> FALSE]
    <3>1. sender' = [sender EXCEPT ![w] = s]
      BY <1>5, <2>3 DEF LockNote
    <3>2. s \in SenderRun
      BY <1>0, <2>1 DEF SenderRun
    <3>3. told[p] = "unsent" /\ \A v \in NotifyTask \ {w} : Phase(v, "locked") => sender[v].note # p
      BY <1>0, <2>1, <2>3 DEF FreeToLock
    <3>4. cut' \in Nat /\ cut' >= cut
      BY <1>0, <2>1
    <3>5. s.at = "locked" /\ s.note = p /\ ~s.mailed
      OBVIOUS
    <3> HIDE DEF s
    <3> QED BY <1>0, <2>1, <3>1, <3>2, <3>3, <3>4, <3>5, SenderMovesInv
  <2> QED BY <2>2, <2>3
<1> QED BY <1>1, <1>2, <1>3, <1>4, <1>5

\* The two steps that send an email and note it: the row stays locked between them.
LEMMA MailInv ==
  ASSUME NotifyInv, NEW w \in NotifyTask, SendMail(w) \/ CommitSent(w)
  PROVE  NotifyInv'
<1> SUFFICES ASSUME NEW note, note = sender[w].note PROVE NotifyInv'
  OBVIOUS
<1> DEFINE L == [at : {"locked"}, left : SUBSET Note, note : Note, mailed : BOOLEAN]
<1>0. /\ NotifyTypes /\ sender[w] \in L /\ Phase(w, "locked") /\ note \in Note
      /\ note \in DOMAIN told /\ told[note] = "unsent"
      /\ \A v \in NotifyTask : Phase(v, "locked") /\ sender[v].note = note => v = w
  BY SenderIs DEF NotifyInv, NotifyLocks, SendMail, CommitSent
<1>1. UNCHANGED <<tableVersion, metadata, writer, wants, notified, cut>>
  BY DEF SendMail, CommitSent, subjects
<1>2. \A c : /\ SchemaChange(c)' = SchemaChange(c) /\ Noted(c)' = Noted(c)
             /\ \A u : Steady(u, c)' = Steady(u, c)
  BY <1>1 DEF SchemaChange, Columns, Noted, Steady, Wanted
<1>3. PICK s \in SenderRun : /\ sender' = [sender EXCEPT ![w] = s]
                             /\ \/ s = [sender[w] EXCEPT !.mailed = TRUE] /\ SendMail(w)
                                \/ s = [at |-> "send", left |-> sender[w].left] /\ CommitSent(w)
  <2>1. CASE SendMail(w)
    <3>1. [sender[w] EXCEPT !.mailed = TRUE] \in L
      BY <1>0
    <3> QED BY <2>1, <3>1 DEF SendMail, SenderRun
  <2>2. CASE CommitSent(w)
    <3>1. [at |-> "send", left |-> sender[w].left] \in SenderRun
      BY <1>0 DEF SenderRun
    <3> QED BY <2>2, <3>1 DEF CommitSent
  <2> QED BY <2>1, <2>2
<1>4. /\ s.at \in {"locked", "send"} /\ (s.at = "locked" => s.note = note /\ s.mailed)
  BY <1>0, <1>3 DEF Phase
<1>5. /\ sender \in [NotifyTask -> SenderRun] /\ sender' \in [NotifyTask -> SenderRun]
      /\ \A v \in NotifyTask : sender'[v] = IF v = w THEN s ELSE sender[v]
  BY <1>0, <1>3 DEF NotifyTypes
<1>6. \A v \in NotifyTask : InsertedBy(v)' = InsertedBy(v)
  BY <1>0, <1>4, <1>5 DEF InsertedBy, Phase
<1>7. /\ DOMAIN told' = DOMAIN told /\ told' \in [DOMAIN told -> {"unsent", "sent"}]
      /\ \A p \in DOMAIN told : p # note => told'[p] = told[p]
      /\ told[note] = told'[note] \/ told'[note] = "sent"
      /\ s.at = "locked" => told' = told
      /\ s.at = "send" => told'[note] = "sent"
  <2>1. told \in [DOMAIN told -> {"unsent", "sent"}]
    BY <1>0 DEF NotifyTypes
  <2>2. CASE SendMail(w)
    BY <1>0, <1>3, <1>4, <2>1, <2>2 DEF SendMail, CommitSent
  <2>3. CASE CommitSent(w)
    BY <1>0, <1>3, <1>4, <2>1, <2>3 DEF SendMail, CommitSent, Phase
  <2> QED BY <2>2, <2>3
<1>8. /\ DOMAIN mails' \subseteq Note /\ mails' \in [DOMAIN mails' -> Nat]
      /\ s.at = "send" => mails' = mails
      /\ s.at = "locked" => /\ DOMAIN mails' = {note} \cup DOMAIN mails /\ ~sender[w].mailed
                            /\ \A p \in DOMAIN mails : p # note => mails'[p] = mails[p]
                            /\ mails'[note] = Count(mails, note) + 1
  <2>1. /\ mails \in [DOMAIN mails -> Nat] /\ DOMAIN mails \subseteq Note
        /\ \A p : Count(mails, p) \in Nat
    BY <1>0 DEF NotifyTypes, Count
  <2>2. CASE SendMail(w)
    <3>1. mails' = [p \in {note} \cup DOMAIN mails |-> Count(mails, p) + (IF p = note THEN 1 ELSE 0)]
      BY <2>2 DEF SendMail
    <3>2. \A p \in {note} \cup DOMAIN mails : Count(mails, p) + (IF p = note THEN 1 ELSE 0) \in Nat
      BY <2>1
    <3>3. DOMAIN mails' = {note} \cup DOMAIN mails /\ mails' \in [{note} \cup DOMAIN mails -> Nat]
      BY <3>1, <3>2
    <3>4. \A p \in DOMAIN mails : p # note => mails'[p] = Count(mails, p) + 0
      BY <3>1
    <3>5. \A p \in DOMAIN mails : p # note => mails'[p] = mails[p]
      BY <2>1, <3>4 DEF Count
    <3>6. mails'[note] = Count(mails, note) + 1
      BY <3>1
    <3>7. ~sender[w].mailed /\ s.at = "locked"
      BY <1>0, <1>3, <2>2 DEF SendMail, CommitSent
    <3> QED BY <1>0, <2>1, <3>3, <3>5, <3>6, <3>7
  <2>3. CASE CommitSent(w)
    <3>1. mails' = mails /\ s.at = "send"
      BY <1>3, <2>3 DEF CommitSent, SendMail
    <3> QED BY <2>1, <3>1
  <2> QED BY <2>2, <2>3
<1>9. NotifyTypes'
  BY <1>0, <1>1, <1>5, <1>7, <1>8 DEF NotifyTypes
<1>10. NotifyTypeOK'
  BY <1>1, <1>6, <1>7 DEF NotifyInv, NotifyTypeOK
<1>11. SubscribersAreTold'
  BY <1>1, <1>2, <1>7 DEF NotifyInv, SubscribersAreTold
<1>12. NotifyCreating'
  <2>1. \A c \in notified' : Noted(c)'
    BY <1>1, <1>2 DEF NotifyInv, NotifyCreating
  <2>2. \A v \in NotifyTask : \A c \in InsertedBy(v)' : Noted(c)'
    BY <1>2, <1>6 DEF NotifyInv, NotifyCreating
  <2>3. ASSUME NEW v \in NotifyTask, Phase(v, "create")'
        PROVE /\ \A p \in sender'[v].told : p[1] \in sender'[v].made
              /\ \A c \in sender'[v].made, u \in Subscriber :
                   Steady(u, c)' => <<c, u>> \in sender'[v].told
    <3>1. Phase(v, "create") /\ sender'[v] = sender[v]
      BY <1>4, <1>5, <2>3 DEF Phase
    <3> QED BY <1>2, <3>1 DEF NotifyInv, NotifyCreating
  <2> QED BY <2>1, <2>2, <2>3 DEF NotifyCreating
<1>13. NotifyLocks'
  <2> SUFFICES ASSUME NEW v \in NotifyTask, Phase(v, "locked")'
      PROVE /\ sender'[v].note \in DOMAIN told' /\ told'[sender'[v].note] = "unsent"
            /\ \A u \in NotifyTask : Phase(u, "locked")' /\ sender'[u].note = sender'[v].note => u = v
    BY DEF NotifyLocks
  <2>1. Phase(v, "locked") /\ sender'[v].note = sender[v].note
    BY <1>0, <1>4, <1>5 DEF Phase
  <2>2. \A u \in NotifyTask : Phase(u, "locked")' => Phase(u, "locked") /\ sender'[u].note = sender[u].note
    BY <1>0, <1>4, <1>5 DEF Phase
  <2>3. /\ sender[v].note \in DOMAIN told /\ told[sender[v].note] = "unsent"
        /\ \A u \in NotifyTask : Phase(u, "locked") /\ sender[u].note = sender[v].note => u = v
    BY <2>1 DEF NotifyInv, NotifyLocks
  <2>4. sender[v].note = note => s.at = "locked"
    BY <1>0, <1>4, <1>5, <2>1 DEF Phase
  <2> QED BY <1>7, <2>1, <2>2, <2>3, <2>4
<1>14. MailsCounted'
  <2> SUFFICES ASSUME NEW p \in DOMAIN mails' PROVE mails'[p] <= cut' + (IF Mailed(p)' THEN 1 ELSE 0)
    BY DEF MailsCounted
  <2>1. cut' = cut /\ cut \in Nat
    BY <1>0, <1>1 DEF NotifyTypes
  <2>2. \A q \in DOMAIN mails : mails[q] \in Nat /\ mails[q] <= cut + (IF Mailed(q) THEN 1 ELSE 0)
    BY <1>0 DEF NotifyInv, NotifyTypes, MailsCounted
  <2>3. CASE p = note
    <3>1. Mailed(note)'
      <4>1. CASE s.at = "locked"
        <5>1. sender'[w] = s /\ s.note = note /\ s.mailed
          BY <1>4, <1>5, <4>1
        <5> QED BY <4>1, <5>1 DEF Mailed, Phase
      <4>2. CASE s.at = "send"
        BY <1>0, <1>7, <4>2 DEF Mailed
      <4> QED BY <1>4, <4>1, <4>2
    <3>2. CASE s.at = "locked"
      <4>1. ~Mailed(note)
        BY <1>0, <1>8, <3>2 DEF Mailed
      <4>2. Count(mails, note) \in Nat /\ Count(mails, note) <= cut
        BY <2>1, <2>2, <4>1 DEF Count
      <4> QED BY <1>8, <2>1, <2>3, <3>1, <3>2, <4>2
    <3>3. CASE s.at = "send"
      <4>1. mails'[p] = mails[p] /\ p \in DOMAIN mails
        BY <1>8, <3>3
      <4>2. mails[p] \in Nat /\ mails[p] <= cut + (IF Mailed(p) THEN 1 ELSE 0)
        BY <2>2, <4>1
      <4> QED BY <2>1, <2>3, <3>1, <4>1, <4>2
    <3> QED BY <1>4, <3>2, <3>3
  <2>4. CASE p # note
    <3>1. mails'[p] = mails[p] /\ p \in DOMAIN mails
      BY <1>4, <1>8, <2>4
    <3>2. Mailed(p) => Mailed(p)'
      BY <1>0, <1>5, <1>7, <2>4 DEF Mailed, Phase
    <3>3. mails[p] \in Nat /\ mails[p] <= cut + (IF Mailed(p) THEN 1 ELSE 0)
      BY <2>2, <3>1
    <3> QED BY <2>1, <3>1, <3>2, <3>3
  <2> QED BY <2>3, <2>4
<1> QED BY <1>9, <1>10, <1>11, <1>12, <1>13, <1>14 DEF NotifyInv

\* In every state, a notification is of a row of the metadata, a transaction that makes one
\* makes it for all steady subscribers, and a mail that went out is locked or marked as sent
\* (send_notification_emails).
THEOREM NotifyInvariance == NotifySpec => []NotifyInv
<1>1. NotifyInit => NotifyInv
  BY NotifyInitInv
<1>2. NotifyInv /\ [NotifyNext]_notifyVars => NotifyInv'
  <2> SUFFICES ASSUME NotifyInv, [NotifyNext]_notifyVars PROVE NotifyInv'
    OBVIOUS
  <2>1. ASSUME NEW w \in NotifyTask, SenderStep(w) PROVE NotifyInv'
    BY <2>1, CreatingInv, CommitCreatedInv, SendingInv, MailInv DEF SenderStep
  <2>2. CASE UNCHANGED notifyVars
    <3>1. UNCHANGED <<tableVersion, metadata, wants, notified, told, mails, writer, sender, cut>>
      BY <2>2 DEF notifyVars
    <3>2. NotifyTypes'
      BY <3>1 DEF NotifyInv, NotifyTypes
    <3> QED BY <3>1, <3>2, TellingStays DEF Steady, Wanted, SchemaChange, Columns, Noted
  <2> QED BY <2>1, <2>2, SubjectsInv, SubscribingInv DEF NotifyNext
<1> QED BY <1>1, <1>2, PTL DEF NotifySpec

\* Every steady subscriber is told of a change, and nobody twice but for a task that died
\* between mail and commit, for any datasets, subscribers and tasks (send_notification_emails).
THEOREM NotifyIsSafe == NotifySpec => []NotifySafety
<1>1. NotifyInv => NotifySafety
  <2> SUFFICES ASSUME NotifyInv PROVE NotifySafety
    OBVIOUS
  <2>1. EachMailOnce
    <3> SUFFICES ASSUME NEW p \in DOMAIN mails PROVE mails[p] <= 1 + cut
      BY DEF EachMailOnce
    <3>1. mails[p] \in Nat /\ cut \in Nat /\ mails[p] <= cut + (IF Mailed(p) THEN 1 ELSE 0)
      BY DEF NotifyInv, NotifyTypes, MailsCounted
    <3> QED BY <3>1
  <2> QED BY <2>1 DEF NotifyInv, NotifySafety
<1> QED BY <1>1, NotifyInvariance, PTL

(***************************************************************************)
(* What the catalogue says of dashboards.                                  *)
(***************************************************************************)
LEMMA DashInitInv == DashInit => DashInv
<1> SUFFICES ASSUME DashInit PROVE DashInv
  OBVIOUS
<1>1. \A r \in DashRun : dashRun[r] = NoDashRun
  BY DEF DashInit
<1>2. 0 \in Dates /\ 0 \in 0..MaxDashRuns
  BY DashAssumption DEF Dates
<1>3. NoDashRun \in DashRunRow
  BY <1>2 DEF NoDashRun, DashRunRow, DataSetKind, DashSql
<1>4. \A l \in Link : latest[l] = [s \in DashSql |-> 0] /\ LatestCount(l) = 0
  BY DEF DashInit, LatestCount, DashSql
<1>5. DashTypes
  <2>1. \A l \in SuperLink, s \in DashSql : latest[l][s] = 0
    BY <1>4 DEF Link
  <2>2. /\ dashRun \in [DashRun -> DashRunRow] /\ latest \in [Link -> [DashSql -> Nat]]
        /\ shownDate \in [Link -> Dates] /\ related \in [Link -> SUBSET DashSql]
    BY <1>2, <1>3 DEF DashInit
  <2>3. /\ dashboards \in [Link -> [of : DataSetKind, sql : DashSql, at : Dates]]
        /\ dashBudget \in [edits : Dates, runs : 0..MaxDashRuns]
    BY <1>2 DEF DashInit, DataSetKind, DashSql
  <2> QED BY <2>1, <2>2, <2>3 DEF DashTypes, DashInit
<1>6. /\ NoDashRun.at = "none" /\ NoDashRun.fresh = FALSE /\ NoDashRun.task = "none"
  BY DEF NoDashRun
<1>7. RunsHold
  BY <1>1, <1>6 DEF RunsHold, AtWork
<1>8. \A l \in Link : QueryHolds(l)
  BY <1>1, <1>4, <1>6 DEF QueryHolds, OneReplaces, Replaces
<1> QED BY <1>1, <1>5, <1>6, <1>7, <1>8 DEF DashInv, DashInit

\* What a run is: at work at a link of its task, or at none.
LEMMA DashRunIs ==
  ASSUME DashInv, NEW r \in DashRun
  PROVE  /\ dashRun[r] \in DashRunRow
         /\ AtWork(r) => dashRun[r].link \in Link
         /\ ~AtWork(r) => dashRun[r].link = {} /\ ~dashRun[r].fresh
         /\ AtWork(r) /\ dashRun[r].task # "super" => dashRun[r].link \in QuickLink
         /\ AtWork(r) /\ dashRun[r].task = "super" => dashRun[r].link \in SuperLink
         /\ \A l \in Link : RunAt(r, l) => AtWork(r)
<1>1. dashRun[r] \in DashRunRow /\ {} \notin Link
  BY DashAssumption DEF DashInv, DashTypes
<1>2. /\ dashRun[r].at = "none" => dashRun[r] = NoDashRun
      /\ dashRun[r].at = "next" => dashRun[r].link = {} /\ ~dashRun[r].fresh
      /\ AtWork(r) => dashRun[r].link \in IF dashRun[r].task = "super" THEN SuperLink ELSE QuickLink
  BY DEF DashInv, RunsHold
<1>3. ~AtWork(r) => dashRun[r].at = "none" \/ dashRun[r].at = "next"
  BY <1>1 DEF DashRunRow, AtWork
<1>4. dashRun[r] = NoDashRun => dashRun[r].link = {} /\ dashRun[r].fresh = FALSE
  BY DEF NoDashRun
<1> QED BY <1>1, <1>2, <1>3, <1>4 DEF RunAt, Link

\* A run that leaves its link, or is at none, disturbs nothing.
LEMMA DashRunLeaves ==
  ASSUME DashInv, NEW r \in DashRun, NEW n \in DashRunRow, dashRun' = [dashRun EXCEPT ![r] = n],
         n = NoDashRun \/ (n.at = "next" /\ n.link = {} /\ ~n.fresh /\ n.task # "none"),
         n.task = "quick" => n.todo \subseteq QuickLink,
         n.task = "super" => n.todo \subseteq SuperLink,
         dashBudget' \in [edits : Dates, runs : 0..MaxDashRuns],
         UNCHANGED <<dashboards, links, latest, shownDate, related, spoiled, passed>>
  PROVE  DashInv'
<1>0. NoDashRun.at = "none" /\ NoDashRun.link = {} /\ NoDashRun.fresh = FALSE
  BY DEF NoDashRun
<1>1. /\ dashRun' \in [DashRun -> DashRunRow]
      /\ \A o \in DashRun : dashRun'[o] = IF o = r THEN n ELSE dashRun[o]
  BY DEF DashInv, DashTypes
<1>2. DashTypes'
  BY <1>1 DEF DashInv, DashTypes
<1>3. RunsHold'
  <2> SUFFICES ASSUME NEW o \in DashRun
               PROVE  (/\ dashRun[o].at = "none" => dashRun[o] = NoDashRun
                       /\ dashRun[o].at = "next" => dashRun[o].link = {} /\ ~dashRun[o].fresh
                       /\ dashRun[o].task = "quick" => dashRun[o].todo \subseteq QuickLink
                       /\ dashRun[o].task = "super" => dashRun[o].todo \subseteq SuperLink
                       /\ AtWork(o) => dashRun[o].link \in IF dashRun[o].task = "super" THEN SuperLink ELSE QuickLink
                       /\ dashRun[o].at \in {"query", "unset", "create"} => dashRun[o].task # "super"
                       /\ dashRun[o].at # "none" => dashRun[o].task # "none")'
    BY DEF RunsHold
  <2>1. CASE o = r
    BY <1>0, <1>1, <2>1 DEF AtWork
  <2>2. CASE o # r
    BY <1>1, <2>2 DEF DashInv, RunsHold, AtWork
  <2> QED BY <2>1, <2>2
<1>4. \A l \in Link, o \in DashRun : RunAt(o, l)' => RunAt(o, l) /\ o # r
  BY <1>0, <1>1, DashAssumption DEF RunAt
<1>5. ASSUME NEW l \in Link \ spoiled, QueryHolds(l) PROVE QueryHolds(l)'
  BY <1>0, <1>1, <1>4, <1>5 DEF QueryHolds, OneReplaces, Replaces, LatestCount, RunAt
<1>6. ASSUME NEW o \in DashRun, dashRun'[o].fresh PROVE FreshRun(o)'
  <2>1. o # r /\ dashRun[o].fresh /\ dashRun'[o] = dashRun[o]
    BY <1>0, <1>1, <1>6
  <2>2. FreshRun(o) /\ dashRun[o].link \in Link
    BY <2>1, DashRunIs DEF DashInv
  <2>3. PICK k \in Link : k = dashRun[o].link
    BY <2>2
  <2>4. \A p \in DashRun : RunAt(p, k)' => p = o
    BY <1>4, <2>2, <2>3 DEF FreshRun
  <2> QED BY <2>1, <2>2, <2>3, <2>4 DEF FreshRun, IsLatest, RunAt
<1>7. ASSUME NEW l \in passed PROVE Passed(l)'
  BY <1>4, <1>7 DEF DashInv, DashTypes, Passed, IsLatest
<1> QED BY <1>2, <1>3, <1>5, <1>6, <1>7 DEF DashInv

\* A run at its link changes nothing of another one.
LEMMA AtItsLink ==
  ASSUME DashInv, NEW r \in DashRun, AtWork(r), NEW l \in Link, RunAt(r, l),
         NEW at \in {"query", "unset", "create", "date", "relate"}, RunTo(r, at),
         at \in {"query", "unset", "create"} => dashRun[r].task # "super",
         UNCHANGED <<dashboards, related, passed, dashBudget>>,
         links' \subseteq Link, spoiled' \subseteq QuickLink,
         latest' \in [Link -> [DashSql -> Nat]], shownDate' \in [Link -> Dates],
         \A k \in Link : k # l => /\ latest'[k] = latest[k] /\ shownDate'[k] = shownDate[k]
                                  /\ k \in spoiled' <=> k \in spoiled,
         l \in SuperLink => latest'[l] = latest[l],
         l \notin spoiled' => QueryHolds(l)', dashRun[r].fresh => FreshRun(r)'
  PROVE  DashInv'
<1>0. PICK n \in DashRunRow :
        /\ n.at = at /\ n.link = dashRun[r].link /\ n.fresh = dashRun[r].fresh /\ n.todo = dashRun[r].todo
        /\ n.task = dashRun[r].task /\ dashRun' = [dashRun EXCEPT ![r] = n]
  <2>1. PICK n : n = [dashRun[r] EXCEPT !.at = at]
    OBVIOUS
  <2>2. n \in DashRunRow
    BY <2>1, DashRunIs DEF DashRunRow
  <2>3. /\ n.at = at /\ n.link = dashRun[r].link /\ n.fresh = dashRun[r].fresh /\ n.todo = dashRun[r].todo
        /\ n.task = dashRun[r].task
    BY <2>1, DashRunIs DEF DashRunRow
  <2>4. dashRun' = [dashRun EXCEPT ![r] = n]
    BY <2>1 DEF RunTo, DashInv, DashTypes
  <2> QED BY <2>2, <2>3, <2>4
<1>1. /\ dashRun' \in [DashRun -> DashRunRow]
      /\ \A o \in DashRun : dashRun'[o] = IF o = r THEN n ELSE dashRun[o]
  BY <1>0 DEF DashInv, DashTypes
<1>2. DashTypes'
  <2>1. \A k \in SuperLink, s \in DashSql : latest'[k][s] = 0
    BY DEF DashInv, DashTypes, Link
  <2> QED BY <1>1, <2>1 DEF DashInv, DashTypes
<1>3. RunsHold'
  <2> SUFFICES ASSUME NEW o \in DashRun
               PROVE  (/\ dashRun[o].at = "none" => dashRun[o] = NoDashRun
                       /\ dashRun[o].at = "next" => dashRun[o].link = {} /\ ~dashRun[o].fresh
                       /\ dashRun[o].task = "quick" => dashRun[o].todo \subseteq QuickLink
                       /\ dashRun[o].task = "super" => dashRun[o].todo \subseteq SuperLink
                       /\ AtWork(o) => dashRun[o].link \in IF dashRun[o].task = "super" THEN SuperLink ELSE QuickLink
                       /\ dashRun[o].at \in {"query", "unset", "create"} => dashRun[o].task # "super"
                       /\ dashRun[o].at # "none" => dashRun[o].task # "none")'
    BY DEF RunsHold
  <2>1. CASE o = r
    <3>1. dashRun'[o] = n
      BY <1>1, <2>1
    <3>2. /\ dashRun[r].task = "quick" => dashRun[r].todo \subseteq QuickLink
          /\ dashRun[r].task = "super" => dashRun[r].todo \subseteq SuperLink
          /\ dashRun[r].link \in IF dashRun[r].task = "super" THEN SuperLink ELSE QuickLink
          /\ dashRun[r].task # "none"
      BY DEF DashInv, RunsHold, AtWork
    <3> QED BY <1>0, <3>1, <3>2
  <2>2. CASE o # r
    BY <1>1, <2>2 DEF DashInv, RunsHold, AtWork
  <2> QED BY <2>1, <2>2
<1>4. \A k \in Link, o \in DashRun : RunAt(o, k)' <=> RunAt(o, k)
  BY <1>0, <1>1 DEF RunAt
<1>5. ASSUME NEW k \in Link \ spoiled' PROVE QueryHolds(k)'
  <2>1. CASE k = l
    BY <1>5, <2>1
  <2>2. CASE k # l
    <3>1. QueryHolds(k) /\ latest'[k] = latest[k]
      BY <1>5, <2>2 DEF DashInv
    <3>2. \A o \in DashRun : RunAt(o, k) => dashRun'[o] = dashRun[o]
      BY <1>1, <2>2 DEF RunAt
    <3> QED BY <1>4, <3>1, <3>2 DEF QueryHolds, OneReplaces, Replaces, LatestCount, RunAt
  <2> QED BY <2>1, <2>2
<1>6. ASSUME NEW o \in DashRun, dashRun'[o].fresh PROVE FreshRun(o)'
  <2>1. CASE o = r
    BY <1>0, <1>1, <1>6, <2>1
  <2>2. CASE o # r
    <3>1. dashRun[o].fresh /\ dashRun'[o] = dashRun[o]
      BY <1>1, <1>6, <2>2
    <3>2. FreshRun(o) /\ dashRun[o].link \in Link
      BY <3>1, DashRunIs DEF DashInv
    <3>3. dashRun[o].link # l
      BY <2>2, <3>2 DEF FreshRun, RunAt
    <3>4. PICK k \in Link : k = dashRun[o].link
      BY <3>2
    <3>5. \A p \in DashRun : RunAt(p, k)' => p = o
      BY <1>4, <3>2, <3>4 DEF FreshRun
    <3> QED BY <3>1, <3>2, <3>3, <3>4, <3>5 DEF FreshRun, IsLatest, RunAt
  <2> QED BY <2>1, <2>2
<1>7. ASSUME NEW k \in passed PROVE Passed(k)'
  <2>1. Passed(k) /\ k \in Link
    BY DEF DashInv, DashTypes
  <2>2. k # l
    BY <2>1 DEF Passed
  <2> QED BY <1>4, <2>1, <2>2 DEF Passed, IsLatest
<1> QED BY <1>2, <1>3, <1>5, <1>6, <1>7 DEF DashInv

\* The steps of a run at its link.
LEMMA DashWorkInv ==
  ASSUME DashInv, NEW r \in DashRun, GetQuery(r) \/ UnsetLatest(r) \/ CreateLatest(r) \/ SaveDate(r)
  PROVE  DashInv'
<1>1. AtWork(r)
  BY DEF AtWork, GetQuery, UnsetLatest, CreateLatest, SaveDate
<1>2. PICK l \in Link : l = dashRun[r].link /\ RunAt(r, l)
  BY <1>1, DashRunIs DEF RunAt
<1>3. PICK sql \in DashSql : sql = dashRun[r].sql
  BY DashRunIs DEF DashRunRow
<1>4. /\ links \subseteq Link /\ spoiled \subseteq QuickLink /\ latest \in [Link -> [DashSql -> Nat]]
      /\ shownDate \in [Link -> Dates] /\ dashRun \in [DashRun -> DashRunRow]
      /\ dashRun[r].when \in Dates /\ dashRun[r].fresh \in BOOLEAN
  BY DashRunIs DEF DashInv, DashTypes, DashRunRow
<1>5. dashRun[r].fresh => FreshRun(r)
  BY DEF DashInv
<1>6. /\ l \notin spoiled => QueryHolds(l)
      /\ latest[l] \in [DashSql -> Nat] /\ latest[l]["s1"] \in Nat /\ latest[l]["s2"] \in Nat
  BY <1>4 DEF DashInv, DashSql
<1>7. \A o \in DashRun : o # r => \A at : RunTo(r, at) => dashRun'[o] = dashRun[o]
  BY <1>4 DEF RunTo
<1>8. ASSUME NEW at \in {"query", "unset", "create", "date", "relate"}, RunTo(r, at)
      PROVE  /\ dashRun'[r].at = at /\ dashRun'[r].link = l /\ dashRun'[r].of = dashRun[r].of
             /\ dashRun'[r].sql = sql /\ dashRun'[r].when = dashRun[r].when
             /\ \A o \in DashRun : o # r => dashRun'[o] = dashRun[o]
             /\ \A o \in DashRun, k \in Link : RunAt(o, k)' <=> RunAt(o, k)
  <2>1. /\ dashRun'[r].at = at /\ dashRun'[r].link = l /\ dashRun'[r].of = dashRun[r].of
        /\ dashRun'[r].sql = sql /\ dashRun'[r].when = dashRun[r].when
        /\ \A o \in DashRun : o # r => dashRun'[o] = dashRun[o]
    BY <1>2, <1>3, <1>4, <1>8, DashRunIs DEF RunTo, DashRunRow
  <2> QED BY <1>2, <2>1 DEF RunAt
<1>9. CASE GetQuery(r)
  <2>1. PICK at \in {"date", "unset"} :
          /\ RunTo(r, at) /\ (at = "date" <=> Found(r))
          /\ dashRun[r].at = "query" /\ latest[l][sql] < 2
          /\ spoiled' = IF ~Found(r) /\ OtherReplaces(r) THEN spoiled \cup {l} ELSE spoiled
          /\ UNCHANGED <<dashboards, links, latest, shownDate, related, passed, dashBudget>>
    BY <1>2, <1>3, <1>9 DEF GetQuery
  <2>2. dashRun[r].task # "super" /\ l \in QuickLink
    BY <1>1, <1>2, <2>1, DashRunIs DEF DashInv, RunsHold
  <2>3. spoiled' \subseteq QuickLink /\ (\A k \in Link : k # l => (k \in spoiled' <=> k \in spoiled))
    BY <1>4, <2>1, <2>2
  <2>4. ASSUME l \notin spoiled' PROVE QueryHolds(l)'
    <3>1. l \notin spoiled /\ QueryHolds(l) /\ (at = "unset" => ~OtherReplaces(r))
      BY <1>6, <2>1, <2>4
    <3>2. LatestCount(l)' = LatestCount(l)
      BY <2>1 DEF LatestCount
    <3>3. OneReplaces(l)'
      <4>1. CASE at = "date"
        BY <1>8, <2>1, <3>1, <4>1 DEF QueryHolds, OneReplaces, Replaces
      <4>2. CASE at = "unset"
        <5>1. \A o \in DashRun : o # r => ~Replaces(o, l)'
          BY <1>2, <1>8, <2>1, <3>1, <4>2 DEF OtherReplaces, Replaces
        <5> QED BY <5>1 DEF OneReplaces
      <4> QED BY <4>1, <4>2
    <3>4. \A o \in DashRun : dashRun'[o].at = "create" /\ RunAt(o, l)' => dashRun[o].at = "create" /\ RunAt(o, l)
      BY <1>8, <2>1
    <3> QED BY <3>1, <3>2, <3>3, <3>4 DEF QueryHolds
  <2>5. ASSUME dashRun[r].fresh PROVE FreshRun(r)'
    <3>1. FreshRun(r)
      BY <1>5, <2>5
    <3>2. at = "date" /\ l \in QuickLink \ spoiled /\ HasSql(dashboards[l].of) => IsLatest(l)
      <4> SUFFICES ASSUME at = "date", l \notin spoiled PROVE IsLatest(l)
        OBVIOUS
      <4>1. latest[l][sql] = 1 /\ LatestCount(l) <= 1 /\ sql = dashboards[l].sql
        BY <1>2, <1>3, <1>6, <2>1, <3>1 DEF Found, QueryHolds, FreshRun
      <4>2. \A s \in DashSql : latest[l][s] = IF s = sql THEN 1 ELSE 0
        BY <1>6, <4>1 DEF LatestCount, DashSql
      <4> QED BY <4>1, <4>2 DEF IsLatest
    <3>3. (\A o \in DashRun : RunAt(o, l) => o = r) /\ dashRun[r].of = dashboards[l].of
          /\ sql = dashboards[l].sql /\ dashRun[r].when = dashboards[l].at
      BY <1>2, <1>3, <3>1 DEF FreshRun
    <3> QED BY <1>8, <2>1, <2>3, <3>2, <3>3 DEF FreshRun, IsLatest, HasSql
  <2> QED BY <1>1, <1>2, <1>4, <2>1, <2>2, <2>3, <2>4, <2>5, AtItsLink
<1>10. CASE UnsetLatest(r)
  <2>1. /\ RunTo(r, "create") /\ dashRun[r].at = "unset"
        /\ latest' = [latest EXCEPT ![l] = [s \in DashSql |-> 0]]
        /\ spoiled' = IF OtherReplaces(r) THEN spoiled ELSE spoiled \ {l}
        /\ UNCHANGED <<dashboards, links, shownDate, related, passed, dashBudget>>
    BY <1>2, <1>10 DEF UnsetLatest
  <2>2. dashRun[r].task # "super" /\ l \in QuickLink /\ l \notin SuperLink
    BY <1>1, <1>2, <2>1, DashRunIs, DashAssumption DEF DashInv, RunsHold
  <2>3. spoiled' \subseteq QuickLink /\ (\A k \in Link : k # l => (k \in spoiled' <=> k \in spoiled))
    BY <1>4, <2>1, <2>2
  <2>4. /\ latest' \in [Link -> [DashSql -> Nat]] /\ LatestCount(l)' = 0
        /\ \A k \in Link : k # l => latest'[k] = latest[k]
    BY <1>4, <2>1 DEF LatestCount, DashSql
  <2>5. ASSUME l \notin spoiled' PROVE QueryHolds(l)'
    <3>1. ~OtherReplaces(r)
      <4>1. ASSUME OtherReplaces(r) PROVE FALSE
        <5>1. l \notin spoiled /\ OneReplaces(l)
          BY <1>6, <2>1, <2>5, <4>1 DEF QueryHolds
        <5>2. Replaces(r, l)
          BY <1>2, <2>1 DEF Replaces
        <5> QED BY <1>2, <4>1, <5>1, <5>2 DEF OtherReplaces, OneReplaces
      <4> QED BY <4>1
    <3>2. \A o \in DashRun : o # r => ~Replaces(o, l)'
      BY <1>2, <1>8, <2>1, <3>1 DEF OtherReplaces, Replaces
    <3> QED BY <2>4, <3>2 DEF OneReplaces, QueryHolds
  <2>6. dashRun[r].fresh => FreshRun(r)'
    <3> SUFFICES ASSUME FreshRun(r) PROVE FreshRun(r)'
      BY <1>5
    <3>1. (\A o \in DashRun : RunAt(o, l) => o = r) /\ dashRun[r].of = dashboards[l].of
          /\ sql = dashboards[l].sql /\ dashRun[r].when = dashboards[l].at
      BY <1>2, <1>3 DEF FreshRun
    <3> QED BY <1>8, <2>1, <3>1 DEF FreshRun
  <2> QED BY <1>1, <1>2, <1>4, <2>1, <2>2, <2>3, <2>4, <2>5, <2>6, AtItsLink
<1>11. CASE CreateLatest(r)
  <2>1. /\ RunTo(r, "date") /\ dashRun[r].at = "create"
        /\ latest' = [latest EXCEPT ![l] = OneMore(l, sql)]
        /\ UNCHANGED <<dashboards, links, shownDate, related, spoiled, passed, dashBudget>>
    BY <1>2, <1>3, <1>11 DEF CreateLatest
  <2>2. dashRun[r].task # "super" /\ l \in QuickLink /\ l \notin SuperLink
    BY <1>1, <1>2, <2>1, DashRunIs, DashAssumption DEF DashInv, RunsHold
  <2>3. /\ OneMore(l, sql) \in [DashSql -> Nat]
        /\ \A s \in DashSql : OneMore(l, sql)[s] = IF s = sql THEN latest[l][s] + 1 ELSE latest[l][s]
    BY <1>6 DEF OneMore, DashSql
  <2>4. /\ latest' \in [Link -> [DashSql -> Nat]] /\ latest'[l] = OneMore(l, sql)
        /\ \A k \in Link : k # l => latest'[k] = latest[k]
    BY <1>4, <2>1, <2>3
  <2>5. l \notin spoiled => LatestCount(l) = 0 /\ OneReplaces(l)
    BY <1>2, <1>6, <2>1 DEF QueryHolds
  <2>6. l \notin spoiled => \A s \in DashSql : latest'[l][s] = IF s = sql THEN 1 ELSE 0
    BY <1>6, <2>3, <2>4, <2>5 DEF LatestCount, DashSql
  <2>7. ASSUME l \notin spoiled' PROVE QueryHolds(l)'
    <3>1. \A o \in DashRun : ~Replaces(o, l)'
      <4>1. \A o \in DashRun : o # r => ~Replaces(o, l)
        BY <1>2, <2>1, <2>5, <2>7 DEF OneReplaces, Replaces
      <4> QED BY <1>8, <2>1, <4>1 DEF Replaces
    <3>2. latest'[l]["s1"] + latest'[l]["s2"] = 1
      BY <1>3, <2>1, <2>6, <2>7 DEF DashSql
    <3> QED BY <3>1, <3>2 DEF OneReplaces, QueryHolds, LatestCount, Replaces, RunAt
  <2>8. dashRun[r].fresh => FreshRun(r)'
    <3> SUFFICES ASSUME FreshRun(r) PROVE FreshRun(r)'
      BY <1>5
    <3>1. (\A o \in DashRun : RunAt(o, l) => o = r) /\ dashRun[r].of = dashboards[l].of
          /\ sql = dashboards[l].sql /\ dashRun[r].when = dashboards[l].at
      BY <1>2, <1>3 DEF FreshRun
    <3> QED BY <1>8, <2>1, <2>6, <3>1 DEF FreshRun, IsLatest
  <2> QED BY <1>1, <1>2, <1>4, <2>1, <2>2, <2>4, <2>7, <2>8, AtItsLink
<1>12. CASE SaveDate(r)
  <2>1. /\ RunTo(r, "relate") /\ dashRun[r].at = "date"
        /\ shownDate' = [shownDate EXCEPT ![l] = dashRun[r].when] /\ links' = links \cup {l}
        /\ UNCHANGED <<dashboards, latest, related, spoiled, passed, dashBudget>>
    BY <1>2, <1>12 DEF SaveDate
  <2>2. /\ shownDate' \in [Link -> Dates] /\ shownDate'[l] = dashRun[r].when
        /\ \A k \in Link : k # l => shownDate'[k] = shownDate[k]
    BY <1>4, <2>1
  <2>3. ASSUME l \notin spoiled' PROVE QueryHolds(l)'
    <3>1. QueryHolds(l)
      BY <1>6, <2>1, <2>3
    <3>2. LatestCount(l)' = LatestCount(l)
      BY <2>1 DEF LatestCount
    <3>3. \A o \in DashRun : dashRun'[o].at = "create" /\ RunAt(o, l)' => dashRun[o].at = "create" /\ RunAt(o, l)
      BY <1>8, <2>1
    <3>4. OneReplaces(l)'
      BY <1>8, <2>1, <3>1 DEF QueryHolds, OneReplaces, Replaces
    <3> QED BY <3>1, <3>2, <3>3, <3>4 DEF QueryHolds
  <2>4. dashRun[r].fresh => FreshRun(r)'
    <3> SUFFICES ASSUME FreshRun(r) PROVE FreshRun(r)'
      BY <1>5
    <3>1. (\A o \in DashRun : RunAt(o, l) => o = r) /\ dashRun[r].of = dashboards[l].of
          /\ sql = dashboards[l].sql /\ dashRun[r].when = dashboards[l].at
          /\ (l \in QuickLink \ spoiled /\ HasSql(dashboards[l].of) => IsLatest(l))
      BY <1>2, <1>3, <2>1 DEF FreshRun
    <3> QED BY <1>8, <2>1, <2>2, <3>1 DEF FreshRun, IsLatest, HasSql
  <2> QED BY <1>1, <1>2, <1>4, <2>1, <2>2, <2>3, <2>4, AtItsLink
<1> QED BY <1>9, <1>10, <1>11, <1>12

\* A run begins, leaves a link out, or ends.
LEMMA BetweenLinksInv ==
  ASSUME DashInv, NEW r \in DashRun, StartDash(r) \/ SkipLink(r) \/ DashFails(r) \/ EndDash(r)
  PROVE  DashInv'
<1>1. /\ dashBudget \in [edits : Dates, runs : 0..MaxDashRuns] /\ links \subseteq Link
      /\ 0 \in Dates /\ NoDashRun.task = "none" /\ NoDashRun.at = "none"
  BY DashAssumption DEF DashInv, DashTypes, Dates, NoDashRun
<1>2. NoDashRun \in DashRunRow
  BY <1>1 DEF NoDashRun, DashRunRow, DataSetKind, DashSql
<1>3. CASE StartDash(r)
  <2>0. PICK task \in {"quick", "super"} :
          dashRun' = [dashRun EXCEPT ![r] =
            ToNext(task, links \cap (IF task = "quick" THEN QuickLink ELSE SuperLink))]
    BY <1>3 DEF StartDash
  <2>1. PICK todo \in SUBSET Link :
          /\ dashRun' = [dashRun EXCEPT ![r] = ToNext(task, todo)]
          /\ task = "quick" => todo \subseteq QuickLink
          /\ task = "super" => todo \subseteq SuperLink
    <3>1. /\ links \cap (IF task = "quick" THEN QuickLink ELSE SuperLink) \in SUBSET Link
          /\ task = "quick" => links \cap (IF task = "quick" THEN QuickLink ELSE SuperLink) \subseteq QuickLink
          /\ task = "super" => links \cap (IF task = "quick" THEN QuickLink ELSE SuperLink) \subseteq SuperLink
      BY <1>1
    <3> QED BY <2>0, <3>1
  <2>2. /\ dashBudget.runs < MaxDashRuns /\ dashBudget' = [dashBudget EXCEPT !.runs = dashBudget.runs + 1]
        /\ UNCHANGED <<dashboards, links, latest, shownDate, related, spoiled, passed>>
    BY <1>3 DEF StartDash
  <2>3. dashBudget' \in [edits : Dates, runs : 0..MaxDashRuns]
    <3>1. dashBudget.runs + 1 \in 0..MaxDashRuns
      BY <1>1, <2>2, DashAssumption
    <3> QED BY <1>1, <2>2, <3>1
  <2>4. PICK n : n = ToNext(task, todo)
    OBVIOUS
  <2>5. /\ n \in DashRunRow /\ n.at = "next" /\ n.link = {} /\ ~n.fresh /\ n.task = task /\ n.todo = todo
    BY <1>1, <2>4 DEF ToNext, DashRunRow, DataSetKind, DashSql
  <2> QED BY <2>1, <2>2, <2>3, <2>4, <2>5, DashRunLeaves
<1>4. CASE SkipLink(r)
  <2>1. PICK l \in dashRun[r].todo : dashRun' = [dashRun EXCEPT ![r].todo = dashRun[r].todo \ {l}]
    BY <1>4 DEF SkipLink
  <2>2. PICK n : n = [dashRun[r] EXCEPT !.todo = dashRun[r].todo \ {l}]
    OBVIOUS
  <2>3. /\ n \in DashRunRow /\ n.at = dashRun[r].at /\ n.link = dashRun[r].link
        /\ n.fresh = dashRun[r].fresh /\ n.task = dashRun[r].task /\ n.todo \subseteq dashRun[r].todo
    BY <2>2, DashRunIs DEF DashRunRow
  <2>4. dashRun' = [dashRun EXCEPT ![r] = n]
    BY <2>1, <2>2 DEF DashInv, DashTypes
  <2>5. /\ dashRun[r].at = "next"
        /\ UNCHANGED <<dashboards, links, latest, shownDate, related, spoiled, passed, dashBudget>>
    BY <1>4 DEF SkipLink
  <2>6. /\ dashRun[r].task = "quick" => dashRun[r].todo \subseteq QuickLink
        /\ dashRun[r].task = "super" => dashRun[r].todo \subseteq SuperLink
        /\ dashRun[r].link = {} /\ ~dashRun[r].fresh /\ dashRun[r].task # "none"
    BY <2>5 DEF DashInv, RunsHold
  <2> QED BY <1>1, <2>3, <2>4, <2>5, <2>6, DashRunLeaves
<1>5. CASE DashFails(r) \/ EndDash(r)
  <2>1. /\ dashRun' = [dashRun EXCEPT ![r] = NoDashRun]
        /\ UNCHANGED <<dashboards, links, latest, shownDate, related, spoiled, passed, dashBudget>>
    BY <1>5 DEF DashFails, EndDash
  <2> QED BY <1>1, <1>2, <2>1, DashRunLeaves
<1> QED BY <1>3, <1>4, <1>5

\* A run gets to a link: another one that is there is no longer fresh.
LEMMA DescribeDashInv ==
  ASSUME DashInv, NEW r \in DashRun, Describe(r)
  PROVE  DashInv'
<1>1. PICK l \in dashRun[r].todo :
        /\ dashRun' = [o \in DashRun |->
               IF o = r THEN [at |-> IF dashRun[r].task = "super" THEN "relate"
                                     ELSE IF HasSql(dashboards[l].of) THEN "query" ELSE "date",
                              task |-> dashRun[r].task, todo |-> dashRun[r].todo \ {l},
                              link |-> l, of |-> dashboards[l].of, sql |-> dashboards[l].sql,
                              when |-> dashboards[l].at,
                              fresh |-> ~(\E p \in DashRun : RunAt(p, l))]
               ELSE [dashRun[o] EXCEPT !.fresh = dashRun[o].fresh /\ ~RunAt(o, l)]]
        /\ passed' = passed \ {l} /\ dashRun[r].at = "next"
        /\ UNCHANGED <<dashboards, links, latest, shownDate, related, spoiled, dashBudget>>
  BY DEF Describe
<1>2. /\ dashRun[r].link = {} /\ ~dashRun[r].fresh /\ dashRun[r].task \in {"quick", "super"}
      /\ dashRun[r].task = "quick" => dashRun[r].todo \subseteq QuickLink
      /\ dashRun[r].task = "super" => dashRun[r].todo \subseteq SuperLink
      /\ dashRun[r].todo \subseteq Link /\ l \in Link /\ l # {}
  <2>1. dashRun[r].todo \in SUBSET Link /\ l \in Link /\ l # {}
    <3>1. dashRun[r].todo \in SUBSET Link
      BY DashRunIs DEF DashRunRow
    <3> QED BY <1>1, <3>1, DashAssumption
  <2>2. ~AtWork(r) /\ dashRun[r].at = "next"
    BY <1>1 DEF AtWork
  <2>3. dashRun[r].link = {} /\ ~dashRun[r].fresh
    BY <2>2, DashRunIs
  <2>4. RunsHold
    BY DEF DashInv
  <2>5. dashRun[r].task \in {"none", "quick", "super"}
    BY DashRunIs DEF DashRunRow
  <2> QED BY <2>1, <2>2, <2>3, <2>4, <2>5 DEF RunsHold
<1>3. PICK fresh \in BOOLEAN : fresh = ~(\E p \in DashRun : RunAt(p, l))
  OBVIOUS
<1>4. PICK at \in {"relate", "query", "date"} :
        /\ at = IF dashRun[r].task = "super" THEN "relate"
                ELSE IF HasSql(dashboards[l].of) THEN "query" ELSE "date"
  OBVIOUS
<1>5. /\ dashboards[l] \in [of : DataSetKind, sql : DashSql, at : Dates]
      /\ dashRun \in [DashRun -> DashRunRow]
  BY <1>2 DEF DashInv, DashTypes
<1>6. PICK n \in DashRunRow :
        n = [at |-> at, task |-> dashRun[r].task, todo |-> dashRun[r].todo \ {l}, link |-> l,
             of |-> dashboards[l].of, sql |-> dashboards[l].sql, when |-> dashboards[l].at, fresh |-> fresh]
  BY <1>2, <1>5 DEF DashRunRow
<1>7. dashRun'[r] = n
  BY <1>1, <1>3, <1>4, <1>6
<1>8. \A o \in DashRun : o # r =>
        /\ dashRun'[o] \in DashRunRow /\ dashRun'[o].at = dashRun[o].at /\ dashRun'[o].task = dashRun[o].task
        /\ dashRun'[o].todo = dashRun[o].todo /\ dashRun'[o].link = dashRun[o].link
        /\ dashRun'[o].of = dashRun[o].of /\ dashRun'[o].sql = dashRun[o].sql
        /\ dashRun'[o].when = dashRun[o].when
        /\ dashRun'[o].fresh => dashRun[o].fresh /\ ~RunAt(o, l)
  <2> SUFFICES ASSUME NEW o \in DashRun, o # r
               PROVE  /\ dashRun'[o] \in DashRunRow /\ dashRun'[o].at = dashRun[o].at
                      /\ dashRun'[o].task = dashRun[o].task
                      /\ dashRun'[o].todo = dashRun[o].todo /\ dashRun'[o].link = dashRun[o].link
                      /\ dashRun'[o].of = dashRun[o].of /\ dashRun'[o].sql = dashRun[o].sql
                      /\ dashRun'[o].when = dashRun[o].when
                      /\ dashRun'[o].fresh => dashRun[o].fresh /\ ~RunAt(o, l)
    OBVIOUS
  <2>1. PICK b \in BOOLEAN : b = (dashRun[o].fresh /\ ~RunAt(o, l))
    OBVIOUS
  <2>2. dashRun'[o] = [dashRun[o] EXCEPT !.fresh = b]
    BY <1>1, <2>1
  <2>3. dashRun[o] \in DashRunRow
    BY <1>5
  <2>4. /\ dashRun'[o] \in DashRunRow /\ dashRun'[o].fresh = b
        /\ dashRun'[o].at = dashRun[o].at /\ dashRun'[o].task = dashRun[o].task
        /\ dashRun'[o].todo = dashRun[o].todo /\ dashRun'[o].link = dashRun[o].link
        /\ dashRun'[o].of = dashRun[o].of /\ dashRun'[o].sql = dashRun[o].sql
        /\ dashRun'[o].when = dashRun[o].when
    BY <2>2, <2>3 DEF DashRunRow
  <2> QED BY <2>1, <2>4
<1>9. dashRun' \in [DashRun -> DashRunRow]
  <2>1. \A o \in DashRun : dashRun'[o] \in DashRunRow
    BY <1>6, <1>7, <1>8
  <2>2. dashRun' = [o \in DashRun |-> dashRun'[o]]
    BY <1>1
  <2> QED BY <2>1, <2>2
<1>10. DashTypes'
  BY <1>1, <1>9 DEF DashInv, DashTypes
<1>11. RunsHold'
  <2> SUFFICES ASSUME NEW o \in DashRun
               PROVE  (/\ dashRun[o].at = "none" => dashRun[o] = NoDashRun
                       /\ dashRun[o].at = "next" => dashRun[o].link = {} /\ ~dashRun[o].fresh
                       /\ dashRun[o].task = "quick" => dashRun[o].todo \subseteq QuickLink
                       /\ dashRun[o].task = "super" => dashRun[o].todo \subseteq SuperLink
                       /\ AtWork(o) => dashRun[o].link \in IF dashRun[o].task = "super" THEN SuperLink ELSE QuickLink
                       /\ dashRun[o].at \in {"query", "unset", "create"} => dashRun[o].task # "super"
                       /\ dashRun[o].at # "none" => dashRun[o].task # "none")'
    BY DEF RunsHold
  <2>1. CASE o = r
    <3>1. /\ n.at = at /\ n.task = dashRun[r].task /\ n.todo \subseteq dashRun[r].todo /\ n.link = l
          /\ at \in {"query", "unset", "create"} => dashRun[r].task # "super"
      BY <1>4, <1>6
    <3>2. l \in IF dashRun[r].task = "super" THEN SuperLink ELSE QuickLink
      BY <1>1, <1>2
    <3>3. dashRun'[o] = n
      BY <1>7, <2>1
    <3> QED BY <1>2, <3>1, <3>2, <3>3 DEF AtWork
  <2>2. CASE o # r
    <3>1. dashRun[o].at = "none" => dashRun'[o] = NoDashRun
      <4> SUFFICES ASSUME dashRun[o].at = "none" PROVE dashRun'[o] = NoDashRun
        OBVIOUS
      <4>1. dashRun[o] = NoDashRun /\ NoDashRun.fresh = FALSE
        BY DEF DashInv, RunsHold, NoDashRun
      <4>2. dashRun'[o] = [NoDashRun EXCEPT !.fresh = FALSE]
        BY <1>1, <2>2, <4>1
      <4> QED BY <4>2 DEF NoDashRun
    <3>2. /\ dashRun[o].at = "next" => dashRun[o].link = {} /\ ~dashRun[o].fresh
          /\ dashRun[o].task = "quick" => dashRun[o].todo \subseteq QuickLink
          /\ dashRun[o].task = "super" => dashRun[o].todo \subseteq SuperLink
          /\ AtWork(o) => dashRun[o].link \in IF dashRun[o].task = "super" THEN SuperLink ELSE QuickLink
          /\ dashRun[o].at \in {"query", "unset", "create"} => dashRun[o].task # "super"
          /\ dashRun[o].at # "none" => dashRun[o].task # "none"
      BY DEF DashInv, RunsHold
    <3>3. /\ dashRun'[o].at = dashRun[o].at /\ dashRun'[o].task = dashRun[o].task
          /\ dashRun'[o].todo = dashRun[o].todo /\ dashRun'[o].link = dashRun[o].link
          /\ dashRun'[o].fresh => dashRun[o].fresh
      BY <1>8, <2>2
    <3> QED BY <3>1, <3>2, <3>3 DEF AtWork
  <2> QED BY <2>1, <2>2
<1>12. \A o \in DashRun, k \in Link : RunAt(o, k)' <=> IF o = r THEN k = l ELSE RunAt(o, k)
  BY <1>6, <1>7, <1>8 DEF RunAt
<1>13. ASSUME NEW k \in Link \ spoiled' PROVE QueryHolds(k)'
  <2>1. QueryHolds(k)
    BY <1>1, <1>13 DEF DashInv
  <2>2. \A o \in DashRun : Replaces(o, k)' => Replaces(o, k)
    BY <1>4, <1>6, <1>7, <1>8 DEF Replaces
  <2>3. \A o \in DashRun : dashRun'[o].at = "create" /\ RunAt(o, k)' => dashRun[o].at = "create" /\ RunAt(o, k)
    BY <1>4, <1>6, <1>7, <1>8 DEF RunAt
  <2>4. LatestCount(k)' = LatestCount(k)
    BY <1>1 DEF LatestCount
  <2> QED BY <2>1, <2>2, <2>3, <2>4 DEF QueryHolds, OneReplaces
<1>14. ASSUME NEW o \in DashRun, dashRun'[o].fresh PROVE FreshRun(o)'
  <2>1. CASE o = r
    <3>1. fresh /\ \A p \in DashRun : ~RunAt(p, l)
      <4>1. n.fresh = fresh
        BY <1>6
      <4>2. n.fresh
        BY <1>7, <1>14, <2>1
      <4>3. fresh
        BY <4>1, <4>2
      <4> QED BY <1>3, <4>3
    <3>2. \A p \in DashRun : RunAt(p, l)' => p = o
      BY <1>2, <1>12, <2>1, <3>1
    <3>3. at \notin {"date", "relate"} \/ l \notin QuickLink \/ ~HasSql(dashboards[l].of)
      BY <1>1, <1>2, <1>4, DashAssumption
    <3>4. at = "relate" => l \notin QuickLink
      BY <1>1, <1>2, <1>4, DashAssumption
    <3>5. /\ dashRun'[o].link = l /\ dashRun'[o].at = at /\ dashRun'[o].of = dashboards[l].of
          /\ dashRun'[o].sql = dashboards[l].sql /\ dashRun'[o].when = dashboards[l].at
      BY <1>6, <1>7, <2>1
    <3> QED BY <1>1, <3>2, <3>3, <3>4, <3>5 DEF FreshRun, HasSql
  <2>2. CASE o # r
    <3>1. dashRun[o].fresh /\ ~RunAt(o, l)
      BY <1>8, <1>14, <2>2
    <3>2. FreshRun(o) /\ dashRun[o].link \in Link
      BY <3>1, DashRunIs DEF DashInv
    <3>3. PICK k \in Link : k = dashRun[o].link /\ k # l
      BY <3>1, <3>2 DEF RunAt
    <3>4. \A p \in DashRun : RunAt(p, k)' => p = o
      BY <1>12, <2>2, <3>2, <3>3 DEF FreshRun
    <3>5. /\ dashRun'[o].link = k /\ dashRun'[o].at = dashRun[o].at /\ dashRun'[o].of = dashRun[o].of
          /\ dashRun'[o].sql = dashRun[o].sql /\ dashRun'[o].when = dashRun[o].when
      BY <1>8, <2>2, <3>3
    <3>6. UNCHANGED <<dashboards, latest, shownDate, spoiled>>
      BY <1>1
    <3>7. IsLatest(k)' <=> IsLatest(k)
      BY <3>6 DEF IsLatest
    <3> QED BY <3>2, <3>3, <3>4, <3>5, <3>6, <3>7 DEF FreshRun
  <2> QED BY <2>1, <2>2
<1>15. ASSUME NEW k \in passed' PROVE Passed(k)'
  <2>1. Passed(k) /\ k \in Link /\ k # l
    BY <1>1, <1>15 DEF DashInv, DashTypes
  <2>2. \A o \in DashRun : ~RunAt(o, k)'
    BY <1>12, <2>1 DEF Passed
  <2> QED BY <1>1, <2>1, <2>2 DEF Passed, IsLatest
<1> QED BY <1>10, <1>11, <1>13, <1>14, <1>15 DEF DashInv

\* A run that was fresh to the end has gone through the link.
LEMMA RelateDashInv ==
  ASSUME DashInv, NEW r \in DashRun, Relate(r)
  PROVE  DashInv'
<1>1. AtWork(r) /\ dashRun[r].at = "relate"
  BY DEF AtWork, Relate
<1>2. PICK l \in Link : l = dashRun[r].link /\ RunAt(r, l)
  BY <1>1, DashRunIs DEF RunAt
<1>3. PICK n : n = ToNext(dashRun[r].task, dashRun[r].todo)
  OBVIOUS
<1>4. /\ dashRun' = [dashRun EXCEPT ![r] = n]
      /\ related' = [related EXCEPT ![l] = related[l] \cup RelatedOf(r)]
      /\ passed' = IF dashRun[r].fresh /\ l \notin spoiled THEN passed \cup {l} ELSE passed
      /\ UNCHANGED <<dashboards, links, latest, shownDate, spoiled, dashBudget>>
  BY <1>2, <1>3 DEF Relate
<1>5. /\ dashRun[r].task = "quick" => dashRun[r].todo \subseteq QuickLink
      /\ dashRun[r].task = "super" => dashRun[r].todo \subseteq SuperLink
      /\ dashRun[r].task # "none"
  BY <1>1 DEF DashInv, RunsHold
<1>6. /\ n \in DashRunRow /\ n.at = "next" /\ n.link = {} /\ ~n.fresh
      /\ n.task = dashRun[r].task /\ n.todo = dashRun[r].todo
  BY <1>3, DashRunIs, DashAssumption DEF ToNext, DashRunRow, DataSetKind, DashSql, Dates
<1>7. /\ dashRun' \in [DashRun -> DashRunRow]
      /\ \A o \in DashRun : dashRun'[o] = IF o = r THEN n ELSE dashRun[o]
  BY <1>4, <1>6 DEF DashInv, DashTypes
<1>8. RelatedOf(r) \subseteq DashSql
  BY DashRunIs DEF RelatedOf, DatasetsOf, DashRunRow
<1>9. /\ related' \in [Link -> SUBSET DashSql] /\ \A k \in Link : related[k] \subseteq related'[k]
      /\ related'[l] = related[l] \cup RelatedOf(r)
  BY <1>4, <1>8 DEF DashInv, DashTypes
<1>10. DashTypes'
  BY <1>4, <1>7, <1>9 DEF DashInv, DashTypes
<1>11. RunsHold'
  <2> SUFFICES ASSUME NEW o \in DashRun
               PROVE  (/\ dashRun[o].at = "none" => dashRun[o] = NoDashRun
                       /\ dashRun[o].at = "next" => dashRun[o].link = {} /\ ~dashRun[o].fresh
                       /\ dashRun[o].task = "quick" => dashRun[o].todo \subseteq QuickLink
                       /\ dashRun[o].task = "super" => dashRun[o].todo \subseteq SuperLink
                       /\ AtWork(o) => dashRun[o].link \in IF dashRun[o].task = "super" THEN SuperLink ELSE QuickLink
                       /\ dashRun[o].at \in {"query", "unset", "create"} => dashRun[o].task # "super"
                       /\ dashRun[o].at # "none" => dashRun[o].task # "none")'
    BY DEF RunsHold
  <2>1. CASE o = r
    BY <1>5, <1>6, <1>7, <2>1 DEF AtWork
  <2>2. CASE o # r
    BY <1>7, <2>2 DEF DashInv, RunsHold, AtWork
  <2> QED BY <2>1, <2>2
<1>12. \A o \in DashRun, k \in Link : RunAt(o, k)' <=> o # r /\ RunAt(o, k)
  BY <1>6, <1>7, DashAssumption DEF RunAt
<1>13. ASSUME NEW k \in Link \ spoiled' PROVE QueryHolds(k)'
  <2>1. QueryHolds(k)
    BY <1>4, <1>13 DEF DashInv
  <2>2. \A o \in DashRun : Replaces(o, k)' => Replaces(o, k)
    BY <1>6, <1>7 DEF Replaces
  <2>3. \A o \in DashRun : dashRun'[o].at = "create" /\ RunAt(o, k)' => dashRun[o].at = "create" /\ RunAt(o, k)
    BY <1>6, <1>7, <1>12
  <2>4. LatestCount(k)' = LatestCount(k)
    BY <1>4 DEF LatestCount
  <2> QED BY <2>1, <2>2, <2>3, <2>4 DEF QueryHolds, OneReplaces
<1>14. ASSUME NEW o \in DashRun, dashRun'[o].fresh PROVE FreshRun(o)'
  <2>1. o # r /\ dashRun'[o] = dashRun[o] /\ dashRun[o].fresh
    BY <1>6, <1>7, <1>14
  <2>2. FreshRun(o) /\ dashRun[o].link \in Link
    BY <2>1, DashRunIs DEF DashInv
  <2>3. PICK k \in Link : k = dashRun[o].link
    BY <2>2
  <2>4. \A p \in DashRun : RunAt(p, k)' => p = o
    BY <1>12, <2>2, <2>3 DEF FreshRun
  <2> QED BY <1>4, <2>1, <2>2, <2>3, <2>4 DEF FreshRun, IsLatest
<1>15. ASSUME NEW k \in passed' PROVE Passed(k)'
  <2>1. CASE k \in passed
    <3>1. Passed(k) /\ k \in Link
      BY <2>1 DEF DashInv, DashTypes
    <3>2. \A o \in DashRun : ~RunAt(o, k)'
      BY <1>12, <3>1 DEF Passed
    <3>3. related[k] \subseteq related'[k]
      BY <1>9, <3>1
    <3> QED BY <1>4, <3>1, <3>2, <3>3 DEF Passed, IsLatest
  <2>2. CASE k \notin passed
    <3>1. k = l /\ dashRun[r].fresh /\ l \notin spoiled
      BY <1>4, <1>15, <2>2
    <3>2. FreshRun(r)
      BY <3>1 DEF DashInv
    <3>3. /\ \A o \in DashRun : RunAt(o, l) => o = r
          /\ dashRun[r].of = dashboards[l].of /\ dashRun[r].sql = dashboards[l].sql
          /\ l \in QuickLink /\ HasSql(dashboards[l].of) => IsLatest(l)
          /\ l \in QuickLink => shownDate[l] = dashboards[l].at
      BY <1>1, <1>2, <3>1, <3>2 DEF FreshRun
    <3>4. \A o \in DashRun : ~RunAt(o, k)'
      BY <1>12, <3>1, <3>3
    <3>5. DatasetsOf(dashboards[l].of, dashboards[l].sql) \subseteq related'[l]
      BY <1>9, <3>3 DEF RelatedOf
    <3> QED BY <1>4, <3>1, <3>3, <3>4, <3>5 DEF Passed, IsLatest
  <2> QED BY <2>1, <2>2
<1> QED BY <1>10, <1>11, <1>13, <1>14, <1>15 DEF DashInv

\* A dashboard or a link that changes: a run that is at it is no longer fresh.
LEMMA DashWorldInv ==
  ASSUME DashInv, NEW l \in Link, EditDashboard(l) \/ RemoveLink(l)
  PROVE  DashInv'
<1>1. /\ NotFresh(l) /\ passed' = passed \ {l} /\ UNCHANGED <<shownDate, related>>
      /\ dashBudget.edits < MaxDashEdits
      /\ dashBudget' = [dashBudget EXCEPT !.edits = dashBudget.edits + 1]
  BY DEF EditDashboard, RemoveLink
<1>2. /\ dashRun \in [DashRun -> DashRunRow] /\ dashBudget \in [edits : Dates, runs : 0..MaxDashRuns]
      /\ latest \in [Link -> [DashSql -> Nat]]
      /\ dashboards \in [Link -> [of : DataSetKind, sql : DashSql, at : Dates]]
      /\ links \subseteq Link /\ spoiled \subseteq QuickLink
  BY DEF DashInv, DashTypes
<1>3. dashBudget.edits + 1 \in Dates
  BY <1>1, <1>2, DashAssumption DEF Dates
<1>4. \A o \in DashRun :
        /\ dashRun'[o] \in DashRunRow /\ dashRun'[o].at = dashRun[o].at /\ dashRun'[o].task = dashRun[o].task
        /\ dashRun'[o].todo = dashRun[o].todo /\ dashRun'[o].link = dashRun[o].link
        /\ dashRun'[o].of = dashRun[o].of /\ dashRun'[o].sql = dashRun[o].sql
        /\ dashRun'[o].when = dashRun[o].when
        /\ dashRun'[o].fresh => dashRun[o].fresh /\ ~RunAt(o, l)
        /\ dashRun[o].at = "none" => dashRun'[o] = NoDashRun
  <2> SUFFICES ASSUME NEW o \in DashRun
               PROVE  /\ dashRun'[o] \in DashRunRow /\ dashRun'[o].at = dashRun[o].at
                      /\ dashRun'[o].task = dashRun[o].task
                      /\ dashRun'[o].todo = dashRun[o].todo /\ dashRun'[o].link = dashRun[o].link
                      /\ dashRun'[o].of = dashRun[o].of /\ dashRun'[o].sql = dashRun[o].sql
                      /\ dashRun'[o].when = dashRun[o].when
                      /\ dashRun'[o].fresh => dashRun[o].fresh /\ ~RunAt(o, l)
                      /\ dashRun[o].at = "none" => dashRun'[o] = NoDashRun
    OBVIOUS
  <2>1. PICK b \in BOOLEAN : b = (dashRun[o].fresh /\ ~RunAt(o, l))
    OBVIOUS
  <2>2. dashRun'[o] = [dashRun[o] EXCEPT !.fresh = b]
    BY <1>1, <2>1 DEF NotFresh
  <2>3. dashRun[o] \in DashRunRow
    BY <1>2
  <2>4. /\ dashRun'[o] \in DashRunRow /\ dashRun'[o].fresh = b
        /\ dashRun'[o].at = dashRun[o].at /\ dashRun'[o].task = dashRun[o].task
        /\ dashRun'[o].todo = dashRun[o].todo /\ dashRun'[o].link = dashRun[o].link
        /\ dashRun'[o].of = dashRun[o].of /\ dashRun'[o].sql = dashRun[o].sql
        /\ dashRun'[o].when = dashRun[o].when
    BY <2>2, <2>3 DEF DashRunRow
  <2>5. ASSUME dashRun[o].at = "none" PROVE dashRun'[o] = NoDashRun
    <3>1. dashRun[o] = NoDashRun /\ NoDashRun.fresh = FALSE
      BY <2>5 DEF DashInv, RunsHold, NoDashRun
    <3>2. b = FALSE
      BY <2>1, <3>1
    <3>3. dashRun'[o] = [NoDashRun EXCEPT !.fresh = FALSE]
      BY <2>2, <3>1, <3>2
    <3> QED BY <3>3 DEF NoDashRun
  <2> QED BY <2>1, <2>4, <2>5
<1>5. dashRun' \in [DashRun -> DashRunRow]
  <2>1. dashRun' = [o \in DashRun |-> dashRun'[o]]
    BY <1>1 DEF NotFresh
  <2> QED BY <1>4, <2>1
<1>6. \A o \in DashRun, k \in Link : RunAt(o, k)' <=> RunAt(o, k)
  BY <1>4 DEF RunAt
<1>7. RunsHold'
  <2> SUFFICES ASSUME NEW o \in DashRun
               PROVE  (/\ dashRun[o].at = "none" => dashRun[o] = NoDashRun
                       /\ dashRun[o].at = "next" => dashRun[o].link = {} /\ ~dashRun[o].fresh
                       /\ dashRun[o].task = "quick" => dashRun[o].todo \subseteq QuickLink
                       /\ dashRun[o].task = "super" => dashRun[o].todo \subseteq SuperLink
                       /\ AtWork(o) => dashRun[o].link \in IF dashRun[o].task = "super" THEN SuperLink ELSE QuickLink
                       /\ dashRun[o].at \in {"query", "unset", "create"} => dashRun[o].task # "super"
                       /\ dashRun[o].at # "none" => dashRun[o].task # "none")'
    BY DEF RunsHold
  <2>1. /\ dashRun[o].at = "next" => dashRun[o].link = {} /\ ~dashRun[o].fresh
        /\ dashRun[o].task = "quick" => dashRun[o].todo \subseteq QuickLink
        /\ dashRun[o].task = "super" => dashRun[o].todo \subseteq SuperLink
        /\ AtWork(o) => dashRun[o].link \in IF dashRun[o].task = "super" THEN SuperLink ELSE QuickLink
        /\ dashRun[o].at \in {"query", "unset", "create"} => dashRun[o].task # "super"
        /\ dashRun[o].at # "none" => dashRun[o].task # "none"
    BY DEF DashInv, RunsHold
  <2> QED BY <1>4, <2>1 DEF AtWork
\* Nothing of another dashboard changes, and the latest queries only by being deleted.
<1>8. /\ \A k \in Link : k # l => dashboards'[k] = dashboards[k] /\ latest'[k] = latest[k]
      /\ \A k \in Link : k # l => (k \in spoiled' <=> k \in spoiled)
      /\ links' \subseteq Link /\ spoiled' \subseteq QuickLink
      /\ dashboards' \in [Link -> [of : DataSetKind, sql : DashSql, at : Dates]]
      /\ latest' \in [Link -> [DashSql -> Nat]]
      /\ latest'[l] = latest[l] \/ \A s \in DashSql : latest'[l][s] = 0
  <2>1. CASE EditDashboard(l)
    <3>1. PICK of \in DataSetKind, sql \in DashSql :
            dashboards' = [dashboards EXCEPT ![l] = [of |-> of, sql |-> sql, at |-> dashBudget.edits + 1]]
      BY <2>1 DEF EditDashboard, DataSetKind
    <3>2. UNCHANGED <<links, latest, spoiled>>
      BY <2>1 DEF EditDashboard
    <3> QED BY <1>2, <1>3, <3>1, <3>2
  <2>2. CASE RemoveLink(l)
    <3>1. /\ dashboards' = dashboards /\ links' = links \ {l}
          /\ latest' = [latest EXCEPT ![l] = [s \in DashSql |-> 0]]
          /\ spoiled' = IF OneReplaces(l) THEN spoiled \ {l} ELSE spoiled
      BY <2>2 DEF RemoveLink
    <3> QED BY <1>2, <3>1
  <2> QED BY <2>1, <2>2
<1>9. DashTypes'
  <2>1. dashBudget' \in [edits : Dates, runs : 0..MaxDashRuns]
    BY <1>1, <1>2, <1>3
  <2>2. \A k \in SuperLink, s \in DashSql : latest'[k][s] = 0
    BY <1>8 DEF DashInv, DashTypes, Link
  <2> QED BY <1>1, <1>5, <1>8, <2>1, <2>2 DEF DashInv, DashTypes
<1>10. ASSUME NEW k \in Link \ spoiled' PROVE QueryHolds(k)'
  <2>1. \A o, p \in DashRun : /\ Replaces(o, k)' <=> Replaces(o, k)
                              /\ dashRun'[o].at = dashRun[o].at
    BY <1>4 DEF Replaces
  <2>2. CASE k # l \/ latest'[k] = latest[k]
    <3>1. k \notin spoiled \/ (k = l /\ OneReplaces(l))
      <4>1. CASE EditDashboard(l)
        BY <1>10, <4>1 DEF EditDashboard
      <4>2. CASE RemoveLink(l)
        BY <1>10, <4>2 DEF RemoveLink
      <4> QED BY <4>1, <4>2
    <3>2. CASE k \notin spoiled
      <4>1. QueryHolds(k) /\ latest'[k] = latest[k]
        BY <1>8, <2>2, <3>2 DEF DashInv
      <4> QED BY <1>6, <2>1, <4>1 DEF QueryHolds, OneReplaces, LatestCount
    <3>3. CASE k \in spoiled /\ k = l /\ OneReplaces(l)
      <4>1. RemoveLink(l)
        BY <1>10, <3>3 DEF EditDashboard
      <4>2. \A s \in DashSql : latest'[l][s] = 0
        BY <1>2, <4>1 DEF RemoveLink
      <4> QED BY <1>6, <2>1, <3>3, <4>2 DEF QueryHolds, OneReplaces, LatestCount, DashSql
    <3> QED BY <3>1, <3>2, <3>3
  <2>3. CASE k = l /\ latest'[k] # latest[k]
    <3>1. RemoveLink(l) /\ \A s \in DashSql : latest'[l][s] = 0
      BY <1>8, <2>3 DEF EditDashboard
    <3>2. OneReplaces(l)
      <4>1. l \notin spoiled => OneReplaces(l)
        BY DEF DashInv, QueryHolds
      <4>2. l \notin spoiled'
        BY <1>10, <2>3
      <4> QED BY <3>1, <4>1, <4>2 DEF RemoveLink
    <3> QED BY <1>6, <2>1, <2>3, <3>1, <3>2 DEF QueryHolds, OneReplaces, LatestCount, DashSql
  <2> QED BY <2>2, <2>3
<1>11. ASSUME NEW o \in DashRun, dashRun'[o].fresh PROVE FreshRun(o)'
  <2>1. dashRun[o].fresh /\ ~RunAt(o, l)
    BY <1>4, <1>11
  <2>2. FreshRun(o) /\ dashRun[o].link \in Link
    BY <2>1, DashRunIs DEF DashInv
  <2>3. PICK k \in Link : k = dashRun[o].link /\ k # l
    BY <2>1, <2>2 DEF RunAt
  <2>4. \A p \in DashRun : RunAt(p, k)' => p = o
    BY <1>6, <2>2, <2>3 DEF FreshRun
  <2>5. /\ dashRun'[o].link = k /\ dashRun'[o].at = dashRun[o].at /\ dashRun'[o].of = dashRun[o].of
        /\ dashRun'[o].sql = dashRun[o].sql /\ dashRun'[o].when = dashRun[o].when
    BY <1>4, <2>3
  <2> QED BY <1>1, <1>8, <2>2, <2>3, <2>4, <2>5 DEF FreshRun, IsLatest
<1>12. ASSUME NEW k \in passed' PROVE Passed(k)'
  <2>1. Passed(k) /\ k \in Link /\ k # l
    BY <1>1, <1>12 DEF DashInv, DashTypes
  <2>2. \A o \in DashRun : ~RunAt(o, k)'
    BY <1>6, <2>1 DEF Passed
  <2> QED BY <1>1, <1>8, <2>1, <2>2 DEF Passed, IsLatest
<1> QED BY <1>7, <1>9, <1>10, <1>11, <1>12 DEF DashInv

\* The strengthened invariant holds in every reachable state.
THEOREM DashInvariance == DashSpec => []DashInv
<1>1. DashInv /\ [DashNext]_dashVars => DashInv'
  <2> SUFFICES ASSUME DashInv, [DashNext]_dashVars PROVE DashInv'
    OBVIOUS
  <2>1. CASE UNCHANGED dashVars
    BY <2>1 DEF dashVars, DashInv, DashTypes, RunsHold, AtWork, QueryHolds, OneReplaces, Replaces, LatestCount,
       RunAt, FreshRun, IsLatest, Passed
  <2> QED BY <2>1, DashWorldInv, BetweenLinksInv, DescribeDashInv, DashWorkInv, RelateDashInv DEF DashNext
<1> QED BY <1>1, DashInitInv, PTL DEF DashSpec

(* At most one query of a dashboard is its latest one, unless two runs replaced it *)
(* at the same time, and the catalogue tells what the last complete run saw of it  *)
(* (store_sql_query and process_quicksight_dashboard_visualisations), for every    *)
(* number of overlapping runs.                                                     *)
THEOREM DashIsSafe == DashSpec => []DashSafety
<1>1. DashInv => DashSafety
  <2> SUFFICES ASSUME DashInv PROVE DashSafety
    OBVIOUS
  <2>1. DashTypeOK
    <3>1. \A l \in Link : /\ shownDate[l] \in Dates /\ related[l] \subseteq DashSql
                          /\ dashboards[l].at \in Dates
      BY DEF DashInv, DashTypes
    <3>2. \A l \in SuperLink : LatestCount(l) = 0
      BY DEF DashInv, DashTypes, LatestCount, DashSql
    <3>3. \A r \in DashRun : dashRun[r].todo \subseteq Link /\ (dashRun[r].at = "none" => dashRun[r] = NoDashRun)
      BY DashRunIs DEF DashInv, RunsHold, DashRunRow
    <3> QED BY <3>1, <3>2, <3>3 DEF DashInv, DashTypes, DashTypeOK
  <2>2. OneLatestQuery
    BY DEF DashInv, QueryHolds, OneLatestQuery
  <2>3. CatalogueFollows
    BY DEF DashInv, Passed, IsLatest, CatalogueFollows
  <2> QED BY <2>1, <2>2, <2>3 DEF DashSafety
<1> QED BY <1>1, DashInvariance, PTL

(***************************************************************************)
(* The page of a dashboard.                                                *)
(***************************************************************************)
LEMMA EmbedInitInv == EmbedInit => EmbedInv
<1> SUFFICES ASSUME EmbedInit PROVE EmbedInv
  OBVIOUS
<1>1. 0 \in 0 .. Attempts /\ 0 \in 0 .. MaxDashChanges
  BY EmbedAssumption DEF Attempts
<1>2. EmbedTypeOK
  BY <1>1 DEF EmbedInit, EmbedTypeOK, Stage
<1> QED BY <1>2 DEF EmbedInit, EmbedInv, EmbedViewInv

\* What a view does leaves its own guarantees to be shown; those of the others only
\* ask that the group and the event log keep what they have.
LEMMA EmbedViewStepInv ==
  ASSUME EmbedInv, NEW v \in View,
         \/ \E u \in DashViewer : OpenLink(v, u)
         \/ Register(v) \/ JoinGroup(v) \/ NotFoundYet(v) \/ ShowDashboard(v) \/ ViewFails(v)
  PROVE  EmbedInv'
<1>1. EmbedTypeOK /\ EmbedViewInv
  BY DEF EmbedInv
<1>2. UNCHANGED adminVars /\ group \subseteq group' /\ viewLog \subseteq viewLog'
  BY DEF OpenLink, Register, JoinGroup, NotFoundYet, ShowDashboard, ViewFails, adminVars
<1>3. \A w \in View : w # v => /\ viewing'[w] = viewing[w] /\ viewerOf'[w] = viewerOf[w]
                               /\ attempts'[w] = attempts[w] /\ admitted'[w] = admitted[w]
  BY <1>1 DEF EmbedTypeOK, OpenLink, Register, JoinGroup, NotFoundYet, ShowDashboard, ViewFails,
              Viewing
<1>4. viewing' \in [View -> Stage] /\ viewerOf' \in [View -> DashViewer \cup {NoViewer}]
  <2>1. PICK there \in Stage : viewing' = [viewing EXCEPT ![v] = there]
    BY DEF OpenLink, Register, JoinGroup, NotFoundYet, ShowDashboard, ViewFails, Viewing, Stage
  <2>2. viewerOf' = viewerOf \/ \E u \in DashViewer : viewerOf' = [viewerOf EXCEPT ![v] = u]
    BY DEF OpenLink, Register, JoinGroup, NotFoundYet, ShowDashboard, ViewFails
  <2> QED BY <1>1, <2>1, <2>2 DEF EmbedTypeOK
<1>a. admitted' \in [View -> BOOLEAN]
  <2>1. ASSUME NEW u \in DashViewer, OpenLink(v, u) PROVE admitted' \in [View -> BOOLEAN]
    <3>1. PICK b \in BOOLEAN : admitted' = [admitted EXCEPT ![v] = b]
      BY <2>1 DEF OpenLink
    <3> QED BY <1>1, <3>1 DEF EmbedTypeOK
  <2> QED
    BY <1>1, <2>1 DEF EmbedTypeOK, Register, JoinGroup, NotFoundYet, ShowDashboard, ViewFails
<1>5. /\ attempts' \in [View -> 0 .. Attempts]
      /\ viewing'[v] = "joining" => attempts'[v] > 0
  <2>1. CASE Register(v)
    BY <1>1, <2>1 DEF EmbedTypeOK, Register, Attempts, Viewing
  <2>2. CASE NotFoundYet(v)
    <3>1. attempts[v] \in 1 .. Attempts
      BY <1>1, <2>2 DEF EmbedTypeOK, NotFoundYet, Attempts
    <3>2. /\ attempts' = [attempts EXCEPT ![v] = attempts[v] - 1]
          /\ viewing'[v] = IF attempts[v] > 1 THEN "joining" ELSE "error"
      BY <1>1, <2>2 DEF EmbedTypeOK, NotFoundYet
    <3> QED BY <1>1, <3>1, <3>2 DEF EmbedTypeOK, Attempts
  <2>3. CASE ~Register(v) /\ ~NotFoundYet(v)
    BY <1>1, <2>3 DEF EmbedTypeOK, OpenLink, JoinGroup, ShowDashboard, ViewFails, Viewing
  <2> QED BY <2>1, <2>2, <2>3
<1>b. /\ group \subseteq findable /\ findable \subseteq readers /\ readers \subseteq DashViewer
      /\ viewLog \subseteq View
  BY <1>1 DEF EmbedTypeOK
<1>c. /\ viewing[v] # "none" => viewerOf[v] \in DashViewer
      /\ viewing[v] \in {"registering", "joining", "asking", "shown"} => admitted[v] /\ v \in viewLog
      /\ viewing[v] \in {"asking", "shown"} => viewerOf[v] \in group
  BY <1>1 DEF EmbedViewInv
<1>d. DOMAIN viewing = View /\ DOMAIN viewerOf = View /\ DOMAIN admitted = View
  BY <1>1 DEF EmbedTypeOK
\* What each operation does to the groups and to the view itself.
<1>6. /\ group' \subseteq findable' /\ findable' \subseteq readers' /\ readers' \subseteq DashViewer
      /\ viewLog' \subseteq View
      /\ viewing'[v] # "none" => viewerOf'[v] \in DashViewer
      /\ viewing'[v] \in {"registering", "joining", "asking", "shown"} => admitted'[v] /\ v \in viewLog'
      /\ viewing'[v] \in {"asking", "shown"} => viewerOf'[v] \in group'
  <2>1. ASSUME NEW u \in DashViewer, OpenLink(v, u)
        PROVE  /\ UNCHANGED <<readers, findable, group>> /\ viewLog' \in {viewLog, viewLog \cup {v}}
               /\ viewerOf'[v] = u
               /\ viewing'[v] \in {"not found", "asked to request access", "registering"}
               /\ viewing'[v] = "registering" => admitted'[v] /\ v \in viewLog'
    <3>1. /\ viewerOf'[v] = u /\ admitted'[v] = (linkExists /\ u \in linkAccess)
          /\ viewing'[v] = IF ~linkExists THEN "not found"
                           ELSE IF u \notin linkAccess THEN "asked to request access" ELSE "registering"
      BY <1>d, <2>1 DEF OpenLink
    <3>2. /\ viewLog' = IF linkExists /\ u \in linkAccess THEN viewLog \cup {v} ELSE viewLog
          /\ UNCHANGED <<readers, findable, group>>
      BY <2>1 DEF OpenLink
    <3> QED BY <3>1, <3>2
  <2>2. CASE Register(v)
    <3>1. viewing[v] = "registering" /\ viewing'[v] = "joining"
      BY <1>d, <2>2 DEF Register, Viewing
    <3>2. readers' = readers \cup {viewerOf[v]} /\ UNCHANGED <<findable, group, viewerOf, admitted, viewLog>>
      BY <2>2 DEF Register
    <3> QED BY <1>b, <1>c, <3>1, <3>2
  <2>3. CASE JoinGroup(v)
    <3>1. viewing[v] = "joining" /\ viewing'[v] = "asking"
      BY <1>d, <2>3 DEF JoinGroup, Viewing
    <3>2. /\ viewerOf[v] \in findable /\ group' = group \cup {viewerOf[v]}
          /\ UNCHANGED <<readers, findable, viewerOf, admitted, viewLog>>
      BY <2>3 DEF JoinGroup
    <3> QED BY <1>b, <1>c, <3>1, <3>2
  <2>4. CASE NotFoundYet(v)
    <3>1. viewing[v] = "joining" /\ viewing'[v] \in {"joining", "error"}
      BY <1>d, <2>4 DEF NotFoundYet
    <3>2. UNCHANGED <<readers, findable, group, viewerOf, admitted, viewLog>>
      BY <2>4 DEF NotFoundYet
    <3> QED BY <1>b, <1>c, <3>1, <3>2
  <2>5. CASE ShowDashboard(v)
    <3>1. viewing[v] = "asking" /\ viewing'[v] = "shown"
      BY <1>d, <2>5 DEF ShowDashboard, Viewing
    <3>2. UNCHANGED <<readers, findable, group, viewerOf, admitted, viewLog>>
      BY <2>5 DEF ShowDashboard
    <3> QED BY <1>b, <1>c, <3>1, <3>2
  <2>6. CASE ViewFails(v)
    <3>1. viewing[v] \in {"registering", "joining", "asking"} /\ viewing'[v] = "error"
      BY <1>d, <2>6 DEF ViewFails
    <3>2. UNCHANGED <<readers, findable, group, viewerOf, admitted, viewLog>>
      BY <2>6 DEF ViewFails
    <3> QED BY <1>b, <1>c, <3>1, <3>2
  <2>7. CASE \E u \in DashViewer : OpenLink(v, u)
    BY <1>b, <2>1, <2>7
  <2> QED BY <2>2, <2>3, <2>4, <2>5, <2>6, <2>7
<1>8. EmbedTypeOK'
  <2>1. /\ linkExists' \in BOOLEAN /\ dashboardExists' \in BOOLEAN /\ linkAccess' \subseteq DashViewer
        /\ dashChanges' \in 0 .. MaxDashChanges
    BY <1>1, <1>2 DEF EmbedTypeOK, adminVars
  <2>2. \A w \in View : viewing'[w] = "joining" => attempts'[w] > 0
    BY <1>1, <1>3, <1>5 DEF EmbedTypeOK
  <2> QED BY <1>4, <1>5, <1>6, <1>a, <2>1, <2>2 DEF EmbedTypeOK
<1> QED BY <1>1, <1>2, <1>3, <1>6, <1>8 DEF EmbedInv, EmbedViewInv

\* In every state, a view that got as far as joining was admitted and is in the event log,
\* and one that asks for the dashboard is of a member of the group (get_quicksight_dashboard_name_url).
THEOREM EmbedInvariance == EmbedSpec => []EmbedInv
<1>1. EmbedInv /\ [EmbedNext]_embedVars => EmbedInv'
  <2> SUFFICES ASSUME EmbedInv, [EmbedNext]_embedVars PROVE EmbedInv'
    OBVIOUS
  <2>1. CASE UNCHANGED embedVars
    BY <2>1 DEF embedVars, EmbedInv, EmbedTypeOK, EmbedViewInv
  <2>2. CASE \E u \in DashViewer : BecomesFindable(u)
    BY <2>2 DEF BecomesFindable, adminVars, EmbedInv, EmbedTypeOK, EmbedViewInv
  <2>3. CASE DashAdmin
    <3>1. /\ linkExists' \in BOOLEAN /\ dashboardExists' \in BOOLEAN
          /\ linkAccess' \subseteq DashViewer
      BY <2>3 DEF DashAdmin, EmbedInv, EmbedTypeOK
    <3>2. dashChanges' \in 0 .. MaxDashChanges
      BY <2>3, EmbedAssumption DEF DashAdmin, EmbedInv, EmbedTypeOK
    <3> QED BY <2>3, <3>1, <3>2 DEF DashAdmin, EmbedInv, EmbedTypeOK, EmbedViewInv
  <2>4. CASE \E v \in View : \/ \E u \in DashViewer : OpenLink(v, u)
                             \/ Register(v) \/ JoinGroup(v) \/ NotFoundYet(v)
                             \/ ShowDashboard(v) \/ ViewFails(v)
    BY <2>4, EmbedViewStepInv
  <2> QED BY <2>1, <2>2, <2>3, <2>4 DEF EmbedNext
<1> QED BY EmbedInitInv, <1>1, PTL DEF EmbedSpec

\* A dashboard is shown to members of its group who had access, with a log, for any viewers,
\* views and number of attempts (get_quicksight_dashboard_name_url).
THEOREM EmbedIsSafe == EmbedSpec => []EmbedSafety
<1>1. EmbedInv => EmbedSafety
  BY DEF EmbedInv, EmbedViewInv, EmbedSafety, ShownToMembers
<1> QED BY <1>1, EmbedInvariance, PTL
=====================================================================================
