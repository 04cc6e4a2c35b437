--------------------------- MODULE DatasetCatalogue ---------------------------
(***************************************************************************)
(* One item of the catalogue: who finds it, who may use it, what its pages *)
(* offer and what a click on a download does, while the admin site edits   *)
(* it.  Its kind is that of its source, for a data cut: a query, which     *)
(* must be reviewed, or a file.  A save of the item writes its whole row,  *)
(* as it was loaded at the start of the request; the requests of the       *)
(* catalogue commit every statement.                                       *)
(***************************************************************************)
EXTENDS Naturals, FiniteSets

CONSTANTS
    CatalogueUser,       \* users of the catalogue
    Superuser,    \* those with is_superuser
    Manager,      \* those who manage unpublished items of the kind
    Insider,      \* those whose email domain the item may authorise
    Curator,      \* requests of the admin site
    MaxEdits,     \* bound on the requests of the admin site that commit
    MaxDownloads  \* bound on the downloads

ASSUME CatalogueAssumption ==
    /\ Superuser \subseteq CatalogueUser /\ Manager \subseteq CatalogueUser /\ Insider \subseteq CatalogueUser
    /\ IsFiniteSet(CatalogueUser) /\ MaxEdits \in Nat /\ MaxDownloads \in Nat

VARIABLES
    item,       \* the row of the item, and of its source
    permitted,  \* rows of DataSetUserPermission, or VisualisationUserPermission
    visit,      \* the page that a person has open, or the request made from it
    events,     \* download events in the log
    editing,    \* the row that each request of the admin site has loaded
    edits,      \* requests of the admin site that committed
    crossed     \* a download was counted while a request of the admin site had the row

catalogueVars == <<item, permitted, visit, events, editing, edits, crossed>>

\* OPEN counts as REQUIRES_AUTHENTICATION wherever access is checked.
AccessType == {"REQUIRES_AUTHORIZATION", "REQUIRES_AUTHENTICATION"}

Kind == {"query", "file", "reference", "visualisation"}

NewItem == [kind |-> "none", published |-> FALSE, deleted |-> FALSE,
            access |-> "REQUIRES_AUTHORIZATION", domains |-> FALSE, reviewed |-> FALSE,
            downloads |-> 0]
\* promised: a page that is still true offered the link.
NoVisit == [pc |-> "idle", promised |-> FALSE, status |-> 0]

CatalogueInit ==
    /\ item = NewItem
    /\ permitted = {}
    /\ visit = [u \in CatalogueUser |-> NoVisit]
    /\ events = 0
    /\ editing = [c \in Curator |-> NewItem]
    /\ edits = 0
    /\ crossed = FALSE

(***************************************************************************)
(* Who finds the item, and who may use it.                                 *)
(***************************************************************************)
Unrestricted == item.access = "REQUIRES_AUTHENTICATION"

\* Django: a superuser has every permission.
HasPerm(u) == u \in Superuser \cup Manager

Findable(u) == item.kind # "none" /\ ~ item.deleted /\ (item.published \/ HasPerm(u))

\* Mutant: where email domains are authorised, only they are looked at.
UserHasAccessByDomain(u) ==
    \/ item.kind = "reference" \/ Unrestricted
    \/ IF item.domains THEN u \in Insider ELSE u \in permitted

UserHasAccess(u) ==
    \/ item.kind = "reference" \/ Unrestricted
    \/ u \in permitted
    \/ item.domains /\ u \in Insider

\* What the search knows of the item: whether it is listed for a person, and its
\* has_access.  Email domains do not count.
DatasetMatchingQuery(u) ==
    [listed |-> item.kind # "none" /\ ~ item.deleted /\ (item.published \/ HasPerm(u)),
     hasAccess |-> item.kind = "reference" \/ Unrestricted \/ u \in permitted]

\* A visualisation that is permitted to some is no longer open to all.
VisualisationMatchingQuery(u) ==
    [listed |-> ~ item.deleted /\ (HasPerm(u) \/ item.published),
     hasAccess |-> u \in permitted \/ (Unrestricted /\ permitted = {})]

SearchRow(u) == IF item.kind = "visualisation" THEN VisualisationMatchingQuery(u)
                ELSE DatasetMatchingQuery(u)

\* The filters of the page that depend on the person.
SearchFilter == [unpublished : BOOLEAN, access : {"any", "yes", "no"}]

MatchesFilters(row, f) ==
    /\ row.listed
    /\ f.unpublished \/ item.published
    /\ f.access = "yes" => row.hasAccess
    /\ f.access = "no" => ~ row.hasAccess

CanShowLink(u) == item.kind = "query" => u \in Superuser \/ item.reviewed

(***************************************************************************)
(* The catalogue.                                                          *)
(***************************************************************************)
Offers(u) == UserHasAccess(u) /\ CanShowLink(u)

ShowPage(u, pc, promised) == [visit EXCEPT ![u] = [pc |-> pc, promised |-> promised, status |-> 0]]
Proceed(u, pc) == ShowPage(u, pc, visit[u].promised)
AnswerClick(u, status) ==
    [visit EXCEPT ![u] = [pc |-> "answered", promised |-> visit[u].promised, status |-> status]]

\* DatasetDetailView.
OpenPage(u) ==
    /\ visit[u].pc = "idle"
    /\ Findable(u)
    /\ visit' = ShowPage(u, "page", Offers(u))
    /\ UNCHANGED <<item, permitted, events, editing, edits, crossed>>

\* DatasetPreviewView: the sample, and the link if it can be shown.
OpenPreview(u) ==
    /\ visit[u].pc \in {"idle", "page"}
    /\ item.kind = "query"
    /\ Findable(u) /\ UserHasAccess(u) /\ (item.reviewed \/ u \in Superuser)
    /\ visit' = ShowPage(u, "page", CanShowLink(u))
    /\ UNCHANGED <<item, permitted, events, editing, edits, crossed>>

\* The views behind the links of a data cut, by a link or by its URL: the
\* dataset is found, and access is checked.
ClickDataCut(u) ==
    /\ visit[u].pc \in {"idle", "page"}
    /\ item.kind \in {"query", "file"}
    /\ events < MaxDownloads
    /\ visit' = CASE ~ Findable(u) -> AnswerClick(u, 404)
                  [] Findable(u) /\ ~ UserHasAccess(u) -> AnswerClick(u, 403)
                  [] OTHER -> Proceed(u, "check")
    /\ UNCHANGED <<item, permitted, events, editing, edits, crossed>>

\* ReferenceDatasetDownloadView.get_object: who may see an item that is not
\* published is not who may download it.
ClickReference(u) ==
    /\ visit[u].pc \in {"idle", "page"}
    /\ item.kind = "reference"
    /\ events < MaxDownloads
    /\ visit' = IF ~ item.deleted /\ (item.published \/ u \in Superuser)
                THEN Proceed(u, "log") ELSE AnswerClick(u, 404)
    /\ UNCHANGED <<item, permitted, events, editing, edits, crossed>>

\* CustomDatasetQueryDownloadView looks at the query, after the dataset.

CheckReviewed(u) ==
    /\ visit[u].pc = "check"
    /\ visit' = IF CanShowLink(u) THEN Proceed(u, "log") ELSE AnswerClick(u, 403)
    /\ UNCHANGED <<item, permitted, events, editing, edits, crossed>>

LogDownload(u) ==
    /\ visit[u].pc = "log"
    /\ events < MaxDownloads
    /\ events' = events + 1
    /\ visit' = Proceed(u, "count")
    /\ UNCHANGED <<item, permitted, editing, edits, crossed>>

Counted(u) ==
    /\ visit[u].pc = "count"
    /\ visit' = AnswerClick(u, 200)
    /\ crossed' = (crossed \/ \E c \in Curator : editing[c] # NewItem)
    /\ UNCHANGED <<permitted, events, editing, edits>>

\* F("number_of_downloads") + 1, in the database.
CountDownload(u) == Counted(u) /\ item' = [item EXCEPT !.downloads = @ + 1]

LeavePage(u) ==
    /\ visit[u].pc \in {"page", "answered"}
    /\ visit' = [visit EXCEPT ![u] = NoVisit]
    /\ UNCHANGED <<item, permitted, events, editing, edits, crossed>>

(***************************************************************************)
(* The admin site.                                                         *)
(***************************************************************************)

\* The form of a new item, which nobody is permitted yet.
CreateItem ==
    \E kind \in Kind, access \in AccessType, ready \in BOOLEAN :
       /\ item.kind = "none"
       /\ item' = [kind |-> kind, published |-> ready, deleted |-> FALSE, access |-> access,
                   domains |-> FALSE, reviewed |-> ready, downloads |-> 0]
       /\ UNCHANGED <<permitted, visit, events, editing, edits, crossed>>

\* What a form changes of the row: one field at most.
EditsOf(row) ==
    {row, [row EXCEPT !.published = ~ @], [row EXCEPT !.domains = ~ @],
     [row EXCEPT !.reviewed = ~ @]}
    \cup {[row EXCEPT !.access = type] : type \in AccessType}

LoadItem(c) ==
    /\ editing[c] = NewItem
    /\ item.kind # "none" /\ ~ item.deleted
    /\ edits < MaxEdits
    /\ editing' = [editing EXCEPT ![c] = item]
    /\ UNCHANGED <<item, permitted, visit, events, edits, crossed>>

\* Pages that were loaded before promise nothing any more.
Committed(c) ==
    /\ editing[c] # NewItem
    /\ edits < MaxEdits
    /\ edits' = edits + 1
    /\ editing' = [editing EXCEPT ![c] = NewItem]
    /\ visit' = [u \in CatalogueUser |-> [visit[u] EXCEPT !.promised = FALSE]]
    /\ UNCHANGED <<events, crossed>>

\* save_model, in one transaction: the row, and who is permitted (PermissionLog).
SaveItem(c) ==
    /\ Committed(c)
    /\ item' \in EditsOf(editing[c])
    /\ permitted' \in SUBSET CatalogueUser

\* The soft delete saves the whole row too.
DeleteItem(c) ==
    /\ Committed(c)
    /\ item' = [editing[c] EXCEPT !.deleted = TRUE]
    /\ UNCHANGED permitted

\* The form has errors, or the request fails.
AbandonEdit(c) ==
    /\ editing[c] # NewItem
    /\ editing' = [editing EXCEPT ![c] = NewItem]
    /\ UNCHANGED <<item, permitted, visit, events, edits, crossed>>

(***************************************************************************)
CatalogueNext ==
    \/ CreateItem
    \/ \E u \in CatalogueUser :
          \/ OpenPage(u) \/ OpenPreview(u) \/ ClickDataCut(u) \/ ClickReference(u)
          \/ CheckReviewed(u) \/ LogDownload(u) \/ CountDownload(u) \/ LeavePage(u)
    \/ \E c \in Curator : LoadItem(c) \/ SaveItem(c) \/ DeleteItem(c) \/ AbandonEdit(c)

CatalogueSpec == CatalogueInit /\ [][CatalogueNext]_catalogueVars

(***************************************************************************)
(* Properties.                                                             *)
(***************************************************************************)
CatalogueItem ==
    [kind : Kind \cup {"none"}, published : BOOLEAN, deleted : BOOLEAN,
     access : AccessType, domains : BOOLEAN, reviewed : BOOLEAN,
     downloads : 0 .. MaxDownloads]

CatalogueTypeOK ==
    /\ item \in CatalogueItem
    /\ permitted \subseteq CatalogueUser
    /\ visit \in [CatalogueUser -> [pc : {"idle", "page", "check", "log", "count", "answered"},
                             promised : BOOLEAN, status : {0, 200, 403, 404}]]
    /\ events \in 0 .. MaxDownloads
    /\ editing \in [Curator -> CatalogueItem]
    /\ edits \in 0 .. MaxEdits
    /\ crossed \in BOOLEAN

\* What a search finds has a page, and what it finds among the items that a person can
\* use can be used by that person: has_access of the search, for datasets and for
\* visualisations, never promises more than user_has_access.
SearchIsTruthful ==
    \A u \in CatalogueUser, f \in SearchFilter :
       MatchesFilters(SearchRow(u), f) =>
          Findable(u) /\ (f.access = "yes" => UserHasAccess(u))

\* A link that a page shows works until the item or its permissions change: the
\* view behind it makes no check that the page did not make.  It does for a
\* reference dataset that is not published, which its managers see and only
\* superusers download.
LinksWork ==
    \A u \in CatalogueUser :
       visit[u].pc = "answered" /\ visit[u].promised =>
          \/ visit[u].status = 200
          \/ item.kind = "reference" /\ ~ item.published /\ u \notin Superuser

\* However downloads interleave, each event is counted, except one that is
\* counted while a form of the item has its row: the form writes back the
\* number that it loaded.
Counting == {u \in CatalogueUser : visit[u].pc = "count"}
DownloadsAreCounted == crossed \/ events = item.downloads + Cardinality(Counting)

(***************************************************************************)
(* The strengthening.  A page that is still true was offered for the item  *)
(* as it is; no row, saved or loaded, counts a download that has no event, *)
(* and as long as no count crossed a form, loaded rows have the number of  *)
(* the saved one.                                                          *)
(***************************************************************************)
PromisesHold ==
    \A u \in CatalogueUser : visit[u].promised =>
       /\ Findable(u) /\ UserHasAccess(u) /\ CanShowLink(u)
       /\ \/ visit[u].pc # "answered" \/ visit[u].status = 200
          \/ item.kind = "reference" /\ ~ item.published /\ u \notin Superuser
CountsHold ==
    /\ item.kind = "none" => item = NewItem /\ \A u \in CatalogueUser : visit[u].pc = "idle"
    /\ item.downloads + Cardinality(Counting) <= events
    /\ \A c \in Curator :
          /\ editing[c].downloads + Cardinality(Counting) <= events
          /\ \/ editing[c] = NewItem
             \/ editing[c].kind # "none" /\ (crossed \/ editing[c].downloads = item.downloads)
CatalogueInv == CatalogueTypeOK /\ PromisesHold /\ CountsHold /\ DownloadsAreCounted

\* The search, the pages and the views behind their links agree about who may use an
\* item, and each download is counted, while forms of the admin site save the item
\* (datasets/views.py).
CatalogueSafety ==
  /\ CatalogueTypeOK
  /\ SearchIsTruthful
  /\ LinksWork
  /\ DownloadsAreCounted
=============================================================================
