----------------------------- MODULE MirrorsSync -----------------------------
(***************************************************************************)
(* The scheduled task that copies package repositories into the mirrors    *)
(* bucket (src/mirrors-sync/mirrors-sync.py).  It mirrors one repository   *)
(* after the other; in each, ten asyncio workers take items from a queue,  *)
(* skip what a listing made at the start had, and stream the rest to S3.   *)
(* An index that names the files is written last.  Errors of a worker are  *)
(* logged and swallowed, errors of the body end the whole task, and SIGTERM*)
(* cancels it between any two requests.  Meanwhile the upstream releases   *)
(* files.                                                                  *)
(*                                                                         *)
(* A file is <<p, n>>, the n-th file of package p; PyPI queues projects,   *)
(* <<p, 0>>, the crawled repositories (CRAN, Debian) start from a page.    *)
(***************************************************************************)
EXTENDS Naturals, FiniteSets

CONSTANTS Package,       \* packages of every repository
          SyncWorker,    \* the transfer_task coroutines
          MaxReleases,   \* bound on the files released upstream
          MaxSyncRuns,   \* bound on the runs of the task
          MaxTries,      \* attempts of a transfer (10 in the code)
          SyncFailures,  \* bound on the failing requests
          Deployments    \* sets of repositories the MIRROR_* settings turn on

ASSUME MirrorAssumption ==
  /\ MaxReleases \in Nat /\ MaxTries \in Nat \ {0}
  /\ Deployments \subseteq SUBSET {"conda", "cran", "pypi", "debian", "nltk"}

Order == <<"conda", "cran", "pypi", "debian", "nltk">>
Repository == {"conda", "cran", "pypi", "debian", "nltk"}
IndexPage == <<"page">>
DebianIndex == <<"Packages">>
NoItem == <<>>
NoWork == [item |-> NoItem, tries |-> 0, page |-> 0, have |-> {}, next |-> 0]

VARIABLES
  upstream,   \* repository -> package -> number of files released
  releasedAt, \* package -> file of its PyPI project -> second of its release
  bucket,     \* repository -> the files in the bucket
  index,      \* repository -> the files the indexes in the bucket name
  packed,     \* conda's repodata.json.bz2: the files named by the one the run got and
              \* by the one in the bucket, and those its run had not queued
  marker,     \* the object __sync_changes_after, 0 when there is none
  second,     \* time(), in seconds
  run,        \* the running mirror function, or its position in the order
  queue, done,\* asyncio.Queue of the items, and the crawler's set of URLs
  working,    \* worker -> the item it transfers
  lost,       \* items whose transfer was given up and only logged
  mirrorFaults, runs,
  enabled     \* the repositories of the MIRROR_* settings

mirrorVars == <<upstream, releasedAt, bucket, index, packed, marker, second, run,
                queue, done, working, lost, mirrorFaults, runs, enabled>>
fixedVars == <<upstream, releasedAt, second, enabled, packed>>

Quiescent == [at |-> 0, phase |-> "stopped", listed |-> {}, existing |-> {},
              started |-> 0]

MirrorInit ==
  /\ upstream = [m \in Repository |-> [p \in Package |-> 1]]
  /\ releasedAt = [p \in Package |-> [n \in 1..(MaxReleases + 1) |-> 1]]
  /\ bucket = [m \in Repository |-> {}] /\ index = [m \in Repository |-> {}]
  /\ packed = [got |-> {}, stored |-> {}, late |-> {}]
  /\ marker = 0 /\ second = 2 /\ run = Quiescent /\ queue = {} /\ done = {}
  /\ working = [w \in SyncWorker |-> NoWork] /\ lost = {}
  /\ mirrorFaults = 0 /\ runs = 0 /\ enabled = {}

Here == Order[run.at]
Files(m) == {f \in Package \X (1..(MaxReleases + 1)) : f[2] <= upstream[m][f[1]]}
Crawled == {"cran", "debian"}

(* Time passes (only PyPI's marker depends on it), and the upstream of a     *)
(* mirrored repository releases a file.                                     *)
Second == /\ "pypi" \in enabled /\ second < 2 + MaxReleases /\ second' = second + 1
          /\ UNCHANGED <<upstream, releasedAt, bucket, index, packed, marker, run, queue,
                         done, working, lost, mirrorFaults, runs, enabled>>
Release(m, p) ==
  LET n == upstream[m][p] + 1 IN
  /\ m \in enabled /\ n <= MaxReleases + 1 /\ Cardinality(Files(m)) < Cardinality(Package) + MaxReleases
  /\ upstream' = [upstream EXCEPT ![m][p] = n]
  /\ releasedAt' = IF m = "pypi" THEN [releasedAt EXCEPT ![p][n] = second]
                   ELSE releasedAt
  /\ UNCHANGED <<bucket, index, packed, marker, second, run, queue, done, working, lost,
                 mirrorFaults, runs, enabled>>

(***************************************************************************)
(* async_main: the mirrors one after the other; an exception or a signal   *)
(* ends the task, and the workers with it.                                 *)
(***************************************************************************)
After(i) == {j \in (i + 1)..5 : Order[j] \in enabled'}
RunAt(i, phase, listed, existing, started) ==
  run' = [at |-> i, phase |-> phase, listed |-> listed, existing |-> existing,
          started |-> started]
Advance(i) ==
  \/ After(i) = {} /\ run' = Quiescent
  \/ \E j \in After(i) : (\A k \in After(i) : j <= k) /\ RunAt(j, "begin", {}, {}, 0)
\* The settings are those of the deployment, the same in every run.
StartTask == /\ run.phase = "stopped" /\ runs < MaxSyncRuns /\ runs' = runs + 1
             /\ enabled' \in IF runs = 0 THEN Deployments ELSE {enabled}
             /\ Advance(0)
             /\ UNCHANGED <<upstream, releasedAt, second, bucket, index, packed, marker,
                            queue, done, working, lost, mirrorFaults>>
EndTask == /\ run' = Quiescent /\ queue' = {} /\ done' = {}
           /\ working' = [w \in SyncWorker |-> NoWork]
Signal == /\ run.phase # "stopped" /\ mirrorFaults < SyncFailures
          /\ mirrorFaults' = mirrorFaults + 1 /\ EndTask
          /\ UNCHANGED <<fixedVars, bucket, index, marker, lost, runs>>
\* A request of the body fails, or is answered with another code than 200.
BodyFails == /\ run.phase \in {"begin", "list", "bz2", "index", "pack", "nltk"}
             /\ mirrorFaults < SyncFailures
             /\ mirrorFaults' = mirrorFaults + 1 /\ EndTask
             /\ UNCHANGED <<fixedVars, bucket, index, marker, lost, runs>>

(***************************************************************************)
(* What a mirror function reads before its workers start, and in which     *)
(* order: CRAN and conda differ in whether the index or the listing of the *)
(* bucket comes first.                                                     *)
(***************************************************************************)
\* Mutant: the marker is the time of this very second.
StartedNow == second
Started == second - 1

\* The changelog, or all packages when there is no marker yet.
ChangedSince(since) == IF since = 0 THEN Package
                  ELSE {p \in Package : \E n \in 1..upstream["pypi"][p] :
                                          releasedAt[p][n] > since}

FirstQueue == CASE Here = "pypi" -> {<<p, 0>> : p \in ChangedSince(marker)}
                [] Here = "conda" -> Files("conda")
                [] Here \in Crawled -> {IndexPage}
                [] OTHER -> {}
FetchIndex ==
  /\ run.phase \in {"begin", "list"} /\ Here # "debian"
  /\ IF Here = "conda" THEN run.phase = "list" ELSE run.phase = "begin"
  /\ RunAt(run.at, CASE Here = "cran" -> "list" [] Here = "conda" -> "bz2"
                      [] Here = "nltk" -> "nltk" [] OTHER -> "work",
           Files(Here), run.existing, Started)
  /\ queue' = FirstQueue
  /\ UNCHANGED <<fixedVars, bucket, index, marker, done, working, lost, mirrorFaults,
                 runs>>
\* conda's second index is got on its own, from an upstream that may have gone on;
\* nothing is queued from it.
FetchPacked ==
  /\ run.phase = "bz2"
  /\ RunAt(run.at, "work", run.listed, run.existing, run.started)
  /\ packed' = [packed EXCEPT !.got = Files("conda")]
  /\ UNCHANGED <<upstream, releasedAt, second, enabled, bucket, index, marker, queue,
                 done, working, lost, mirrorFaults, runs>>
ListBucket ==
  /\ run.phase \in {"begin", "list"}
  /\ CASE Here = "cran" -> run.phase = "list"
       [] Here \in {"conda", "debian"} -> run.phase = "begin"
       [] OTHER -> FALSE
  /\ RunAt(run.at, IF Here = "conda" THEN "list" ELSE "work", run.listed, bucket[Here], run.started)
  /\ queue' = IF Here = "debian" THEN FirstQueue ELSE queue
  /\ UNCHANGED <<fixedVars, bucket, index, marker, done, working, lost, mirrorFaults,
                 runs>>

(***************************************************************************)
(* transfer_task of a worker.                                              *)
(***************************************************************************)
Works(w, item, tries, page, have, next) ==
  working' = [working EXCEPT ![w] = [item |-> item, tries |-> tries, page |-> page,
                                     have |-> have, next |-> next]]
Get(w, i) == /\ run.phase = "work" /\ working[w] = NoWork /\ i \in queue
             /\ queue' = queue \ {i}
             /\ Works(w, i, 0, 0, {}, 0)
             /\ UNCHANGED <<fixedVars, bucket, index, marker, run, done, lost,
                            mirrorFaults, runs>>
\* A request to S3 that succeeds.
Put(m, f) == bucket' = [bucket EXCEPT ![m] = @ \cup {f}]
FreeWorker(w) == working' = [working EXCEPT ![w] = NoWork]
Busy(w) == run.phase = "work" /\ working[w] # NoWork
Item(w) == working[w].item
IsFile(i) == i # IndexPage /\ i # DebianIndex /\ i[2] > 0

\* Links of a page that are of this site and not yet done; Debian also skips
\* the immutable files the bucket has.
Links == LET fresh == IF Here = "debian"
                      THEN (Files(Here) \ run.existing) \cup {DebianIndex}
                      ELSE Files(Here)
         IN (fresh \cup {IndexPage}) \ done
CrawlPage(w) == /\ Busy(w) /\ Item(w) = IndexPage /\ FreeWorker(w)
                /\ queue' = queue \cup Links /\ done' = done \cup Links
                /\ UNCHANGED <<fixedVars, bucket, index, marker, run, lost,
                               mirrorFaults, runs>>

\* A file of conda, CRAN or Debian: skipped when the listing had it.
Transfer(w) ==
  /\ Busy(w) /\ Here # "pypi" /\ IsFile(Item(w)) /\ FreeWorker(w)
  /\ Put(Here, Item(w))
  /\ lost' = IF Item(w) \in run.existing THEN lost ELSE lost \ {<<Here, Item(w)>>}
  /\ UNCHANGED <<fixedVars, index, marker, run, queue, done, mirrorFaults, runs>>
\* Debian's own indexes are files like any other, crawled in any order.
TransferDebianIndex(w) ==
  /\ Busy(w) /\ Item(w) = DebianIndex /\ FreeWorker(w)
  /\ index' = [index EXCEPT !["debian"] = Files("debian")]
  /\ UNCHANGED <<fixedVars, bucket, marker, run, queue, done, lost, mirrorFaults, runs>>

\* PyPI: the project's page, the files of the project in the bucket, then the
\* files of the page in turn, and at last the project's page in the bucket.
PypiProject(w) == Item(w)[1]
FetchProject(w) ==
  /\ Busy(w) /\ Here = "pypi" /\ working[w].page = 0
  /\ Works(w, Item(w), working[w].tries, upstream["pypi"][PypiProject(w)],
           {f \in bucket["pypi"] : f[1] = PypiProject(w)}, 1)
  /\ UNCHANGED <<fixedVars, bucket, index, marker, run, queue, done, lost,
                 mirrorFaults, runs>>
FileOf(w) == <<PypiProject(w), working[w].next>>
InProject(w) == Busy(w) /\ Here = "pypi" /\ working[w].page > 0
NextFile(w) == Works(w, Item(w), 0, working[w].page, working[w].have, working[w].next + 1)
TransferProjectFile(w) ==
  /\ InProject(w) /\ working[w].next <= working[w].page /\ NextFile(w)
  /\ IF FileOf(w) \in working[w].have THEN UNCHANGED bucket ELSE Put("pypi", FileOf(w))
  /\ lost' = lost \ {<<"pypi", FileOf(w)>>}
  /\ UNCHANGED <<fixedVars, index, marker, run, queue, done, mirrorFaults, runs>>
WriteProjectPage(w) ==
  /\ InProject(w) /\ working[w].next > working[w].page /\ FreeWorker(w)
  /\ index' = [index EXCEPT !["pypi"] =
       {f \in @ : f[1] # PypiProject(w)} \cup
       {<<PypiProject(w), n>> : n \in 1..working[w].page}]
  /\ lost' = lost \ {<<"pypi", <<PypiProject(w), 0>> >>}
  /\ UNCHANGED <<fixedVars, bucket, marker, run, queue, done, mirrorFaults, runs>>

\* A connection fails: the item is tried again, and given up quietly after the
\* last attempt.  PyPI goes on to the next file: the code it looks at then is
\* that of an earlier request.
Needed(w) == /\ Busy(w) /\ mirrorFaults < SyncFailures
             /\ ~(InProject(w) /\ working[w].next <= working[w].page
                  /\ FileOf(w) \in working[w].have)
             /\ ~(Here # "pypi" /\ Item(w) \in run.existing)
MustRetry(w) == working[w].tries + 1 < MaxTries
Retry(w) ==
  /\ Needed(w) /\ MustRetry(w) /\ mirrorFaults' = mirrorFaults + 1
  /\ Here = "pypi" => working[w].page > 0
  /\ Works(w, Item(w), working[w].tries + 1, working[w].page, working[w].have, working[w].next)
  /\ UNCHANGED <<fixedVars, bucket, index, marker, run, queue, done, lost, runs>>
GiveUp(w) ==
  /\ Needed(w) /\ mirrorFaults' = mirrorFaults + 1
  /\ IF InProject(w) THEN ~MustRetry(w) /\ working[w].next <= working[w].page
     ELSE Here # "pypi" /\ ~MustRetry(w)
  /\ IF Here = "pypi" THEN NextFile(w) ELSE FreeWorker(w)
  /\ lost' = lost \cup {<<Here, IF Here = "pypi" THEN FileOf(w) ELSE Item(w)>>}
  /\ UNCHANGED <<fixedVars, bucket, index, marker, run, queue, done, runs>>
\* Another code than 200, or a project's page that cannot be fetched: an
\* exception, logged; the item is not tried again in this run.
GiveUpItem(w) ==
  /\ Needed(w) /\ mirrorFaults' = mirrorFaults + 1 /\ FreeWorker(w)
  /\ lost' = lost \cup {<<Here, Item(w)>>}
  /\ UNCHANGED <<fixedVars, bucket, index, marker, run, queue, done, runs>>

(***************************************************************************)
(* queue.join() returns; the index is written.                             *)
(***************************************************************************)
Join == /\ run.phase = "work" /\ queue = {}
        /\ \A w \in SyncWorker : working[w] = NoWork
        /\ done' = {} /\ UNCHANGED fixedVars
        /\ IF Here = "debian" THEN Advance(run.at)
           ELSE RunAt(run.at, "index", run.listed, run.existing, run.started)
        /\ UNCHANGED <<bucket, index, marker, queue, working, lost, mirrorFaults, runs>>

IndexWritten == run.listed
WriteIndex ==
  /\ run.phase = "index" /\ Here # "pypi" /\ UNCHANGED fixedVars
  /\ IF Here = "conda" THEN RunAt(run.at, "pack", run.listed, run.existing, run.started)
     ELSE Advance(run.at)
  /\ index' = [index EXCEPT ![Here] = IndexWritten]
  /\ UNCHANGED <<bucket, marker, queue, done, working, lost, mirrorFaults, runs>>
\* The repodatas are put one after the other, as they were got.
WritePacked ==
  /\ run.phase = "pack"
  /\ UNCHANGED <<upstream, releasedAt, second, enabled, bucket, index, marker, queue,
                 done, working, lost, mirrorFaults, runs>>
  /\ packed' = [packed EXCEPT !.stored = packed.got, !.late = packed.got \ run.listed]
  /\ Advance(run.at)
WriteMarker ==
  /\ run.phase = "index" /\ Here = "pypi" /\ UNCHANGED fixedVars /\ Advance(run.at) /\ marker' = run.started
  /\ UNCHANGED <<bucket, index, queue, done, working, lost, mirrorFaults, runs>>

\* NLTK: a loop of the body, HEAD and then GET and PUT of each file.
NltkFile(f) ==
  /\ run.phase = "nltk" /\ f \in run.listed \ run.existing
  /\ Put("nltk", f)
  /\ RunAt(run.at, "nltk", run.listed, run.existing \cup {f}, run.started)
  /\ UNCHANGED <<fixedVars, index, marker, queue, done, working, lost, mirrorFaults, runs>>
NltkDone ==
  /\ run.phase = "nltk" /\ run.listed \subseteq run.existing
  /\ RunAt(run.at, "index", run.listed, run.existing, run.started)
  /\ UNCHANGED <<fixedVars, bucket, index, marker, queue, done, working, lost,
                 mirrorFaults, runs>>

Body == \/ FetchIndex \/ FetchPacked \/ ListBucket
        \/ Join \/ WriteIndex \/ WritePacked \/ WriteMarker
        \/ NltkDone \/ \E f \in Files("nltk") : NltkFile(f)
WorkerStep(w) ==
  \/ \E i \in queue : Get(w, i)
  \/ CrawlPage(w) \/ Transfer(w) \/ TransferDebianIndex(w)
  \/ FetchProject(w) \/ TransferProjectFile(w) \/ WriteProjectPage(w)
  \/ Retry(w) \/ GiveUp(w) \/ GiveUpItem(w)
MirrorNext ==
  \/ Second \/ \E m \in Repository, p \in Package : Release(m, p)
  \/ StartTask \/ Signal \/ BodyFails \/ Body
  \/ \E w \in SyncWorker : WorkerStep(w)
MirrorSpec == MirrorInit /\ [][MirrorNext]_mirrorVars

(***************************************************************************)
(* Properties.                                                             *)
(***************************************************************************)

(* Types; no transfer is attempted more often than the loop says, and two  *)
(* workers never transfer the same file.                                   *)
MirrorTypeOK ==
  /\ \A m \in Repository : bucket[m] \subseteq Files(m) /\ index[m] \subseteq Files(m)
  /\ marker \in 0..second /\ run.at \in 0..5
  /\ \A w \in SyncWorker : working[w].tries < MaxTries
  /\ \A v, w \in SyncWorker :
       v # w /\ working[v] # NoWork /\ working[w] # NoWork /\ Item(v) # IndexPage
         => Item(v) # Item(w)

(* What an index in the bucket names is in the bucket, in the middle of a  *)
(* run, after a signal and after a failed run too, unless the transfer of  *)
(* that file was given up.  Debian promises nothing of the kind: its       *)
(* indexes are crawled in any order.                                       *)
IndexLinksExist ==
  \A m \in Repository \ {"debian"} : \A f \in index[m] :
    \/ f \in bucket[m]
    \/ <<m, f>> \in lost \/ <<m, IndexPage>> \in lost

(* The same of conda's second index, which is got after the first: but for *)
(* the files released between the two requests, that the run never queued. *)
PackedLinksExist ==
  \A f \in packed.stored :
    f \in bucket["conda"] \/ <<"conda", f>> \in lost \/ f \in packed.late

(* "At worst we'll be unnecessarily re-fetching updates, rather than       *)
(* missing them": a PyPI file that was released by the time the marker     *)
(* names, and which the next changelog does not show, is named by the      *)
(* project's page in the bucket, unless the project was given up.          *)
MarkerMissesNothing ==
  \A p \in Package : \A n \in 1..upstream["pypi"][p] :
    releasedAt[p][n] <= marker =>
      \/ <<p, n>> \in index["pypi"]
      \/ <<"pypi", <<p, 0>> >> \in lost

(***************************************************************************)
(* The strengthening.  An item that is not in the queue and that no worker *)
(* has is in the bucket, or was given up; what an index will name comes    *)
(* from there.  A file that came too late for the page of its project came *)
(* after the second that the marker will name.                             *)
(***************************************************************************)
AnyFile == Package \X (1..(MaxReleases + 1))
Items == (Package \X {0}) \cup AnyFile \cup {IndexPage, DebianIndex}
RunRow == [at : 0..5, phase : {"stopped", "begin", "list", "bz2", "work", "index", "pack", "nltk"},
           listed : SUBSET AnyFile, existing : SUBSET AnyFile, started : Nat]
WorkRow == [item : Items \cup {NoItem}, tries : 0..(MaxTries - 1), page : 0..(MaxReleases + 1),
            have : SUBSET AnyFile, next : Nat]
MirrorTypes ==
  /\ upstream \in [Repository -> [Package -> 1..(MaxReleases + 1)]]
  /\ releasedAt \in [Package -> [1..(MaxReleases + 1) -> Nat]]
  /\ bucket \in [Repository -> SUBSET AnyFile] /\ index \in [Repository -> SUBSET AnyFile]
  /\ \A m \in Repository : bucket[m] \subseteq Files(m) /\ index[m] \subseteq Files(m)
  /\ marker \in Nat /\ second \in Nat /\ marker < second /\ enabled \subseteq Repository
  /\ run \in RunRow /\ working \in [SyncWorker -> WorkRow]
  /\ (run.phase = "stopped" <=> run.at = 0) /\ run.started < second
  /\ run.at # 0 => run.listed \subseteq Files(Here) /\ run.existing \subseteq bucket[Here]
\* What the phases are about; outside "work" no worker has anything.
PhasesAre ==
  /\ run.phase # "work" => done = {} /\ \A w \in SyncWorker : working[w] = NoWork
  /\ run.phase \notin {"work", "list", "bz2"} => queue = {}
  /\ run.phase \in {"bz2", "pack"} => Here = "conda"
  /\ run.phase = "bz2" => queue = run.listed
  /\ run.phase = "list" => Here \in {"conda", "cran"} /\ queue = IF Here = "cran" THEN {IndexPage} ELSE {}
  /\ run.phase = "work" => Here # "nltk"
  /\ run.phase = "nltk" => Here = "nltk"
  /\ run.phase = "index" => Here # "debian"
ItemsOf(m) ==
  IF m = "pypi" THEN Package \X {0}
  ELSE Files(m) \cup (IF m \in Crawled THEN {IndexPage, DebianIndex} ELSE {})
\* The items of a run, that nobody else has.
ItemsAre ==
  run.phase = "work" =>
    /\ queue \subseteq ItemsOf(Here)
    /\ \A w \in SyncWorker : working[w] # NoWork =>
         /\ Item(w) \in ItemsOf(Here) /\ (Item(w) = IndexPage \/ Item(w) \notin queue)
         /\ \A v \in SyncWorker : v # w /\ Item(v) = Item(w) => Item(w) = IndexPage
         /\ Here # "pypi" => working[w].page = 0
         /\ Here \in Crawled => Item(w) \in done \cup {IndexPage}
    /\ IF Here \in Crawled THEN queue \subseteq done \cup {IndexPage} ELSE done = {}
Waits(i) == i \in queue \/ \E w \in SyncWorker : Item(w) = i
Arrived(m, f) == f \in bucket[m] \/ <<m, f>> \in lost
PageLost(m) == <<m, IndexPage>> \in lost
\* What will be in the index has arrived, or is on its way.
FilesArrive ==
  /\ run.phase = "work" /\ Here = "conda" => \A f \in run.listed : Waits(f) \/ Arrived(Here, f)
  /\ run.phase = "work" /\ Here = "cran" =>
       /\ \A f \in done \cap AnyFile : Waits(f) \/ Arrived(Here, f)
       /\ Waits(IndexPage) \/ PageLost(Here) \/ run.listed \subseteq done
  /\ run.phase = "pack" => \A f \in run.listed : Arrived(Here, f)
  /\ run.phase = "index" /\ Here # "pypi" =>
       \A f \in run.listed : Arrived(Here, f) \/ (PageLost(Here) /\ Here # "conda")
\* The projects of PyPI.
ProjectsAre ==
  run.phase = "work" /\ Here = "pypi" =>
    \A w \in SyncWorker : working[w] # NoWork /\ working[w].page > 0 =>
      /\ working[w].next > 0 /\ working[w].next <= working[w].page + 1
      /\ working[w].page <= upstream["pypi"][PypiProject(w)]
      /\ working[w].have \subseteq bucket["pypi"]
      /\ \A n \in 1..(working[w].next - 1) : Arrived("pypi", <<PypiProject(w), n>>)
      /\ \A n \in 1..upstream["pypi"][PypiProject(w)] :
           n > working[w].page => releasedAt[PypiProject(w)][n] > run.started
Known(p, n) == <<p, n>> \in index["pypi"] \/ <<"pypi", <<p, 0>> >> \in lost
MarkerIsPassed ==
  run.phase \in {"work", "index"} /\ Here = "pypi" =>
    /\ marker <= run.started
    /\ \A p \in Package : \A n \in 1..upstream["pypi"][p] :
         releasedAt[p][n] <= run.started => Known(p, n) \/ Waits(<<p, 0>>)
MirrorInv ==
  /\ MirrorTypes /\ PhasesAre /\ ItemsAre /\ FilesArrive /\ ProjectsAre /\ MarkerIsPassed
  /\ IndexLinksExist /\ MarkerMissesNothing
\* conda's second index, on top of that.
PackedInv == /\ packed \in [got : SUBSET AnyFile, stored : SUBSET AnyFile, late : SUBSET AnyFile]
             /\ PackedLinksExist

\* A mirror can be trusted in the middle of a run: its indexes name files that are
\* there, and the marker of the last run passes over nothing (mirrors-sync.py).
MirrorSafety ==
  /\ MirrorTypeOK
  /\ IndexLinksExist
  /\ PackedLinksExist
  /\ MarkerMissesNothing
=============================================================================
