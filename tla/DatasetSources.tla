----------------------------- MODULE DatasetSources -----------------------------
(***************************************************************************)
(* The sources of datasets: the numbers they get from the reference code   *)
(* of their dataset, and the files in S3 that links are to.  A post of the *)
(* admin site reads a dataset and its sources, and writes, in one          *)
(* transaction that locks the dataset, what it read with what was sent.    *)
(***************************************************************************)
EXTENDS Naturals, FiniteSets

CONSTANTS CodedSet,      \* datasets
          RefCode,       \* reference codes
          LastSource,    \* sources, numbered in the order they are saved in
          SourcePost,    \* posts of the admin site, at the same time
          MaxSourcePosts,\* bound on the posts
          S3Link,        \* links to files, by the names of which files are kept
          MaxLinkEdits   \* bound on what is done to the links

VARIABLES codeOf,       \* dataset -> its reference code
          counters,     \* reference code -> its counter
          sources,      \* source -> [of: its dataset, number, from: the code that gave it]
          sourcePost,   \* post -> what it read, and what was sent
          keptNumber,   \* sources that kept the number of another code
          sourcePosts,
          s3Files,      \* files in the bucket, by the link they were uploaded for
          s3Links,      \* link -> [type, file]
          fileShared,       \* files that were the file of two links
          undone,       \* links whose deletion was rolled back
          linkEdits

numberVars == <<codeOf, counters, sources, sourcePost, keptNumber, sourcePosts>>
fileVars == <<s3Files, s3Links, fileShared, undone, linkEdits>>
sourceVars == <<numberVars, fileVars>>
SrcId == 1..LastSource
NoCode == "none"
ASSUME SourcesAssumption ==
  /\ LastSource \in Nat /\ MaxSourcePosts \in Nat /\ MaxLinkEdits \in Nat
  /\ {} \notin CodedSet /\ NoCode \notin RefCode /\ "none" \notin S3Link
NoSource == [of |-> {}, number |-> 0, from |-> NoCode]
NoSourcePost == [at |-> "none", of |-> {}, was |-> NoCode, code |-> NoCode,
                 edits |-> {}, read |-> [s \in SrcId |-> NoSource], fresh |-> FALSE]
NoLink == [type |-> "none", file |-> "none"]

SourcesInit ==
  /\ codeOf = [d \in CodedSet |-> NoCode] /\ counters = [c \in RefCode |-> 0]
  /\ sources = [s \in SrcId |-> NoSource] /\ sourcePost = [p \in SourcePost |-> NoSourcePost]
  /\ keptNumber = {} /\ sourcePosts = 0
  /\ s3Files = {} /\ s3Links = [l \in S3Link |-> NoLink] /\ fileShared = {} /\ undone = {}
  /\ linkEdits = 0

-----------------------------------------------------------------------------
(* Reference numbers.  Number 0 is None.                                    *)

SourcesOf(d) == {s \in SrcId : sources[s].of = d}
RankIn(s, set) == Cardinality({t \in set : t <= s})

\* The post reads the dataset, and the sources in its formsets; a new source is
\* in "edits", too.
ReadSources(p) ==
  /\ sourcePost[p] = NoSourcePost /\ sourcePosts < MaxSourcePosts /\ sourcePosts' = sourcePosts + 1
  /\ \E d \in CodedSet : \E code \in RefCode \cup {NoCode}, edits \in SUBSET {s \in SrcId : sources[s].of \in {d, {}}} :
       sourcePost' = [sourcePost EXCEPT ![p] =
         [at |-> "read", of |-> d, was |-> codeOf[d], code |-> code, edits |-> edits,
          read |-> [s \in SrcId |-> IF s \in edits THEN sources[s] ELSE NoSource], fresh |-> TRUE]]
  /\ UNCHANGED <<codeOf, counters, sources, keptNumber>>

\* Mutant: the numbers of the sources stay when the code changes.
RenumberedNone(p) == {}
\* DataSet.save: every source gets a number of the new code.
Renumbered(p) == IF sourcePost[p].code # sourcePost[p].was THEN SourcesOf(sourcePost[p].of) ELSE {}
\* Sources of the formsets that have no number yet.
Unnumbered(p) == {s \in sourcePost[p].edits : sourcePost[p].read[s].number = 0}
\* get_next_reference_number, in the order the sources are saved in: those of the
\* dataset first, then those of the formsets, with the number they were read with.
NumberOf(p, s) ==
  LET code == sourcePost[p].code
      given(n) == [of |-> sourcePost[p].of, number |-> n, from |-> code]
  IN IF s \notin sourcePost[p].edits \cup Renumbered(p) THEN sources[s]
     ELSE IF code = NoCode THEN given(0)
     ELSE IF s \in Unnumbered(p)
          THEN given(counters[code] + Cardinality(Renumbered(p)) + RankIn(s, Unnumbered(p)))
     ELSE IF s \in sourcePost[p].edits THEN [sourcePost[p].read[s] EXCEPT !.of = sourcePost[p].of]
     ELSE given(counters[code] + RankIn(s, Renumbered(p)))
CountedBy(p) ==
  [c \in RefCode |-> IF c # sourcePost[p].code THEN counters[c]
                     ELSE counters[c] + Cardinality(Renumbered(p)) + Cardinality(Unnumbered(p))]
Strays(row, code) == row.of # {} /\ row.number # 0 /\ row.from # code
SaveSources(p) ==
  /\ sourcePost[p].at = "read"
  /\ \A s \in sourcePost[p].edits : sources[s].of = sourcePost[p].read[s].of   \* a new one is new
  /\ codeOf' = [codeOf EXCEPT ![sourcePost[p].of] = sourcePost[p].code]
  /\ sources' = [s \in SrcId |-> NumberOf(p, s)] /\ counters' = CountedBy(p)
  /\ keptNumber' = {s \in SrcId : /\ Strays(sources'[s], sourcePost[p].code)
                                  /\ sources[s].of = sourcePost[p].of \/ s \in sourcePost[p].edits
                                  /\ s \in sourcePost[p].edits \cup keptNumber \/ ~sourcePost[p].fresh}
                   \cup {s \in keptNumber : sources[s].of # sourcePost[p].of}
  /\ sourcePost' = [o \in SourcePost |-> IF o = p THEN NoSourcePost
                                         ELSE [sourcePost[o] EXCEPT !.fresh = FALSE]]
  /\ UNCHANGED sourcePosts
DropPost(p) ==
  /\ sourcePost[p].at = "read" /\ sourcePost' = [sourcePost EXCEPT ![p] = NoSourcePost]
  /\ UNCHANGED <<codeOf, counters, sources, keptNumber, sourcePosts>>

SourceNumbers == \E p \in SourcePost : ReadSources(p) \/ SaveSources(p) \/ DropPost(p)

-----------------------------------------------------------------------------
(* Files.  A file is kept under the URL of the link it was uploaded for.    *)

LinkEdit == linkEdits < MaxLinkEdits /\ linkEdits' = linkEdits + 1
\* SourceLinkUploadView: the file first, then the row.
PutFile(l) ==
  /\ LinkEdit /\ s3Links[l] = NoLink /\ s3Files' = s3Files \cup {l}
  /\ s3Links' = [s3Links EXCEPT ![l].type = "uploading"] /\ UNCHANGED <<fileShared, undone>>
\* "Error saving file", and no row.
PutFails(l) == /\ LinkEdit /\ s3Links[l] = NoLink /\ UNCHANGED <<s3Files, s3Links, fileShared, undone>>
SaveUpload(l) ==
  /\ s3Links[l].type = "uploading"
  /\ s3Links' = [s3Links EXCEPT ![l] = [type |-> "local", file |-> l]]
  /\ UNCHANGED <<s3Files, fileShared, undone, linkEdits>>
\* The row cannot be saved: the file stays.
SaveUploadFails(l) ==
  /\ s3Links[l].type = "uploading" /\ s3Links' = [s3Links EXCEPT ![l] = NoLink]
  /\ UNCHANGED <<s3Files, fileShared, undone, linkEdits>>
\* DataSet.clone: the copy of a link has the URL of the link.
CloneLink(l) ==
  /\ LinkEdit /\ s3Links[l].type = "local"
  /\ \E m \in S3Link : s3Links[m] = NoLink /\ s3Links' = [s3Links EXCEPT ![m] = s3Links[l]]
  /\ fileShared' = fileShared \cup {s3Links[l].file} /\ UNCHANGED <<s3Files, undone>>
\* SourceLink.save: a URL that is not in S3.  The file to be deleted is looked for
\* under the new URL, where there is none.
MakeExternal(l) ==
  /\ LinkEdit /\ s3Links[l].type = "local"
  /\ s3Links' = [s3Links EXCEPT ![l] = [type |-> "external", file |-> "none"]]
  /\ UNCHANGED <<s3Files, fileShared, undone>>
\* An external link may be given the URL of a file.
MakeLocal(l) ==
  /\ LinkEdit /\ s3Links[l].type = "external"
  /\ \E k \in s3Files :
       /\ s3Links' = [s3Links EXCEPT ![l] = [type |-> "local", file |-> k]]
       /\ fileShared' = fileShared \cup {k}
  /\ UNCHANGED <<s3Files, undone>>
AddExternal(l) ==
  /\ LinkEdit /\ s3Links[l] = NoLink
  /\ s3Links' = [s3Links EXCEPT ![l].type = "external"] /\ UNCHANGED <<s3Files, fileShared, undone>>
\* SourceLink.delete: the file first, then the row, unless the transaction is rolled back.
DeleteLink(l) ==
  /\ LinkEdit /\ s3Links[l].type \in {"local", "external"}
  /\ s3Files' = s3Files \ {s3Links[l].file}
  /\ \/ s3Links' = [s3Links EXCEPT ![l] = NoLink] /\ undone' = undone \ {l}
     \/ s3Links[l].type = "local" /\ undone' = undone \cup {l} /\ UNCHANGED s3Links
  /\ UNCHANGED fileShared

SourceFiles ==
  \E l \in S3Link :
    \/ PutFile(l) \/ PutFails(l) \/ SaveUpload(l) \/ SaveUploadFails(l) \/ CloneLink(l)
    \/ MakeExternal(l) \/ MakeLocal(l) \/ AddExternal(l) \/ DeleteLink(l)

SourcesNext ==
  \/ SourceNumbers /\ UNCHANGED fileVars
  \/ SourceFiles /\ UNCHANGED numberVars
SourcesSpec == SourcesInit /\ [][SourcesNext]_sourceVars

-----------------------------------------------------------------------------
\* The state is well formed; a source with a number is of a dataset, a post that is over is gone.
SourcesTypeOK ==
  /\ \A s \in SrcId : /\ sources[s].of \in CodedSet \cup {{}}
                      /\ sources[s].number # 0 => sources[s].of # {} /\ sources[s].from \in RefCode
  /\ \A p \in SourcePost : sourcePost[p].at = "none" <=> sourcePost[p] = NoSourcePost
  /\ s3Files \subseteq S3Link /\ fileShared \subseteq S3Link /\ undone \subseteq S3Link

\* However posts of datasets with one code cross, no two sources get the same reference,
\* the code of the dataset and the number (get_next_reference_number counts under the
\* lock of the code), except with a number that was kept from another code; and no
\* code gives a number twice.
SameNumber(row, other) ==
  row.number # 0 /\ row.number = other.number /\ row.from = other.from
ReferencesDiffer ==
  /\ \A s, t \in SrcId \ keptNumber :
       s # t /\ sources[s].number # 0 /\ sources[t].number # 0
             /\ codeOf[sources[s].of] = codeOf[sources[t].of]
         => sources[s].number # sources[t].number
  /\ \A s, t \in SrcId : s # t => ~SameNumber(sources[s], sources[t])

\* When the code of a dataset changes, so do the numbers of its sources, except of
\* those that the same post edits, or that are written as they were before another
\* post (DataSet.save resets them through copies, the formsets write what they read).
NumbersFollowCode ==
  \A s \in SrcId : sources[s].of # {} /\ Strays(sources[s], codeOf[sources[s].of]) => s \in keptNumber

\* The file of a link is there for as long as the link is, unless it is shared with a
\* copy of the link, or the deletion of the link was rolled back (SourceLink.delete).
LinksHaveFiles ==
  \A l \in S3Link : s3Links[l].type = "local" =>
    s3Links[l].file \in s3Files \cup fileShared \/ l \in undone

(***************************************************************************)
(* The strengthening.  The numbers of a source, in its row and wherever a  *)
(* post has read it, were counted and are of no other source; a post that  *)
(* is fresh has read the code of its dataset; a file that is not the link's *)
(* own is shared.                                                          *)
(***************************************************************************)
SourceRow == [of : CodedSet \cup {{}}, number : Nat, from : RefCode \cup {NoCode}]
SourcePostRow ==
  {NoSourcePost} \cup
  [at : {"read"}, of : CodedSet, was : RefCode \cup {NoCode}, code : RefCode \cup {NoCode},
   edits : SUBSET SrcId, read : [SrcId -> SourceRow], fresh : BOOLEAN]
SourcesTypes ==
  /\ codeOf \in [CodedSet -> RefCode \cup {NoCode}] /\ counters \in [RefCode -> Nat]
  /\ sources \in [SrcId -> SourceRow] /\ sourcePost \in [SourcePost -> SourcePostRow]
  /\ \A s \in SrcId : sources[s].number # 0 => sources[s].of # {}
RowsOf(s) == {sources[s]} \cup {sourcePost[p].read[s] : p \in SourcePost}
CountedNumbers ==
  \A s \in SrcId : \A row \in RowsOf(s) :
    row.number # 0 => row.from \in RefCode /\ row.number <= counters[row.from]
OneOwner ==
  \A s, t \in SrcId : s # t =>
    \A row \in RowsOf(s), other \in RowsOf(t) : ~SameNumber(row, other)
PostsHold ==
  \A p \in SourcePost : sourcePost[p].at = "read" =>
    /\ sourcePost[p].fresh => codeOf[sourcePost[p].of] = sourcePost[p].was
    /\ \A s \in sourcePost[p].edits : sourcePost[p].read[s].of \in {sourcePost[p].of, {}}
LinkRow == [type : {"none", "uploading", "local", "external"}, file : S3Link \cup {"none"}]
FilesHold ==
  /\ s3Links \in [S3Link -> LinkRow]
  /\ s3Files \subseteq S3Link /\ fileShared \subseteq S3Link /\ undone \subseteq S3Link
  /\ \A l \in S3Link :
       /\ s3Links[l].type = "uploading" => l \in s3Files \cup fileShared
       /\ s3Links[l].type = "local" => s3Links[l].file \in {l} \cup fileShared
       /\ s3Links[l].type \in {"none", "uploading", "external"} => s3Links[l].file = "none"
SourcesInv ==
  /\ SourcesTypes /\ CountedNumbers /\ OneOwner /\ PostsHold /\ NumbersFollowCode
  /\ FilesHold /\ LinksHaveFiles

\* References differ and are of the code of their dataset, and links have their files,
\* however posts of the admin site cross and S3 fails
\* (ReferenceNumberedDatasetSource.save, SourceLink).
SourcesSafety ==
  /\ SourcesTypeOK
  /\ ReferencesDiffer
  /\ NumbersFollowCode
  /\ LinksHaveFiles
=============================================================================
