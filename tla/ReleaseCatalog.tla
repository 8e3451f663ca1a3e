--------------------------- MODULE ReleaseCatalog ---------------------------
(***************************************************************************)
(* The OKD releases a version is chosen from: the pages GitHub answers     *)
(* with, what is kept of them, and their series, one per minor version.  A *)
(* release is its tag with what okdctl reads in it: tags are compared by   *)
(* rank (the precedence of versions), then by date, then by their text.    *)
(***************************************************************************)
EXTENDS Integers, SequencesExt

CONSTANTS
    TagSeries,   \* the <<major, minor>> a tag begins with, <<0, 0>> if it does not
    perPage,     \* how many releases fill a page (100 in the code)
    maxPages     \* how many pages are asked for (10 in the code)

\* A page is asked for while the ones before it came, and were full.
Asked(pages) ==
    {i \in DOMAIN pages : i <= maxPages /\ \A j \in 1..i - 1 : pages[j].ok /\ Cardinality(pages[j].releases) = perPage}

\* A later page that fails ends the list, the first one fails the fetch.  The same
\* release on two pages counts once.
fetchAllPages(pages) == UNION {pages[i].releases : i \in {j \in Asked(pages) : pages[j].ok}}
CanFetch(pages) == pages # <<>> /\ pages[1].ok

\* Only tags of OKD with a version are read; a preview is told by its tag.
parseVersionTag(r) == r.okd /\ TagSeries[r.tag][1] > 0
Stable(r) == ~r.preview

Newer(r, s) ==
    \/ r.rank > s.rank
    \/ r.rank = s.rank /\ r.date > s.date
    \/ r.rank = s.rank /\ r.date = s.date /\ r.text > s.text

\* The newest stable release of a series, and the newest one where none is stable.
LatestOf(versions) ==
    LET stable == SelectInSeq(versions, Stable)
    IN  versions[IF stable > 0 THEN stable ELSE 1]

\* How a release is labelled: n is the place of its series, newest minor first.
TypeOf(r, versions, n, minor, newestMinor) ==
    LET latest == r = LatestOf(versions) IN
    CASE Stable(r) /\ latest /\ n = 1 -> "latest-stable"
      [] Stable(r) /\ ~(latest /\ n = 1) /\ minor <= newestMinor - 2 -> "lts"
      [] Stable(r) /\ ~(latest /\ n = 1) /\ minor > newestMinor - 2 -> "stable"
      [] ~Stable(r) /\ (latest \/ r = versions[1]) -> "latest-preview"
      [] OTHER -> "preview"

\* The series, newest first, each with its versions, newest first.
sortAndClassifySeries(bySeries) ==
    LET order == SetToSortSeq(DOMAIN bySeries, LAMBDA a, b : a[1] > b[1] \/ (a[1] = b[1] /\ a[2] > b[2]))
        Versions(m) == SetToSortSeq(bySeries[m], Newer)
        Entry(n) ==
            LET vs == Versions(order[n]) IN
            [minor |-> order[n], latest |-> LatestOf(vs).tag,
             versions |-> [i \in DOMAIN vs |->
                [tag |-> vs[i].tag, type |-> TypeOf(vs[i], vs, n, order[n][2], order[1][2])]]]
    IN  [n \in DOMAIN order |-> Entry(n)]

\* Drafts, and what is no version of OKD, are dropped.
parseReleases(releases) ==
    LET read == {r \in releases : ~r.draft /\ parseVersionTag(r)}
    IN  sortAndClassifySeries([m \in {TagSeries[r.tag] : r \in read} |-> {r \in read : TagSeries[r.tag] = m}])

\* <<>> is an error: no answer, or no version in it.
fetchFromNetwork(pages) == IF CanFetch(pages) THEN parseReleases(fetchAllPages(pages)) ELSE <<>>

\* The tags of a catalog.
Offered(catalog) == UNION {{s.versions[i].tag : i \in DOMAIN s.versions} : s \in ToSet(catalog)}

=============================================================================
