-------------------------- MODULE Downloads_proofs --------------------------
(***************************************************************************)
(* Proofs, for any releases and any number of failures and kills, that a   *)
(* setup goes on with the binaries of its release and that nodes are built *)
(* from the image their installer asks for.                                *)
(***************************************************************************)
EXTENDS Downloads, TLAPS

-----------------------------------------------------------------------------
(* The inductive invariant *)

OKDTools == {"openshift-install", "oc"}
LoadPlaces == {"none", "wipe", "external", "check", "bootstrap", "fetch", "unarchive", "release", "unpack",
               "install", "sentinel", "stream", "iso", "build"}
ListedFiles == {"archive", "client", "installer", "openshift-install", "oc", "terraform", "yq", "helm", "sops"}
Loads == [verb : {"none", "setup", "window"}, at : LoadPlaces, tries : 0..MaxAttempts - 1,
          left : Seq(ListedFiles), stream : Held]

FilesTyped ==
    /\ DownloadTypeOK /\ load \in Loads
    /\ installed \in [OKDTools -> {Absent, Pin} \cup 1..okd]

\* The version file is the word of a setup that installed them all.
SentinelTells == sentinel = okd => \A b \in OKDTools : installed[b] = okd

\* From the moment setup finds them missing until it writes it, it does not name the release.
Outdated ==
    Loading /\ load.at \in {"bootstrap", "fetch", "unarchive", "release", "unpack", "install", "sentinel"} =>
        sentinel # okd

\* Of the tarballs, what is still to be unpacked is the release's, and what was is its tools:
\* oc has the release's last word, for the pinned client's archive comes before.
Unpacking ==
    Stage("unpack") =>
        \/ /\ load.left \in {<<"archive", "client", "installer">>, <<"client", "installer">>}
           /\ work["client"] = okd /\ work["installer"] = okd
        \/ load.left = <<"installer">> /\ work["oc"] = okd /\ work["installer"] = okd
        \/ load.left = <<>> /\ work["oc"] = okd /\ work["openshift-install"] = okd

\* They are copied one after the other.
Installing ==
    Stage("install") =>
        /\ work["oc"] = okd /\ work["openshift-install"] = okd
        /\ \/ load.left = OKDToolBinaries
           \/ load.left = <<"oc">> /\ installed["openshift-install"] = okd
           \/ load.left = <<>> /\ \A b \in OKDTools : installed[b] = okd

ToolsStand ==
    Stage("sentinel") \/ (load.verb = "setup" /\ load.at \in {"stream", "iso", "build"}) =>
        \A b \in OKDTools : installed[b] = okd

\* Nothing is installed between the question for the image and the building from it.
ImageAsked ==
    /\ Loading /\ load.at \in {"iso", "build"} => load.stream = installed["openshift-install"]
    /\ Stage("build") => work["iso"] = load.stream

DownloadInv ==
    FilesTyped /\ SentinelTells /\ Outdated /\ Unpacking /\ Installing /\ ToolsStand /\ ImageAsked

-----------------------------------------------------------------------------
(* What is left of a stage's list *)

LEMMA StageLists ==
    /\ Tail(<<"archive", "client", "installer">>) = <<"client", "installer">>
    /\ Tail(<<"client", "installer">>) = <<"installer">>
    /\ Tail(<<"installer">>) = <<>>
    /\ Tail(OKDToolBinaries) = <<"oc">> /\ Tail(<<"oc">>) = <<>>
    /\ Head(OKDToolBinaries) = "openshift-install" /\ Head(<<"oc">>) = "oc"
    /\ externalTools \in Seq(ListedFiles) /\ OKDToolBinaries \in Seq(ListedFiles) /\ Tarballs \in Seq(ListedFiles)
<1>1. externalTools \in Seq(ListedFiles)
  BY DEF externalTools, ListedFiles
<1>2. OKDToolBinaries \in Seq(ListedFiles)
  BY DEF OKDToolBinaries, ListedFiles
<1>3. Tarballs \in Seq(ListedFiles)
  <2>1. <<"client", "installer">> \in Seq(ListedFiles)
    BY DEF ListedFiles
  <2>2. <<"archive", "client", "installer">> \in Seq(ListedFiles)
    BY DEF ListedFiles
  <2> QED
    BY <2>1, <2>2 DEF Tarballs
<1>4. Tail(<<"archive", "client", "installer">>) = <<"client", "installer">>
  OBVIOUS
<1>5. Tail(<<"client", "installer">>) = <<"installer">> /\ Tail(<<"installer">>) = <<>>
  OBVIOUS
<1>6. Tail(OKDToolBinaries) = <<"oc">> /\ Tail(<<"oc">>) = <<>> /\ Head(OKDToolBinaries) = "openshift-install"
  BY DEF OKDToolBinaries
<1>7. Head(<<"oc">>) = "oc"
  OBVIOUS
<1> QED
  BY <1>1, <1>2, <1>3, <1>4, <1>5, <1>6, <1>7

LEMMA DownloadBegins == DownloadInit => DownloadInv
<1> SUFFICES ASSUME DownloadInit PROVE DownloadInv
  OBVIOUS
<1>1. okd = 1 /\ 1 \in 1..Newest /\ sentinel = 0
  BY DownloadAssumption DEF DownloadInit
<1>2. load \in Loads /\ load.at = "none" /\ load.verb = "none" /\ load.tries = 0
  BY DEF DownloadInit, NoLoad, Loads, LoadPlaces, MaxAttempts, Held
<1>3. FilesTyped
  BY <1>1, <1>2, DownloadAssumption
  DEF DownloadInit, FilesTyped, DownloadTypeOK, Held, EmptyWork, OKDTools, MaxAttempts, DownloadFiles
<1> QED
  BY <1>1, <1>2, <1>3
  DEF DownloadInv, SentinelTells, Outdated, Unpacking, Installing, ToolsStand, ImageAsked, Loading, Stage

-----------------------------------------------------------------------------
(* How the command moves *)

LEMMA StageMoves ==
    ASSUME load \in Loads, NEW at \in LoadPlaces, NEW left \in Seq(ListedFiles), ToStage(at, left)
    PROVE  /\ load' \in Loads /\ load'.verb = load.verb /\ load'.at = at /\ load'.left = left
           /\ load'.stream = load.stream
<1>1. PICK staged : staged = [load EXCEPT !.at = at]
  OBVIOUS
<1>2. /\ staged \in Loads /\ staged.verb = load.verb /\ staged.at = at /\ staged.stream = load.stream
  BY <1>1 DEF Loads
<1>3. PICK anew : anew = [staged EXCEPT !.tries = 0]
  OBVIOUS
<1>4. /\ anew \in Loads /\ anew.verb = load.verb /\ anew.at = at /\ anew.stream = load.stream
  BY <1>2, <1>3 DEF Loads, MaxAttempts
<1>5. load' = [anew EXCEPT !.left = left]
  BY <1>1, <1>3 DEF ToStage
<1> QED
  BY <1>4, <1>5 DEF Loads

LEMMA StageMovesOn ==
    ASSUME load \in Loads, load.left # <<>>, Next1
    PROVE  /\ load' \in Loads /\ load'.verb = load.verb /\ load'.at = load.at /\ load'.left = Tail(load.left)
           /\ load'.stream = load.stream
<1>1. Tail(load.left) \in Seq(ListedFiles)
  BY DEF Loads
<1> QED
  BY <1>1 DEF Next1, Loads

LEMMA IsOver == ASSUME Over PROVE load' \in Loads /\ load'.verb = "none" /\ load'.at = "none"
BY DEF Over, NoLoad, Loads, LoadPlaces, MaxAttempts, Held

LEMMA SlipsCounted == ASSUME DownloadInv, Fine \/ Amiss PROVE slips' \in 0..DownloadFaults
BY DownloadAssumption DEF DownloadInv, FilesTyped, DownloadTypeOK, Fine, Amiss

\* A command that is over owes nothing but what its files say.
LEMMA OverIsFine ==
    ASSUME DownloadInv, Over, Amiss \/ Fine, okd' = okd, sentinel' \in 0..okd,
           work' \in [DownloadFiles -> Held], installed' \in [OKDTools -> {Absent, Pin} \cup 1..okd], SentinelTells'
    PROVE  DownloadInv'
<1>1. load' \in Loads /\ load'.verb = "none" /\ load'.at = "none" /\ slips' \in 0..DownloadFaults
  BY IsOver, SlipsCounted
<1>2. FilesTyped'
  BY <1>1 DEF DownloadInv, FilesTyped, DownloadTypeOK, Loads
<1> QED
  BY <1>1, <1>2
  DEF DownloadInv, Outdated, Unpacking, Installing, ToolsStand, ImageAsked, Loading, Stage

\* The common case: neither the release, its binaries nor the version file change.
LEMMA OverAtWork ==
    ASSUME DownloadInv, Over, Amiss \/ Fine, UNCHANGED <<okd, installed, sentinel>>,
           work' \in [DownloadFiles -> Held]
    PROVE  DownloadInv'
<1>1. SentinelTells'
  BY DEF DownloadInv, SentinelTells
<1> QED
  BY <1>1, OverIsFine DEF DownloadInv, FilesTyped, DownloadTypeOK

-----------------------------------------------------------------------------
(* One file *)

\* What a fetch that goes on leaves has the digest; a retry leaves the rest alone.
LEMMA FetchLeaves ==
    ASSUME DownloadInv, NEW file \in DownloadFiles, NEW sum \in Held, NEW next \in LoadPlaces,
           Fetch(file, sum, next)
    PROVE  /\ work' \in [DownloadFiles -> Held]
           /\ Fine \/ Amiss
           /\ \/ Over
              \/ load' \in Loads /\ load' = [load EXCEPT !.tries = load.tries + 1]
              \/ ToStage(next, <<>>) /\ work'[file] = sum
<1> USE DEF DownloadInv, FilesTyped, DownloadTypeOK
<1>1. CASE canSkipDownload(file, sum) /\ ToStage(next, <<>>) /\ UNCHANGED work /\ Fine
  BY <1>1 DEF canSkipDownload
<1>2. CASE work' = [work EXCEPT ![file] = sum] /\ ToStage(next, <<>>) /\ Fine
  BY <1>2
<1>3. CASE AttemptFails(file)
  <2>1. work' \in [DownloadFiles -> Held] /\ Amiss
    BY <1>3 DEF AttemptFails, fetchToFile, Held
  <2>2. Over \/ (load.tries + 1 < MaxAttempts /\ load' = [load EXCEPT !.tries = load.tries + 1])
    BY <1>3 DEF AttemptFails
  <2>3. ASSUME load.tries + 1 < MaxAttempts, load' = [load EXCEPT !.tries = load.tries + 1] PROVE load' \in Loads
    BY <2>3 DEF Loads, MaxAttempts
  <2> QED
    BY <2>1, <2>2, <2>3
<1>4. CASE verifyDownloadedFile(file)
  BY <1>4 DEF verifyDownloadedFile, Held
<1> QED
  BY <1>1, <1>2, <1>3, <1>4 DEF Fetch

\* A retry is the same stage again.
LEMMA RetryIsFine ==
    ASSUME DownloadInv, load' \in Loads, load' = [load EXCEPT !.tries = load.tries + 1], Fine \/ Amiss,
           load.at \in {"fetch", "iso"}, UNCHANGED <<okd, installed, sentinel>>, work' \in [DownloadFiles -> Held]
    PROVE  DownloadInv'
<1>1. load'.verb = load.verb /\ load'.at = load.at /\ load'.stream = load.stream
  BY DEF DownloadInv, FilesTyped, Loads
<1>2. FilesTyped'
  BY SlipsCounted DEF DownloadInv, FilesTyped, DownloadTypeOK, Loads
<1> QED
  BY <1>1, <1>2
  DEF DownloadInv, SentinelTells, Outdated, Unpacking, Installing, ToolsStand, ImageAsked, Loading, Stage


-----------------------------------------------------------------------------
(* The stages *)

LEMMA StagesTyped ==
    ASSUME DownloadInv, load' \in Loads, Fine \/ Amiss, UNCHANGED <<okd, sentinel>>,
           work' \in [DownloadFiles -> Held], installed' \in [OKDTools -> {Absent, Pin} \cup 1..okd]
    PROVE  FilesTyped'
BY SlipsCounted DEF DownloadInv, FilesTyped, DownloadTypeOK, Loads

\* A stage that owes nothing but its types.
LEMMA PlainStage ==
    ASSUME DownloadInv, NEW at \in LoadPlaces, NEW left \in Seq(ListedFiles), ToStage(at, left), Fine \/ Amiss,
           UNCHANGED <<okd, sentinel, installed>>, work' \in [DownloadFiles -> Held],
           at \in {"external", "check"}
           \/ (at \in {"bootstrap", "fetch", "unarchive", "release"} /\ sentinel # okd)
           \/ (at = "stream" /\ \A b \in OKDTools : installed[b] = okd)
    PROVE  DownloadInv'
<1>1. load' \in Loads /\ load'.verb = load.verb /\ load'.at = at /\ load'.stream = load.stream
  BY StageMoves DEF DownloadInv, FilesTyped
<1>2. FilesTyped'
  BY <1>1, StagesTyped DEF DownloadInv, FilesTyped
<1> QED
  BY <1>1, <1>2
  DEF DownloadInv, SentinelTells, Outdated, Unpacking, Installing, ToolsStand, ImageAsked, Loading, Stage

LEMMA NothingListed == <<>> \in Seq(ListedFiles)
OBVIOUS

LEMMA Wiping == ASSUME DownloadInv, WorkOnly PROVE DownloadInv'
<1>1. EmptyWork \in [DownloadFiles -> Held]
  BY DEF EmptyWork, Held
<1>2. CASE work' = EmptyWork /\ ToStage("external", externalTools) /\ Fine
  BY <1>1, <1>2, PlainStage, StageLists DEF WorkOnly, LoadPlaces
<1>3. CASE work' \in {work, EmptyWork} /\ Over /\ Amiss
  <2>1. work' \in [DownloadFiles -> Held]
    BY <1>1, <1>3 DEF DownloadInv, FilesTyped, DownloadTypeOK
  <2> QED
    BY <1>3, <2>1, OverAtWork DEF WorkOnly
<1> QED
  BY <1>2, <1>3 DEF WorkOnly

LEMMA Equipping == ASSUME DownloadInv, InstallExternalTools PROVE DownloadInv'
<1>1. work' \in [DownloadFiles -> Held] /\ UNCHANGED <<okd, sentinel, installed>>
  BY DEF InstallExternalTools, DownloadInv, FilesTyped, DownloadTypeOK
<1>2. CASE ToStage("check", <<>>) /\ (Fine \/ Amiss)
  BY <1>1, <1>2, PlainStage, NothingListed DEF LoadPlaces
<1>3. CASE load.left # <<>> /\ Next1 /\ Fine
  <2>1. load' \in Loads /\ load'.verb = load.verb /\ load'.at = load.at /\ load.at = "external"
    BY <1>3, StageMovesOn DEF DownloadInv, FilesTyped, InstallExternalTools, Stage
  <2>2. FilesTyped'
    BY <1>1, <1>3, <2>1, StagesTyped DEF DownloadInv, FilesTyped
  <2> QED
    BY <1>1, <2>1, <2>2
    DEF DownloadInv, SentinelTells, Outdated, Unpacking, Installing, ToolsStand, ImageAsked, Loading, Stage
<1> QED
  BY <1>2, <1>3 DEF InstallExternalTools

\* A version file that names the release is believed: the binaries are the release's.
LEMMA Looking == ASSUME DownloadInv, DownloadTools PROVE DownloadInv'
<1>1. /\ work' \in [DownloadFiles -> Held] /\ UNCHANGED <<okd, sentinel, installed>> /\ Fine
      /\ okd # Absent
  BY DEF DownloadTools, DownloadInv, FilesTyped, DownloadTypeOK, Absent
<1>2. CASE ToolsDownloaded
  <2>1. ToStage("stream", <<>>) /\ \A b \in OKDTools : installed[b] = okd
    BY <1>2 DEF DownloadTools, ToolsDownloaded, DownloadInv, SentinelTells
  <2> QED
    BY <1>1, <2>1, PlainStage, NothingListed DEF LoadPlaces
<1>3. CASE ~ToolsDownloaded
  <2>1. ToStage("bootstrap", <<>>)
    BY <1>3 DEF DownloadTools
  <2>2. ASSUME sentinel = okd PROVE FALSE
    <3>1. \A b \in OKDTools : installed[b] # Absent
      BY <1>1, <2>2 DEF DownloadInv, SentinelTells
    <3>2. PresentTools
      BY <3>1 DEF PresentTools, OKDToolBinaries, OKDTools
    <3> QED
      BY <1>3, <2>2, <3>2 DEF ToolsDownloaded
  <2> QED
    BY <1>1, <2>1, <2>2, PlainStage, NothingListed DEF LoadPlaces
<1> QED
  BY <1>2, <1>3

LEMMA CutShort ==
    ASSUME DownloadInv, NEW archive \in DownloadFiles, NEW binary \in DownloadFiles
    PROVE  processTarEntry(archive, binary, FALSE) \in [DownloadFiles -> Held]
BY DEF DownloadInv, FilesTyped, DownloadTypeOK, processTarEntry, Held

LEMMA Unarchived ==
    ASSUME DownloadInv, NEW archive \in DownloadFiles, NEW binary \in DownloadFiles, archive # binary,
           NEW kept \in {Absent, work[archive]},
           work' = [processTarEntry(archive, binary, TRUE) EXCEPT ![archive] = kept]
    PROVE  /\ work' \in [DownloadFiles -> Held] /\ work'[binary] = work[archive]
           /\ \A file \in DownloadFiles \ {archive, binary} : work'[file] = work[file]
<1>1. PICK got : got = processTarEntry(archive, binary, TRUE)
  OBVIOUS
<1>2. /\ got \in [DownloadFiles -> Held] /\ got[binary] = work[archive]
      /\ \A file \in DownloadFiles \ {binary} : got[file] = work[file]
  BY <1>1 DEF DownloadInv, FilesTyped, DownloadTypeOK, processTarEntry
<1>3. work' = [got EXCEPT ![archive] = kept] /\ kept \in Held
  BY <1>1 DEF DownloadInv, FilesTyped, DownloadTypeOK, Held
<1> QED
  BY <1>2, <1>3

LEMMA Bootstrapping == ASSUME DownloadInv, bootstrapOC PROVE DownloadInv'
<1>1. UNCHANGED <<okd, sentinel, installed>> /\ sentinel # okd
  BY DEF bootstrapOC, DownloadInv, Outdated, Stage
<1>2. CASE Stage("bootstrap") /\ Fine /\ UNCHANGED work /\ ToStage(IF work["oc"] # Absent THEN "release" ELSE "fetch", <<>>)
  <2>1. work' \in [DownloadFiles -> Held]
    BY <1>2 DEF DownloadInv, FilesTyped, DownloadTypeOK
  <2> QED
    BY <1>1, <1>2, <2>1, PlainStage, NothingListed DEF LoadPlaces
<1>3. CASE Stage("fetch") /\ Fetch("archive", Pin, "unarchive")
  <2>1. "archive" \in DownloadFiles /\ Pin \in Held /\ "unarchive" \in LoadPlaces
    BY DEF DownloadFiles, Held, LoadPlaces
  <2>2. /\ work' \in [DownloadFiles -> Held]
        /\ Fine \/ Amiss
        /\ \/ Over
           \/ load' \in Loads /\ load' = [load EXCEPT !.tries = load.tries + 1]
           \/ ToStage("unarchive", <<>>)
    BY <1>3, <2>1, FetchLeaves
  <2>3. CASE Over
    BY <1>1, <2>2, <2>3, OverAtWork
  <2>4. CASE load' \in Loads /\ load' = [load EXCEPT !.tries = load.tries + 1]
    BY <1>1, <1>3, <2>2, <2>4, RetryIsFine DEF Stage
  <2>5. CASE ToStage("unarchive", <<>>)
    BY <1>1, <2>1, <2>2, <2>5, PlainStage, NothingListed
  <2> QED
    BY <2>2, <2>3, <2>4, <2>5
<1>4. CASE Stage("unarchive") /\ ExtractTarGz("archive", "oc", ToStage("release", <<>>))
  <2>1. {"archive", "oc"} \subseteq DownloadFiles /\ "release" \in LoadPlaces
    BY DEF DownloadFiles, LoadPlaces
  <2>2. CASE \E kept \in {Absent, work["archive"]} :
                /\ IF kept = Absent THEN Fine ELSE Amiss
                /\ work' = [processTarEntry("archive", "oc", TRUE) EXCEPT !["archive"] = kept]
                /\ ToStage("release", <<>>)
    <3> PICK kept \in {Absent, work["archive"]} :
             /\ IF kept = Absent THEN Fine ELSE Amiss
             /\ work' = [processTarEntry("archive", "oc", TRUE) EXCEPT !["archive"] = kept]
             /\ ToStage("release", <<>>)
      BY <2>2
    <3>1. work' \in [DownloadFiles -> Held] /\ (Fine \/ Amiss) /\ ToStage("release", <<>>)
      BY <2>1, Unarchived
    <3> QED
      BY <1>1, <2>1, <3>1, PlainStage, NothingListed
  <2>3. CASE Amiss /\ Over /\ work' \in {work, processTarEntry("archive", "oc", FALSE)}
    <3>1. work' \in [DownloadFiles -> Held]
      BY <2>1, <2>3, CutShort, ZenonT(40) DEF DownloadInv, FilesTyped, DownloadTypeOK
    <3> QED
      BY <1>1, <2>3, <3>1, OverAtWork
  <2> QED
    BY <1>4, <2>2, <2>3 DEF ExtractTarGz
<1> QED
  BY <1>2, <1>3, <1>4 DEF bootstrapOC


LEMMA Releasing == ASSUME DownloadInv, extractReleaseImage PROVE DownloadInv'
<1>1. UNCHANGED <<okd, sentinel, installed>> /\ sentinel # okd /\ okd \in Held /\ Partial \in Held
  BY DEF extractReleaseImage, DownloadInv, Outdated, Stage, FilesTyped, DownloadTypeOK, Held
<1>2. CASE /\ Fine /\ work' = [work EXCEPT !["client"] = okd, !["installer"] = okd]
           /\ ToStage("unpack", Tarballs)
  <2>1. work' \in [DownloadFiles -> Held] /\ work'["client"] = okd /\ work'["installer"] = okd
    BY <1>1, <1>2 DEF DownloadInv, FilesTyped, DownloadTypeOK, DownloadFiles
  <2>2. Tarballs \in {<<"archive", "client", "installer">>, <<"client", "installer">>}
    BY DEF Tarballs
  <2>3. load' \in Loads /\ load'.at = "unpack" /\ load'.left = Tarballs
    BY <1>2, StageLists, StageMoves DEF LoadPlaces, DownloadInv, FilesTyped
  <2>4. FilesTyped'
    BY <1>1, <1>2, <2>1, <2>3, StagesTyped DEF DownloadInv, FilesTyped
  <2> QED
    BY <1>1, <2>1, <2>2, <2>3, <2>4
    DEF DownloadInv, SentinelTells, Outdated, Unpacking, Installing, ToolsStand, ImageAsked, Loading, Stage
<1>3. CASE /\ Over /\ Amiss
           /\ work' \in {work, [work EXCEPT !["client"] = Partial, !["installer"] = Partial]}
  <2>1. work' \in [DownloadFiles -> Held]
    BY <1>1, <1>3 DEF DownloadInv, FilesTyped, DownloadTypeOK
  <2> QED
    BY <1>1, <1>3, <2>1, OverAtWork
<1> QED
  BY <1>2, <1>3 DEF extractReleaseImage

LEMMA Unpacks == ASSUME DownloadInv, extractReleaseTarballs PROVE DownloadInv'
<1>1. UNCHANGED <<okd, sentinel, installed>> /\ sentinel # okd /\ load.at = "unpack" /\ load.verb # "none"
  BY DEF extractReleaseTarballs, DownloadInv, Outdated, Stage, Loading
<1>2. CASE load.left = <<>> /\ ToStage("install", OKDToolBinaries) /\ Fine /\ UNCHANGED work
  <2>1. load' \in Loads /\ load'.at = "install" /\ load'.left = OKDToolBinaries
    BY <1>2, StageLists, StageMoves DEF LoadPlaces, DownloadInv, FilesTyped
  <2>2. work["oc"] = okd /\ work["openshift-install"] = okd
    BY <1>1, <1>2 DEF DownloadInv, Unpacking, Stage, Loading
  <2>3. FilesTyped'
    BY <1>1, <1>2, <2>1, StagesTyped DEF DownloadInv, FilesTyped, DownloadTypeOK
  <2> QED
    BY <1>1, <1>2, <2>1, <2>2, <2>3
    DEF DownloadInv, SentinelTells, Outdated, Unpacking, Installing, ToolsStand, ImageAsked, Loading, Stage
<1>3. ASSUME load.left # <<>>,
             ExtractTarGz(Head(load.left), IF Head(load.left) = "installer" THEN "openshift-install" ELSE "oc", Next1)
      PROVE  DownloadInv'
  <2> PICK archive, binary : /\ archive = Head(load.left)
                             /\ binary = IF archive = "installer" THEN "openshift-install" ELSE "oc"
    OBVIOUS
  <2>1. \/ /\ load.left = <<"archive", "client", "installer">> /\ archive = "archive" /\ binary = "oc"
           /\ work["client"] = okd /\ work["installer"] = okd
        \/ /\ load.left = <<"client", "installer">> /\ archive = "client" /\ binary = "oc"
           /\ work["client"] = okd /\ work["installer"] = okd
        \/ /\ load.left = <<"installer">> /\ archive = "installer" /\ binary = "openshift-install"
           /\ work["oc"] = okd /\ work["installer"] = okd
    BY <1>1, <1>3 DEF DownloadInv, Unpacking, Stage, Loading
  <2>2. archive \in DownloadFiles /\ binary \in DownloadFiles /\ archive # binary
    BY <2>1 DEF DownloadFiles
  <2>3. CASE \E kept \in {Absent, work[archive]} :
                /\ IF kept = Absent THEN Fine ELSE Amiss
                /\ work' = [processTarEntry(archive, binary, TRUE) EXCEPT ![archive] = kept]
                /\ Next1
    <3> PICK kept \in {Absent, work[archive]} :
             /\ IF kept = Absent THEN Fine ELSE Amiss
             /\ work' = [processTarEntry(archive, binary, TRUE) EXCEPT ![archive] = kept]
             /\ Next1
      BY <2>3
    <3>1. /\ work' \in [DownloadFiles -> Held] /\ work'[binary] = work[archive]
          /\ \A file \in DownloadFiles \ {archive, binary} : work'[file] = work[file]
      BY ZenonT(40), <2>2, Unarchived
    <3>2. load' \in Loads /\ load'.at = "unpack" /\ load'.left = Tail(load.left)
      BY <1>1, <1>3, StageMovesOn DEF DownloadInv, FilesTyped
    <3>3. FilesTyped'
      BY <1>1, <3>1, <3>2, StagesTyped DEF DownloadInv, FilesTyped
    <3>4. \/ /\ load'.left = <<"client", "installer">>
             /\ work'["client"] = okd /\ work'["installer"] = okd
          \/ /\ load'.left = <<"installer">>
             /\ work'["oc"] = okd /\ work'["installer"] = okd
          \/ /\ load'.left = <<>>
             /\ work'["oc"] = okd /\ work'["openshift-install"] = okd
      BY <2>1, <3>1, <3>2, StageLists, ZenonT(40) DEF DownloadFiles
    <3> QED
      BY <1>1, <3>2, <3>3, <3>4
      DEF DownloadInv, SentinelTells, Outdated, Unpacking, Installing, ToolsStand, ImageAsked, Loading, Stage
  <2>4. CASE Amiss /\ Over /\ work' \in {work, processTarEntry(archive, binary, FALSE)}
    <3>1. processTarEntry(archive, binary, FALSE) \in [DownloadFiles -> Held]
      BY <2>2, CutShort
    <3>2. work' \in [DownloadFiles -> Held]
      BY <2>4, <3>1 DEF DownloadInv, FilesTyped, DownloadTypeOK
    <3> QED
      BY <1>1, <2>4, <3>2, OverAtWork
  <2> QED
    BY <1>3, <2>3, <2>4 DEF ExtractTarGz
<1> QED
  BY <1>2, <1>3 DEF extractReleaseTarballs

\* What is copied is the release's, whole, and the version file is written after the last.
LEMMA Installs == ASSUME DownloadInv, InstallToolsToSystem PROVE DownloadInv'
<1>1. UNCHANGED <<okd, sentinel, work>> /\ sentinel # okd /\ load.at = "install" /\ load.verb # "none"
  BY DEF InstallToolsToSystem, DownloadInv, Outdated, Stage, Loading
<1>2. /\ work["oc"] = okd /\ work["openshift-install"] = okd /\ work' \in [DownloadFiles -> Held]
      /\ okd \in 1..okd /\ okd # Absent
  BY <1>1 DEF DownloadInv, Installing, Stage, Loading, FilesTyped, DownloadTypeOK, Absent
<1>3. \/ load.left = OKDToolBinaries
      \/ load.left = <<"oc">> /\ installed["openshift-install"] = okd
      \/ load.left = <<>> /\ \A b \in OKDTools : installed[b] = okd
  BY <1>1 DEF DownloadInv, Installing, Stage, Loading
<1>4. CASE load.left = <<>> /\ ToStage("sentinel", <<>>) /\ Fine /\ UNCHANGED installed
  <2>1. load' \in Loads /\ load'.at = "sentinel"
    BY <1>4, NothingListed, StageMoves DEF LoadPlaces, DownloadInv, FilesTyped
  <2>2. \A b \in OKDTools : installed[b] = okd
    BY <1>3, <1>4 DEF OKDToolBinaries
  <2>3. FilesTyped'
    BY <1>1, <1>2, <1>4, <2>1, StagesTyped DEF DownloadInv, FilesTyped
  <2> QED
    BY <1>1, <1>4, <2>1, <2>2, <2>3
    DEF DownloadInv, SentinelTells, Outdated, Unpacking, Installing, ToolsStand, ImageAsked, Loading, Stage
<1>5. CASE /\ load.left # <<>> /\ Next1 /\ Fine
           /\ installed' = [installed EXCEPT ![Head(load.left)] =
                               IF work[Head(load.left)] = Absent THEN @ ELSE work[Head(load.left)]]
  <2>1. load' \in Loads /\ load'.at = "install" /\ load'.left = Tail(load.left)
    BY <1>1, <1>5, StageMovesOn DEF DownloadInv, FilesTyped
  <2>2. PICK b : b = Head(load.left)
    OBVIOUS
  <2>3. \/ load.left = OKDToolBinaries /\ b = "openshift-install" /\ load'.left = <<"oc">>
        \/ /\ load.left = <<"oc">> /\ b = "oc" /\ load'.left = <<>>
           /\ installed["openshift-install"] = okd
    BY <1>3, <1>5, <2>1, <2>2, StageLists
  <2>4. installed' = [installed EXCEPT ![b] = okd] /\ b \in OKDTools
    BY <1>2, <1>5, <2>2, <2>3 DEF OKDTools
  <2>5. /\ installed' \in [OKDTools -> {Absent, Pin} \cup 1..okd] /\ installed'[b] = okd
        /\ \A t \in OKDTools \ {b} : installed'[t] = installed[t]
    BY <1>2, <2>4 DEF DownloadInv, FilesTyped
  <2>6. FilesTyped'
    BY <1>1, <1>2, <1>5, <2>1, <2>5, StagesTyped
  <2>7. \/ load'.left = <<"oc">> /\ installed'["openshift-install"] = okd
        \/ load'.left = <<>> /\ \A t \in OKDTools : installed'[t] = okd
    BY <2>3, <2>5 DEF OKDTools
  <2> QED
    BY <1>1, <1>2, <2>1, <2>6, <2>7
    DEF DownloadInv, SentinelTells, Outdated, Unpacking, Installing, ToolsStand, ImageAsked, Loading, Stage
<1>6. CASE load.left # <<>> /\ Over /\ Amiss /\ atomicInstallFile(Head(load.left))
  <2>1. installed' \in [OKDTools -> {Absent, Pin} \cup 1..okd]
    <3>1. Head(load.left) \in OKDTools /\ work[Head(load.left)] = okd
      BY <1>2, <1>3, <1>6, StageLists DEF OKDTools
    <3> QED
      BY <1>2, <1>6, <3>1 DEF atomicInstallFile, DownloadInv, FilesTyped
  <2>2. SentinelTells'
    BY <1>1 DEF SentinelTells
  <2> QED
    BY <1>1, <1>2, <1>6, <2>1, <2>2, OverIsFine DEF DownloadInv, FilesTyped, DownloadTypeOK
<1> QED
  BY <1>4, <1>5, <1>6 DEF InstallToolsToSystem


LEMMA Tells == ASSUME DownloadInv, WriteSentinel PROVE DownloadInv'
<1>1. /\ UNCHANGED <<okd, work, installed>> /\ okd \in 0..okd /\ sentinel \in 0..okd
      /\ work' \in [DownloadFiles -> Held] /\ installed' \in [OKDTools -> {Absent, Pin} \cup 1..okd]
      /\ \A b \in OKDTools : installed[b] = okd
  BY DEF WriteSentinel, DownloadInv, FilesTyped, DownloadTypeOK, ToolsStand
<1>2. SentinelTells'
  BY <1>1 DEF SentinelTells
<1>3. CASE sentinel' = okd /\ ToStage("stream", <<>>) /\ Fine
  <2>1. load' \in Loads /\ load'.at = "stream"
    BY <1>3, NothingListed, StageMoves DEF LoadPlaces, DownloadInv, FilesTyped
  <2>2. FilesTyped'
    BY <1>1, <1>3, <2>1, SlipsCounted DEF DownloadInv, FilesTyped, DownloadTypeOK, Loads
  <2> QED
    BY <1>1, <1>2, <2>1, <2>2
    DEF DownloadInv, Outdated, Unpacking, Installing, ToolsStand, ImageAsked, Loading, Stage
<1>4. CASE Over /\ Amiss /\ atomicWriteFile(okd)
  <2>1. sentinel' \in 0..okd
    BY <1>1, <1>4 DEF atomicWriteFile
  <2> QED
    BY <1>1, <1>2, <1>4, <2>1, OverIsFine
<1> QED
  BY <1>3, <1>4 DEF WriteSentinel

LEMMA Detects == ASSUME DownloadInv, DetectCoreOSVersion PROVE DownloadInv'
<1>1. UNCHANGED <<okd, work, installed, sentinel>> /\ load.at = "stream" /\ work' \in [DownloadFiles -> Held]
  BY DEF DetectCoreOSVersion, Stage, DownloadInv, FilesTyped, DownloadTypeOK
<1>2. CASE Fine /\ load' = [load EXCEPT !.at = "iso", !.stream = installerStream]
  <2>1. installerStream \in Held
    <3>1. installerStream \in {Absent, Pin} \cup 1..okd /\ okd \in 1..Newest
      BY DEF installerStream, DownloadInv, FilesTyped, DownloadTypeOK, OKDTools
    <3> QED
      BY <3>1, DownloadAssumption DEF Held
  <2>2. PICK staged : staged = [load EXCEPT !.at = "iso"]
    OBVIOUS
  <2>3. staged \in Loads /\ staged.verb = load.verb /\ staged.at = "iso"
    BY <2>2 DEF DownloadInv, FilesTyped, Loads, LoadPlaces
  <2>4. load' = [staged EXCEPT !.stream = installerStream]
    BY <1>2, <2>2
  <2>5. /\ load' \in Loads /\ load'.verb = load.verb /\ load'.at = "iso"
        /\ load'.stream = installed["openshift-install"]
    BY <2>1, <2>3, <2>4 DEF Loads, installerStream
  <2>6. FilesTyped'
    BY <1>1, <1>2, <2>5, StagesTyped DEF DownloadInv, FilesTyped
  <2> QED
    BY <1>1, <2>5, <2>6
    DEF DownloadInv, SentinelTells, Outdated, Unpacking, Installing, ToolsStand, ImageAsked, Loading, Stage
<1>3. CASE Over /\ Amiss
  BY <1>1, <1>3, OverAtWork
<1> QED
  BY <1>2, <1>3 DEF DetectCoreOSVersion

\* The build goes on only with an image of the digest that was asked for.
LEMMA FetchesImage == ASSUME DownloadInv, DownloadCoreOSISO PROVE DownloadInv'
<1>1. /\ UNCHANGED <<okd, installed, sentinel>> /\ load.at = "iso" /\ load.verb # "none"
      /\ load.stream = installed["openshift-install"]
      /\ "iso" \in DownloadFiles /\ load.stream \in Held /\ "build" \in LoadPlaces
  BY DEF DownloadCoreOSISO, Stage, Loading, DownloadInv, ImageAsked, FilesTyped, Loads, DownloadFiles, LoadPlaces
<1>2. /\ work' \in [DownloadFiles -> Held]
      /\ Fine \/ Amiss
      /\ \/ Over
         \/ load' \in Loads /\ load' = [load EXCEPT !.tries = load.tries + 1]
         \/ ToStage("build", <<>>) /\ work'["iso"] = load.stream
  BY <1>1, FetchLeaves DEF DownloadCoreOSISO
<1>3. CASE Over
  BY <1>1, <1>2, <1>3, OverAtWork
<1>4. CASE load' \in Loads /\ load' = [load EXCEPT !.tries = load.tries + 1]
  BY <1>1, <1>2, <1>4, RetryIsFine
<1>5. CASE ToStage("build", <<>>) /\ work'["iso"] = load.stream
  <2>1. /\ load' \in Loads /\ load'.verb = load.verb /\ load'.at = "build"
        /\ load'.stream = load.stream
    BY <1>1, <1>5, NothingListed, StageMoves DEF DownloadInv, FilesTyped
  <2>2. FilesTyped'
    BY <1>1, <1>2, <2>1, StagesTyped DEF DownloadInv, FilesTyped
  <2> QED
    BY <1>1, <1>5, <2>1, <2>2
    DEF DownloadInv, SentinelTells, Outdated, Unpacking, Installing, ToolsStand, ImageAsked, Loading, Stage
<1> QED
  BY <1>2, <1>3, <1>4, <1>5

LEMMA LoadBegun ==
    ASSUME DownloadInv, NEW verb \in {"setup", "window"}, NEW at \in {"wipe", "stream"}, BeginLoad(verb, at),
           verb = "setup" => at = "wipe"
    PROVE  DownloadInv'
<1>1. PICK named : named = [NoLoad EXCEPT !.verb = verb]
  OBVIOUS
<1>2. named \in Loads /\ named.verb = verb
  <2>1. NoLoad \in Loads
    BY DEF NoLoad, Loads, LoadPlaces, MaxAttempts, Held
  <2> QED
    BY <1>1, <2>1 DEF Loads
<1>3. load' = [named EXCEPT !.at = at]
  BY <1>1 DEF BeginLoad
<1>4. load' \in Loads /\ load'.verb = verb /\ load'.at = at
  BY <1>2, <1>3 DEF Loads, LoadPlaces
<1>5. FilesTyped'
  BY <1>4, StagesTyped DEF DownloadInv, FilesTyped, DownloadTypeOK, BeginLoad, Fine
<1> QED
  BY <1>4, <1>5
  DEF BeginLoad, DownloadInv, SentinelTells, Outdated, Unpacking, Installing, ToolsStand, ImageAsked, Loading, Stage

LEMMA KilledLoad == ASSUME DownloadInv, LoadKilled PROVE DownloadInv'
<1>1. WrittenNow \subseteq DownloadFiles
  BY DEF WrittenNow, DownloadFiles
<1>2. work' \in [DownloadFiles -> Held]
  BY <1>1 DEF LoadKilled, DownloadInv, FilesTyped, DownloadTypeOK, Held
<1> QED
  BY <1>2, OverAtWork DEF LoadKilled

\* No version file names a release that was not configured before.
LEMMA Turns == ASSUME DownloadInv, TurnToRelease PROVE DownloadInv'
<1>1. /\ okd' \in 1..Newest /\ okd' = okd + 1 /\ sentinel' = sentinel /\ sentinel' \in 0..okd' /\ sentinel' # okd'
      /\ load' = load /\ load.verb = "none"
  BY DownloadAssumption DEF TurnToRelease, Loading, DownloadInv, FilesTyped, DownloadTypeOK
<1>2. \A v \in {Absent, Pin} \cup 1..okd : v \in {Absent, Pin} \cup 1..okd'
  BY <1>1 DEF DownloadInv, FilesTyped, DownloadTypeOK
<1>3. installed' \in [OKDTools -> {Absent, Pin} \cup 1..okd']
  BY <1>1, <1>2 DEF TurnToRelease, DownloadInv, FilesTyped, OKDTools
<1>4. FilesTyped'
  BY <1>1, <1>3 DEF TurnToRelease, DownloadInv, FilesTyped, DownloadTypeOK
<1> QED
  BY <1>1, <1>4
  DEF DownloadInv, SentinelTells, Outdated, Unpacking, Installing, ToolsStand, ImageAsked, Loading, Stage

LEMMA DownloadGoesOn == ASSUME DownloadInv, [DownloadNext]_downloadVars PROVE DownloadInv'
<1>1. CASE SetupLoads
  BY <1>1, LoadBegun DEF SetupLoads
<1>2. CASE WindowLoads
  BY <1>2, LoadBegun DEF WindowLoads
<1>3. CASE EnsureCoreOSISO
  <2>1. work' \in [DownloadFiles -> Held]
    BY <1>3 DEF EnsureCoreOSISO, DownloadInv, FilesTyped, DownloadTypeOK
  <2> QED
    BY <1>3, <2>1, OverAtWork DEF EnsureCoreOSISO
<1>4. CASE UNCHANGED downloadVars
  BY <1>4
  DEF downloadVars, DownloadInv, FilesTyped, DownloadTypeOK, SentinelTells, Outdated, Unpacking, Installing, ToolsStand,
      ImageAsked, Loading, Stage
<1> QED
  BY <1>1, <1>2, <1>3, <1>4, Wiping, Equipping, Looking, Bootstrapping, Releasing, Unpacks, Installs, Tells, Detects,
     FetchesImage, KilledLoad, Turns
  DEF DownloadNext, LoadStep

\* Whatever download, extraction or installation was cut short, kept, wrong or left by an earlier
\* release: setup goes on with the binaries of its release, and nodes are built from the whole
\* image that the installed installer asks for (DownloadOKDTools, EnsureCoreOSISO).
THEOREM OnlyTheRelease == DownloadInit /\ [][DownloadNext]_downloadVars => []BuildsFromRelease
<1>1. DownloadInv => BuildsFromRelease
  BY DEF DownloadInv, FilesTyped, ToolsStand, ImageAsked, BuildsFromRelease, Stage, Loading, OKDTools
<1> QED
  BY <1>1, DownloadBegins, DownloadGoesOn, PTL

=============================================================================
