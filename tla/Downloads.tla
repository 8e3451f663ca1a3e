----------------------------- MODULE Downloads -----------------------------
(***************************************************************************)
(* What setup and the join window of node add fetch: the pinned oc, the    *)
(* tools it extracts from the release image, the other tools, and the      *)
(* CoreOS image of the installer's own stream.  Files in the work directory *)
(* are written in place and may be cut short; binaries are installed whole. *)
(***************************************************************************)
EXTENDS Integers, Sequences

CONSTANTS
    Newest,           \* releases, in their order, that may be configured
    DownloadFaults    \* calls that fail, wrong answers and kills

ASSUME DownloadAssumption == Newest \in Nat \ {0} /\ DownloadFaults \in Nat

VARIABLES
    okd,         \* the configured release
    work,        \* the files of the download directory
    installed,   \* the OKD binaries
    sentinel,    \* the release their version file names; 0: none
    extra,       \* the other tools on PATH
    load,        \* the command that runs
    slips

downloadVars == <<okd, work, installed, sentinel, extra, load, slips>>

\* A file is of a release, of what okdctl pins, or one of these.
Absent == 0
Partial == -1
Foreign == -2
Pin == 100

\* kubectl comes with oc, out of the same archive.
OKDToolBinaries == <<"openshift-install", "oc">>
externalTools == <<"terraform", "yq", "helm", "sops">>
DownloadFiles == {"archive", "client", "installer", "openshift-install", "oc", "iso"}
EmptyWork == [f \in DownloadFiles |-> Absent]

\* left: what the stage still goes through; stream: the image the installer publishes.
NoLoad == [verb |-> "none", at |-> "none", tries |-> 0, left |-> <<>>, stream |-> Absent]
Loading == load.verb # "none"
Stage(at) == Loading /\ load.at = at
ToStage(at, left) == load' = [load EXCEPT !.at = at, !.tries = 0, !.left = left]
Next1 == load' = [load EXCEPT !.left = Tail(@)]
Over == load' = NoLoad
Fine == UNCHANGED slips
Amiss == slips < DownloadFaults /\ slips' = slips + 1

-----------------------------------------------------------------------------
(* One file *)

MaxAttempts == 3

\* Any file is used whose digest is the pinned one.
canSkipDownload(file, sum) == work[file] = sum

\* How one attempt ends that brings nothing: a connection that breaks, a status of 5xx, 408 or
\* 429, any other status, or ctrl+c.
Failures == {"broken", "busy", "refused", "cancelled"}
isRetryable(failure) == failure \in {"broken", "busy"}

\* The file is only opened for a body, and removed if it can be when that breaks off.
fetchToFile(file, failure) ==
    \E left \in {work[file]} \cup (IF failure \in {"broken", "cancelled"} THEN {Absent, Partial} ELSE {}) :
        work' = [work EXCEPT ![file] = left]

AttemptFails(file) ==
    /\ Amiss
    /\ \E failure \in Failures :
          /\ fetchToFile(file, failure)
          /\ IF isRetryable(failure) /\ load.tries + 1 < MaxAttempts
             THEN load' = [load EXCEPT !.tries = @ + 1] ELSE Over

\* What does not have the digest is removed, if it can be, and not asked for again.
verifyDownloadedFile(file) ==
    /\ Amiss /\ Over
    /\ \E left \in {Absent, Foreign} : work' = [work EXCEPT ![file] = left]

\* Fetch without a digest to compare with.
Unverified(file, sum, next) ==
    \/ canSkipDownload(file, sum) /\ ToStage(next, <<>>) /\ UNCHANGED work /\ Fine
    \/ /\ ~canSkipDownload(file, sum) /\ ToStage(next, <<>>) /\ Fine
       /\ \E got \in {sum, Foreign} : work' = [work EXCEPT ![file] = got]

Fetch(file, sum, next) ==
    \/ canSkipDownload(file, sum) /\ ToStage(next, <<>>) /\ UNCHANGED work /\ Fine
    \/ /\ ~canSkipDownload(file, sum)
       /\ \/ work' = [work EXCEPT ![file] = sum] /\ ToStage(next, <<>>) /\ Fine
          \/ AttemptFails(file) \/ verifyDownloadedFile(file)

\* An entry is written in place.
processTarEntry(archive, binary, got) == [work EXCEPT ![binary] = IF got THEN work[archive] ELSE Partial]

\* An archive that was unpacked is removed if it can be.
ExtractTarGz(archive, binary, next) ==
    \/ \E kept \in {Absent, work[archive]} :
          /\ IF kept = Absent THEN Fine ELSE Amiss
          /\ work' = [processTarEntry(archive, binary, TRUE) EXCEPT ![archive] = kept]
          /\ next
    \/ Amiss /\ Over /\ work' \in {work, processTarEntry(archive, binary, FALSE)}

-----------------------------------------------------------------------------
(* The tools of setup *)

\* Setup goes on only over a work directory that was emptied.
WorkOnly ==
    /\ Stage("wipe") /\ UNCHANGED <<okd, installed, sentinel, extra>>
    /\ \/ work' = EmptyWork /\ ToStage("external", externalTools) /\ Fine
       \/ work' \in {work, EmptyWork} /\ Over /\ Amiss

\* A command that exists will do, whatever its version.
isToolInstalled(tool) == extra[tool] # Absent

\* By the package manager, from a repository file that okdctl carries.
installTerraform == extra' = [extra EXCEPT !["terraform"] = Pin]

\* A download of its own into a temporary file, unpacked into a temporary directory, and both
\* are removed again; a run that was killed leaves them behind under names nobody asks for.
installBinary(tool) == extra' = [extra EXCEPT ![tool] = Pin]

installTool(tool) ==
    IF isToolInstalled(tool) THEN UNCHANGED extra
    ELSE IF tool = "terraform" THEN installTerraform ELSE installBinary(tool)

\* The first that fails ends the step, and setup goes on.
InstallExternalTools ==
    /\ Stage("external") /\ UNCHANGED <<okd, work, installed, sentinel>>
    /\ \/ load.left = <<>> /\ ToStage("check", <<>>) /\ Fine /\ UNCHANGED extra
       \/ load.left # <<>> /\ installTool(Head(load.left)) /\ Next1 /\ Fine
       \/ /\ load.left # <<>> /\ ~isToolInstalled(Head(load.left))
          /\ Amiss /\ ToStage("check", <<>>) /\ UNCHANGED extra

\* Every binary is there, and the sentinel names the release.
PresentTools == \A i \in DOMAIN OKDToolBinaries : installed[OKDToolBinaries[i]] # Absent
ToolsDownloaded == PresentTools /\ sentinel = okd

DownloadTools ==
    /\ Stage("check") /\ Fine /\ UNCHANGED <<okd, work, installed, sentinel, extra>>
    /\ ToStage(IF ToolsDownloaded THEN "stream" ELSE "bootstrap", <<>>)

bootstrapOC ==
    /\ UNCHANGED <<okd, installed, sentinel, extra>>
    /\ \/ /\ Stage("bootstrap") /\ Fine /\ UNCHANGED work
          /\ ToStage(IF work["oc"] # Absent THEN "release" ELSE "fetch", <<>>)
       \/ Stage("fetch") /\ Fetch("archive", Pin, "unarchive")
       \/ Stage("unarchive") /\ ExtractTarGz("archive", "oc", ToStage("release", <<>>))

\* What the pattern finds once the release's are there, in the order of the names.
Tarballs == IF work["archive"] = Absent THEN <<"client", "installer">> ELSE <<"archive", "client", "installer">>

\* oc leaves the release's tarballs beside what is there.
extractReleaseImage ==
    /\ Stage("release") /\ UNCHANGED <<okd, installed, sentinel, extra>>
    /\ \/ /\ Fine
          /\ work' = [work EXCEPT !["client"] = okd, !["installer"] = okd]
          /\ ToStage("unpack", Tarballs)
       \/ /\ Over /\ Amiss
          /\ work' \in {work, [work EXCEPT !["client"] = Partial, !["installer"] = Partial]}

\* Each in its turn: the pinned client's, when it could not be removed, before that of a later
\* release.
extractReleaseTarballs ==
    /\ Stage("unpack") /\ UNCHANGED <<okd, installed, sentinel, extra>>
    /\ \/ load.left = <<>> /\ ToStage("install", OKDToolBinaries) /\ Fine /\ UNCHANGED work
       \/ /\ load.left # <<>>
          /\ ExtractTarGz(Head(load.left), IF Head(load.left) = "installer" THEN "openshift-install" ELSE "oc", Next1)

\* Copied beside its place and renamed into it: the old one or the new one, and whole.
atomicInstallFile(b) == installed' \in {installed, [installed EXCEPT ![b] = work[b]]}

InstallToolsToSystem ==
    /\ Stage("install") /\ UNCHANGED <<okd, work, sentinel, extra>>
    /\ \/ load.left = <<>> /\ ToStage("sentinel", <<>>) /\ Fine /\ UNCHANGED installed
       \/ /\ load.left # <<>> /\ Next1 /\ Fine
          /\ installed' = [installed EXCEPT ![Head(load.left)] = IF work[Head(load.left)] = Absent THEN @ ELSE work[Head(load.left)]]
       \/ load.left # <<>> /\ Over /\ Amiss /\ atomicInstallFile(Head(load.left))

\* A file beside it, renamed: it may have been when the last call fails.
atomicWriteFile(release) == sentinel' \in {sentinel, release}

\* After the last binary.
WriteSentinel ==
    /\ Stage("sentinel") /\ UNCHANGED <<okd, work, installed, extra>>
    /\ \/ sentinel' = okd /\ ToStage("stream", <<>>) /\ Fine
       \/ Over /\ Amiss /\ atomicWriteFile(okd)

-----------------------------------------------------------------------------
(* The CoreOS image *)

\* The installed installer prints the stream of its own release.
installerStream == installed["openshift-install"]

\* It has to name the image and its digest.
coreOSInfoFromStream(stream) == stream # Absent

DetectCoreOSVersion ==
    /\ Stage("stream") /\ UNCHANGED <<okd, work, installed, sentinel, extra>>
    /\ \/ /\ coreOSInfoFromStream(installerStream) /\ Fine
          /\ load' = [load EXCEPT !.at = "iso", !.stream = installerStream]
       \/ Over /\ Amiss

\* A file that is there has its digest compared here, and again before it is fetched.
DownloadCoreOSISO ==
    /\ Stage("iso") /\ UNCHANGED <<okd, installed, sentinel, extra>>
    /\ Fetch("iso", load.stream, "build")

\* The path of the image goes to the building of the nodes' own.
EnsureCoreOSISO == Stage("build") /\ Over /\ Fine /\ UNCHANGED <<okd, work, installed, sentinel, extra>>

-----------------------------------------------------------------------------
(* The commands, and what goes on between them *)

BeginLoad(verb, at) ==
    /\ ~Loading /\ load' = [NoLoad EXCEPT !.verb = verb, !.at = at]
    /\ UNCHANGED <<okd, work, installed, sentinel, extra, slips>>

SetupLoads == BeginLoad("setup", "wipe")
\* The join window is only opened on what a setup left.
WindowLoads == sentinel # 0 /\ BeginLoad("window", "stream")

WrittenNow ==
    CASE load.at = "fetch" -> {"archive"}
      [] load.at = "unarchive" -> {"oc"}
      [] load.at = "release" -> {"client", "installer"}
      [] load.at = "unpack" -> {"oc", "openshift-install"}
      [] load.at = "iso" -> {"iso"}
      [] OTHER -> {}

LoadKilled ==
    /\ Loading /\ Over /\ Amiss /\ UNCHANGED <<okd, installed, sentinel, extra>>
    /\ work' \in {work} \cup {[work EXCEPT ![f] = Partial] : f \in WrittenNow}

\* The operator turns to a later release, and may install its installer by hand.
TurnToRelease ==
    /\ ~Loading /\ okd < Newest /\ okd' = okd + 1
    /\ installed' \in {installed, [installed EXCEPT !["openshift-install"] = okd']}
    /\ UNCHANGED <<work, sentinel, extra, load, slips>>

DownloadInit ==
    /\ okd = 1 /\ work = EmptyWork /\ installed = [b \in {"openshift-install", "oc"} |-> Absent]
    /\ sentinel = 0 /\ load = NoLoad /\ slips = 0
    /\ extra \in {[t \in {"terraform", "yq", "helm", "sops"} |-> v] : v \in {Absent, Pin}}

LoadStep ==
    \/ WorkOnly \/ InstallExternalTools \/ DownloadTools \/ bootstrapOC \/ extractReleaseImage
    \/ extractReleaseTarballs \/ InstallToolsToSystem \/ WriteSentinel
    \/ DetectCoreOSVersion \/ DownloadCoreOSISO \/ EnsureCoreOSISO

DownloadNext == SetupLoads \/ WindowLoads \/ LoadStep \/ LoadKilled \/ TurnToRelease

\* A download ends by its timeouts and its bounded attempts.
DownloadSpec == DownloadInit /\ [][DownloadNext]_downloadVars /\ WF_downloadVars(LoadStep)

-----------------------------------------------------------------------------
Held == {Absent, Partial, Foreign, Pin} \cup 1..Newest
DownloadTypeOK ==
    /\ okd \in 1..Newest /\ work \in [DownloadFiles -> Held] /\ sentinel \in 0..okd
    /\ \A b \in DOMAIN installed : installed[b] \in {Absent, Pin} \cup 1..okd
    /\ load.tries \in 0..MaxAttempts - 1 /\ slips \in 0..DownloadFaults

\* Whatever was cut short, kept, wrong or left by an earlier release: a setup goes on with
\* the binaries of its release, and the image that nodes are built from is, whole, the one
\* the installed installer asks for.
BuildsFromRelease ==
    /\ load.verb = "setup" /\ load.at \in {"stream", "iso", "build"} =>
          \A b \in DOMAIN installed : installed[b] = okd
    /\ Stage("build") => work["iso"] = load.stream /\ load.stream = installed["openshift-install"]

=============================================================================
