----------------------------- MODULE ModelStore -----------------------------
(***************************************************************************)
(* Installing and removing local models: the download cache, the model     *)
(* directories and registry.json, with the interruptions and failures      *)
(* between them.  (models/installer.py, models/registry.py,                *)
(* commands/models.py)                                                     *)
(*                                                                         *)
(* The content of a file is the sequence of the sources its chunks came    *)
(* from; a file is whole when all Size chunks are of one source.           *)
(***************************************************************************)
EXTENDS Naturals, Sequences, FiniteSets, FiniteSetsExt

CONSTANTS
    Urls,          \* sources that are one file behind a URL
    Repos,         \* sources that are a repository on the hub
    NameOf,        \* source -> the name its model is installed under
    FileOf,        \* URL -> the file name at the end of its path
    RepoFiles,     \* the files of every repository
    Size,          \* chunks of a file
    MaxInstalls,   \* bound on installations
    MaxRemovals    \* bound on removals

ASSUME ModelStoreAssumption ==
    /\ Size \in Nat \ {0} /\ MaxInstalls \in Nat /\ MaxRemovals \in Nat
    /\ \A s \in Urls : FileOf[s] \notin RepoFiles
    /\ Urls \intersect Repos = {}

Sources == Urls \union Repos
ModelNames == {NameOf[s] : s \in Sources}
FileNames == RepoFiles \union {FileOf[u] : u \in Urls}
Versions == 1..MaxInstalls

VARIABLES
    registered,   \* registry.json: the entries
    modelDir,     \* <<name, version>> -> file name -> content
    downloads,    \* name -> file name -> content, in the download cache
    job,          \* the command that is running
    installs, removals

modelStoreVars == <<registered, modelDir, downloads, job, installs, removals>>

NoJob == [pc |-> "idle"]
NoContent == << >>
EmptyDir == [f \in FileNames |-> NoContent]
Whole(s) == [i \in 1..Size |-> s]
FilesOf(s) == IF s \in Urls THEN {FileOf[s]} ELSE RepoFiles
DirOf(s) == [f \in FileNames |-> IF f \in FilesOf(s) THEN Whole(s) ELSE NoContent]
Dir == <<job.name, job.version>>
Cached == downloads[job.name][FileOf[job.source]]
VersionsOf(name) == {e.version : e \in {r \in registered : r.name = name}}

StoreCached(content) ==
    downloads' = [downloads EXCEPT ![job.name][FileOf[job.source]] = content]

ModelStoreInit ==
    /\ registered = {}
    /\ modelDir = [d \in ModelNames \X Versions |-> EmptyDir]
    /\ downloads = [n \in ModelNames |-> EmptyDir]
    /\ job = NoJob
    /\ installs = 0
    /\ removals = 0
-----------------------------------------------------------------------------
(* /models install: a version, a directory, a download, the registry. *)

NextVersion(name) ==
    IF VersionsOf(name) = {} THEN 1 ELSE Max(VersionsOf(name)) + 1

BeginInstall(s, pc) ==
    /\ job = NoJob /\ installs < MaxInstalls
    /\ NextVersion(NameOf[s]) \in Versions
    /\ installs' = installs + 1
    /\ job' = [pc |-> pc, source |-> s, name |-> NameOf[s],
               version |-> NextVersion(NameOf[s])]

InstallFromUrl(s) ==
    /\ BeginInstall(s, "request")
    /\ UNCHANGED <<registered, modelDir, downloads, removals>>

InstallFromHf(s) ==
    /\ BeginInstall(s, "hub")
    /\ UNCHANGED <<registered, modelDir, downloads, removals>>

GoTo(pc) == job' = [job EXCEPT !.pc = pc]
StopJob == job' = NoJob

(* Mutant: what a resumed request answers is appended whatever the status. *)
AppendAlwaysMutant(kept, partial) == kept

(* The content a transfer starts from: the cached part when the server     *)
(* answers 206 for it, nothing when it sends the whole file.               *)
TransferBase(kept, partial) == IF partial THEN kept ELSE NoContent

(* A Range request when something is cached: 416 for a complete file, 206  *)
(* for the rest, 200 for all of it.                                        *)
RequestUrl ==
    /\ job.pc = "request"
    /\ \/ Len(Cached) >= Size /\ GoTo("move") /\ UNCHANGED downloads
       \/ \E partial \in BOOLEAN :
            /\ Len(Cached) < Size /\ (partial => Cached # NoContent)
            /\ StoreCached(TransferBase(Cached, partial))
            /\ job' = [pc |-> "transfer", source |-> job.source, name |-> job.name,
                       version |-> job.version,
                       left |-> IF partial THEN Size - Len(Cached) ELSE Size]
    /\ UNCHANGED <<registered, modelDir, installs, removals>>

TransferChunk ==
    /\ job.pc = "transfer" /\ job.left > 0
    /\ StoreCached(Append(Cached, job.source))
    /\ job' = [job EXCEPT !.left = @ - 1]
    /\ UNCHANGED <<registered, modelDir, installs, removals>>

(* The end of the body is taken for the end of the file.  One cut short     *)
(* raises in httpx when it has a length or is chunked (DownloadFails); one *)
(* with neither would pass for whole and is not modelled.                   *)
TransferDone ==
    /\ job.pc = "transfer" /\ job.left = 0
    /\ GoTo("move")
    /\ UNCHANGED <<registered, modelDir, downloads, installs, removals>>

(* An exception removes the partial file and ends the command.             *)
DownloadFails ==
    /\ job.pc \in {"request", "transfer"}
    /\ StoreCached(NoContent)
    /\ StopJob
    /\ UNCHANGED <<registered, modelDir, installs, removals>>

MoveToModelDir ==
    /\ job.pc = "move"
    /\ modelDir' = [modelDir EXCEPT ![Dir][FileOf[job.source]] = Cached]
    /\ StoreCached(NoContent)
    /\ GoTo("detect")
    /\ UNCHANGED <<registered, installs, removals>>

(* The planned files that are not complete in the directory yet.           *)
HubMisses == {f \in RepoFiles : modelDir[Dir][f] # Whole(job.source)} # {}

(* hf_hub_download, file by file, into the model directory itself; a file  *)
(* appears there when it is complete.                                      *)
HubDownloadsFile ==
    /\ job.pc = "hub" /\ HubMisses
    /\ \E f \in RepoFiles :
         /\ modelDir[Dir][f] # Whole(job.source)
         /\ modelDir' = [modelDir EXCEPT ![Dir][f] = Whole(job.source)]
    /\ UNCHANGED <<registered, downloads, job, installs, removals>>

HubDone ==
    /\ job.pc = "hub" /\ ~HubMisses
    /\ GoTo("detect")
    /\ UNCHANGED <<registered, modelDir, downloads, installs, removals>>

HubFails ==
    /\ job.pc = "hub"
    /\ StopJob
    /\ UNCHANGED <<registered, modelDir, downloads, installs, removals>>

(* _detect_and_register; detection may fail, and the files stay.           *)
DetectAndRegister ==
    /\ job.pc = "detect"
    /\ \/ registered' = registered
       \/ /\ job.version \notin VersionsOf(job.name)
          /\ registered' = registered \union
                 {[name |-> job.name, version |-> job.version, source |-> job.source]}
    /\ StopJob
    /\ UNCHANGED <<modelDir, downloads, installs, removals>>
-----------------------------------------------------------------------------
(* /models remove name[@version]: the registry first, then the files.      *)

Unregister(name, versions) ==
    /\ job = NoJob /\ removals < MaxRemovals
    /\ versions \intersect VersionsOf(name) # {}
    /\ registered' = {e \in registered : ~(e.name = name /\ e.version \in versions)}
    /\ job' = [pc |-> "rmtree", name |-> name, versions |-> versions]
    /\ removals' = removals + 1
    /\ UNCHANGED <<modelDir, downloads, installs>>

RemoveModel == \E name \in ModelNames :
    \/ Unregister(name, Versions)
    \/ \E v \in Versions : Unregister(name, {v})

DeleteFiles ==
    /\ job.pc = "rmtree"
    /\ modelDir' = [d \in ModelNames \X Versions |->
                      IF d[1] = job.name /\ d[2] \in job.versions THEN EmptyDir ELSE modelDir[d]]
    /\ StopJob
    /\ UNCHANGED <<registered, downloads, installs, removals>>

(* Ctrl+C or the end of the process, at any point of a command.            *)
Interrupted ==
    /\ job # NoJob
    /\ StopJob
    /\ UNCHANGED <<registered, modelDir, downloads, installs, removals>>

ModelStoreNext ==
    \/ \E s \in Urls : InstallFromUrl(s)
    \/ \E s \in Repos : InstallFromHf(s)
    \/ RequestUrl \/ TransferChunk \/ TransferDone \/ DownloadFails \/ MoveToModelDir
    \/ HubDownloadsFile \/ HubDone \/ HubFails
    \/ DetectAndRegister
    \/ RemoveModel \/ DeleteFiles
    \/ Interrupted

ModelStoreSpec == ModelStoreInit /\ [][ModelStoreNext]_modelStoreVars
-----------------------------------------------------------------------------

OnlySource(s) == \A t \in Sources : NameOf[t] = NameOf[s] => t = s

(* A registered model whose name has one source holds exactly the files of *)
(* that source, whatever was interrupted, resumed, failed or removed       *)
(* before: partial downloads never become models.                          *)
RegisteredIsWhole == \A e \in registered :
    OnlySource(e.source) => modelDir[<<e.name, e.version>>] = DirOf(e.source)

(* docs/model-system.md:42 promises an integrity check of what was         *)
(* downloaded, so no registered file mixes the chunks of two sources.      *)
FilesNotMixed == \A e \in registered, f \in FileNames :
    \A i, j \in DOMAIN modelDir[<<e.name, e.version>>][f] :
        modelDir[<<e.name, e.version>>][f][i] = modelDir[<<e.name, e.version>>][f][j]
=============================================================================
