-------------------------- MODULE ExperimentsProofs --------------------------
(***************************************************************************)
(* What the batch tools leave on the disk, for any matrix, any number of   *)
(* starts, failures and kills, and any edits of the scenarios.             *)
(***************************************************************************)
EXTENDS Experiments, SequenceTheorems, TLAPS

-----------------------------------------------------------------------------
(***************************************************************************)
(* The inductive invariant.                                                *)
(***************************************************************************)
Files == {Missing, Torn} \cup [by : Nat, tool : Tools, of : Nat]
Entries == [place : Places, status : {"success", "failed"}, hash : Nat]

\* Only what execute_batch writes in place is ever torn, and pm-sim batch writes no HTML.
FilesInv ==
  /\ files \in [Places -> [Artifacts -> Files]]
  /\ \A p \in Places, a \in Artifacts : files[p][a].by <= starts /\ (files[p][a] = Torn => a \in Reports)
  /\ \A p \in Places : Exists(files[p]["report.html"]) =>
       files[p]["report.html"].tool \in {"experiment", "directory"}

\* An experiment promises nothing that is written in place.
ManifestInv ==
  manifest = Missing \/ (/\ manifest.by \in 1 .. starts /\ manifest.entries \in Seq(Entries)
                         /\ manifest.outputs \subseteq Artifacts \ Reports)

TypeInv == starts \in Nat /\ scenario \in Nat /\ FilesInv /\ ManifestInv

Processes ==
  [tool : Tools, force : BOOLEAN, outputs : SUBSET Artifacts, jobs : Seq(Places),
   phase : {"hash", "execute", "write"}, left : SUBSET Artifacts,
   start : Nat, loaded : Nat, hash : Nat, entries : Seq(Entries), failed : BOOLEAN]

\* What a tool may be asked for: the HTML only with what it presents.
Asked(tool, outputs) ==
  /\ tool = "experiment" => outputs \cap Reports = {}
  /\ tool = "directory" => outputs \subseteq Reports \cup {"report.html"}
  /\ "report.html" \in outputs => tool # "batch" /\ Sources(tool) \subseteq outputs

ProcessInv ==
  Running =>
    /\ process \in Processes
    /\ process.start = starts /\ starts > 0
    /\ Asked(process.tool, process.outputs) /\ process.left \subseteq process.outputs
    /\ process.jobs = <<>> => process.tool = "experiment"

\* A file of this start, unless one that writes in place is at it.
Fresh(file) == file = Torn \/ file.by >= starts

\* The job at hand has written what it has not left, and the jobs that succeeded
\* all that was promised.
WorkInv ==
  Running =>
    /\ process.jobs # <<>> =>
         \A a \in process.outputs \ process.left : Fresh(files[Place][a])
    /\ \A i \in DOMAIN process.entries :
         process.entries[i].status = "success" =>
           \A a \in process.outputs : Fresh(files[process.entries[i].place][a])

\* Entries and jobs are the matrix, in its order; a failure is not forgotten.
MatrixInv ==
  Running /\ process.tool = "experiment" =>
    /\ Len(process.entries) + Len(process.jobs) = Len(Jobs)
    /\ \A i \in DOMAIN process.entries : process.entries[i].place = Jobs[i]
    /\ \A i \in DOMAIN process.jobs : process.jobs[i] = Jobs[Len(process.entries) + i]
    /\ ~process.failed =>
         \A i \in DOMAIN process.entries : process.entries[i].status = "success"

DiskInv == TypeInv /\ HtmlAfterSources /\ SuccessIsComplete
RunInv == ProcessInv /\ WorkInv /\ MatrixInv /\ AdmittedIsFree

Inv == DiskInv /\ RunInv /\ ZeroMeansAll

-----------------------------------------------------------------------------
(***************************************************************************)
(* The files of a job.                                                     *)
(***************************************************************************)
\* The HTML comes last.
LEMMA HtmlIsLast ==
  ASSUME NEW artifact \in Artifacts, Writing(artifact), artifact = "report.html",
         process.left \subseteq Artifacts
  PROVE  \A b \in process.left : b = "report.html"
<1>1. \A b \in process.left : Rank("report.html") <= Rank(b) /\ b \in Artifacts
  BY DEF Writing
<1>2. Rank("report.html") = 4
  BY DEF Rank
<1>3. \A b \in Artifacts : b # "report.html" => Rank(b) \in {1, 2, 3}
  BY DEF Artifacts, Results, Reports, Rank
<1> SUFFICES ASSUME NEW b \in process.left, b # "report.html"
             PROVE  FALSE
  OBVIOUS
<1>4. 4 <= Rank(b) /\ Rank(b) \in {1, 2, 3}
  BY <1>1, <1>2, <1>3
<1> QED
  BY <1>4

LEMMA ExperimentAsked ==
  ASSUME NEW formats \in Formats
  PROVE  /\ ExperimentOutputs(formats) \subseteq Artifacts
         /\ Asked("experiment", ExperimentOutputs(formats))
BY DEF ExperimentOutputs, Asked, Artifacts, Results, Reports, Sources

LEMMA DirectoryAsked ==
  ASSUME NEW formats \in Formats
  PROVE  /\ DirectoryOutputs(formats) \subseteq Artifacts
         /\ Asked("directory", DirectoryOutputs(formats))
<1>1. AskedBy("report.html") = {"html"}
  BY DEF AskedBy, Reports
<1>2. \A a \in Reports : "html" \in AskedBy(a)
  <2>1. "html" \in AskedBy("batch-report.json")
    BY DEF AskedBy, Reports
  <2>2. "html" \in AskedBy("batch-report-metadata.json")
    BY DEF AskedBy, Reports
  <2>3. "html" \in AskedBy("batch-report.csv")
    BY DEF AskedBy, Reports
  <2> QED
    BY <2>1, <2>2, <2>3 DEF Reports
<1>3. "report.html" \in DirectoryOutputs(formats) => Reports \subseteq DirectoryOutputs(formats)
  BY <1>1, <1>2 DEF DirectoryOutputs, Artifacts
<1>4. AskedBy("results.json") = {} /\ AskedBy("results.csv") = {}
  BY DEF AskedBy, Reports
<1>5. DirectoryOutputs(formats) \subseteq Reports \cup {"report.html"}
  BY <1>4 DEF DirectoryOutputs, Artifacts, Results
<1> QED
  BY <1>3, <1>5 DEF DirectoryOutputs, Asked, Sources

LEMMA BatchAsked ==
  ASSUME NEW artifact \in Artifacts \ {"report.html"}
  PROVE  {artifact} \subseteq Artifacts /\ Asked("batch", {artifact})
BY DEF Asked

\* The matrix is a sequence of its places, each of them once.
LEMMA JobsArePlaces ==
  Jobs \in Seq(Places) /\ Len(Jobs) \in Nat /\ Jobs = [i \in 1 .. Len(Jobs) |-> Jobs[i]]
BY ExperimentsAssumption DEF Places

\* The process, when there is one, and the place it is at.
LEMMA AtWork ==
  ASSUME Inv, Running
  PROVE  /\ process \in Processes /\ process.tool \in Tools
         /\ process.outputs \subseteq Artifacts /\ process.left \subseteq Artifacts
         /\ Asked(process.tool, process.outputs) /\ process.left \subseteq process.outputs
         /\ process.jobs = <<>> => process.tool = "experiment"
         /\ process.start = starts /\ starts > 0 /\ starts \in Nat
         /\ process.entries \in Seq(Entries) /\ process.jobs \in Seq(Places)
         /\ \A i \in DOMAIN process.entries : process.entries[i].place \in Places
         /\ process.jobs # <<>> =>
              Place \in Places /\ 1 \in DOMAIN process.jobs /\ Place = process.jobs[1]
<1>1. process \in Processes
  BY DEF Inv, RunInv, ProcessInv
<1>2. /\ process.tool \in Tools /\ process.outputs \subseteq Artifacts /\ process.left \subseteq Artifacts
      /\ process.entries \in Seq(Entries) /\ process.jobs \in Seq(Places)
  BY <1>1 DEF Processes
<1>3. \A i \in DOMAIN process.entries : process.entries[i] \in Entries
  BY <1>2
<1>4. \A i \in DOMAIN process.entries : process.entries[i].place \in Places
  BY <1>3 DEF Entries
<1> QED
  BY <1>1, <1>2, <1>4 DEF Inv, DiskInv, RunInv, ProcessInv, TypeInv, Place

\* A file that is there is of some start, up to the last one.
LEMMA FileNumbers ==
  ASSUME TypeInv, NEW p \in Places, NEW a \in Artifacts
  PROVE  files[p][a] \in Files /\ files[p][a].by \in Int /\ files[p][a].by <= starts
BY DEF TypeInv, FilesInv, Files, Missing, Torn

\* No job that is left after this one writes where it does.
LEMMA OtherPlaces ==
  ASSUME Inv, Running, process.tool = "experiment", process.jobs # <<>>,
         NEW i \in DOMAIN process.jobs, i # 1
  PROVE  process.jobs[i] \in Places /\ process.jobs[i] # Place
<1> DEFINE n == Len(process.entries)
           k == Len(process.jobs)
<1>1. /\ process.jobs \in Seq(Places) /\ process.entries \in Seq(Entries)
      /\ 1 \in DOMAIN process.jobs /\ Place = process.jobs[1]
      /\ Len(process.entries) + Len(process.jobs) = Len(Jobs)
      /\ \A j \in DOMAIN process.jobs : process.jobs[j] = Jobs[Len(process.entries) + j]
  BY AtWork DEF Inv, RunInv, MatrixInv
<1>2. n \in Nat /\ k \in Nat /\ n + k = Len(Jobs)
  <2>1. n \in Nat
    BY <1>1
  <2>2. k \in Nat
    BY <1>1
  <2>3. n + k = Len(Jobs)
    BY <1>1
  <2> QED
    BY <2>1, <2>2, <2>3
<1>6. i \in 1 .. k /\ 1 \in 1 .. k
  BY <1>1
<1>3. process.jobs[i] = Jobs[n + i] /\ Place = Jobs[n + 1]
  BY <1>1
<1> HIDE DEF n, k
<1>4. n + i \in DOMAIN Jobs /\ n + 1 \in DOMAIN Jobs /\ n + i # n + 1
  BY <1>2, <1>6, JobsArePlaces
<1>5. Jobs[n + i] # Jobs[n + 1]
  BY <1>4, ExperimentsAssumption
<1>7. process.jobs[i] \in Places
  BY <1>1
<1> QED
  BY <1>3, <1>5, <1>7

-----------------------------------------------------------------------------
(***************************************************************************)
(* Beginning and ending.                                                   *)
(***************************************************************************)
\* With one more start the files are no newer than before.
LEMMA SameDisk ==
  ASSUME DiskInv, UNCHANGED <<files, manifest>>, starts' = starts \/ starts' = starts + 1,
         scenario' \in Nat
  PROVE  DiskInv'
<1>1. starts \in Nat /\ starts' \in Nat /\ starts <= starts'
  BY DEF DiskInv, TypeInv
<1>2. FilesInv'
  <2>1. \A p \in Places, a \in Artifacts : files[p][a].by \in Int /\ files[p][a].by <= starts
    BY FileNumbers DEF DiskInv
  <2>2. \A p \in Places, a \in Artifacts : files'[p][a].by <= starts'
    BY <1>1, <2>1
  <2> QED
    BY <2>2 DEF DiskInv, TypeInv, FilesInv, Exists
<1>3. ManifestInv'
  BY <1>1 DEF DiskInv, TypeInv, ManifestInv
<1> QED
  BY <1>1, <1>2, <1>3 DEF DiskInv, TypeInv, HtmlAfterSources, SuccessIsComplete

\* A start that says no, a failure that ends the tool, and a kill.
LEMMA EndKeeps ==
  ASSUME Inv, process' = NotRunning, UNCHANGED <<scenario, files, manifest>>,
         starts' = starts \/ starts' = starts + 1,
         exit' = exit \/ exit'.status # 0 \/ exit'.of # "experiment"
  PROVE  Inv'
<1>1. DiskInv'
  BY SameDisk DEF Inv, DiskInv, TypeInv
<1>2. RunInv'
  BY DEF RunInv, ProcessInv, WorkInv, MatrixInv, AdmittedIsFree, Running
<1>3. ZeroMeansAll'
  BY DEF Inv, ZeroMeansAll
<1> QED
  BY <1>1, <1>2, <1>3 DEF Inv

LEMMA StartKeeps ==
  ASSUME Inv, NEW tool \in Tools, NEW force \in BOOLEAN, NEW outputs \in SUBSET Artifacts,
         Asked(tool, outputs), NEW jobs \in Seq(Places), jobs = <<>> => tool = "experiment",
         tool = "experiment" => jobs = Jobs /\ (Collision(outputs) => force),
         starts' = starts + 1, process' = NewProcess(tool, force, outputs, jobs),
         UNCHANGED <<scenario, files, manifest, exit>>
  PROVE  Inv'
<1>1. starts \in Nat /\ starts' \in Nat /\ starts' > 0
  BY DEF Inv, DiskInv, TypeInv
<1>2. DiskInv'
  BY SameDisk DEF Inv, DiskInv, TypeInv
<1>3. /\ process'.tool = tool /\ process'.outputs = outputs /\ process'.jobs = jobs
      /\ process'.left = outputs /\ process'.start = starts' /\ process'.force = force
      /\ process'.entries = <<>> /\ process'.failed = FALSE
  BY DEF NewProcess
<1>4. ProcessInv'
  <2>1. process' \in Processes
    BY <1>1 DEF NewProcess, Processes
  <2> QED
    BY <1>1, <1>3, <2>1 DEF ProcessInv
<1>5. WorkInv'
  BY <1>3 DEF WorkInv
<1>6. MatrixInv'
  BY <1>3, JobsArePlaces DEF MatrixInv
<1>7. AdmittedIsFree'
  <2> SUFFICES ASSUME tool = "experiment", ~force
               PROVE  /\ ~Exists(manifest)
                      /\ \A i \in DOMAIN jobs : \A a \in outputs : ~Exists(files[jobs[i]][a])
    BY <1>3 DEF AdmittedIsFree, Exists
  <2>1. ~Exists(manifest) /\ \A p \in Places, a \in outputs : ~Exists(files[p][a])
    BY DEF Collision
  <2>2. \A i \in DOMAIN jobs : jobs[i] \in Places
    OBVIOUS
  <2> QED
    BY <2>1, <2>2
<1>8. ZeroMeansAll'
  BY DEF Inv, ZeroMeansAll
<1> QED
  BY <1>2, <1>4, <1>5, <1>6, <1>7, <1>8 DEF Inv, RunInv

-----------------------------------------------------------------------------
(***************************************************************************)
(* Writing.                                                                *)
(***************************************************************************)
\* What was fresh stays fresh.
StaysFresh == \A p \in Places, a \in Artifacts : Fresh(files[p][a]) => Fresh(files'[p][a])

\* Files change in the place of the job at hand, and only what it has left to write.
OnlyLeft ==
  \A p \in Places, a \in Artifacts :
    files'[p][a] # files[p][a] => p = Place /\ a \in process.left

\* A file is emptied or written: what was fresh stays fresh, and the file is.
LEMMA WriteKeeps ==
  ASSUME Inv, Running, NEW place \in Places, NEW artifact \in Artifacts,
         NEW file \in {Torn, Written(process)}, file = Torn => artifact \in Reports,
         files' = [files EXCEPT ![place][artifact] = file],
         artifact = "report.html" =>
           /\ process.tool # "batch"
           /\ \A a \in Sources(process.tool) : Fresh(files[place][a]),
         UNCHANGED <<scenario, manifest, starts>>
  PROVE  /\ DiskInv'
         /\ \A p \in Places, a \in Artifacts : Fresh(files[p][a]) => Fresh(files'[p][a])
         /\ Fresh(files'[place][artifact])
<1>1. /\ TypeInv /\ starts \in Nat /\ starts > 0 /\ starts' = starts
      /\ Written(process) \in [by : Nat, tool : Tools, of : Nat]
      /\ Written(process).by = starts /\ Written(process).tool = process.tool
      /\ process.tool \in Tools
  BY AtWork DEF Inv, DiskInv, Processes, Written
<1>2. file \in Files /\ file.by \in Int /\ file.by <= starts /\ Fresh(file)
  BY <1>1 DEF Files, Torn, Fresh
<1>3. \A p \in Places, a \in Artifacts :
        files'[p][a] = IF p = place /\ a = artifact THEN file ELSE files[p][a]
  BY <1>1 DEF TypeInv, FilesInv
<1>4. files' \in [Places -> [Artifacts -> Files]]
  BY <1>1, <1>2 DEF TypeInv, FilesInv
<1>5. TypeInv'
  <2>1. \A p \in Places, a \in Artifacts : files'[p][a].by <= starts'
    BY <1>1, <1>2, <1>3, FileNumbers
  <2>2. \A p \in Places, a \in Artifacts : files'[p][a] = Torn => a \in Reports
    BY <1>1, <1>3 DEF TypeInv, FilesInv
  <2>3. starts' \in Nat /\ scenario' \in Nat /\ ManifestInv'
    BY <1>1 DEF TypeInv, ManifestInv
  <2>4. ASSUME NEW p \in Places, Exists(files'[p]["report.html"])
        PROVE  files'[p]["report.html"].tool \in {"experiment", "directory"}
    <3>1. "report.html" \in Artifacts /\ "report.html" \notin Reports
      BY DEF Artifacts, Reports
    <3>2. CASE p = place /\ artifact = "report.html"
      BY <1>1, <1>3, <3>1, <3>2 DEF Tools
    <3>3. CASE ~(p = place /\ artifact = "report.html")
      BY <1>1, <1>3, <2>4, <3>1, <3>3 DEF TypeInv, FilesInv, Exists
    <3> QED
      BY <3>2, <3>3
  <2> QED
    BY <1>4, <2>1, <2>2, <2>3, <2>4 DEF TypeInv, FilesInv, Exists
<1>6. \A p \in Places, a \in Artifacts : Fresh(files[p][a]) => Fresh(files'[p][a])
  BY <1>2, <1>3
<1>7. ASSUME NEW p \in Places, NEW a \in Artifacts, NEW least \in Int, least <= starts,
             files[p][a].by >= least
      PROVE  files'[p][a].by >= least \/ (files'[p][a] = Torn /\ a \in Reports)
  <2>1. file = Torn \/ file.by >= least
    BY <1>1, <1>2, <1>7 DEF Fresh
  <2> QED
    BY <1>3, <1>7, <2>1
<1>8. HtmlAfterSources'
  <2> SUFFICES ASSUME NEW p \in Places, Exists(files'[p]["report.html"]),
                      NEW a \in Sources(files'[p]["report.html"].tool)
               PROVE  \/ files'[p][a].by >= files'[p]["report.html"].by
                      \/ files'[p]["report.html"].tool = "directory" /\ files'[p][a] = Torn
    BY DEF HtmlAfterSources, Exists
  <2>1. /\ a \in Artifacts /\ "report.html" \in Artifacts /\ "report.html" \notin Reports
        /\ a # "report.html"
    BY DEF Sources, Artifacts, Results, Reports
  <2>2. CASE p = place /\ artifact = "report.html"
    <3>1. files'[p][a] = files[p][a] /\ files'[p]["report.html"] = file /\ file = Written(process)
      BY <1>3, <2>1, <2>2
    <3>2. a \in Sources(process.tool) /\ Fresh(files[p][a])
      BY <1>1, <2>2, <3>1
    <3>3. files[p][a] = Torn => process.tool = "directory"
      <4>1. files[p][a] = Torn => a \in Reports
        BY <1>1, <2>1 DEF TypeInv, FilesInv
      <4>2. a \in Reports => process.tool # "experiment"
        BY <3>2 DEF Sources, Results, Reports
      <4> QED
        BY <1>1, <2>2, <4>1, <4>2 DEF Tools
    <3> QED
      BY <1>1, <3>1, <3>2, <3>3 DEF Fresh
  <2>3. CASE ~(p = place /\ artifact = "report.html")
    <3>1. files'[p]["report.html"] = files[p]["report.html"]
      BY <1>3, <2>1, <2>3
    <3>2. files[p]["report.html"].by \in Int /\ files[p]["report.html"].by <= starts
      BY <1>1, <2>1, FileNumbers
    <3>3. \/ files[p][a].by >= files[p]["report.html"].by
          \/ files[p]["report.html"].tool = "directory" /\ files[p][a] = Torn
      BY <3>1 DEF Inv, DiskInv, HtmlAfterSources, Exists
    <3>4. CASE files[p][a].by >= files[p]["report.html"].by
      <4>1. \/ files'[p][a].by >= files[p]["report.html"].by
            \/ files'[p][a] = Torn /\ a \in Reports
        BY <1>7, <2>1, <3>2, <3>4
      <4>2. a \in Reports => files[p]["report.html"].tool # "experiment"
        BY <3>1 DEF Sources, Results, Reports
      <4>3. files[p]["report.html"].tool \in {"experiment", "directory"}
        BY <1>1, <3>1 DEF TypeInv, FilesInv, Exists
      <4>4. a \in Reports => files[p]["report.html"].tool = "directory"
        BY <4>2, <4>3
      <4> QED
        BY <3>1, <4>1, <4>4
    <3>5. CASE files[p]["report.html"].tool = "directory" /\ files[p][a] = Torn
      <4>1. file = Torn \/ file.by >= files[p]["report.html"].by
        BY <1>1, <1>2, <3>2 DEF Fresh
      <4>2. files'[p][a] = Torn \/ files'[p][a].by >= files[p]["report.html"].by
        BY <1>3, <2>1, <3>5, <4>1
      <4> QED
        BY <3>1, <3>5, <4>2
    <3> QED
      BY <3>3, <3>4, <3>5
  <2> QED
    BY <2>2, <2>3
<1>9. SuccessIsComplete'
  <2> SUFFICES ASSUME Exists(manifest'), NEW i \in DOMAIN manifest'.entries,
                      manifest'.entries[i].status = "success", NEW a \in manifest'.outputs
               PROVE  files'[manifest'.entries[i].place][a].by >= manifest'.by
    BY DEF SuccessIsComplete
  <2>1. /\ manifest' = manifest /\ manifest.by \in 1 .. starts /\ manifest.entries \in Seq(Entries)
        /\ a \in Artifacts /\ a \notin Reports
    BY <1>1 DEF TypeInv, ManifestInv, Exists
  <2>2. manifest.entries[i].place \in Places
    <3>1. manifest.entries[i] \in Entries
      BY <2>1
    <3> QED
      BY <3>1 DEF Entries
  <2>3. files[manifest.entries[i].place][a].by >= manifest.by
    BY <2>1 DEF Inv, DiskInv, SuccessIsComplete
  <2> QED
    BY <1>1, <1>7, <2>1, <2>2, <2>3
<1> QED
  BY <1>2, <1>3, <1>5, <1>6, <1>8, <1>9 DEF DiskInv

-----------------------------------------------------------------------------
(***************************************************************************)
(* Going on.                                                               *)
(***************************************************************************)
\* The process later in its job.
Later(q) ==
  /\ q \in Processes /\ q.left \subseteq process.left
  /\ q.tool = process.tool /\ q.force = process.force /\ q.outputs = process.outputs
  /\ q.start = process.start /\ q.jobs = process.jobs
  /\ q.entries = process.entries /\ q.failed = process.failed

\* The exit status is about the same manifest as before.
LEMMA SameExit ==
  ASSUME Inv, UNCHANGED <<manifest, exit>>
  PROVE  ZeroMeansAll'
BY DEF Inv, ZeroMeansAll

\* What jobs before this one have promised is still there.
LEMMA EntriesKeep ==
  ASSUME Inv, Running, StaysFresh, NEW i \in DOMAIN process.entries,
         process.entries[i].status = "success", NEW a \in process.outputs
  PROVE  Fresh(files'[process.entries[i].place][a])
<1>1. Fresh(files[process.entries[i].place][a])
  BY DEF Inv, RunInv, WorkInv
<1>2. a \in Artifacts /\ process.entries[i].place \in Places
  BY AtWork
<1> QED
  BY <1>1, <1>2 DEF StaysFresh

\* A job goes on with what it has left.
LEMMA SameJobKeeps ==
  ASSUME Inv, Running, process.jobs # <<>>, NEW q, Later(q), process' = q,
         UNCHANGED <<manifest, starts, exit>>, DiskInv', StaysFresh,
         \A p \in Places, a \in Artifacts :
           files'[p][a] # files[p][a] => p = Place /\ a \in process.left /\ a \notin q.left,
         \A a \in process.left \ q.left : Fresh(files'[Place][a])
  PROVE  Inv'
<1>1. /\ process.outputs \subseteq Artifacts /\ process.left \subseteq Artifacts
      /\ Asked(process.tool, process.outputs) /\ process.start = starts /\ starts > 0
      /\ Place \in Places /\ process.jobs \in Seq(Places) /\ Place = process.jobs[1]
  BY AtWork
<1>2. /\ q \in Processes /\ q.left \subseteq process.left
      /\ process.left \subseteq process.outputs
      /\ process.jobs = <<>> => process.tool = "experiment"
      /\ process'.tool = process.tool /\ process'.force = process.force
      /\ process'.outputs = process.outputs /\ process'.left = q.left
      /\ process'.start = starts /\ process'.jobs = process.jobs
      /\ process'.entries = process.entries /\ process'.failed = process.failed
  BY <1>1, AtWork DEF Later
<1>3. ProcessInv'
  BY <1>1, <1>2 DEF ProcessInv
<1>4. WorkInv'
  <2>1. ASSUME NEW a \in process.outputs \ q.left
        PROVE  Fresh(files[Place][a])'
    <3>1. Fresh(files'[Place][a])
      BY <1>1, <2>1 DEF Inv, RunInv, WorkInv, StaysFresh
    <3>2. Place' = Place
      BY <1>2 DEF Place
    <3> QED
      BY <3>1, <3>2 DEF Fresh
  <2>2. ASSUME NEW i \in DOMAIN process.entries, process.entries[i].status = "success",
               NEW a \in process.outputs
        PROVE  Fresh(files[process.entries[i].place][a])'
    <3>1. Fresh(files'[process.entries[i].place][a])
      BY <2>2, EntriesKeep
    <3> QED
      BY <1>2, <3>1 DEF Fresh
  <2> QED
    BY <1>2, <2>1, <2>2 DEF WorkInv
<1>5. MatrixInv'
  <2>1. Running' => Running
    OBVIOUS
  <2> QED
    BY <1>2, <2>1 DEF Inv, RunInv, MatrixInv
<1>6. AdmittedIsFree'
  <2> SUFFICES ASSUME process.tool = "experiment", ~process.force
               PROVE  /\ ~Exists(manifest)
                      /\ \A i \in DOMAIN process.jobs :
                           \A a \in (IF i = 1 THEN q.left ELSE process.outputs) :
                             ~Exists(files'[process.jobs[i]][a])
    BY <1>2 DEF AdmittedIsFree, Exists
  <2>1. /\ ~Exists(manifest)
        /\ \A i \in DOMAIN process.jobs :
             \A a \in (IF i = 1 THEN process.left ELSE process.outputs) :
               ~Exists(files[process.jobs[i]][a])
    BY DEF Inv, RunInv, AdmittedIsFree
  <2>2. ASSUME NEW i \in DOMAIN process.jobs,
               NEW a \in (IF i = 1 THEN q.left ELSE process.outputs)
        PROVE  ~Exists(files'[process.jobs[i]][a])
    <3>1. CASE i = 1
      <4>1. a \in q.left /\ a \in process.left /\ a \in Artifacts
        BY <1>1, <1>2, <2>2, <3>1
      <4>2. files'[Place][a] = files[Place][a]
        BY <1>1, <4>1
      <4> QED
        BY <1>1, <2>1, <3>1, <4>1, <4>2 DEF Exists
    <3>2. CASE i # 1
      <4>1. process.jobs[i] \in Places /\ process.jobs[i] # Place
        BY <3>2, OtherPlaces
      <4>2. a \in process.outputs /\ a \in Artifacts
        BY <1>1, <2>2, <3>2
      <4>3. files'[process.jobs[i]][a] = files[process.jobs[i]][a]
        BY <4>1, <4>2
      <4> QED
        BY <2>1, <2>2, <3>2, <4>2, <4>3 DEF Exists
    <3> QED
      BY <3>1, <3>2
  <2> QED
    BY <2>1, <2>2
<1>7. ZeroMeansAll'
  BY SameExit
<1> QED
  BY <1>3, <1>4, <1>5, <1>6, <1>7 DEF Inv, RunInv

\* The next job begins: the entry of the last one is its place's, and a success
\* only with all that was promised.
LEMMA NextJobKeeps ==
  ASSUME Inv, Running, process.tool = "experiment", process.jobs # <<>>,
         NEW q, Later(q), NEW status \in {"success", "failed"},
         process' = NextJob(q, status), UNCHANGED <<manifest, starts, exit>>,
         DiskInv', StaysFresh, OnlyLeft,
         status = "success" => \A a \in process.outputs : Fresh(files'[Place][a])
  PROVE  Inv'
<1> DEFINE entry == Entry(q, status)
<1>1. /\ process.entries \in Seq(Entries) /\ process.jobs \in Seq(Places) /\ Place \in Places
      /\ 1 \in DOMAIN process.jobs /\ Place = process.jobs[1]
      /\ process.outputs \subseteq Artifacts /\ Asked(process.tool, process.outputs)
      /\ q \in Processes /\ q.entries = process.entries /\ q.jobs = process.jobs
      /\ q.tool = process.tool /\ q.force = process.force /\ q.outputs = process.outputs
      /\ q.failed = process.failed /\ q.start = starts /\ starts > 0 /\ starts \in Nat
  BY AtWork DEF Later
<1>2. entry \in Entries /\ entry.place = Place /\ entry.status = status
  BY <1>1 DEF Entry, Entries, Processes, Place
<1> HIDE DEF entry
<1>3. process' = [q EXCEPT !.entries = Append(@, entry), !.jobs = Tail(@), !.phase = "hash",
                           !.left = q.outputs, !.failed = @ \/ status = "failed"]
  BY DEF NextJob, entry
<1>4. /\ process'.entries = Append(process.entries, entry) /\ process'.jobs = Tail(process.jobs)
      /\ process'.tool = process.tool /\ process'.force = process.force
      /\ process'.outputs = process.outputs /\ process'.left = process.outputs
      /\ process'.start = starts
      /\ process'.failed = (process.failed \/ status = "failed")
  BY <1>1, <1>3 DEF Processes
<1>5. /\ Append(process.entries, entry) \in Seq(Entries) /\ Tail(process.jobs) \in Seq(Places)
  BY <1>1, <1>2
<1>6. process' \in Processes
  <2> DEFINE entries == Append(q.entries, entry)
             jobs == Tail(q.jobs)
             failed == q.failed \/ status = "failed"
  <2>1. entries \in Seq(Entries) /\ jobs \in Seq(Places) /\ q.outputs \in SUBSET Artifacts
    BY <1>1, <1>5
  <2>2. failed \in BOOLEAN
    OBVIOUS
  <2>3. process' = [q EXCEPT !.entries = entries, !.jobs = jobs, !.phase = "hash",
                             !.left = q.outputs, !.failed = failed]
    BY <1>3
  <2> HIDE DEF entries, jobs, failed
  <2> QED
    BY <1>1, <2>1, <2>2, <2>3 DEF Processes
<1>7. ProcessInv'
  BY <1>1, <1>4, <1>6 DEF ProcessInv
<1>8. \A i \in DOMAIN process'.entries :
        \/ i \in DOMAIN process.entries /\ process'.entries[i] = process.entries[i]
        \/ i = Len(process.entries) + 1 /\ process'.entries[i] = entry
  BY <1>1, <1>2, <1>4
<1>9. WorkInv'
  <2>1. ASSUME NEW i \in DOMAIN process'.entries, process'.entries[i].status = "success",
               NEW a \in process.outputs
        PROVE  Fresh(files'[process'.entries[i].place][a])
    <3>1. CASE i \in DOMAIN process.entries /\ process'.entries[i] = process.entries[i]
      BY <2>1, <3>1, EntriesKeep
    <3>2. CASE process'.entries[i] = entry
      BY <1>2, <2>1, <3>2
    <3> QED
      BY <1>8, <3>1, <3>2
  <2>2. ASSUME NEW i \in DOMAIN process'.entries, process'.entries[i].status = "success",
               NEW a \in process.outputs
        PROVE  Fresh(files[process.entries[i].place][a])'
    <3>1. Fresh(files'[process'.entries[i].place][a])
      BY <2>1, <2>2
    <3> QED
      BY <3>1 DEF Fresh
  <2> QED
    BY <1>4, <2>2 DEF WorkInv
<1>10. /\ Len(process'.entries) = Len(process.entries) + 1
       /\ Len(process'.jobs) = Len(process.jobs) - 1
       /\ Len(process.entries) \in Nat /\ Len(process.jobs) \in Nat
       /\ \A i \in DOMAIN process'.jobs :
            i \in Nat /\ i # 0 /\ i + 1 \in DOMAIN process.jobs
              /\ process'.jobs[i] = process.jobs[i + 1]
  BY <1>1, <1>2, <1>4
<1>11. MatrixInv'
  <2>1. /\ Len(process.entries) + Len(process.jobs) = Len(Jobs)
        /\ \A i \in DOMAIN process.entries : process.entries[i].place = Jobs[i]
        /\ \A i \in DOMAIN process.jobs : process.jobs[i] = Jobs[Len(process.entries) + i]
        /\ ~process.failed =>
             \A i \in DOMAIN process.entries : process.entries[i].status = "success"
    BY DEF Inv, RunInv, MatrixInv
  <2> DEFINE n == Len(process.entries)
             m == Len(process'.entries)
             k == Len(process.jobs)
             l == Len(process'.jobs)
  <2>2. m = n + 1 /\ l = k - 1 /\ n \in Nat /\ k \in Nat /\ n + k = Len(Jobs)
    BY <1>10, <2>1
  <2>3. \A i \in DOMAIN process'.entries : process'.entries[i].place = Jobs[i]
    <3>1. Place = Jobs[Len(process.entries) + 1]
      BY <1>1, <2>1
    <3> QED
      BY <1>2, <1>8, <2>1, <3>1
  <2>4. \A i \in DOMAIN process'.jobs : process'.jobs[i] = Jobs[Len(process'.entries) + i]
    <3> TAKE i \in DOMAIN process'.jobs
    <3>1. i \in Nat
      BY <1>10
    <3>2. Len(process'.entries) + i = Len(process.entries) + (i + 1)
      <4> HIDE DEF n, m
      <4>1. m + i = n + (i + 1)
        BY <2>2, <3>1
      <4> QED
        BY <4>1 DEF n, m
    <3> QED
      BY <1>10, <2>1, <3>2
  <2>5. ~process'.failed =>
          \A i \in DOMAIN process'.entries : process'.entries[i].status = "success"
    BY <1>2, <1>4, <1>8, <2>1
  <2>6. Len(process'.entries) + Len(process'.jobs) = Len(Jobs)
    <3> HIDE DEF n, m, k, l
    <3>1. m + l = Len(Jobs)
      BY <2>2
    <3> QED
      BY <3>1 DEF m, l
  <2> QED
    BY <2>3, <2>4, <2>5, <2>6 DEF MatrixInv
<1>12. AdmittedIsFree'
  <2> SUFFICES ASSUME ~process.force
               PROVE  /\ ~Exists(manifest)
                      /\ \A i \in DOMAIN process'.jobs : \A a \in process.outputs :
                           ~Exists(files'[process'.jobs[i]][a])
    BY <1>4 DEF AdmittedIsFree, Exists
  <2>1. /\ ~Exists(manifest)
        /\ \A i \in DOMAIN process.jobs :
             \A a \in (IF i = 1 THEN process.left ELSE process.outputs) :
               ~Exists(files[process.jobs[i]][a])
    BY DEF Inv, RunInv, AdmittedIsFree
  <2>2. ASSUME NEW i \in DOMAIN process'.jobs, NEW a \in process.outputs
        PROVE  ~Exists(files'[process'.jobs[i]][a])
    <3> DEFINE j == i + 1
    <3>1. j \in DOMAIN process.jobs /\ j # 1 /\ process'.jobs[i] = process.jobs[j]
      BY <1>10, <2>2
    <3> HIDE DEF j
    <3>2. process.jobs[j] \in Places /\ process.jobs[j] # Place
      BY <3>1, OtherPlaces
    <3>3. a \in Artifacts
      BY <1>1
    <3>4. files'[process.jobs[j]][a] = files[process.jobs[j]][a]
      BY <3>2, <3>3 DEF OnlyLeft
    <3> QED
      BY <2>1, <3>1, <3>4 DEF Exists
  <2> QED
    BY <2>1, <2>2
<1>13. ZeroMeansAll'
  BY SameExit
<1> QED
  BY <1>7, <1>9, <1>11, <1>12, <1>13 DEF Inv, RunInv

\* A failure writes nothing; an experiment goes on with the next job.
LEMMA FailKeeps ==
  ASSUME Inv, Running, process.jobs # <<>>, NEW status \in {1, 2}, Fail(status)
  PROVE  Inv'
<1>1. CASE process.tool = "experiment"
  <2>1. /\ process' = NextJob(process, "failed")
        /\ UNCHANGED <<exit, scenario, files, manifest, starts>>
    BY <1>1 DEF Fail, disk
  <2>2. Later(process) /\ StaysFresh /\ OnlyLeft
    BY <2>1, AtWork DEF Later, StaysFresh, OnlyLeft
  <2>3. DiskInv'
    BY <2>1, SameDisk DEF Inv, DiskInv, TypeInv
  <2> QED
    BY <1>1, <2>1, <2>2, <2>3, NextJobKeeps
<1>2. CASE process.tool # "experiment"
  <2>1. /\ process' = NotRunning /\ exit'.status # 0
        /\ UNCHANGED <<scenario, files, manifest, starts>>
    BY <1>2 DEF Fail, Exit, disk
  <2> QED
    BY <2>1, EndKeeps
<1> QED
  BY <1>1, <1>2

-----------------------------------------------------------------------------
(***************************************************************************)
(* The actions.                                                            *)
(***************************************************************************)
LEMMA HashScenarioKeeps ==
  ASSUME Inv, HashScenario
  PROVE  Inv'
<1>1. Running /\ process.jobs # <<>>
  BY DEF HashScenario, Doing
<1>2. CASE Fail(1)
  BY <1>1, <1>2, FailKeeps
<1>3. CASE ~Fail(1)
  <2> DEFINE q == [process EXCEPT !.hash = scenario, !.phase = "execute"]
  <2>1. process' = q /\ UNCHANGED <<scenario, files, manifest, starts, exit>>
    BY <1>3 DEF HashScenario, disk
  <2>2. scenario \in Nat /\ process \in Processes
    BY <1>1, AtWork DEF Inv, DiskInv, TypeInv
  <2>3. Later(q) /\ q.left = process.left
    BY <2>2 DEF Later, Processes
  <2>4. DiskInv' /\ StaysFresh
    BY <2>1, SameDisk DEF Inv, DiskInv, TypeInv, StaysFresh
  <2> HIDE DEF q
  <2> QED
    BY <1>1, <2>1, <2>3, <2>4, SameJobKeeps
<1> QED
  BY <1>2, <1>3

LEMMA ExecuteKeeps ==
  ASSUME Inv, Execute
  PROVE  Inv'
<1>1. Running /\ process.jobs # <<>>
  BY DEF Execute, Doing
<1>2. CASE Fail(2)
  BY <1>1, <1>2, FailKeeps
<1>3. CASE ~Fail(2)
  <2> DEFINE q == [process EXCEPT !.loaded = scenario, !.phase = "write"]
  <2>1. process' = q /\ UNCHANGED <<scenario, files, manifest, starts, exit>>
    BY <1>3 DEF Execute, disk
  <2>2. scenario \in Nat /\ process \in Processes
    BY <1>1, AtWork DEF Inv, DiskInv, TypeInv
  <2>3. Later(q) /\ q.left = process.left
    BY <2>2 DEF Later, Processes
  <2>4. DiskInv' /\ StaysFresh
    BY <2>1, SameDisk DEF Inv, DiskInv, TypeInv, StaysFresh
  <2> HIDE DEF q
  <2> QED
    BY <1>1, <2>1, <2>3, <2>4, SameJobKeeps
<1> QED
  BY <1>2, <1>3

\* A file is written in its turn: the HTML after all that it presents.
LEMMA InTurn ==
  ASSUME Inv, NEW artifact \in Artifacts, Writing(artifact), artifact = "report.html"
  PROVE  /\ process.tool # "batch"
         /\ \A a \in Sources(process.tool) : Fresh(files[Place][a])
<1>1. /\ Running /\ process.jobs # <<>> /\ process.left \subseteq Artifacts
      /\ Asked(process.tool, process.outputs) /\ process.left \subseteq process.outputs
  BY AtWork DEF Writing, Doing
<1>2. artifact \in process.left /\ \A b \in process.left : b = "report.html"
  BY <1>1, HtmlIsLast DEF Writing
<1>3. artifact \in process.outputs
  BY <1>1, <1>2
<1>4. process.tool # "batch" /\ Sources(process.tool) \subseteq process.outputs
  BY <1>1, <1>3 DEF Asked
<1>5. "report.html" \notin Sources(process.tool)
  BY DEF Sources, Results, Reports
<1>6. Sources(process.tool) \subseteq process.outputs \ process.left
  BY <1>2, <1>4, <1>5
<1> QED
  BY <1>1, <1>4, <1>6 DEF Inv, RunInv, WorkInv

\* A file is written, and with the last one the job is done.
LEMMA PublishKeeps ==
  ASSUME Inv, NEW artifact \in Artifacts, Writing(artifact), Publish(artifact)
  PROVE  Inv'
<1> DEFINE q == [process EXCEPT !.left = @ \ {artifact}]
           place == Place
           file == Written(process)
<1>1. /\ Running /\ process.jobs # <<>> /\ Place \in Places /\ process \in Processes
      /\ artifact \in process.left /\ process.left \subseteq Artifacts
      /\ process.outputs \subseteq Artifacts /\ process.tool \in Tools
  BY AtWork DEF Writing, Doing
<1>2. /\ files' = [files EXCEPT ![Place][artifact] = Written(process)]
      /\ Done(q) /\ UNCHANGED <<scenario, manifest, starts>>
  BY DEF Publish
<1>3. Later(q) /\ q.left = process.left \ {artifact}
  BY <1>1 DEF Later, Processes
<1>4. DiskInv' /\ StaysFresh /\ Fresh(files'[Place][artifact])
  <2>1. /\ files' = [files EXCEPT ![place][artifact] = file]
        /\ artifact = "report.html" =>
             /\ process.tool # "batch"
             /\ \A a \in Sources(process.tool) : Fresh(files[place][a])
        /\ place \in Places /\ file \in {Torn, Written(process)}
    BY <1>1, <1>2, InTurn
  <2>2. file # Torn
    <3>1. process.start = starts /\ starts > 0 /\ starts \in Nat
      BY <1>1, AtWork
    <3>2. file.by > 0 /\ Torn.by = -1
      BY <3>1 DEF Written, Torn
    <3> HIDE DEF file
    <3> QED
      BY <3>2
  <2> HIDE DEF place, file
  <2>3. /\ DiskInv'
        /\ \A p \in Places, a \in Artifacts : Fresh(files[p][a]) => Fresh(files'[p][a])
        /\ Fresh(files'[place][artifact])
    BY <1>1, <1>2, <2>1, <2>2, WriteKeeps
  <2> QED
    BY <2>3 DEF StaysFresh, place
<1>5. \A p \in Places, a \in Artifacts :
        files'[p][a] # files[p][a] => p = Place /\ a = artifact
  BY <1>2 DEF Inv, DiskInv, TypeInv, FilesInv
<1>6. OnlyLeft
  BY <1>1, <1>5 DEF OnlyLeft
<1>7. \A a \in process.outputs \ q.left : Fresh(files'[Place][a])
  BY <1>1, <1>3, <1>4 DEF Inv, RunInv, WorkInv, StaysFresh
<1> HIDE DEF q
<1>8. CASE q.left # {}
  <2>1. process' = q /\ exit' = exit
    BY <1>2, <1>8 DEF Done
  <2>2. \A p \in Places, a \in Artifacts :
          files'[p][a] # files[p][a] => p = Place /\ a \in process.left /\ a \notin q.left
    BY <1>1, <1>3, <1>5
  <2>3. \A a \in process.left \ q.left : Fresh(files'[Place][a])
    BY <1>3, <1>4
  <2> QED
    BY <1>1, <1>2, <1>3, <1>4, <2>1, <2>2, <2>3, SameJobKeeps
<1>9. CASE q.left = {} /\ process.tool = "experiment"
  <2>1. process' = NextJob(q, "success") /\ exit' = exit
    BY <1>2, <1>3, <1>9 DEF Done, Later
  <2>2. \A a \in process.outputs : Fresh(files'[Place][a])
    BY <1>7, <1>9
  <2> QED
    BY <1>1, <1>2, <1>3, <1>4, <1>6, <1>9, <2>1, <2>2, NextJobKeeps
<1>10. CASE q.left = {} /\ process.tool # "experiment"
  <2>1. process' = NotRunning /\ exit'.of # "experiment"
    BY <1>2, <1>3, <1>10 DEF Done, Exit, Later
  <2>2. RunInv' /\ ZeroMeansAll'
    BY <2>1 DEF RunInv, ProcessInv, WorkInv, MatrixInv, AdmittedIsFree, ZeroMeansAll, Running
  <2> QED
    BY <1>4, <2>2 DEF Inv
<1> QED
  BY <1>8, <1>9, <1>10

LEMMA WriteAtomicallyKeeps ==
  ASSUME Inv, NEW artifact \in Artifacts, WriteAtomically(artifact)
  PROVE  Inv'
<1>1. Writing(artifact) /\ Running /\ process.jobs # <<>>
  BY DEF WriteAtomically, Writing, Doing
<1>2. Publish(artifact) \/ Fail(1)
  BY DEF WriteAtomically
<1> QED
  BY <1>1, <1>2, PublishKeeps, FailKeeps

LEMMA FillKeeps ==
  ASSUME Inv, NEW artifact \in Artifacts, Fill(artifact)
  PROVE  Inv'
<1>1. Writing(artifact) /\ Running /\ process.jobs # <<>>
  BY DEF Fill, Writing, Doing
<1>2. Publish(artifact) \/ Fail(1)
  BY DEF Fill
<1> QED
  BY <1>1, <1>2, PublishKeeps, FailKeeps

LEMMA TruncateKeeps ==
  ASSUME Inv, NEW artifact \in Artifacts, Truncate(artifact)
  PROVE  Inv'
<1>1. /\ Running /\ process.jobs # <<>> /\ artifact \in process.left
      /\ process.tool = "directory" /\ artifact # "report.html"
      /\ Place \in Places /\ process \in Processes
      /\ process.left \subseteq process.outputs /\ Asked(process.tool, process.outputs)
  BY AtWork DEF Truncate, Writing, Doing
<1>2. CASE Fail(1)
  BY <1>1, <1>2, FailKeeps
<1>3. CASE ~Fail(1)
  <2>1. /\ files' = [files EXCEPT ![Place][artifact] = Torn]
        /\ UNCHANGED <<scenario, manifest, process, starts, exit>>
    BY <1>3 DEF Truncate
  <2>2. DiskInv' /\ StaysFresh
    <3> DEFINE place == Place
               file == Torn
    <3>1. /\ files' = [files EXCEPT ![place][artifact] = file]
          /\ place \in Places /\ file \in {Torn, Written(process)}
          /\ artifact \in Reports
      BY <1>1, <2>1 DEF Asked
    <3> HIDE DEF place, file
    <3>2. /\ DiskInv'
          /\ \A p \in Places, a \in Artifacts : Fresh(files[p][a]) => Fresh(files'[p][a])
      BY <1>1, <2>1, <3>1, WriteKeeps
    <3> QED
      BY <3>2 DEF StaysFresh
  <2>3. ProcessInv' /\ MatrixInv' /\ AdmittedIsFree' /\ ZeroMeansAll'
    BY <1>1, <2>1 DEF Inv, RunInv, ProcessInv, MatrixInv, AdmittedIsFree, ZeroMeansAll, Running
  <2>4. WorkInv'
    <3>1. ASSUME NEW a \in process.outputs \ process.left
          PROVE  Fresh(files[Place][a])'
      <4>1. Fresh(files'[Place][a])
        <5>1. a \in Artifacts
          BY <1>1, AtWork
        <5>2. Fresh(files[Place][a])
          BY <1>1 DEF Inv, RunInv, WorkInv
        <5> QED
          BY <1>1, <2>2, <5>1, <5>2 DEF StaysFresh
      <4>2. Place' = Place
        BY <2>1 DEF Place
      <4> QED
        BY <2>1, <4>1, <4>2 DEF Fresh
    <3>2. ASSUME NEW i \in DOMAIN process.entries, process.entries[i].status = "success",
                 NEW a \in process.outputs
          PROVE  Fresh(files[process.entries[i].place][a])'
      <4>1. Fresh(files'[process.entries[i].place][a])
        BY <1>1, <2>2, <3>2, EntriesKeep
      <4> QED
        BY <2>1, <4>1 DEF Fresh
    <3> QED
      BY <2>1, <3>1, <3>2 DEF WorkInv
  <2> QED
    BY <2>2, <2>3, <2>4 DEF Inv, RunInv
<1> QED
  BY <1>2, <1>3

\* The manifest tells what has become of the jobs, and 0 that all were done.
LEMMA WriteManifestKeeps ==
  ASSUME Inv, WriteManifest
  PROVE  Inv'
<1>1. /\ Running /\ process.jobs = <<>> /\ process' = NotRunning
      /\ process.tool = "experiment"
      /\ UNCHANGED <<scenario, files, starts>>
  BY AtWork DEF WriteManifest, Exit
<1>2. CASE exit'.status = 1 /\ UNCHANGED manifest
  BY <1>1, <1>2, EndKeeps
<1>3. CASE /\ manifest' = [by |-> process.start, outputs |-> process.outputs,
                           entries |-> process.entries]
           /\ Exit(process, IF process.failed THEN 1 ELSE 0)
  <2>1. /\ process.entries \in Seq(Entries) /\ process.start = starts
        /\ starts > 0 /\ starts \in Nat /\ process.outputs \subseteq Artifacts \ Reports
        /\ \A i \in DOMAIN process.entries : process.entries[i].place \in Places
    BY <1>1, AtWork DEF Asked
  <2>2. /\ manifest'.by = starts /\ manifest'.entries = process.entries
        /\ manifest'.outputs = process.outputs
        /\ exit'.of = process.tool /\ exit'.start = starts
        /\ exit'.status = 0 => ~process.failed
    BY <1>3, <2>1 DEF Exit
  <2>3. TypeInv'
    <3>1. FilesInv'
      BY <1>1 DEF Inv, DiskInv, TypeInv, FilesInv, Exists
    <3>2. ManifestInv'
      BY <1>1, <2>1, <2>2 DEF ManifestInv
    <3> QED
      BY <1>1, <3>1, <3>2 DEF Inv, DiskInv, TypeInv
  <2>4. RunInv'
    BY <1>1 DEF RunInv, ProcessInv, WorkInv, MatrixInv, AdmittedIsFree, Running
  <2>5. HtmlAfterSources'
    BY <1>1 DEF Inv, DiskInv, HtmlAfterSources, Exists
  <2>6. SuccessIsComplete'
    <3>1. ASSUME NEW i \in DOMAIN process.entries, process.entries[i].status = "success",
                 NEW a \in process.outputs
          PROVE  files[process.entries[i].place][a].by >= starts
      <4>1. Fresh(files[process.entries[i].place][a])
        BY <1>1, <3>1 DEF Inv, RunInv, WorkInv
      <4>2. files[process.entries[i].place][a] # Torn
        BY <2>1 DEF Inv, DiskInv, TypeInv, FilesInv
      <4> QED
        BY <4>1, <4>2 DEF Fresh
    <3> QED
      BY <1>1, <2>2, <3>1 DEF SuccessIsComplete
  <2>7. ZeroMeansAll'
    <3> SUFFICES ASSUME process.tool = "experiment", ~process.failed
                 PROVE  /\ [i \in DOMAIN process.entries |-> process.entries[i].place] = Jobs
                        /\ \A i \in DOMAIN process.entries : process.entries[i].status = "success"
      BY <2>2 DEF ZeroMeansAll
    <3>1. /\ Len(process.entries) + Len(process.jobs) = Len(Jobs)
          /\ \A i \in DOMAIN process.entries : process.entries[i].place = Jobs[i]
          /\ \A i \in DOMAIN process.entries : process.entries[i].status = "success"
      BY <1>1 DEF Inv, RunInv, MatrixInv
    <3>2. Len(process.entries) = Len(Jobs) /\ DOMAIN process.entries = 1 .. Len(Jobs)
      BY <1>1, <2>1, <3>1
    <3>3. Jobs = [i \in 1 .. Len(Jobs) |-> Jobs[i]]
      BY JobsArePlaces
    <3>4. [i \in DOMAIN process.entries |-> process.entries[i].place] = [i \in 1 .. Len(Jobs) |-> Jobs[i]]
      BY <3>1, <3>2
    <3> QED
      BY <3>1, <3>3, <3>4
  <2> QED
    BY <2>3, <2>4, <2>5, <2>6, <2>7 DEF Inv, DiskInv
<1> QED
  BY <1>2, <1>3 DEF WriteManifest, Exit

LEMMA StartExperimentKeeps ==
  ASSUME Inv, NEW force \in BOOLEAN, NEW formats \in Formats,
         StartExperiment(force, ExperimentOutputs(formats))
  PROVE  Inv'
<1> DEFINE outputs == ExperimentOutputs(formats)
           p == NewProcess("experiment", force, outputs, Jobs)
<1>1. starts' = starts + 1 /\ UNCHANGED <<scenario, files, manifest>>
  BY DEF StartExperiment, disk
<1>2. CASE Exit(p, 2)
  <2>1. process' = NotRunning /\ exit'.status # 0
    BY <1>2 DEF Exit
  <2> QED
    BY <1>1, <2>1, EndKeeps
<1>3. CASE (Collision(outputs) => force) /\ process' = p /\ UNCHANGED exit
  <2>1. outputs \in SUBSET Artifacts /\ Asked("experiment", outputs)
    BY ExperimentAsked
  <2>2. Jobs \in Seq(Places) /\ "experiment" \in Tools
    BY JobsArePlaces DEF Tools
  <2> HIDE DEF outputs
  <2> QED
    BY <1>1, <1>3, <2>1, <2>2, StartKeeps
<1> QED
  BY <1>2, <1>3 DEF StartExperiment

LEMMA StartBatchKeeps ==
  ASSUME Inv, NEW force \in BOOLEAN, NEW artifact \in Artifacts \ {"report.html"},
         StartBatch(force, artifact)
  PROVE  Inv'
<1>1. PICK place \in Places : process' = NewProcess("batch", force, {artifact}, <<place>>)
  BY DEF StartBatch
<1>2. starts' = starts + 1 /\ UNCHANGED <<scenario, files, manifest, exit>>
  BY DEF StartBatch, disk
<1>3. <<place>> \in Seq(Places) /\ <<place>> # <<>> /\ "batch" \in Tools
  BY DEF Tools
<1>4. {artifact} \in SUBSET Artifacts /\ Asked("batch", {artifact})
  BY BatchAsked
<1> QED
  BY <1>1, <1>2, <1>3, <1>4, StartKeeps

LEMMA StartDirectoryKeeps ==
  ASSUME Inv, NEW formats \in Formats, StartDirectory(DirectoryOutputs(formats))
  PROVE  Inv'
<1> DEFINE outputs == DirectoryOutputs(formats)
<1>1. PICK place \in Places : process' = NewProcess("directory", FALSE, outputs, <<place>>)
  BY DEF StartDirectory
<1>2. starts' = starts + 1 /\ UNCHANGED <<scenario, files, manifest, exit>>
  BY DEF StartDirectory, disk
<1>3. <<place>> \in Seq(Places) /\ <<place>> # <<>> /\ "directory" \in Tools
  BY DEF Tools
<1>4. outputs \in SUBSET Artifacts /\ Asked("directory", outputs)
  BY DirectoryAsked
<1> HIDE DEF outputs
<1> QED
  BY <1>1, <1>2, <1>3, <1>4, StartKeeps

LEMMA KillKeeps ==
  ASSUME Inv, Kill
  PROVE  Inv'
BY EndKeeps DEF Kill, disk

LEMMA EditScenarioKeeps ==
  ASSUME Inv, EditScenario
  PROVE  Inv'
<1>1. scenario' = scenario + 1 /\ UNCHANGED <<files, manifest, process, starts, exit>>
  BY DEF EditScenario, disk
<1>2. DiskInv'
  BY <1>1, SameDisk DEF Inv, DiskInv, TypeInv
<1>3. Place' = Place
  BY <1>1 DEF Place
<1>4. RunInv'
  BY <1>1, <1>3 DEF Inv, RunInv, ProcessInv, WorkInv, MatrixInv, AdmittedIsFree, Running, Fresh, Exists
<1>5. ZeroMeansAll'
  BY <1>1 DEF Inv, ZeroMeansAll
<1> QED
  BY <1>2, <1>4, <1>5 DEF Inv

LEMMA InitHolds ==
  ASSUME ExperimentsInit
  PROVE  Inv
<1>1. /\ scenario = 0 /\ starts = 0 /\ manifest = Missing /\ process = NotRunning
      /\ files = [p \in Places |-> [a \in Artifacts |-> Missing]]
      /\ exit.of = "none"
  BY DEF ExperimentsInit
<1>2. \A p \in Places, a \in Artifacts : files[p][a] = Missing
  BY <1>1
<1>3. "report.html" \in Artifacts /\ Missing # Torn /\ Missing.by = 0
  <2>1. Missing.by = 0 /\ Torn.by = -1
    BY DEF Missing, Torn
  <2> QED
    BY <2>1 DEF Artifacts
<1>4. TypeInv
  BY <1>1, <1>2, <1>3 DEF TypeInv, FilesInv, ManifestInv, Files, Exists
<1>5. RunInv
  BY <1>1 DEF RunInv, ProcessInv, WorkInv, MatrixInv, AdmittedIsFree, Running
<1>6. HtmlAfterSources
  BY <1>2, <1>3 DEF HtmlAfterSources, Exists
<1>7. SuccessIsComplete /\ ZeroMeansAll
  BY <1>1 DEF SuccessIsComplete, ZeroMeansAll, Exists
<1> QED
  BY <1>4, <1>5, <1>6, <1>7 DEF Inv, DiskInv

LEMMA NextKeeps ==
  ASSUME Inv, [ExperimentsNext]_experiment
  PROVE  Inv'
<1>1. CASE UNCHANGED experiment
  <2>1. UNCHANGED <<scenario, files, manifest, process, starts, exit>>
    BY <1>1 DEF experiment
  <2>2. Place' = Place
    BY <2>1 DEF Place
  <2>3. DiskInv'
    BY <2>1, SameDisk DEF Inv, DiskInv, TypeInv
  <2> QED
    BY <2>1, <2>2, <2>3 DEF Inv, RunInv, ProcessInv, WorkInv, MatrixInv, AdmittedIsFree, Running, Fresh,
       Exists, ZeroMeansAll
<1>2. CASE \E force \in BOOLEAN, formats \in Formats : StartExperiment(force, ExperimentOutputs(formats))
  BY <1>2, StartExperimentKeeps
<1>3. CASE \E force \in BOOLEAN, a \in Artifacts \ {"report.html"} : StartBatch(force, a)
  BY <1>3, StartBatchKeeps
<1>4. CASE \E formats \in Formats : StartDirectory(DirectoryOutputs(formats))
  BY <1>4, StartDirectoryKeeps
<1>5. CASE HashScenario
  BY <1>5, HashScenarioKeeps
<1>6. CASE Execute
  BY <1>6, ExecuteKeeps
<1>7. CASE \E a \in Artifacts : WriteAtomically(a)
  BY <1>7, WriteAtomicallyKeeps
<1>8. CASE \E a \in Artifacts : Truncate(a)
  BY <1>8, TruncateKeeps
<1>9. CASE \E a \in Artifacts : Fill(a)
  BY <1>9, FillKeeps
<1>10. CASE WriteManifest
  BY <1>10, WriteManifestKeeps
<1>11. CASE Kill
  BY <1>11, KillKeeps
<1>12. CASE EditScenario
  BY <1>12, EditScenarioKeeps
<1> QED
  BY <1>1, <1>2, <1>3, <1>4, <1>5, <1>6, <1>7, <1>8, <1>9, <1>10, <1>11, <1>12 DEF ExperimentsNext

-----------------------------------------------------------------------------
(***************************************************************************)
(* What follows for every matrix and every number of starts and edits.     *)
(***************************************************************************)
\* The invariant holds in every state the tools can leave.
THEOREM ExperimentsInvariant == ExperimentsSpec => []Inv
<1>1. ExperimentsInit => Inv
  BY InitHolds
<1>2. Inv /\ [ExperimentsNext]_experiment => Inv'
  BY NextKeeps
<1> QED
  BY <1>1, <1>2, PTL DEF ExperimentsSpec

\* Whatever an experiment without --force still has to write is free, from the
\* moment it is let in: the check of _experiment is made once, and for all jobs.
THEOREM AdmittedStaysFree == ExperimentsSpec => []AdmittedIsFree
<1>1. Inv => AdmittedIsFree
  BY DEF Inv, RunInv
<1> QED
  BY <1>1, ExperimentsInvariant, PTL

\* Wherever the HTML of an execution stands, its JSON and CSV, or later ones,
\* stand beside it: after any failure, kill or restart (write_html_report).
THEOREM HtmlStandsOnItsSources == ExperimentsSpec => []HtmlAfterSources
<1>1. Inv => HtmlAfterSources
  BY DEF Inv, DiskInv
<1> QED
  BY <1>1, ExperimentsInvariant, PTL

\* A job the manifest calls a success has left everything it was to leave.
THEOREM SuccessMeansComplete == ExperimentsSpec => []SuccessIsComplete
<1>1. Inv => SuccessIsComplete
  BY DEF Inv, DiskInv
<1> QED
  BY <1>1, ExperimentsInvariant, PTL

\* An experiment exits with 0 only when the manifest lists the whole matrix, in
\* its order, and every job of it as a success.
THEOREM ZeroIsTheWholeMatrix == ExperimentsSpec => []ZeroMeansAll
<1>1. Inv => ZeroMeansAll
  BY DEF Inv
<1> QED
  BY <1>1, ExperimentsInvariant, PTL
=============================================================================
