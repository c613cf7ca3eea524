----------------------------- MODULE Experiments -----------------------------
(***************************************************************************)
(* The batch tools and the files they leave: the experiment matrix of      *)
(* scripts/run_batch.py, `pm-sim batch' of backend/main.py, and            *)
(* execute_batch with an output directory (backend/app/batch/service.py),  *)
(* over the writers of batch/export.py.                                    *)
(*                                                                         *)
(* Each tool executes and then writes one file after the other.  A write   *)
(* may fail, the process may be killed between any two writes, scenario    *)
(* files are edited while it runs, and all of them are started again, with *)
(* and without --force, over what the last one left.                       *)
(***************************************************************************)
EXTENDS Integers, Sequences

CONSTANTS
  Jobs,        \* the matrix in its order: a sequence of output directories
  MaxStarts,   \* bound: how often a tool is started
  MaxEdits     \* bound: how often a scenario is edited

\* _experiment refuses a configuration two jobs of which have the same output path.
ASSUME ExperimentsAssumption ==
  /\ Jobs \in Seq(STRING) /\ Len(Jobs) > 0
  /\ \A i, j \in DOMAIN Jobs : Jobs[i] = Jobs[j] => i = j
  /\ MaxStarts \in Nat /\ MaxEdits \in Nat

VARIABLES
  scenario,   \* how often the scenario file was edited: which one it is
  files,      \* [Places -> [Artifacts -> File]]
  manifest,   \* the manifest of the experiment, or Missing
  process,    \* the tool that runs, or NotRunning
  starts,     \* how many were started
  exit        \* the exit status of the last one that ended by itself

experiment == <<scenario, files, manifest, process, starts, exit>>
disk == <<files, manifest>>

-----------------------------------------------------------------------------
Places == {Jobs[i] : i \in DOMAIN Jobs}
Formats == (SUBSET {"json", "csv", "html"}) \ {{}}
Tools == {"experiment", "batch", "directory"}

Results == {"results.json", "results.csv"}
Reports == {"batch-report.json", "batch-report-metadata.json", "batch-report.csv"}
Artifacts == Results \cup Reports \cup {"report.html"}

\* The formats execute_batch writes a file of an output directory for.
AskedBy(artifact) ==
  CASE artifact = "batch-report.json" -> {"json", "html"}
    [] artifact = "report.html" -> {"html"}
    [] artifact \in Reports \ {"batch-report.json"} -> {"csv", "html"}
    [] OTHER -> {}

DirectoryOutputs(formats) == {a \in Artifacts : formats \cap AskedBy(a) # {}}

\* An experiment writes its JSON and its CSV whatever it is asked for.
ExperimentOutputs(formats) == Results \cup {a \in {"report.html"} : "html" \in formats}

\* What the HTML of a tool presents.
Sources(tool) == IF tool = "experiment" THEN Results ELSE Reports

\* Files of one job are written in this order.
Rank(artifact) ==
  CASE artifact \in {"results.json", "batch-report.json"} -> 1
    [] artifact = "batch-report-metadata.json" -> 2
    [] artifact \in {"results.csv", "batch-report.csv"} -> 3
    [] artifact = "report.html" -> 4

\* A file is written by the n-th start, from the scenario as it was then.
Missing == [by |-> 0]
Torn == [by |-> -1]
Written(p) == [by |-> p.start, tool |-> p.tool, of |-> p.loaded]
Exists(file) == file # Missing

NotRunning == [tool |-> "none"]
Running == process # NotRunning
Place == Head(process.jobs)
Doing(phase) == Running /\ process.jobs # <<>> /\ process.phase = phase

\* Mutant: the page is published before what it presents.
HtmlFirst(artifact) ==
  /\ Doing("write") /\ artifact \in process.left
  /\ \A b \in process.left : Rank(artifact) >= Rank(b)

\* The file a job writes next.
Writing(artifact) ==
  /\ Doing("write") /\ artifact \in process.left
  /\ \A b \in process.left : Rank(artifact) <= Rank(b)

ExperimentsInit ==
  /\ scenario = 0
  /\ files = [p \in Places |-> [a \in Artifacts |-> Missing]]
  /\ manifest = Missing
  /\ process = NotRunning
  /\ starts = 0
  /\ exit = [status |-> 0, of |-> "none", start |-> 0]

-----------------------------------------------------------------------------
Exit(p, status) ==
  /\ process' = NotRunning
  /\ exit' = [status |-> status, of |-> p.tool, start |-> p.start]

NewProcess(tool, force, outputs, jobs) ==
  [tool |-> tool, force |-> force, outputs |-> outputs, jobs |-> jobs,
   phase |-> IF tool = "experiment" THEN "hash" ELSE "execute", left |-> outputs,
   start |-> starts + 1, loaded |-> 0, hash |-> 0, entries |-> <<>>, failed |-> FALSE]

\* Mutant: only the structured files are looked for.
HtmlForgotten(outputs) ==
  Exists(manifest) \/ \E p \in Places, a \in outputs \cap Results : Exists(files[p][a])

\* What an experiment is going to write is there already.
Collision(outputs) ==
  Exists(manifest) \/ \E p \in Places, a \in outputs : Exists(files[p][a])

\* main and the head of _experiment: a configuration that is invalid or collides
\* ends with 2, before anything is written.
StartExperiment(force, outputs) ==
  LET p == NewProcess("experiment", force, outputs, Jobs)
  IN  /\ ~Running /\ starts < MaxStarts
      /\ starts' = starts + 1
      /\ \/ Exit(p, 2)
         \/ (Collision(outputs) => force) /\ process' = p /\ UNCHANGED exit
      /\ UNCHANGED <<scenario, disk>>

\* pm-sim batch checks nothing before it runs; --output may name any of the files.
StartBatch(force, artifact) ==
  /\ ~Running /\ starts < MaxStarts
  /\ starts' = starts + 1
  /\ \E place \in Places : process' = NewProcess("batch", force, {artifact}, <<place>>)
  /\ UNCHANGED <<scenario, disk, exit>>

\* execute_batch for an output directory: the writer is never told to force.
StartDirectory(outputs) ==
  /\ ~Running /\ starts < MaxStarts
  /\ starts' = starts + 1
  /\ \E place \in Places : process' = NewProcess("directory", FALSE, outputs, <<place>>)
  /\ UNCHANGED <<scenario, disk, exit>>

-----------------------------------------------------------------------------
(***************************************************************************)
(* One job.                                                                *)
(***************************************************************************)
\* Mutant: a job counts as done when it has been executed.
HastyEntry(p, status) ==
  [place |-> Head(p.jobs), hash |-> p.hash,
   status |-> IF p.phase = "write" THEN "success" ELSE status]

Entry(p, status) == [place |-> Head(p.jobs), status |-> status, hash |-> p.hash]

\* Mutant: a job that succeeds makes up for one that failed before it.
LastJobCounts(p, status) ==
  [p EXCEPT !.entries = Append(@, Entry(p, status)), !.jobs = Tail(@),
            !.phase = "hash", !.left = p.outputs, !.failed = status = "failed"]

\* The job is over: its entry is kept and the next one begins.
NextJob(p, status) ==
  [p EXCEPT !.entries = Append(@, Entry(p, status)), !.jobs = Tail(@),
            !.phase = "hash", !.left = p.outputs, !.failed = @ \/ status = "failed"]

\* With its last file a job has succeeded, and a single one is the whole tool.
Done(p) ==
  IF p.left # {} THEN process' = p /\ UNCHANGED exit
  ELSE IF p.tool = "experiment" THEN process' = NextJob(p, "success") /\ UNCHANGED exit
  ELSE Exit(p, 0)

\* An exception: only an experiment goes on with its other jobs.
Fail(status) ==
  /\ IF process.tool = "experiment"
       THEN process' = NextJob(process, "failed") /\ UNCHANGED exit
       ELSE Exit(process, status)
  /\ UNCHANGED <<scenario, disk, starts>>

\* The scenario is read for its hash, and read again to be executed.
HashScenario ==
  /\ Doing("hash")
  /\ \/ /\ process' = [process EXCEPT !.hash = scenario, !.phase = "execute"]
        /\ UNCHANGED <<scenario, disk, starts, exit>>
     \/ Fail(1)

Execute ==
  /\ Doing("execute")
  /\ \/ /\ process' = [process EXCEPT !.loaded = scenario, !.phase = "write"]
        /\ UNCHANGED <<scenario, disk, starts, exit>>
     \/ Fail(2)

MayReplace(file) == ~Exists(file) \/ process.force

Publish(artifact) ==
  /\ files' = [files EXCEPT ![Place][artifact] = Written(process)]
  /\ Done([process EXCEPT !.left = @ \ {artifact}])
  /\ UNCHANGED <<scenario, manifest, starts>>

\* _atomic_write: a temporary file takes the place of the destination, or nothing does.
WriteAtomically(artifact) ==
  /\ Writing(artifact)
  /\ process.tool = "directory" => artifact = "report.html"
  /\ \/ MayReplace(files[Place][artifact]) /\ Publish(artifact)
     \/ Fail(1)

\* write_text, in an output directory that is made first: the file is emptied ...
Truncate(artifact) ==
  /\ Writing(artifact) /\ process.tool = "directory" /\ artifact # "report.html"
  /\ files[Place][artifact] # Torn
  /\ \/ /\ files' = [files EXCEPT ![Place][artifact] = Torn]
        /\ UNCHANGED <<scenario, manifest, process, starts, exit>>
     \/ Fail(1)

\* ... and then filled.
Fill(artifact) ==
  /\ Writing(artifact) /\ process.tool = "directory" /\ artifact # "report.html"
  /\ files[Place][artifact] = Torn
  /\ Publish(artifact) \/ Fail(1)

\* The manifest comes last, whatever became of the jobs.
WriteManifest ==
  /\ Running /\ process.jobs = <<>>
  /\ \/ /\ MayReplace(manifest)
        /\ manifest' = [by |-> process.start, outputs |-> process.outputs,
                        entries |-> process.entries]
        /\ Exit(process, IF process.failed THEN 1 ELSE 0)
     \/ Exit(process, 1) /\ UNCHANGED manifest
  /\ UNCHANGED <<scenario, files, starts>>

Kill == Running /\ process' = NotRunning /\ UNCHANGED <<scenario, disk, starts, exit>>

EditScenario == scenario < MaxEdits /\ scenario' = scenario + 1 /\ UNCHANGED <<disk, process, starts, exit>>

ExperimentsNext ==
  \/ \E force \in BOOLEAN, formats \in Formats : StartExperiment(force, ExperimentOutputs(formats))
  \/ \E force \in BOOLEAN, a \in Artifacts \ {"report.html"} : StartBatch(force, a)
  \/ \E formats \in Formats : StartDirectory(DirectoryOutputs(formats))
  \/ HashScenario \/ Execute
  \/ \E a \in Artifacts : WriteAtomically(a) \/ Truncate(a) \/ Fill(a)
  \/ WriteManifest \/ Kill \/ EditScenario

ExperimentsSpec == ExperimentsInit /\ [][ExperimentsNext]_experiment

-----------------------------------------------------------------------------
(***************************************************************************)
(* Properties.                                                             *)
(***************************************************************************)
\* What was free when an experiment without --force was let in is free when its
\* turn comes: the check at the start covers all that the jobs and the manifest
\* write later, and no job writes where another does (_experiment).
AdmittedIsFree ==
  Running /\ process.tool = "experiment" /\ ~process.force =>
    /\ ~Exists(manifest)
    /\ \A i \in DOMAIN process.jobs :
         \A a \in (IF i = 1 THEN process.left ELSE process.outputs) :
           ~Exists(files[process.jobs[i]][a])

\* The HTML of an execution is published after what it presents: whenever it is
\* there, its sources are there, of that execution or a later one; what execute_batch
\* writes in place may be torn by a later one.
HtmlAfterSources ==
  \A p \in Places :
    LET html == files[p]["report.html"]
    IN  Exists(html) =>
          \A a \in Sources(html.tool) :
            files[p][a].by >= html.by \/ (html.tool = "directory" /\ files[p][a] = Torn)

\* The manifest calls a job a success only when all it promises is on the disk.
SuccessIsComplete ==
  Exists(manifest) =>
    \A i \in DOMAIN manifest.entries :
      LET e == manifest.entries[i]
      IN  e.status = "success" =>
            \A a \in manifest.outputs : files[e.place][a].by >= manifest.by

\* An experiment that exits with 0 has done all of its jobs.
ZeroMeansAll ==
  exit.of = "experiment" /\ exit.status = 0 =>
    /\ manifest.by = exit.start
    /\ [i \in DOMAIN manifest.entries |-> manifest.entries[i].place] = Jobs
    /\ \A i \in DOMAIN manifest.entries : manifest.entries[i].status = "success"

=============================================================================
