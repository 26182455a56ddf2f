-------------------------- MODULE BenchmarkRunner --------------------------
(***************************************************************************)
(* run_cpu_benchmark of python/forgeir/benchmark/runner.py: it claims a    *)
(* directory, has the reference written and the graph exported, optimizes  *)
(* the graph with the native command, measures, renders the report from    *)
(* the measurements and hashes what it lists in a manifest. Several runs,  *)
(* forced or not, may be given the same directory; native commands run     *)
(* beside them.                                                            *)
(*                                                                         *)
(* One optimization level stands for the loop over them, and "reference"   *)
(* for the archives that are written before their manifest.                *)
(***************************************************************************)
EXTENDS NativeCli

VARIABLES
  directory,  \* whether the output directory is there
  hashed,     \* what each run found when it made its manifest
  mixed       \* runs whose directory another has removed, or shares
              \* with one whose directory it has removed

runnerVars == << cliVars, directory, hashed, mixed >>

Run == "run"

In(part) == Part(Run, part)

DirectoryFiles == { f \in Paths : f[1] = Run }

\* Files of Python are closed in the open: losing their end raises. What mkdir
\* with parents precedes does not need the directory.
PythonWrite(part, parents) ==
  [ do |-> "write", file |-> In(part), onError |-> "stop", flushChecked |-> TRUE,
    parents |-> parents ]

Do(what) == [ do |-> what ]

\* _optimize_graph waits for the native command and raises if it fails; the
\* session loads what it has written.
BenchmarkSteps(force) ==
  << Do(IF force THEN "force" ELSE "look"), Do("mkdir"), PythonWrite("config", FALSE),
     PythonWrite("reference", TRUE), PythonWrite("reference_manifest", FALSE),
     Read(In("reference")), PythonWrite("exported", TRUE) >>
    \o OptimizeSteps(In("exported"), Run)
    \o << Read(In("reference")), Read(In("graph")),
          PythonWrite("measurements", FALSE), Read(In("measurements")),
          PythonWrite("csv", FALSE), PythonWrite("html", FALSE),
          Do("hash"), PythonWrite("manifest", FALSE) >>

Benchmark(c) == c.name = "benchmark"

GivenSteps(c) == IF Benchmark(c) THEN BenchmarkSteps(c.force) ELSE StepsOf(c)

\* manifest_paths.
Listed == { In(part) : part \in {"config", "reference", "reference_manifest", "exported",
                                 "graph", "measurements", "csv", "html"} }

\* The directory was claimed by the run, and the run is not over.
Claimed(p) == Benchmark(procs[p].command) /\ procs[p].at > 2

\* Bound: native commands write elsewhere.
ASSUME ScenariosAssumption ==
  \A scenario \in Scenarios : \A p \in Processes :
    LET c == scenario[p]
    IN  Benchmark(c) \/ (IsCli(c) /\ c.base # Run)
ASSUME PathsAssumption ==
  /\ Listed \cup { In("manifest") } \subseteq Paths
  /\ \A scenario \in Scenarios : \A p \in Processes :
       Written(GivenSteps(scenario[p])) \subseteq Paths

----------------------------------------------------------------------------
(* Steps.                                                                  *)

Look(p) ==
  /\ Doing(p, "look")
  /\ IF directory THEN Exit(p, "error") ELSE Advance(p)
  /\ UNCHANGED << files, faults, directory, hashed, mixed >>

\* The runs that have claimed what p removes, and p if one of them goes on.
TakenFrom(p) ==
  LET others == { q \in Processes \ {p} : Claimed(q) }
  IN  others \cup (IF \E q \in others : Running(q) THEN {p} ELSE {})

\* rmtree of a forced run removes one file after the other; one of them, any, is
\* the last. It does not find what is created behind it: then it raises.
RemoveFiles(p) ==
  /\ Doing(p, "force") /\ ~procs[p].open
  /\ IF directory
     THEN /\ \E last \in DirectoryFiles :
               files' = [ f \in Paths |->
                            IF f \in DirectoryFiles \ {last} THEN Absent ELSE files[f] ]
          /\ procs' = [ procs EXCEPT ![p].open = TRUE ]
          /\ mixed' = mixed \cup TakenFrom(p)
     ELSE Advance(p) /\ UNCHANGED << files, mixed >>
  /\ UNCHANGED << faults, directory, hashed >>

RemoveDirectory(p) ==
  LET left == { f \in DirectoryFiles : files[f] # Absent }
  IN  /\ Doing(p, "force") /\ procs[p].open
      /\ IF Cardinality(left) <= 1
         THEN /\ files' = [ f \in Paths |-> IF f \in left THEN Absent ELSE files[f] ]
              /\ directory' = FALSE
              /\ mixed' = mixed \cup TakenFrom(p)
              /\ Advance(p)
         ELSE Exit(p, "error") /\ UNCHANGED << files, directory, mixed >>
      /\ UNCHANGED << faults, hashed >>

\* Mutated form of MakeDirectory: exist_ok.
MakeDirectoryIfMissing(p) ==
  /\ Doing(p, "mkdir")
  /\ directory' = TRUE
  /\ Advance(p)
  /\ UNCHANGED << files, faults, hashed, mixed >>

\* mkdir with exist_ok=False: of several runs that found no directory, one
\* makes it.
MakeDirectory(p) ==
  /\ Doing(p, "mkdir")
  /\ IF directory THEN Exit(p, "error") ELSE Advance(p)
  /\ directory' = TRUE
  /\ UNCHANGED << files, faults, hashed, mixed >>

\* Opening a file raises if its directory is gone.
OpenInDirectory(p) ==
  /\ Doing(p, "write") /\ ~procs[p].open /\ ~Step(p).parents
  /\ IF directory
     THEN /\ files' = [ files EXCEPT ![Step(p).file] = File(p, "part") ]
          /\ procs' = [ procs EXCEPT ![p].open = TRUE ]
     ELSE Exit(p, "error") /\ UNCHANGED files
  /\ UNCHANGED << faults, directory, hashed, mixed >>

\* _manifest hashes the files as they are now; a missing one raises.
HashFiles(p) ==
  /\ Doing(p, "hash")
  /\ IF \A f \in Listed : files[f] # Absent
     THEN Advance(p) /\ hashed' = [ hashed EXCEPT ![p] = [ f \in Listed |-> files[f] ] ]
     ELSE Exit(p, "error") /\ UNCHANGED hashed
  /\ UNCHANGED << files, faults, directory, mixed >>

\* A step of the native command, or one of those Python shares with it. A file
\* that is written brings its directory.
SharedStep(p) ==
  /\ CliStep(p)
  /\ directory' = (directory \/ \E f \in DirectoryFiles : files[f] # files'[f])
  /\ UNCHANGED << hashed, mixed >>

RunnerInit ==
  /\ \E scenario \in Scenarios :
       procs = [ p \in Processes |-> Process(scenario[p], GivenSteps(scenario[p])) ]
  /\ FilesBefore
  /\ faults = 0
  /\ directory = (\E f \in DirectoryFiles : files[f] # Absent)
  /\ hashed = [ p \in Processes |-> << >> ]
  /\ mixed = {}

\* Bound: what becomes of runs that share a directory is not followed.
RunnerNext ==
  \E p \in Processes \ mixed :
    \/ Look(p) \/ RemoveFiles(p) \/ RemoveDirectory(p) \/ MakeDirectory(p)
    \/ OpenInDirectory(p) \/ HashFiles(p) \/ SharedStep(p)

RunnerSpec == RunnerInit /\ [][RunnerNext]_runnerVars

----------------------------------------------------------------------------
(* Property.                                                               *)

\* A manifest that is there is that of one run: every file it lists was whole and
\* of that run when it was hashed and is so still, though runs start together,
\* writes fail and processes die; unless a forced run has removed the directory
\* under it.
ManifestIsOfOneRun ==
  \A p \in Processes \ mixed :
    Whole(In("manifest")) /\ files[In("manifest")].by = p =>
      \A f \in Listed : hashed[p][f] = File(p, "whole") /\ files[f] = hashed[p][f]
=============================================================================
