----------------------------- MODULE NativeCli -----------------------------
(***************************************************************************)
(* The commands of cpp/src/core/cli_main.cpp that leave files behind:      *)
(* optimize, plan-memory, emit-mlir and verify --report, with the writers  *)
(* and the external tool they call.                                        *)
(* Processes run commands at the same time on one file system, any step of *)
(* which may fail; a process may die between two steps.                    *)
(*                                                                         *)
(* A command is the steps it takes in order, a sequence. A path is a base  *)
(* name and the part that tells the artifacts of a base apart. Of a file   *)
(* the model knows which process wrote it, and whether all of it is there. *)
(***************************************************************************)
EXTENDS Naturals, Sequences, FiniteSets

CONSTANTS
  Processes,   \* the processes, numbers above 0
  Scenarios,   \* the commands they may be given, functions of Processes
  Paths,       \* the files
  Before,      \* the sets of those that may be there, whole, from the start
  MaxFaults    \* bound: steps that fail, and deaths

ASSUME ProcessesAssumption == 0 \notin Processes

VARIABLES
  files,    \* the file system
  procs,    \* the processes
  faults    \* how many steps have failed

cliVars == << files, procs, faults >>

File(by, state) == [ by |-> by, state |-> state ]

Absent == File(0, "absent")

Whole(f) == files[f].state = "whole"

----------------------------------------------------------------------------
(* Commands.                                                               *)

\* Read a graph and use it. A file that is not whole does not parse.
Read(f) == [ do |-> "read", file |-> f ]

\* write_text_file and write_json_report: open, truncating; write. What an
\* ofstream has buffered is written when it is destroyed, and nobody looks at the
\* outcome. An error ends the command, or is kept until CheckWrites.
Write(f, onError) ==
  [ do |-> "write", file |-> f, onError |-> onError, flushChecked |-> FALSE, parents |-> TRUE ]

CheckWrites == [ do |-> "check" ]

Part(base, part) == << base, part >>

\* The four artifacts of optimize, named after the output. Loading includes the
\* passes: if they fail nothing is written.
OptimizeSteps(in, base) ==
  << Read(in),
     Write(Part(base, "graph"), "later"), Write(Part(base, "pass_report"), "later"),
     Write(Part(base, "before_dot"), "later"), Write(Part(base, "after_dot"), "later"),
     CheckWrites, Read(Part(base, "graph")) >>

\* write_memory_plan_artifacts stops at the first file it cannot write.
PlanMemorySteps(in, base) ==
  << Read(in) >>
    \o [ k \in 1 .. 4 |->
           Write(Part(base, << "schedule", "memory_plan", "csv", "svg" >>[k]), "stop") ]

\* The report comes first; the graph that does not verify ends the command then.
VerifySteps(in, base) ==
  << Read(in), Write(Part(base, "verification"), "stop"), [ do |-> "verdict" ] >>

\* Reading includes the lowering. The tool that may be there parses the module.
EmitMlirSteps(in, base) ==
  << Read(in), Write(Part(base, "mlir"), "stop"), [ do |-> "parse", file |-> Part(base, "mlir") ] >>

\* optimize refuses an output that is the input; no command looks at the names
\* derived from it.
StepsOf(c) ==
  CASE c.name = "optimize" ->
         IF c.in = Part(c.base, "graph") THEN << [ do |-> "refuse" ] >>
         ELSE OptimizeSteps(c.in, c.base)
    [] c.name = "plan-memory" -> PlanMemorySteps(c.in, c.base)
    [] c.name = "verify"      -> VerifySteps(c.in, c.base)
    [] c.name = "emit-mlir"   -> EmitMlirSteps(c.in, c.base)

IsCli(c) == c.name \in {"optimize", "plan-memory", "verify", "emit-mlir"}

\* The files that some steps read or write.
FilesOf(steps, do) == { steps[n].file : n \in { n \in DOMAIN steps : steps[n].do = do } }

Written(steps) == FilesOf(steps, "write")

----------------------------------------------------------------------------
(* Processes.                                                              *)

Process(command, steps) ==
  [ command |-> command, steps |-> steps, at |-> 1, open |-> FALSE, failed |-> FALSE,
    exit |-> "running" ]

Running(p) == procs[p].exit = "running"

Step(p) == procs[p].steps[procs[p].at]

Doing(p, do) ==
  /\ Running(p) /\ procs[p].at \in DOMAIN procs[p].steps
  /\ Step(p).do = do

Advanced(proc) == [ proc EXCEPT !.at = @ + 1, !.open = FALSE ]

Exit(p, status) == procs' = [ procs EXCEPT ![p].exit = status ]

Advance(p) == procs' = [ procs EXCEPT ![p] = Advanced(@) ]

\* The step has failed: its command ends, or goes on and remembers it.
FailWrite(p) ==
  IF Step(p).onError = "stop" THEN Exit(p, "error")
  ELSE procs' = [ procs EXCEPT ![p] = [ Advanced(@) EXCEPT !.failed = TRUE ] ]

Fault == faults < MaxFaults /\ faults' = faults + 1

NoFault == UNCHANGED faults

ReadFile(p) ==
  /\ Doing(p, "read")
  /\ \/ Whole(Step(p).file) /\ Advance(p) /\ NoFault
     \/ ~Whole(Step(p).file) /\ Exit(p, "error") /\ NoFault
     \/ Exit(p, "error") /\ Fault
  /\ UNCHANGED files

OpenFile(p) ==
  /\ Doing(p, "write") /\ ~procs[p].open /\ Step(p).parents
  /\ \/ /\ files' = [ files EXCEPT ![Step(p).file] = File(p, "part") ]
        /\ procs' = [ procs EXCEPT ![p].open = TRUE ]
        /\ NoFault
     \/ FailWrite(p) /\ UNCHANGED files /\ Fault

\* The data reach the file, or a part of them only: because a write failed, or
\* because the last of them were lost when the stream was closed.
WriteFile(p) ==
  LET f == Step(p).file
  IN  /\ Doing(p, "write") /\ procs[p].open
      /\ \/ files' = [ files EXCEPT ![f] = File(p, "whole") ] /\ Advance(p) /\ NoFault
         \/ files' = [ files EXCEPT ![f] = File(p, "part") ] /\ FailWrite(p) /\ Fault
         \/ /\ ~Step(p).flushChecked
            /\ files' = [ files EXCEPT ![f] = File(p, "part") ] /\ Advance(p) /\ Fault

\* Mutated form of ReportFailure: only the last write is looked at.
ReportLastFailure(p) ==
  /\ Doing(p, "check")
  /\ Advance(p)
  /\ UNCHANGED << files, faults >>

ReportFailure(p) ==
  /\ Doing(p, "check")
  /\ IF procs[p].failed THEN Exit(p, "error") ELSE Advance(p)
  /\ UNCHANGED << files, faults >>

\* What verify has found decides how it ends.
Verdict(p) ==
  /\ Doing(p, "verdict")
  /\ Advance(p) \/ Exit(p, "error")
  /\ UNCHANGED << files, faults >>

\* validate_mlir_module: no tool is found, which is no error, or the tool parses
\* the module. Whether it can canonicalise it as well changes only the report.
ValidateModule(p) ==
  /\ Doing(p, "parse")
  /\ \/ Advance(p) /\ NoFault
     \/ Exit(p, "error") /\ IF Whole(Step(p).file) THEN Fault ELSE NoFault
  /\ UNCHANGED files

Refuse(p) == Doing(p, "refuse") /\ Exit(p, "error") /\ UNCHANGED << files, faults >>

Finish(p) ==
  /\ Running(p) /\ procs[p].at > Len(procs[p].steps)
  /\ Exit(p, "success")
  /\ UNCHANGED << files, faults >>

Die(p) == Running(p) /\ Exit(p, "died") /\ Fault /\ UNCHANGED files

CliStep(p) ==
  \/ ReadFile(p) \/ OpenFile(p) \/ WriteFile(p) \/ ReportFailure(p)
  \/ Verdict(p) \/ ValidateModule(p) \/ Refuse(p) \/ Finish(p) \/ Die(p)

FilesBefore ==
  \E there \in Before :
    files = [ f \in Paths |-> IF f \in there THEN File(0, "whole") ELSE Absent ]

----------------------------------------------------------------------------
(* Property.                                                               *)

Cli(p) == IsCli(procs[p].command)

\* No other process writes the files that p writes.
Alone(p) ==
  \A q \in Processes \ {p} : Written(procs[q].steps) \cap Written(procs[p].steps) = {}

\* A command that exits with success has written all its files, each of them by
\* itself: an old artifact never passes for one of this command, however its
\* writes fail. The graph of optimize is whole even if the end of it was lost
\* unnoticed, since it is loaded again; the other files may be cut off.
SuccessIsComplete ==
  \A p \in Processes : Cli(p) /\ Alone(p) /\ procs[p].exit = "success" =>
    LET c == procs[p].command
    IN  /\ \A f \in Written(StepsOf(c)) : files[f].by = p /\ (Whole(f) \/ faults > 0)
        /\ c.name = "optimize" => Whole(Part(c.base, "graph"))
=============================================================================
