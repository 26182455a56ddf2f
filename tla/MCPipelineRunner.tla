-------------------------- MODULE MCPipelineRunner --------------------------
(***************************************************************************)
(* A small instance of PipelineRunner: three stages with a file each.      *)
(***************************************************************************)
EXTENDS PipelineRunner, TLC

\* The processes are interchangeable.
Symmetry == Permutations(Runners)

\* As generate-reference, verify (which may reject) and report.
ThreeStages == << {"reference"}, {"verification"}, {"report"} >>
=============================================================================
