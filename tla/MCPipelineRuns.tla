--------------------------- MODULE MCPipelineRuns ---------------------------
(* PipelineRuns on a definition with one step of each sort.                *)
EXTENDS PipelineRuns, TLC

CONSTANTS c1, c2

MCSteps == <<"draft", "critique", "revise">>
MCLoops == [s \in {"revise"} |-> [scoreFrom |-> "critique", maxIterations |-> 1]]
MCOrigins == {<<"automation", "live">>, <<"person", "dry_run">>}

CallSymmetry == Permutations(Calls)
=============================================================================
