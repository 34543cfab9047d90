----------------------------- MODULE MCGenerate ----------------------------
(***************************************************************************)
(* generate, each side on an instance of its own: the command between      *)
(* installs, edits and crashes (Pipeline) and the passes that emit the     *)
(* crates of one generate (Codegen).  Pipeline abstracts those passes to   *)
(* the packages they come from, so the two share no state: one of them is  *)
(* at work while the other rests where it starts.                          *)
(***************************************************************************)
EXTENDS MCPipeline, MCCodegen

VARIABLE turn  \* the side at work

PipelineRests ==
  /\ conf = workspace
  /\ \A s \in Source : live[s] = CHOOSE t \in Versions[s] : TRUE

GenerateInit ==
  /\ turn \in {"pipeline", "codegen"}
  /\ PipelineInit /\ CodegenInit
  /\ turn = "codegen" => PipelineRests

(* The passes come to an end; a command can always begin, so that TLC checks *)
(* the other side for deadlock.                                              *)
GenerateNext ==
  \/ /\ turn = "pipeline"
     /\ PipelineNext /\ UNCHANGED <<vars, turn>>
  \/ /\ turn = "codegen"
     /\ CodegenNext \/ UNCHANGED vars
     /\ UNCHANGED <<pipelineVars, turn>>

GenerateSpec ==
  /\ GenerateInit /\ [][GenerateNext]_<<pipelineVars, vars, turn>>
  /\ WF_pipelineVars(Step /\ UNCHANGED <<gen, history>>)
  /\ WF_pipelineVars(GenStep /\ UNCHANGED installVars)
=============================================================================
