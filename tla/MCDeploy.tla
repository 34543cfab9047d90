------------------------------ MODULE MCDeploy ------------------------------
(***************************************************************************)
(* The deployment of a workspace (DeployAll) and the gas budget of one     *)
(* transaction (GasBudget), each on an instance of its own.  DeployAll     *)
(* abstracts the budget to whether the transaction is executed, so the two *)
(* share no state: one of them is at work while the other has ended, a     *)
(* deployment that found nothing to deploy or a transaction given up.      *)
(***************************************************************************)
EXTENDS MCDeployAll, MCGasBudget

DeployHasEnded ==
  /\ labels = [m \in Member |-> {}] /\ modules = [m \in Member |-> 0]
  /\ spc = "none" /\ next = 1
  /\ stack = << >> /\ visited = << >> /\ order = << >>
  /\ coin = 1 /\ indexed = 1 /\ published = << >>
  /\ dpc = "idle" /\ step = 1 /\ gas = 0
  /\ artifacts = << >> /\ created = << >>
  /\ ended = "none" /\ runs = 0 /\ faults = 0

GasHasEnded ==
  /\ who = "deployer" /\ balance = 0 /\ used = 0 /\ cost = 0 /\ lenient = FALSE
  /\ phase = "end" /\ sim = 0 /\ budget = 0
  /\ basis = "none" /\ result = "oracle" /\ gasFaults = 1

(* Nothing depends on the labels of a member without a name: one choice of   *)
(* them stands for all.                                                      *)
DeploymentInit ==
  \/ DeployInit /\ labels[d] = {} /\ GasHasEnded
  \/ Init /\ DeployHasEnded

DeploymentNext ==
  \/ DeployNext /\ UNCHANGED vars
  \/ Next /\ UNCHANGED deployVars

DeploymentSpec ==
  /\ DeploymentInit /\ [][DeploymentNext]_<<deployVars, vars>>
  /\ WF_deployVars(TopoNext /\ UNCHANGED <<chain, run, faults>>)
  /\ WF_deployVars(RunStep /\ UNCHANGED topoVars)
  /\ WF_deployVars(Index /\ UNCHANGED topoVars)
  /\ WF_vars(Next)
=============================================================================
