----------------------------- MODULE DeployAll -----------------------------
(***************************************************************************)
(* The generated `DeployAll::run` (crates/move-bindgen/src/                *)
(* workspace_deploy.rs render_lib_rs) driving one PackageDeployer per      *)
(* member (crates/move-bindgen-runtime-iota/src/deployer.rs), with         *)
(* wait_for_effects (crates/move-bindgen-ext-iota) between the steps.      *)
(*                                                                         *)
(* The chain executes at once; the indexer, which lists the gas coin, lags *)
(* behind.  The gas coin's version stands for the whole history of the     *)
(* wallet: every executed transaction raises it by one.                    *)
(***************************************************************************)
EXTENDS TopoSort

CONSTANTS
  Pinned,     \* labels the network's `addresses` map to packages on chain
  MaxRuns,    \* bound on the number of calls of run
  MaxFaults   \* bound on what goes wrong outside the program

ASSUME DeployBounds ==
  Pinned \subseteq AddrName /\ MaxRuns \in Nat /\ MaxFaults \in Nat

VARIABLES
  coin,       \* version of the gas coin on chain
  indexed,    \* version of it the indexer has ingested
  published,  \* Seq of the packages on chain
  dpc,        \* where run stands, "idle" when none is under way
  step,       \* the member of `order` it has come to
  gas,        \* version of the gas coin it will pay with
  artifacts,  \* what it returns: address name |-> package id
  created,    \* address name |-> the created objects it returns
  ended,      \* how the last run ended
  runs, faults

chain == <<coin, indexed, published>>
run == <<dpc, step, gas, artifacts, created, ended, runs>>
deployVars == <<topoVars, chain, run, faults>>

DeployPoints == {"idle", "gas", "submit", "wait"}

Endings == {"none", "ok", "oracle", "stale", "missing",
            "aborted", "unsent", "unanswered", "unindexed"}

-----------------------------------------------------------------------------
This == order[step]

(* resolve_from: what the run has published so far, by label; a label it     *)
(* does not find stays at its synthetic address.                             *)
NothingResolved(m) == {}  \* mutant
Resolved(m) == labels[m] \cap DOMAIN artifacts

(* No object is at a synthetic address; a pinned label is a real one.        *)
Complete(m) == labels[m] \subseteq Resolved(m) \cup Pinned

(* The objects a publish writes: its UpgradeCap, which is new, and the gas   *)
(* coin, which is not.                                                       *)
Cap(id) == <<"cap", id>>
GasCoin == <<"gas">>
Written(id) == {Cap(id), GasCoin}

(* collect_created_objects takes every ObjectWrite of the effects.           *)
CollectCreated(id) == Written(id)

DeployInit ==
  /\ TopoInit
  /\ coin = 1
  /\ indexed = 1
  /\ published = << >>
  /\ dpc = "idle"
  /\ step = 1
  /\ gas = 0
  /\ artifacts = << >>
  /\ created = << >>
  /\ ended = "none"
  /\ runs = 0
  /\ faults = 0

(* `return Err` with the partial artifacts, or `Ok(artifacts)`.              *)
End(why) ==
  /\ dpc' = "idle"
  /\ ended' = why
  /\ gas' = 0
  /\ UNCHANGED <<step, artifacts, created, runs>>

Fault == faults < MaxFaults /\ faults' = faults + 1

Resumes ==  \* mutant
  /\ spc = "sorted" /\ dpc = "idle" /\ runs < MaxRuns
  /\ dpc' = "gas"
  /\ ended' = "none"
  /\ runs' = runs + 1
  /\ UNCHANGED <<chain, step, gas, artifacts, created, faults>>

(* A new run starts from empty artifacts, whatever an earlier one published. *)
RunStart ==
  /\ spc = "sorted" /\ dpc = "idle" /\ runs < MaxRuns
  /\ dpc' = "gas"
  /\ step' = 1
  /\ artifacts' = << >>
  /\ created' = << >>
  /\ ended' = "none"
  /\ runs' = runs + 1
  /\ UNCHANGED <<chain, gas, faults>>

RunDone ==
  /\ dpc = "gas" /\ step > Len(order)
  /\ End("ok")
  /\ UNCHANGED <<chain, faults>>

(* apply_gas: the first coin the oracle lists, at the version it knows, a    *)
(* price and a budget.                                                       *)
ApplyGas ==
  /\ dpc = "gas" /\ step <= Len(order)
  /\ gas' = indexed
  /\ dpc' = "submit"
  /\ UNCHANGED <<chain, step, artifacts, created, ended, runs, faults>>

OracleFails ==
  /\ dpc = "gas" /\ step <= Len(order)
  /\ Fault /\ End("oracle")
  /\ UNCHANGED chain

(* Validators refuse a transaction that pays with an old version of a coin.  *)
SubmitStale ==
  /\ dpc = "submit" /\ gas # coin
  /\ End("stale")
  /\ UNCHANGED <<chain, faults>>

SubmitMissing ==
  /\ dpc = "submit" /\ gas = coin /\ ~Complete(This)
  /\ coin' = coin + 1
  /\ End("missing")
  /\ UNCHANGED <<indexed, published, faults>>

(* The package aborts in its init or runs out of gas: the coin is charged.   *)
SubmitAborts ==
  /\ dpc = "submit" /\ gas = coin /\ Complete(This)
  /\ coin' = coin + 1
  /\ Fault /\ End("aborted")
  /\ UNCHANGED <<indexed, published>>

SubmitNotSent ==
  /\ dpc = "submit"
  /\ Fault /\ End("unsent")
  /\ UNCHANGED chain

Publish ==
  /\ gas = coin /\ Complete(This)
  /\ coin' = coin + 1
  /\ published' = Append(published,
       [member |-> This, run |-> runs,
        links |-> [n \in Resolved(This) |-> artifacts[n]]])
  /\ UNCHANGED indexed

(* The transaction lands and the answer is lost on the way back.             *)
SubmitNoAnswer ==
  /\ dpc = "submit" /\ Publish
  /\ Fault /\ End("unanswered")

With(f, n, v) == [k \in DOMAIN f \cup {n} |-> IF k = n THEN v ELSE f[k]]

SubmitOkUnrecorded ==  \* mutant
  /\ dpc = "submit" /\ Publish
  /\ created' = With(created, NameOf[This], CollectCreated(Len(published')))
  /\ dpc' = "wait"
  /\ UNCHANGED <<step, gas, artifacts, ended, runs, faults>>

SubmitOk ==
  /\ dpc = "submit" /\ Publish
  /\ artifacts' = With(artifacts, NameOf[This], Len(published'))
  /\ created' = With(created, NameOf[This], CollectCreated(Len(published')))
  /\ dpc' = "wait"
  /\ UNCHANGED <<step, gas, ended, runs, faults>>

NoWait ==  \* mutant
  /\ dpc = "wait"
  /\ dpc' = "gas"
  /\ step' = step + 1
  /\ gas' = 0
  /\ UNCHANGED <<chain, artifacts, created, ended, runs, faults>>

WaitForever ==  \* mutant
  /\ dpc = "wait" /\ indexed > coin
  /\ dpc' = "gas"
  /\ step' = step + 1
  /\ gas' = 0
  /\ UNCHANGED <<chain, artifacts, created, ended, runs, faults>>

(* wait_for_effects polls until the indexer has every written object at its  *)
(* version in the effects: the gas coin is one of them.                      *)
WaitOk ==
  /\ dpc = "wait" /\ indexed = coin
  /\ dpc' = "gas"
  /\ step' = step + 1
  /\ gas' = 0
  /\ UNCHANGED <<chain, artifacts, created, ended, runs, faults>>

WaitRetries ==  \* mutant
  /\ dpc = "wait"
  /\ Fault
  /\ dpc' = "gas"
  /\ UNCHANGED <<chain, step, gas, artifacts, created, ended, runs>>

(* The deadline passes, or one poll meets a backend error.                   *)
WaitFails ==
  /\ dpc = "wait"
  /\ Fault /\ End("unindexed")
  /\ UNCHANGED chain

Index ==
  /\ indexed < coin
  /\ indexed' = indexed + 1
  /\ UNCHANGED <<coin, published, run, faults>>

RunStep ==
  \/ RunDone \/ ApplyGas \/ OracleFails
  \/ SubmitStale \/ SubmitMissing \/ SubmitAborts \/ SubmitNotSent
  \/ SubmitNoAnswer \/ SubmitOk \/ WaitOk \/ WaitFails

DeployNext ==
  \/ TopoNext /\ UNCHANGED <<chain, run, faults>>
  \/ (RunStart \/ RunStep \/ Index) /\ UNCHANGED topoVars

DeploySpec ==
  /\ DeployInit /\ [][DeployNext]_deployVars
  /\ WF_deployVars(TopoNext /\ UNCHANGED <<chain, run, faults>>)
  /\ WF_deployVars(RunStep /\ UNCHANGED topoVars)
  /\ WF_deployVars(Index /\ UNCHANGED topoVars)

-----------------------------------------------------------------------------
(* Properties *)

(* The types of the variables; the indexer is not ahead of the chain, and a  *)
(* package links only to packages that exist.                                *)
DeployTypeOK ==
  /\ TopoTypeOK
  /\ indexed \in 1..coin
  /\ \A i \in 1..Len(published) :
       /\ published[i].member \in Member
       /\ published[i].run \in 1..runs
       /\ \A n \in DOMAIN published[i].links :
            published[i].links[n] \in 1..Len(published)
  /\ dpc \in DeployPoints
  /\ dpc # "idle" => step \in 1..(Len(order) + 1)
  /\ DOMAIN artifacts = DOMAIN created
  /\ ended \in Endings

(* A package is linked against the packages of its own run, each published   *)
(* before it, never against what an earlier, failed run left on chain.       *)
LinkedWithinRun ==
  \A i \in 1..Len(published) : \A n \in DOMAIN published[i].links :
    LET j == published[i].links[n]
    IN  /\ j < i
        /\ published[j].run = published[i].run
        /\ NameOf[published[j].member] = n

(* A run publishes no package twice, not even one whose answer it lost.      *)
OncePerRun ==
  \A i, j \in 1..Len(published) :
    published[i].member = published[j].member
      /\ published[i].run = published[j].run => i = j

(* The order of the sort is good enough for the chain: a publish fails for a *)
(* missing dependency only where a dependency was filtered out of deploy_all.*)
MissingOnlyIfFiltered ==
  ended = "missing" =>
    \E n \in labels[This] \ Pinned : Named(n) = {}

(* "Wait for the indexer ... before the next deploy lists gas coins -        *)
(* otherwise we hit a stale-version error on the same coin": only the first  *)
(* publish of a run can meet one, on the traces of an earlier run.           *)
StaleOnlyAtFirst == ended = "stale" => step = 1 /\ runs > 1

ThisRun == {i \in 1..Len(published) : published[i].run = runs}

Reported == DOMAIN artifacts = {NameOf[published[i].member] : i \in ThisRun}

(* What a failed run reports is what it published, unless an answer was lost.*)
PartialIsExact ==
  dpc = "idle" /\ ended # "unanswered" => Reported

(* A run comes to an end.                                                    *)
DeployEnds == dpc # "idle" ~> dpc = "idle"
=============================================================================
