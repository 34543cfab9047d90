------------------------------ MODULE GasBudget ------------------------------
(***************************************************************************)
(* The gas budget of a transaction whose user sets none: apply_gas of the  *)
(* package deployer with its probe, fill_auto_gas of the two PTB builders, *)
(* and what a validator makes of the budget.                               *)
(*                                                                         *)
(* A probe dry-runs the transaction under a simulated budget.  The         *)
(* deployer halves the simulated budget when the dry run is refused for    *)
(* gas, which a wallet that holds less than it meets.                      *)
(***************************************************************************)
EXTENDS Naturals

CONSTANTS
  Start,      \* SIM_BUDGET_START of the deployer, SIM_BUDGET of the iota builder
  Floor,      \* SIM_BUDGET_FLOOR
  Suggestion, \* what the oracle suggests without a dry run
  MaxU64,     \* the largest number of 64 bits
  Amounts,    \* what a transaction may cost, a coin hold, a user set
  MaxGasFaults   \* bound: oracle failures that have nothing to do with gas

ASSUME GasAssumption ==
  /\ Start \in Nat /\ Floor \in Nat /\ Suggestion \in Nat /\ MaxU64 \in Nat
  /\ Start <= MaxU64 /\ Suggestion <= MaxU64
  /\ Amounts \subseteq 0 .. MaxU64
  /\ MaxGasFaults \in Nat

VARIABLES
  who,        \* "deployer", "iota" or "sui"
  balance,    \* of the coin that pays
  used,       \* what a dry run measures
  cost,       \* what the execution will use
  lenient,    \* whether a dry run overlooks that the coin holds too little
  phase,      \* "fill", "probe", "suggest", "submit", "end"
  sim,        \* the simulated budget
  budget,
  basis,      \* "none", "user", "estimate", "suggestion"
  result,     \* "none", "oracle", "refused", "exhausted", "ok"
  gasFaults

setting == <<who, balance, used, cost, lenient>>
vars == <<setting, phase, sim, budget, basis, result, gasFaults>>

-----------------------------------------------------------------------------
Low(m, n) == IF m <= n THEN m ELSE n

(* gas_used.saturating_add(gas_used / 5), which the builder caps at the      *)
(* simulated budget.                                                         *)
Margin(n) == Low(n + n \div 5, MaxU64)
Capped(n) == Low(Margin(n), Start)  \* mutant
Estimated(n) == IF who = "iota" THEN Low(Margin(n), Start) ELSE Margin(n)

(* The state of the chain moves on between the dry run and the execution,    *)
(* which may use up to a fifth more.                                         *)
Init ==
  /\ who \in {"deployer", "iota", "sui"}
  /\ balance \in Amounts /\ used \in Amounts
  /\ cost \in used .. Margin(used)
  /\ lenient \in BOOLEAN
  /\ phase = "fill" /\ sim = 0 /\ budget = 0
  /\ basis = "none" /\ result = "none" /\ gasFaults = 0

Set(n, from) == budget' = n /\ basis' = from /\ phase' = "submit"

UserBudget ==
  /\ phase = "fill"
  /\ \E n \in Amounts : Set(n, "user")
  /\ UNCHANGED <<setting, sim, result, gasFaults>>

(* The sui transaction builder cannot be cloned: no probe.                   *)
SkipProbe ==
  /\ phase = "fill" /\ who = "sui"
  /\ phase' = "suggest"
  /\ UNCHANGED <<setting, sim, budget, basis, result, gasFaults>>

Probe ==
  /\ phase = "fill" /\ who # "sui"
  /\ phase' = "probe" /\ sim' = Start
  /\ UNCHANGED <<setting, budget, basis, result, gasFaults>>

(* The input checker wants the coin to hold the simulated budget, and the    *)
(* simulation has no more gas than that.                                     *)
Simulates == (balance >= sim \/ lenient) /\ used <= sim

DryRun ==
  /\ phase = "probe" /\ Simulates
  /\ Set(Estimated(used), "estimate")
  /\ UNCHANGED <<setting, sim, result, gasFaults>>

(* Both refusals speak of gas; so may an error that has nothing to do with   *)
(* the budget.  A builder asks only once.                                    *)
Tenth(n) == n \div 10  \* mutant
Less(n) == n \div 2
RetryAlways == who = "deployer"  \* mutant
Retry == who = "deployer" /\ Less(sim) >= Floor

DryRunRefused ==
  /\ phase = "probe"
  /\ \/ ~Simulates /\ UNCHANGED gasFaults
     \/ gasFaults < MaxGasFaults /\ gasFaults' = gasFaults + 1
  /\ IF Retry THEN sim' = Less(sim) /\ phase' = phase
              ELSE phase' = "suggest" /\ sim' = sim
  /\ UNCHANGED <<setting, budget, basis, result>>

(* Any other error, of the network or an abort, ends the probe.              *)
DryRunFails ==
  /\ phase = "probe" /\ gasFaults < MaxGasFaults
  /\ gasFaults' = gasFaults + 1
  /\ phase' = "suggest"
  /\ UNCHANGED <<setting, sim, budget, basis, result>>

Suggest ==
  /\ phase = "suggest"
  /\ Set(Suggestion, "suggestion")
  /\ UNCHANGED <<setting, sim, result, gasFaults>>

GasOracleFails ==
  /\ phase \in {"fill", "suggest"} /\ gasFaults < MaxGasFaults
  /\ gasFaults' = gasFaults + 1
  /\ phase' = "end" /\ result' = "oracle"
  /\ UNCHANGED <<setting, sim, budget, basis>>

(* A validator refuses a budget the coin does not hold, at no cost; one that *)
(* does not cover the execution is spent for nothing.                        *)
Submit ==
  /\ phase = "submit"
  /\ phase' = "end"
  /\ result' = IF budget > balance THEN "refused"
               ELSE IF budget < cost THEN "exhausted" ELSE "ok"
  /\ UNCHANGED <<setting, sim, budget, basis, gasFaults>>

Next ==
  \/ UserBudget \/ SkipProbe \/ Probe \/ DryRun \/ DryRunRefused \/ DryRunFails
  \/ Suggest \/ GasOracleFails \/ Submit

Spec == Init /\ [][Next]_vars /\ WF_vars(Next)

-----------------------------------------------------------------------------
GasTypeOK ==
  /\ who \in {"deployer", "iota", "sui"}
  /\ balance \in Nat /\ used \in 0 .. MaxU64 /\ cost \in used .. Margin(used)
  /\ lenient \in BOOLEAN
  /\ phase \in {"fill", "probe", "suggest", "submit", "end"}
  /\ sim \in 0 .. Start
  /\ budget \in 0 .. MaxU64
  /\ basis \in {"none", "user", "estimate", "suggestion"}
  /\ result \in {"none", "oracle", "refused", "exhausted", "ok"}
  /\ gasFaults \in 0 .. MaxGasFaults

(* What a dry run measured is never spent for nothing: the deployer's budget *)
(* covers an execution that uses up to a fifth more ("deliberately not       *)
(* capped", deployer.rs), the builder's whenever the margin fits below its   *)
(* cap.                                                                      *)
EstimateCovers ==
  basis = "estimate" /\ result = "exhausted"
    => who = "iota" /\ Margin(used) > Start

(* "To stay usable on wallets below 1 IOTA": halving misses no wallet that   *)
(* could be measured.  A deployer falls back to the suggestion only after a  *)
(* fault, or when the coin holds less than twice what is used, or than twice *)
(* the floor, or the use exceeds the first simulated budget.                 *)
ProbeFinds ==
  who = "deployer" /\ basis = "suggestion" /\ gasFaults = 0
    => balance < 2 * used \/ balance < 2 * Floor \/ used > Start

(* The probe ends, and the transaction with it: refused, executed or given   *)
(* up.                                                                       *)
ProbeEnds == <>(phase = "end")
=============================================================================
