----------------------------- MODULE GasProofs ------------------------------
(***************************************************************************)
(* Theorems about GasBudget, for every budget the probe starts with, every *)
(* floor, width of numbers and set of amounts.                             *)
(***************************************************************************)
EXTENDS GasBudget, TLAPS

(* What every budget and every simulated budget comes from.                  *)
LEMMA Numbers ==
  ASSUME NEW n \in 0 .. MaxU64
  PROVE  Margin(n) \in n .. MaxU64
BY GasAssumption DEF Margin, Low

(* Halving a natural number rounds down and loses at most one. *)
LEMMA Halves ==
  ASSUME NEW n \in Nat
  PROVE  /\ Less(n) \in 0 .. n
         /\ n = 2 * Less(n) \/ n = 2 * Less(n) + 1
BY DEF Less

(* The part of the type invariant that steps of the probe change.             *)
ProbeTypeOK ==
  /\ phase \in {"fill", "probe", "suggest", "submit", "end"}
  /\ sim \in 0 .. Start
  /\ budget \in 0 .. MaxU64
  /\ basis \in {"none", "user", "estimate", "suggestion"}
  /\ result \in {"none", "oracle", "refused", "exhausted", "ok"}
  /\ gasFaults \in 0 .. MaxGasFaults

(* The variables of the probe have their types: no simulated budget exceeds  *)
(* the first one and no budget exceeds 64 bits, saturation included.         *)
THEOREM TypeCorrect == Spec => []GasTypeOK
<1>1. Init => GasTypeOK
  <2> SUFFICES ASSUME Init PROVE GasTypeOK
    OBVIOUS
  <2>1. balance \in Nat /\ used \in 0 .. MaxU64
    BY GasAssumption DEF Init
  <2>2. cost \in used .. Margin(used)
    BY DEF Init
  <2>3. sim \in 0 .. Start /\ budget \in 0 .. MaxU64 /\ gasFaults \in 0 .. MaxGasFaults
    BY GasAssumption DEF Init
  <2> QED
    BY <2>1, <2>2, <2>3 DEF Init, GasTypeOK
<1>2. GasTypeOK /\ [Next]_vars => GasTypeOK'
  <2> SUFFICES ASSUME GasTypeOK, [Next]_vars PROVE GasTypeOK'
    OBVIOUS
  <2>1. UNCHANGED setting
    BY DEF vars, Next, UserBudget, SkipProbe, Probe, DryRun, DryRunRefused,
           DryRunFails, Suggest, GasOracleFails, Submit
  <2>2. /\ who' \in {"deployer", "iota", "sui"} /\ lenient' \in BOOLEAN
        /\ balance' \in Nat /\ used' \in 0 .. MaxU64
        /\ cost' \in used' .. Margin(used')
    BY <2>1 DEF GasTypeOK, setting
  <2>3. ProbeTypeOK'
    <3> USE DEF ProbeTypeOK, Set
    <3>1. ProbeTypeOK /\ used \in 0 .. MaxU64
      BY DEF GasTypeOK
    <3>2. CASE UserBudget
      BY <3>1, <3>2, GasAssumption DEF UserBudget
    <3>3. CASE SkipProbe
      BY <3>1, <3>3 DEF SkipProbe
    <3>4. CASE Probe
      BY <3>1, <3>4, GasAssumption DEF Probe
    <3>5. CASE DryRun
      <4>1. Margin(used) \in 0 .. MaxU64
        BY <3>1, Numbers
      <4>2. Estimated(used) \in 0 .. MaxU64
        BY <4>1, GasAssumption DEF Estimated, Low
      <4> QED
        BY <3>1, <3>5, <4>2 DEF DryRun
    <3>6. CASE DryRunRefused
      <4>1. Less(sim) \in 0 .. Start
        BY <3>1, Halves, GasAssumption
      <4>2. gasFaults' \in 0 .. MaxGasFaults
        BY <3>1, <3>6, GasAssumption DEF DryRunRefused
      <4>3. /\ sim' \in {sim, Less(sim)} /\ phase' \in {"probe", "suggest"}
            /\ UNCHANGED <<budget, basis, result>>
        BY <3>6 DEF DryRunRefused
      <4> QED
        BY <3>1, <4>1, <4>2, <4>3
    <3>7. CASE DryRunFails
      BY <3>1, <3>7, GasAssumption DEF DryRunFails
    <3>8. CASE Suggest
      BY <3>1, <3>8, GasAssumption DEF Suggest
    <3>9. CASE GasOracleFails
      BY <3>1, <3>9, GasAssumption DEF GasOracleFails
    <3>10. CASE Submit
      BY <3>1, <3>10 DEF Submit
    <3>11. CASE UNCHANGED vars
      BY <3>1, <3>11 DEF vars
    <3> QED
      BY <3>2, <3>3, <3>4, <3>5, <3>6, <3>7, <3>8, <3>9, <3>10, <3>11 DEF Next
  <2> QED
    BY <2>2, <2>3 DEF GasTypeOK, ProbeTypeOK
<1> QED
  BY <1>1, <1>2, PTL DEF Spec

-----------------------------------------------------------------------------
(* A budget that rests on an estimate is the estimate of what was measured,  *)
(* until the transaction is over.                                            *)
Measured ==
  /\ basis = "estimate" => budget = Estimated(used)
  /\ phase \in {"fill", "probe", "suggest"} => basis = "none"
  /\ result = "exhausted" => phase = "end" /\ budget < cost

(* What a dry run measured covers an execution that uses up to a fifth more: *)
(* always for the deployer, for the iota builder unless its cap cuts the     *)
(* margin off.                                                               *)
THEOREM EstimateIsEnough == Spec => []EstimateCovers
<1>1. Init => Measured
  BY DEF Init, Measured
<1>2. GasTypeOK /\ Measured /\ [Next]_vars => Measured'
  <2> SUFFICES ASSUME GasTypeOK, Measured, [Next]_vars PROVE Measured'
    OBVIOUS
  <2>1. Estimated(used)' = Estimated(used) /\ UNCHANGED cost
    <3>1. UNCHANGED setting
      BY DEF vars, Next, UserBudget, SkipProbe, Probe, DryRun, DryRunRefused,
             DryRunFails, Suggest, GasOracleFails, Submit
    <3> QED
      BY <3>1 DEF setting, Estimated
  <2> USE <2>1 DEF Measured, Set
  <2>2. CASE UserBudget
    BY <2>2 DEF UserBudget
  <2>3. CASE SkipProbe \/ Probe
    BY <2>3 DEF SkipProbe, Probe
  <2>4. CASE DryRun
    BY <2>4 DEF DryRun
  <2>5. CASE DryRunRefused
    BY <2>5 DEF DryRunRefused
  <2>6. CASE DryRunFails \/ GasOracleFails
    BY <2>6 DEF DryRunFails, GasOracleFails
  <2>7. CASE Suggest
    BY <2>7 DEF Suggest
  <2>8. CASE Submit
    BY <2>8 DEF Submit
  <2>9. CASE UNCHANGED vars
    BY <2>9 DEF vars
  <2> QED
    BY <2>2, <2>3, <2>4, <2>5, <2>6, <2>7, <2>8, <2>9 DEF Next
<1>3. GasTypeOK /\ Measured => EstimateCovers
  <2> SUFFICES ASSUME GasTypeOK, Measured,
                      basis = "estimate", result = "exhausted"
               PROVE  who = "iota" /\ Margin(used) > Start
    BY DEF EstimateCovers
  <2>1. budget = Estimated(used) /\ budget < cost /\ cost <= Margin(used)
    BY DEF Measured, GasTypeOK, Margin, Low
  <2>2. Margin(used) \in Nat /\ cost \in Nat
    BY Numbers, GasAssumption DEF GasTypeOK
  <2>3. Estimated(used) # Margin(used)
    BY <2>1, <2>2
  <2> QED
    BY <2>2, <2>3, GasAssumption DEF Estimated, Low
<1> QED
  BY <1>1, <1>2, <1>3, TypeCorrect, PTL DEF Spec

-----------------------------------------------------------------------------
(* Halving stays above what the coin holds or what is used: a deployer that  *)
(* has come to a simulated budget has passed none that could be measured.    *)
Halving ==
  who = "deployer" /\ gasFaults = 0 =>
    /\ phase = "fill" => basis = "none"
    /\ phase = "probe" =>
         /\ basis = "none"
         /\ sim = Start \/ used > Start \/ balance < 2 * used \/ balance <= 2 * sim
    /\ phase = "suggest" =>
         balance < 2 * used \/ balance < 2 * Floor \/ used > Start
    /\ basis = "suggestion" =>
         balance < 2 * used \/ balance < 2 * Floor \/ used > Start

(* "To stay usable on wallets below 1 IOTA": without faults the deployer        *)
(* gives up measuring only for a coin that holds less than twice what is     *)
(* used or twice the floor, or a use beyond the first simulated budget.      *)
THEOREM HalvingMissesNone == Spec => []ProbeFinds
<1>1. Init => Halving
  BY DEF Init, Halving
<1>2. GasTypeOK /\ Halving /\ [Next]_vars => Halving'
  <2> SUFFICES ASSUME GasTypeOK, Halving, [Next]_vars,
                      who' = "deployer", gasFaults' = 0
               PROVE  Halving'
    BY DEF Halving
  <2>1. who = who' /\ gasFaults = 0
    BY DEF GasTypeOK, Next, vars, setting, UserBudget, SkipProbe, Probe, DryRun,
           DryRunRefused, DryRunFails, Suggest, GasOracleFails, Submit
  <2> USE DEF Halving, setting, Set
  <2>2. CASE UserBudget
    BY <2>1, <2>2 DEF UserBudget
  <2>3. CASE SkipProbe \/ Probe
    BY <2>1, <2>3 DEF SkipProbe, Probe
  <2>4. CASE DryRun
    BY <2>1, <2>4 DEF DryRun
  <2>5. CASE DryRunRefused
    <3>1. ~Simulates /\ phase = "probe" /\ UNCHANGED <<who, balance, used, basis>>
      BY <2>1, <2>5 DEF DryRunRefused
    <3>2. balance < sim \/ used > sim
      BY <3>1 DEF Simulates, GasTypeOK
    <3>3. /\ sim \in Nat /\ used \in Nat /\ balance \in Nat
          /\ Start \in Nat /\ Floor \in Nat
      BY GasAssumption DEF GasTypeOK
    <3>4. sim = 2 * Less(sim) \/ sim = 2 * Less(sim) + 1
      BY <3>3, Halves
    <3>5. Less(sim) \in Nat
      BY <3>3, Halves
    <3>6. used > Start \/ balance < 2 * used \/ balance < sim
      BY <2>1, <3>1, <3>2, <3>3
    <3>7. CASE Retry
      BY <2>1, <2>5, <3>1, <3>3, <3>4, <3>5, <3>6, <3>7 DEF DryRunRefused
    <3>8. CASE ~Retry
      <4>1. Less(sim) < Floor
        BY <2>1, <3>3, <3>5, <3>8 DEF Retry
      <4> QED
        BY <2>1, <2>5, <3>1, <3>3, <3>4, <3>5, <3>6, <3>8, <4>1 DEF DryRunRefused
    <3> QED
      BY <3>7, <3>8
  <2>6. CASE DryRunFails \/ GasOracleFails
    BY <2>1, <2>6, GasAssumption DEF DryRunFails, GasOracleFails, GasTypeOK
  <2>7. CASE Suggest
    BY <2>1, <2>7 DEF Suggest
  <2>8. CASE Submit
    BY <2>1, <2>8 DEF Submit
  <2>9. CASE UNCHANGED vars
    BY <2>1, <2>9 DEF vars
  <2> QED
    BY <2>2, <2>3, <2>4, <2>5, <2>6, <2>7, <2>8, <2>9 DEF Next
<1>3. Halving => ProbeFinds
  BY DEF Halving, ProbeFinds
<1> QED
  BY <1>1, <1>2, <1>3, TypeCorrect, PTL DEF Spec
=============================================================================
