---------------------------- MODULE MCGasBudget -----------------------------
(* The budgets of the code scaled down: a start of 50 is halved twice before  *)
(* the floor of 8 stops it, odd numbers are halved on the way, and amounts    *)
(* lie on both sides of every simulated budget and of the largest number.     *)
EXTENDS GasBudget

MCAmounts == {0, 7, 8, 11, 12, 13, 15, 16, 17, 24, 25, 26, 41, 42, 49, 50, 51,
              53, 64}
=============================================================================
