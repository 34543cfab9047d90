---------------------------- MODULE MCDeployAll ----------------------------
(***************************************************************************)
(* Every dependency graph over four members, each with or without          *)
(* publishable modules and one without an address name; two runs and one   *)
(* fault.                                                                  *)
(***************************************************************************)
EXTENDS DeployAll, TLC

CONSTANTS a, b, c, d

MCNameOf == a :> "a" @@ b :> "b" @@ c :> "c" @@ d :> Nil
MCOrder == <<a, b, c, d>>
=============================================================================
