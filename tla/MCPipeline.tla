----------------------------- MODULE MCPipeline -----------------------------
(***************************************************************************)
(* A workspace for Pipeline: `app` depends on `lib` and on `old`, a git    *)
(* pin of an earlier `lib` whose modules live at the same named address,   *)
(* and all depend on the framework `fw`.                                   *)
(***************************************************************************)
EXTENDS Pipeline, TLC

CONSTANTS app, lib, old, fw,                        \* sources
          app1, app2, lib1, old1, fw1,        \* trees
          x, y, z,                                  \* roots of names
          workspace, alone                          \* configs

MCSource == {app, lib, old, fw}
MCTree == {app1, app2, lib1, old1, fw1}
MCVersions == app :> {app1, app2} @@ lib :> {lib1}
                @@ old :> {old1} @@ fw :> {fw1}

(* app2 uses neither `lib` nor `old`.                                        *)
MCMeta ==
  LET Pack(name, deps, addrs, copy) ==
        [name |-> name, deps |-> deps, exotic |-> FALSE, addrs |-> addrs,
         blank |-> {}, own |-> addrs, shim |-> "shim", copy |-> copy]
  IN  app1 :> Pack("App", <<fw, lib, old>>, {"app"}, app1)
        @@ app2 :> Pack("App", <<fw>>, {"app"}, app2)
        @@ lib1 :> Pack("Lib", << >>, {"lib"}, lib1)
        @@ old1 :> Pack("Lib", << >>, {"lib"}, old1)
        @@ fw1 :> Pack("Sui", << >>, {"sui"}, fw1)

MCHome ==
  [t \in MCTree |-> CHOOSE n \in MCMeta[t].addrs : TRUE]
MCAddrOrder == "app" :> 1 @@ "lib" :> 2 @@ "shim" :> 3 @@ "sui" :> 4
MCBase == app :> <<x>> @@ lib :> <<y>> @@ old :> <<y>>
            @@ fw :> <<z>>
MCEntries ==
  [c \in {workspace, alone} |->
     <<[id |-> <<x>>, src |-> app, crate |-> Nil]>>]
MCFrameworks == [c \in {workspace, alone} |-> {"Sui"}]
=============================================================================
