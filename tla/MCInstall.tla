----------------------------- MODULE MCInstall -----------------------------
(***************************************************************************)
(* A small workspace for Install: a listed package `app`, a local          *)
(* dependency `lib` and a git dependency `git` that depend on each other,  *)
(* with names that collide in every way the code provides for.             *)
(***************************************************************************)
EXTENDS Install, TLC

CONSTANTS app, lib, git,                        \* sources
          app1, app2, lib1, lib2, git1, git2,   \* trees
          x, y,                                 \* roots of names
          plain, clash, two              \* configs

MCSource == {app, lib, git}
MCTree == {app1, app2, lib1, lib2, git1, git2}
MCVersions == app :> {app1, app2} @@ lib :> {lib1, lib2} @@ git :> {git1, git2}

(* app2 dropped its git dependency; lib2 declares a dependency that is       *)
(* neither `local` nor `git`; git2 is git1 with a Published.toml added.      *)
MCMeta ==
  LET App(deps, own, copy) ==
        [name |-> "App", deps |-> deps, exotic |-> FALSE,
         addrs |-> {"app", "lib"}, blank |-> {}, own |-> own,
         shim |-> "app", copy |-> copy]
      Lib(exotic, copy) ==
        [name |-> "Lib", deps |-> <<git>>, exotic |-> exotic,
         addrs |-> {"lib"}, blank |-> {"lib"}, own |-> {"lib"},
         shim |-> "mylib", copy |-> copy]
      Git == [name |-> "Sui", deps |-> <<lib>>, exotic |-> FALSE,
              addrs |-> {"sui"}, blank |-> {}, own |-> {},
              shim |-> "sui", copy |-> git1]
  IN  app1 :> App(<<lib, git>>, {"app"}, app1)
        @@ app2 :> App(<<lib>>, {"app", "lib"}, app2)
        @@ lib1 :> Lib(FALSE, lib1) @@ lib2 :> Lib(TRUE, lib2)
        @@ git1 :> Git @@ git2 :> Git

MCAddrOrder == "app" :> 1 @@ "lib" :> 2 @@ "mylib" :> 3 @@ "sui" :> 4

(* The id <<x>> of `app` is the basename of `lib`; `git` has the basename of *)
(* `app`; config `two` lists `git` under the id "x-2" that `lib` would take; *)
(* config `clash` asks for the crate name that `lib` would take.             *)
MCBase == app :> <<y>> @@ lib :> <<x>> @@ git :> <<y>>
MCEntries ==
  LET listed(id, s, crate) == [id |-> id, src |-> s, crate |-> crate]
  IN  [c \in Config |->
         CASE c = plain -> <<listed(<<x>>, app, Nil)>>
           [] c = clash -> <<listed(<<x>>, app, <<x, 2, Rs>>)>>
           [] c = two -> <<listed(<<x>>, app, Nil),
                           listed(<<x, 2>>, git, <<y, y>>)>>]
MCFrameworks == [c \in Config |-> {"Sui"}]

AllPoints == Points
AfterClear == Points \ {"clear", "clean"}
=============================================================================
