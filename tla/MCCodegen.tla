----------------------------- MODULE MCCodegen -----------------------------
(***************************************************************************)
(* A workspace for Codegen: `app` uses `lib` and the framework `fw`; `old` *)
(* is an older `lib` at the same address; `std` is the Move library and    *)
(* `bare` a package without modules.  The compiler may hand over several   *)
(* forms of `app`, `lib` and `old`.                                        *)
(***************************************************************************)
EXTENDS Codegen, TLC

None == [no \in {} |-> no]

(* Types *)
Plain == [ref |-> "no", head |-> "plain", data |-> {}, kinds |-> {},
          inner |-> {}, params |-> {}]
U256 == [Plain EXCEPT !.head = "u256"]
Signer == [Plain EXCEPT !.head = "signer"]
Param(i) == [Plain EXCEPT !.head = "param", !.params = {i}]
Data(d) == [Plain EXCEPT !.head = "data", !.data = {d}]
Of(t, d) == [t EXCEPT !.inner = @ \cup {d}, !.kinds = @ \cup {"data"}]
Vec(d) == Of([Plain EXCEPT !.head = "vector"], d)
Mut(t) == [t EXCEPT !.ref = "mut"]

Coin == Dt("0x2", "coin", "Coin")
Info == Dt("0x1", "info", "Info")
Pool == Dt("A", "pool", "Pool")
Fee == Dt("A", "pool", "Fee")
Option == Dt("0x1", "option", "Option")
UID == Dt("0x2", "object", "UID")
Auth == Dt("0x2", "auth_context", "AuthContext")
Kiosk == Dt("B", "shop", "Kiosk")

(* Declarations *)
Struct(fields) == [phantom |-> << >>, fields |-> fields]
Generic(phantom, fields) == [phantom |-> phantom, fields |-> fields]
Fun(v, e, takes, returns) ==
  [visibility |-> v, entry |-> e, takes |-> takes, returns |-> returns]
Mod(types, funs) == [consts |-> {}, types |-> types, funs |-> funs]

FwIR ==
  "object" :> Mod("UID" :> Struct({Plain}), None)
    @@ "coin" :> Mod("Coin" :> Generic(<<TRUE>>, {Data(UID), Plain}), None)
    @@ "tx_context" :> Mod("TxContext" :> Struct({Plain}), None)
    @@ "auth_context" :> Mod("AuthContext" :> Struct({Plain}), None)
StdIR ==
  "option" :> Mod("Option" :> Generic(<<FALSE>>, {Vec(Info)}), None)
    @@ "info" :> Mod("Info" :> Struct({Plain}), None)
LibIR ==
  {"pool" :> Mod("Pool" :> Generic(<<FALSE>>, {Data(UID), Param(1)})
                   @@ "Fee" :> Struct({fee}), None) : fee \in {Plain, U256}}
OldIR == {"pool" :> Mod("Pool" :> Generic(<<FALSE>>, {Data(UID)}), None)}

(* `shop` holds what the test varies; `names` pairs words by case.           *)
Shop(field, takes, v) ==
  "shop" :> Mod("Kiosk" :> Struct({Data(UID), field}),
                "open" :> Fun(v, FALSE, {takes, Mut(Data(TxContext))}, {Vec(Fee)}))
Names ==
  "names" :> [consts |-> {"named", "unnamed"},
              types |-> [n \in {"Kiosk", "KIOSK", "Other"} |->
                           Struct({Data(Kiosk)})],
              funs |-> None]
Quiet == "quiet" :> [consts |-> {"unnamed", "undecodable"}, types |-> None,
                     funs |-> "help" :> Fun("friend", FALSE, {Signer}, {})
                                @@ "hide" :> Fun("private", FALSE, {}, {})]
Entry == "entry" :> Mod(None, "run" :> Fun("private", TRUE, {Plain}, {}))
AppIR(fields) ==
  {Shop(f, t, v) @@ Names @@ Quiet @@ Entry :
     f \in fields,
     t \in {Plain, Signer, Mut(Of(Data(Pool), Info)), Data(Info), Data(Auth),
            Of(Data(Option), Fee)},
     v \in {"public", "friend"}}
AppFields == {Of(Data(Option), Fee), Of(Of(Vec(Pool), Coin), Info),
              Data(Dt("0x3", "info", "Info"))}

MCStaged == <<"bare", "app", "sys", "old", "lib", "fw", "std">>
MCPackage == {"bare", "app", "sys", "old", "lib", "fw", "std"}
MCMoveName == [p \in MCPackage |->
  CASE p = "fw" -> "Iota" [] p = "std" -> "MoveStdlib" [] OTHER -> p]
MCCrateOf == [p \in MCPackage |-> p]
MCAddressOf == "bare" :> "C" @@ "app" :> "B" @@ "old" :> "A" @@ "lib" :> "A"
                 @@ "fw" :> "0x2" @@ "std" :> "0x1" @@ "sys" :> "0x3"
MCTypeName == {"UID", "ID", "Option", "String", "Coin", "TxContext",
               "AuthContext", "Info", "Pool", "Fee", "Kiosk", "KIOSK", "Other"}
MCLower == [n \in MCTypeName |->
  CASE n \in {"Kiosk", "KIOSK"} -> "kiosk" [] OTHER -> n]
Forms(p) ==
  CASE p \in {"bare", "sys"} -> {None} [] p = "fw" -> {FwIR} [] p = "std" -> {StdIR}
    [] p = "lib" -> LibIR [] p = "old" -> OldIR \cup {None}
    [] p = "app" -> AppIR(AppFields)
MCCompiled == [p \in MCPackage |-> Forms(p)]
=============================================================================
