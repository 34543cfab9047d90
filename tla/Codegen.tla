------------------------------ MODULE Codegen ------------------------------
(***************************************************************************)
(* What `generate` writes for the packages it compiled                     *)
(* (crates/move-bindgen/src/codegen, peer.rs, and the two loops of         *)
(* generate_workspace_from_staging in crates/move-bindgen-cli/src/main.rs).*)
(*                                                                         *)
(* The first loop compiles the packages and gives each address one crate.  *)
(* The second emits a crate per package, module by module; a Move type     *)
(* becomes the path of a Rust item, found by rustc only when this crate,   *)
(* or another that is written later, holds the item and the Cargo.toml     *)
(* names that crate.                                                       *)
(*                                                                         *)
(* A type is seen as what the translation looks at: its outermost          *)
(* constructor, and the datatypes, primitive kinds and type parameters     *)
(* below it.  The nesting of what is below is kept by the code as it is.   *)
(***************************************************************************)
EXTENDS Naturals, Sequences, FiniteSets

CONSTANTS
  Packages,     \* the staged packages
  Staged,       \* Seq(Packages): the order of packages.json
  Framework,    \* those recorded as framework packages
  MoveNameOf,   \* MoveNameOf[p]: the package name in its Move.toml
  CrateOf,      \* CrateOf[p]: its crate name
  BuiltAt,      \* BuiltAt[p]: the address its modules are compiled at
  Address, ModName, TypeName, FunName,
  Lower,        \* Lower[n]: str::to_lowercase, for type names
  Compiled      \* Compiled[p]: the modules the compiler may hand over for p

Datatype == [at : Address, mod : ModName, name : TypeName]

(* ref: how a parameter is passed; data: the outermost datatype, if head is  *)
(* "data"; kinds, inner, params: what is below the outermost constructor.    *)
Kind == {"plain", "u256", "signer", "vector", "param", "data"}
Type == [ref : {"no", "imm", "mut"}, head : Kind, data : SUBSET Datatype,
         kinds : SUBSET Kind, inner : SUBSET Datatype, params : SUBSET Nat]

(* fields: of the struct, or of all variants of the enum.                    *)
IsDecl(d) ==
  /\ DOMAIN d.phantom = 1..Len(d.phantom)
  /\ d.fields \subseteq Type

IsModule(m) ==
  /\ m.consts \subseteq {"named", "unnamed", "undecodable"}
  /\ DOMAIN m.types \subseteq TypeName
  /\ \A n \in DOMAIN m.types : IsDecl(m.types[n])
  /\ DOMAIN m.funs \subseteq FunName
  /\ \A f \in DOMAIN m.funs :
       /\ m.funs[f].visibility \in {"public", "friend", "private"}
       /\ m.funs[f].entry \in BOOLEAN
       /\ m.funs[f].takes \subseteq Type /\ m.funs[f].returns \subseteq Type

Mentions(t) == t.data \cup t.inner
Signatures(m) == UNION {m.funs[f].takes \cup m.funs[f].returns :
                          f \in DOMAIN m.funs}
Fields(m) == UNION {m.types[n].fields : n \in DOMAIN m.types}
Mentioned(mods) == UNION {Mentions(t) : t \in
  UNION {Fields(mods[m]) \cup Signatures(mods[m]) : m \in DOMAIN mods}}

ASSUME CodegenAssumption ==
  /\ Staged \in Seq(Packages)
  /\ \A i, j \in 1..Len(Staged) :
       CrateOf[Staged[i]] = CrateOf[Staged[j]] => i = j
  /\ Framework \subseteq Packages
  /\ BuiltAt \in [Packages -> Address]
  /\ "0x0" \notin Address  \* install has written "_" for it and bound the name
  /\ \A p \in Packages : \A mods \in Compiled[p] : \A m \in DOMAIN mods :
       m \in ModName /\ IsModule(mods[m])

ASSUME LowerAssumption ==
  \A n \in TypeName : n \in DOMAIN Lower
    /\ (Lower[n] \in DOMAIN Lower => Lower[Lower[n]] = Lower[n])

VARIABLES
  ir,       \* ir[p]: the modules of p, once it is compiled
  phase,    \* "load", "begin", "emit", "done", "failed"
  next,     \* the package the loop has come to
  loaded,   \* Seq of the packages that get a crate
  peers,    \* PeerMap: address |-> crate
  todo,     \* modules of the package being emitted not yet looked at
  body,     \* module |-> items emitted for it so far
  crates    \* crate |-> [deps, mods], on disk

vars == <<ir, phase, next, loaded, peers, todo, body, crates>>

-----------------------------------------------------------------------------
(* Types *)

Dt(a, m, n) == [at |-> a, mod |-> m, name |-> n]

(* The types the runtime provides itself, and the names it has for them.     *)
WellKnown ==
  {Dt("0x2", "object", "UID"), Dt("0x2", "object", "ID"),
   Dt("0x1", "option", "Option"), Dt("0x1", "string", "String"),
   Dt("0x1", "ascii", "String")}
RuntimeName(d) == IF d.mod = "ascii" THEN "AsciiString" ELSE d.name

TxContext == Dt("0x2", "tx_context", "TxContext")

SkipModules(p) ==
  CASE MoveNameOf[p] = "Iota" -> {"object", "ptb_command", "ptb_call_arg",
                                  "auth_context", "ptb"}
    [] MoveNameOf[p] = "MoveStdlib" -> {"option", "string", "ascii"}
    [] OTHER -> {}

(* bindings_address: a package without modules counts as at address zero.    *)
BindingsAddress(p, mods) == IF DOMAIN mods = {} THEN "0x0" ELSE BuiltAt[p]

(* rust_datatype: the path for datatype d inside module m of package p. Only *)
(* the first three roots need no entry in Cargo.toml.                        *)
PathRoot(p, m, d) ==
  CASE d \in WellKnown -> "prelude"
    [] d \notin WellKnown /\ d.at = BuiltAt[p] /\ d.mod = m -> "self"
    [] d \notin WellKnown /\ d.at = BuiltAt[p] /\ d.mod # m -> "super"
    [] OTHER -> "peer"

Unroutable(p, m, d) == PathRoot(p, m, d) = "peer" /\ d.at \notin DOMAIN peers

(* One occurrence of a path: the datatype meant, where the path starts, and  *)
(* whether it names the type or its Argument trait.                          *)
Use(p, m, d, item) ==
  [means |-> d, root |-> PathRoot(p, m, d), item |-> item,
   crate |-> IF PathRoot(p, m, d) = "peer" /\ d.at \in DOMAIN peers
               THEN peers[d.at] ELSE CrateOf[p]]
Uses(p, m, ds, item) == {Use(p, m, d, item) : d \in ds}

(* rust_type and param_bound refuse signers.                                 *)
Untypable(t) == "signer" \in {t.head} \cup t.kinds

-----------------------------------------------------------------------------
(* Datatypes *)

(* field_serde_attr looks at the outermost constructor only.                 *)
Attributed(t) == t.head = "u256"

(* The parameters Rust would call unused: they go into a skipped PhantomData *)
(* field or variant after all others.                                        *)
Hidden(d) ==
  {i \in DOMAIN d.phantom :
     d.phantom[i] \/ i \notin UNION {t.params : t \in d.fields}}

EmitDatatype(p, m, d) ==
  [attributed |-> {t \in d.fields : Attributed(t)},
   hidden |-> Hidden(d),
   generic |-> Len(d.phantom) > 0]

(* emit_module_at: a method for each datatype without type parameters.       *)
NonGeneric(mod) == {n \in DOMAIN mod.types : Len(mod.types[n].phantom) = 0}
Alone(names, n) == \A k \in names : Lower[k] = Lower[n] => k = n
AlwaysLower(names, n) == Lower[n]  \* mutant
Method(names, n) == IF Alone(names, n) THEN Lower[n] ELSE n
TagMethods(mod) == [n \in NonGeneric(mod) |-> Method(NonGeneric(mod), n)]

-----------------------------------------------------------------------------
(* Functions *)

Callable(f) == f.visibility = "public" \/ (f.visibility = "private" /\ f.entry)

IsTxContext(t) == TxContext \in t.data
Arguments(f) == {t \in f.takes : ~IsTxContext(t)}

(* datatype_bound: options, strings and whatever is in 0x2::object get       *)
(* traits of the runtime, everything else the Argument trait of its module.  *)
RuntimeBound(d) == d \in WellKnown \/ (d.at = "0x2" /\ d.mod = "object")
BoundTraits(t) == {d \in t.data : ~RuntimeBound(d)}
BoundTypes(t) ==
  IF t.head = "vector" \/ t.data \subseteq WellKnown \/ BoundTraits(t) # {}
    THEN t.inner ELSE {}

-----------------------------------------------------------------------------
(* Modules *)

Callables(mod) == {mod.funs[f] : f \in {g \in DOMAIN mod.funs :
                                          Callable(mod.funs[g])}}
Passed(mod) == UNION {Arguments(f) : f \in Callables(mod)}

TypeUses(mod) == (UNION {Mentions(t) : t \in Fields(mod)})
                   \cup (UNION {BoundTypes(t) : t \in Passed(mod)})
TraitUses(mod) == UNION {BoundTraits(t) : t \in Passed(mod)}

Refused(p, m) ==
  \/ \E t \in Fields(ir[p][m]) \cup Passed(ir[p][m]) : Untypable(t)
  \/ \E d \in TypeUses(ir[p][m]) \cup TraitUses(ir[p][m]) :
       Unroutable(p, m, d)

Empty(mod) ==
  /\ "named" \notin mod.consts
  /\ DOMAIN mod.types = {} /\ Callables(mod) = {}

Items(p, m) ==
  LET mod == ir[p][m]
  IN  [types |-> [n \in DOMAIN mod.types |-> EmitDatatype(p, m, mod.types[n])],
       uses |-> Uses(p, m, TypeUses(mod), "type")
                  \cup Uses(p, m, TraitUses(mod), "trait"),
       methods |-> TagMethods(mod)]

(* foreign_addresses_used walks every signature, callable or not.            *)
HeadsOnly(p) ==  \* mutant
  {d.at : d \in UNION {t.data : t \in
     UNION {Fields(ir[p][m]) \cup Signatures(ir[p][m]) : m \in DOMAIN ir[p]}}}
    \ {BuiltAt[p]}
Foreign(p) == {d.at : d \in Mentioned(ir[p])} \ {BuiltAt[p]}
PeerDeps(p) == {peers[a] : a \in Foreign(p) \cap DOMAIN peers}

-----------------------------------------------------------------------------
(* generate_workspace_from_staging *)

CodegenInit ==
  /\ ir = << >>
  /\ phase = "load" /\ next = 1
  /\ loaded = << >> /\ peers = << >>
  /\ todo = {} /\ body = << >> /\ crates = << >>

(* The runtime owns the types of a framework package: it gets no crate.      *)
PassFramework ==
  /\ phase = "load" /\ next <= Len(Staged) /\ Staged[next] \in Framework
  /\ next' = next + 1
  /\ UNCHANGED <<ir, phase, loaded, peers, todo, body, crates>>

With(f, x, v) == [y \in DOMAIN f \cup {x} |-> IF y = x THEN v ELSE f[y]]

(* load_package_for_publish, then PeerMap::insert: the first package at an   *)
(* address gets the crate.                                                   *)
Load ==
  /\ phase = "load" /\ next <= Len(Staged)
  /\ LET p == Staged[next]
     IN  /\ p \notin Framework
         /\ \E mods \in Compiled[p] :
              /\ BindingsAddress(p, mods) \notin DOMAIN peers
              /\ ir' = With(ir, p, mods)
              /\ peers' = With(peers, BindingsAddress(p, mods), CrateOf[p])
         /\ loaded' = Append(loaded, p)
  /\ next' = next + 1
  /\ UNCHANGED <<phase, todo, body, crates>>

Alias ==
  /\ phase = "load" /\ next <= Len(Staged)
  /\ LET p == Staged[next]
     IN  /\ p \notin Framework
         /\ \E mods \in Compiled[p] :
              BindingsAddress(p, mods) \in DOMAIN peers
  /\ next' = next + 1
  /\ UNCHANGED <<ir, phase, loaded, peers, todo, body, crates>>

Loaded ==
  /\ phase = "load" /\ next > Len(Staged)
  /\ phase' = "begin" /\ next' = 1
  /\ UNCHANGED <<ir, loaded, peers, todo, body, crates>>

BeginMember ==
  /\ phase = "begin" /\ next <= Len(loaded)
  /\ phase' = "emit"
  /\ todo' = DOMAIN ir[loaded[next]]
  /\ body' = << >>
  /\ UNCHANGED <<ir, next, loaded, peers, crates>>

NothingSkipped(m) == FALSE  \* mutant
Skipped(m) == m \in SkipModules(loaded[next])

(* A module of the runtime, or one with nothing to emit, gets no file.       *)
SkipModule ==
  /\ phase = "emit"
  /\ \E m \in todo :
       /\ \/ Skipped(m)
          \/ ~Refused(loaded[next], m) /\ Empty(ir[loaded[next]][m])
       /\ todo' = todo \ {m}
  /\ UNCHANGED <<ir, phase, next, loaded, peers, body, crates>>

EmitModule ==
  /\ phase = "emit"
  /\ \E m \in todo :
       /\ ~Skipped(m) /\ ~Refused(loaded[next], m)
       /\ ~Empty(ir[loaded[next]][m])
       /\ todo' = todo \ {m}
       /\ body' = With(body, m, Items(loaded[next], m))
  /\ UNCHANGED <<ir, phase, next, loaded, peers, crates>>

(* A type the crate cannot name ends the command; the crates before this one *)
(* are already written.                                                      *)
EmitFails ==
  /\ phase = "emit"
  /\ \E m \in todo : ~Skipped(m) /\ Refused(loaded[next], m)
  /\ phase' = "failed"
  /\ UNCHANGED <<ir, next, loaded, peers, todo, body, crates>>

(* write_crate                                                               *)
WriteMember ==
  /\ phase = "emit" /\ todo = {}
  /\ crates' = With(crates, CrateOf[loaded[next]],
                    [deps |-> PeerDeps(loaded[next]), mods |-> body])
  /\ phase' = "begin" /\ next' = next + 1
  /\ UNCHANGED <<ir, loaded, peers, todo, body>>

Finish ==
  /\ phase = "begin" /\ next > Len(loaded)
  /\ phase' = "done"
  /\ UNCHANGED <<ir, next, loaded, peers, todo, body, crates>>

CodegenNext ==
  \/ PassFramework \/ Load \/ Alias \/ Loaded
  \/ BeginMember \/ SkipModule \/ EmitModule \/ EmitFails \/ WriteMember
  \/ Finish

CodegenSpec == CodegenInit /\ [][CodegenNext]_vars

-----------------------------------------------------------------------------
(* What rustc makes of the crates *)

(* The package a path leads into: its own crate's, or a peer's.              *)
Reached(c, u) == IF u.root = "peer" THEN u.crate ELSE c
Members == {loaded[i] : i \in 1..Len(loaded)}
PackageOf(c) == CHOOSE p \in Members : CrateOf[p] = c

Resolves(c, u) ==
  /\ u.root = "peer" => u.crate \in crates[c].deps
  /\ Reached(c, u) \in DOMAIN crates
  /\ u.means.mod \in DOMAIN crates[Reached(c, u)].mods
  /\ u.means.name \in DOMAIN crates[Reached(c, u)].mods[u.means.mod].types

(* What of a package is in its crate: the datatypes it declares, but for     *)
(* those of the modules that are skipped.                                    *)
Emittable(p, d) ==
  /\ d.mod \in DOMAIN ir[p] /\ d.name \in DOMAIN ir[p][d.mod].types
  /\ d.mod \notin SkipModules(p)

-----------------------------------------------------------------------------
(* Properties *)

AllItems == UNION {{crates[c].mods[m] : m \in DOMAIN crates[c].mods} :
                     c \in DOMAIN crates}

(* The types of the variables; crates on disk are those of members the loop  *)
(* has passed, peers are members, and no crate holds a module of the         *)
(* runtime's.                                                                *)
CodegenTypeOK ==
  /\ DOMAIN ir = Members /\ \A p \in Members : ir[p] \in Compiled[p]
  /\ phase \in {"load", "begin", "emit", "done", "failed"}
  /\ next \in Nat \ {0}
  /\ Members \subseteq Packages
  /\ \A a \in DOMAIN peers : \E p \in Members :
       peers[a] = CrateOf[p] /\ BindingsAddress(p, ir[p]) = a
  /\ todo \subseteq ModName /\ DOMAIN body \subseteq ModName
  /\ DOMAIN crates \subseteq {CrateOf[loaded[i]] : i \in 1..Len(loaded)}
  /\ \A p \in Members : CrateOf[p] \in DOMAIN crates =>
       DOMAIN crates[CrateOf[p]].mods \subseteq DOMAIN ir[p] \ SkipModules(p)

(* When generate is done, exactly which of the paths it emitted lead to the  *)
(* datatype they stand for.  Each goes to the crate of a package at that     *)
(* datatype's address, through a dependency in Cargo.toml, also where it is  *)
(* a generic argument or the package is emitted later; and it finds the type *)
(* there unless that package does not declare it or its module is skipped.   *)
(* The first happens where two packages share an address: only the earlier   *)
(* one has a crate, and a type that only the later one has leaves a path     *)
(* that leads nowhere.                                                       *)
RefsResolve ==
  phase = "done" =>
    \A c \in DOMAIN crates : \A m \in DOMAIN crates[c].mods :
      \A u \in crates[c].mods[m].uses :
        u.root # "prelude" =>
          LET p == PackageOf(Reached(c, u))
          IN  /\ u.means.at = BuiltAt[p]
              /\ Resolves(c, u) <=> Emittable(p, u.means)

(* "ty.rs's well-known mappings route references to these types into the     *)
(* runtime instead of looking them up via the peer map" (main.rs:625), of    *)
(* the types in modules that framework_skip_modules leaves out: no path      *)
(* leads into a module that its package's crate does not get.                *)
SkippedRouted ==
  \A c \in DOMAIN crates : \A m \in DOMAIN crates[c].mods :
    \A u \in crates[c].mods[m].uses :
      u.root # "prelude" =>
        u.means.mod \notin SkipModules(PackageOf(Reached(c, u)))

(* No two tag methods of a ModuleAt have one name, though datatypes such as  *)
(* `Registry` and `REGISTRY` are the same word in lower case.                *)
TagMethodsDistinct ==
  \A i \in AllItems : \A n, k \in DOMAIN i.methods :
    i.methods[n] = i.methods[k] => n = k
=============================================================================
