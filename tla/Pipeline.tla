------------------------------ MODULE Pipeline ------------------------------
(***************************************************************************)
(* `move-bindgen generate` working from what `install` left on disk        *)
(* (crates/move-bindgen-cli/src/main.rs, install.rs verify_freshness,      *)
(* install_manifest.rs, peer.rs).                                          *)
(*                                                                         *)
(* generate loads packages.json, compares digests with the live sources,   *)
(* compiles the staged packages one by one, writes one crate per address   *)
(* and then the workspace's Cargo.toml.  It reads the sources only to hash *)
(* them: what it compiles is the staged copy.  One command runs at a time: *)
(* nothing in the code excludes two, and the model does not show that case.*)
(***************************************************************************)
EXTENDS Install

CONSTANTS
  Single,      \* the configs whose output format is single-crate
  Home,        \* Home[t]: the named address the modules of tree t live at
  Damaged,     \* stands for the contents of a half-removed directory
  EditAtGen    \* the points of generate at which the user may edit

VARIABLES
  gpc,       \* where generate stands, "idle" when none runs
  gcfg,      \* the Config it loaded
  gm,        \* the manifest it loaded
  gnext,     \* the package its loop has come to
  drifted,   \* the packages whose source has changed
  gloaded,   \* Seq of the packages compiled, one per address
  gout,      \* crate |-> generated contents, on disk
  members,   \* the crates the generated Cargo.toml lists, on disk
  goutcome,  \* how the last generate ended
  seen,      \* what each source has been since generate started (history)
  seenConf   \* the same for move-bindgen.toml

gen == <<gpc, gcfg, gm, gnext, drifted, gloaded, gout, members, goutcome>>
history == <<seen, seenConf>>
pipelineVars == <<installVars, gen, history>>

GenPoints == {"idle", "load", "verify", "drift", "build", "write"}

ASSUME PipelineAssumption ==
  /\ Single \subseteq Config
  /\ Home \in [Tree -> AddrName]
  /\ \A t \in Tree : Home[t] \in Meta[t].addrs \cup {Meta[t].shim}
  /\ Damaged \notin Tree
  /\ EditAtGen \subseteq GenPoints

GenOutcomes == {"none", "ok", "running", "failed"}

-----------------------------------------------------------------------------
(* What generate compiles *)

(* A single-crate config takes the first package, a workspace all but the    *)
(* ones recorded as framework packages.                                      *)
Selected ==
  IF gcfg \in Single
    THEN {1}
    ELSE {i \in 1..Len(gm.packages) : ~gm.packages[i].framework}

(* The staged directories a build of directory b reads: b and, through the   *)
(* `local = "../x"` of the staged manifests, all that can be reached.        *)
Closed(dirs) ==
  \A c \in dirs \cap DOMAIN staging : \A n \in 1..Len(staging[c].links) :
    staging[c].links[n] \in dirs
Linked == UNION {{staging[c].links[n] : n \in 1..Len(staging[c].links)} :
                   c \in DOMAIN staging}
Reads(b) == {c \in Linked \cup {b} :
               \A dirs \in SUBSET (Linked \cup {b}) :
                 b \in dirs /\ Closed(dirs) => c \in dirs}

Present(b) == Reads(b) \subseteq DOMAIN staging
Intact(b) == Present(b) /\ \A c \in Reads(b) : staging[c].whole

(* Canonical frameworks keep their fixed address; the modules of all others  *)
(* are compiled at the synthetic address of their address name.              *)
AddressOf(p, t) ==
  IF p.name \in Canonical
    THEN <<"fixed", p.name>>
    ELSE <<"synthetic", gm.overrides[Home[t]]>>

Generated(p, contents) ==
  [src |-> p.src, crate |-> p.crate, tree |-> contents,
   address |-> AddressOf(p, staging[p.base].tree)]

(* PeerMap::insert: the first package at an address gets a crate, references *)
(* to later ones are routed to it.                                           *)
Aliased(g) == \E i \in 1..Len(gloaded) : gloaded[i].address = g.address

GenInit ==
  /\ gpc = "idle"
  /\ gcfg = Nil
  /\ gm = Nil
  /\ gnext = 1
  /\ drifted = {}
  /\ gloaded = << >>
  /\ gout = << >>
  /\ members = {}
  /\ goutcome = "none"
  /\ seen = [s \in Source |-> {}]
  /\ seenConf = {}

GenStop(why) ==
  /\ gpc' = "idle"
  /\ goutcome' = why
  /\ gcfg' = Nil
  /\ gm' = Nil
  /\ gnext' = 1
  /\ drifted' = {}
  /\ gloaded' = << >>
  /\ seen' = [s \in Source |-> {}]
  /\ seenConf' = {}

-----------------------------------------------------------------------------
(* generate_with_config *)

GenBegin ==
  /\ gpc = "idle" /\ pc = "idle"
  /\ gpc' = "load"
  /\ gcfg' = conf
  /\ goutcome' = "running"
  /\ seen' = [s \in Source |-> {live[s]}]
  /\ seenConf' = {conf}
  /\ UNCHANGED <<gm, gnext, drifted, gloaded, gout, members>>

GenLoad ==
  /\ gpc = "load" /\ Saved
  /\ gm' = manifest
  /\ gpc' = "verify"
  /\ UNCHANGED <<gcfg, gnext, drifted, gloaded, gout, members, goutcome,
                history>>

GenNotInstalled ==
  /\ gpc = "load" /\ manifest = Nil
  /\ GenStop("failed")
  /\ UNCHANGED <<gout, members>>

GenUnreadable ==
  /\ gpc = "load" /\ manifest = Torn
  /\ GenStop("failed")
  /\ UNCHANGED <<gout, members>>

GenConfigSame ==
  /\ gpc = "verify" /\ conf = gm.config
  /\ gpc' = "drift"
  /\ UNCHANGED <<gcfg, gm, gnext, drifted, gloaded, gout, members, goutcome,
                history>>

GenConfigChanged ==
  /\ gpc = "verify" /\ conf # gm.config
  /\ GenStop("failed")
  /\ UNCHANGED <<gout, members>>

(* A source that is gone is passed over: staging is self-contained.          *)
StagedHasDrifted(p) == staging[p.base].tree # Meta[p.digest].copy  \* mutant
HasDrifted(p) == live[p.src] \notin {Gone, p.digest}

RetryOnDrift ==  \* mutant
  /\ gpc = "drift" /\ gnext <= Len(gm.packages)
  /\ gnext' = IF HasDrifted(gm.packages[gnext]) THEN 1 ELSE gnext + 1
  /\ UNCHANGED <<gpc, gcfg, gm, drifted, gloaded, gout, members, goutcome,
                history>>

GenHash ==
  /\ gpc = "drift" /\ gnext <= Len(gm.packages)
  /\ drifted' = IF HasDrifted(gm.packages[gnext])
                  THEN drifted \cup {gnext} ELSE drifted
  /\ gnext' = gnext + 1
  /\ UNCHANGED <<gpc, gcfg, gm, gloaded, gout, members, goutcome,
                history>>

GenVerified ==
  /\ gpc = "drift" /\ gnext > Len(gm.packages) /\ drifted = {}
  /\ gpc' = "build"
  /\ gnext' = 1
  /\ UNCHANGED <<gcfg, gm, drifted, gloaded, gout, members, goutcome,
                history>>

GenDrifted ==
  /\ gpc = "drift" /\ gnext > Len(gm.packages) /\ drifted # {}
  /\ GenStop("failed")
  /\ UNCHANGED <<gout, members>>

GenPass ==
  /\ gpc = "build" /\ gnext <= Len(gm.packages)
  /\ gnext \notin Selected
  /\ gnext' = gnext + 1
  /\ UNCHANGED <<gpc, gcfg, gm, drifted, gloaded, gout, members, goutcome,
                history>>

(* A directory whose removal was under way may compile, without the files    *)
(* that were already deleted.                                                *)
GenCompile ==
  /\ gpc = "build" /\ gnext \in Selected
  /\ LET p == gm.packages[gnext]
         g == Generated(p, IF Intact(p.base) THEN staging[p.base].tree
                                             ELSE Damaged)
     IN  /\ Present(p.base)
         /\ gloaded' = IF Aliased(g) THEN gloaded ELSE Append(gloaded, g)
  /\ gnext' = gnext + 1
  /\ UNCHANGED <<gpc, gcfg, gm, drifted, gout, members, goutcome,
                history>>

(* The Move build may fail on any package: an error in its code, a missing   *)
(* file, no compiler.                                                        *)
GenCompileFails ==
  /\ gpc = "build" /\ gnext \in Selected
  /\ GenStop("failed")
  /\ UNCHANGED <<gout, members>>

GenCompiled ==
  /\ gpc = "build" /\ gnext > Len(gm.packages)
  /\ gpc' = "write"
  /\ gnext' = 1
  /\ UNCHANGED <<gcfg, gm, drifted, gloaded, gout, members, goutcome,
                history>>

(* write_crate overwrites what an earlier generate left in the directory.    *)
GenWrite ==
  /\ gpc = "write" /\ gnext <= Len(gloaded)
  /\ LET g == gloaded[gnext]
     IN  gout' = [c \in DOMAIN gout \cup {g.crate} |->
                    IF c = g.crate THEN [src |-> g.src, tree |-> g.tree,
                                         config |-> gm.config]
                                   ELSE gout[c]]
  /\ gnext' = gnext + 1
  /\ UNCHANGED <<gpc, gcfg, gm, drifted, gloaded, members, goutcome,
                history>>

ListsAliased ==  \* mutant
  /\ gpc = "write" /\ gnext > Len(gloaded)
  /\ members' = {gm.packages[i].crate : i \in Selected}
  /\ GenStop("ok")
  /\ UNCHANGED gout

GenFinish ==
  /\ gpc = "write" /\ gnext > Len(gloaded)
  /\ members' = {gloaded[i].crate : i \in 1..Len(gloaded)}
  /\ GenStop("ok")
  /\ UNCHANGED gout

(* build_workspace_deployer finds a cycle (TopoSort): the crates are already *)
(* written, the Cargo.toml is not.                                           *)
GenSortFails ==
  /\ gpc = "write" /\ gnext > Len(gloaded) /\ gcfg \notin Single
  /\ GenStop("failed")
  /\ UNCHANGED <<gout, members>>

GenCrash ==
  /\ gpc # "idle" /\ crashes < MaxCrashes
  /\ crashes' = crashes + 1
  /\ GenStop("failed")
  /\ UNCHANGED <<gout, members>>

GenStep ==
  \/ GenLoad \/ GenNotInstalled \/ GenUnreadable
  \/ GenConfigSame \/ GenConfigChanged
  \/ GenHash \/ GenVerified \/ GenDrifted
  \/ GenPass \/ GenCompile \/ GenCompileFails \/ GenCompiled
  \/ GenWrite \/ GenSortFails \/ GenFinish

-----------------------------------------------------------------------------
PipelineInit == Init /\ GenInit

Observe ==
  IF gpc = "idle"
    THEN UNCHANGED history
    ELSE /\ seen' = [s \in Source |-> seen[s] \cup {live'[s]}]
         /\ seenConf' = seenConf \cup {conf'}

PipelineNext ==
  \/ /\ (Begin \/ BeginClean) /\ gpc = "idle"
     /\ UNCHANGED <<gen, history>>
  \/ (Step \/ Crash) /\ UNCHANGED <<gen, history>>
  \/ /\ gpc \in EditAtGen
     /\ (\E s \in Source : Edit(s)) \/ EditConfig
     /\ Observe /\ UNCHANGED gen
  \/ (GenBegin \/ GenStep) /\ UNCHANGED installVars
  \/ GenCrash /\ UNCHANGED <<env, disk, pc, mem, outcome, edits>>

PipelineSpec ==
  /\ PipelineInit /\ [][PipelineNext]_pipelineVars
  /\ WF_pipelineVars(Step /\ UNCHANGED <<gen, history>>)
  /\ WF_pipelineVars(GenStep /\ UNCHANGED installVars)

-----------------------------------------------------------------------------
(* Properties *)

(* The types of the variables; the members written are crates on disk.       *)
GenTypeOK ==
  /\ gpc \in GenPoints
  /\ gcfg \in Config \cup {Nil}
  /\ gm # Nil => IsManifest(gm)
  /\ gnext \in Nat
  /\ drifted \subseteq Nat
  /\ \A i \in 1..Len(gloaded) :
       gloaded[i].src \in Source /\ gloaded[i].tree \in Tree \cup {Damaged}
  /\ DOMAIN gout \subseteq Name
  /\ members \subseteq DOMAIN gout
  /\ goutcome \in GenOutcomes
  /\ seen \in [Source -> SUBSET (Tree \cup {Gone})]
  /\ seenConf \subseteq Config

(* The workspace members as a reader of the generated Cargo.toml finds them. *)
Promise ==
  INSTANCE FreshBindings WITH
    Copy <- [t \in Tree |-> Meta[t].copy],
    crates <- {gout[c] : c \in members},
    result <- goutcome

(* Whatever generate writes into a workspace it reports done, or into a      *)
(* member an earlier one had listed, comes from contents its source had      *)
(* during this very generate, unless that source is gone, and the packages   *)
(* and the framework flags it goes by come from a config the file held       *)
(* during it: install's copy, the digest checks and the overwriting of       *)
(* crates together keep the promise.                                         *)
KeepsPromise == Promise!Spec

(* generate ends, however often the sources change while it works.           *)
GenEnds == gpc # "idle" ~> gpc = "idle"

(* generate meets an unusable staging directory: nothing is installed,       *)
(* packages.json is torn, or a build, failing or not, works on a package     *)
(* with files missing.                                                       *)
Unusable ==
  \/ GenNotInstalled \/ GenUnreadable
  \/ (GenCompile \/ GenCompileFails) /\ ~Intact(gm.packages[gnext].base)

(* Once install has reported success, and until another command runs, that   *)
(* does not happen: it takes a clean, or a failed or killed install.         *)
InstalledIsUsable == [][Unusable => outcome # "ok"]_pipelineVars
=============================================================================
