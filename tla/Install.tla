------------------------------ MODULE Install ------------------------------
(***************************************************************************)
(* `move-bindgen install` and `move-bindgen clean`                         *)
(* (crates/move-bindgen/src/install.rs, install/*.rs, clean.rs).           *)
(*                                                                         *)
(* One install run clears the staging directory, walks a FIFO worklist of  *)
(* package sources, copies each distinct source into staging, rewrites     *)
(* every staged Move.toml against its staged siblings and, last of all,    *)
(* writes packages.json.  The run is one process; the user may edit the    *)
(* sources and the config while it works, and it may die at any step.      *)
(***************************************************************************)
EXTENDS Naturals, Sequences, FiniteSets

CONSTANTS
  Source,      \* what source_key distinguishes: a directory or a git pin
  GitSource,   \* the sources fetched by the git resolver
  Tree,        \* contents a package directory may have
  Versions,    \* Versions[s]: the contents source s goes through
  Meta,        \* Meta[t]: what install reads from the Move.toml of tree t
  MoveName,    \* values of [package].name
  Canonical,   \* the names is_canonical_framework answers yes for
  AddrName,    \* names in an [addresses] block
  AddrOrder,   \* their alphabetical order (a BTreeMap is walked in it)
  Config,      \* contents move-bindgen.toml may have
  Entries,     \* Entries[c]: the packages listed in config c, sorted by id
  Frameworks,  \* Frameworks[c]: framework_packages of config c
  Root, Rs,    \* what names are made of, see Name
  Base,        \* Base[s]: last path component of the directory of s
  Leaf,        \* Leaf[s]: the same, kebab-cased by default_crate_name
  Gone,        \* the directory (or the git ref) does not exist
  Torn,        \* packages.json created, not yet written
  Nil,         \* an absent optional value
  EditAt,      \* the program points at which the user may edit
  CrashAt,     \* the program points at which the process may die
  MaxEdits,    \* bound on the number of edits
  MaxCrashes   \* bound on the number of crashes

(* A name such as "sui-2-rs" is the sequence <<sui, 2, Rs>>: a root followed *)
(* by the suffixes that unique_basename and the crate-name rule append.      *)
Name == Seq(Root \cup Nat \cup {Rs})

Item == [id: Name \cup {Nil}, src: Source, crate: Name \cup {Nil}]

(* The package being staged.                                                 *)
Cur == [item: Item, id: Name, base: Name, name: MoveName \cup {Nil},
        crate: Name \cup {Nil}, deps: Seq(Source)]

(* A Move.toml: [package].name; the keys of [dependencies] with a `local` or *)
(* `git` form, in alias order; whether an entry has neither form; the keys   *)
(* of [addresses], those among them with value "_", those with "0x0" or "_"; *)
(* the lowercased package name; and the tree copy_dir_recursive produces.    *)
TreeMeta ==
  [name: MoveName, deps: Seq(Source), exotic: BOOLEAN,
   addrs: SUBSET AddrName, blank: SUBSET AddrName, own: SUBSET AddrName,
   shim: AddrName, copy: Tree]

ASSUME SourcesAssumption ==
  /\ GitSource \subseteq Source
  /\ Gone \notin Tree
  /\ Versions \in [Source -> SUBSET Tree]
  /\ Meta \in [Tree -> TreeMeta]
  /\ Canonical \subseteq MoveName
  /\ IsFiniteSet(AddrName)
  /\ AddrOrder \in [AddrName -> Nat]
  /\ \A m, n \in AddrName : AddrOrder[m] = AddrOrder[n] => m = n

(* copy_dir_recursive copies Move.toml as it is.                             *)
ASSUME CopyAssumption ==
  \A t \in Tree : Meta[Meta[t].copy].deps = Meta[t].deps

ASSUME NamesAssumption ==
  /\ Base \in [Source -> Name]
  /\ Leaf \in [Source -> Name]
  /\ Nil \notin Name \cup Cur
  /\ Nil \notin AddrName \cup Config \cup MoveName

(* Config::load accepts only distinct ids (they are the keys of a TOML     *)
(* table) and at least one entry.                                          *)
ASSUME ConfigAssumption ==
  /\ Entries \in [Config -> Seq(Item)]
  /\ Frameworks \in [Config -> SUBSET MoveName]
  /\ \A c \in Config :
       /\ Entries[c] # << >>
       /\ \A i \in 1..Len(Entries[c]) : Entries[c][i].id # Nil
       /\ \A i, j \in 1..Len(Entries[c]) :
            Entries[c][i].id = Entries[c][j].id => i = j

ASSUME BoundsAssumption == MaxEdits \in Nat /\ MaxCrashes \in Nat

VARIABLES
  live,      \* live[s]: contents of source s now, or Gone
  conf,      \* contents of move-bindgen.toml now
  staging,   \* base |-> staged directory, on disk
  manifest,  \* packages.json, on disk: Nil, Torn or a Manifest
  pc,        \* where the process stands, "idle" when none runs
  cfg,       \* the Config it loaded
  worklist,  \* the VecDeque of work items
  cur,       \* the item being staged, or Nil
  records,   \* the StagedRecords so far
  pending,   \* the manifest about to be written, or Nil
  outcome,   \* how the last command ended, "none" while one runs
  edits, crashes

env  == <<live, conf>>
disk == <<staging, manifest>>
mem  == <<cfg, worklist, cur, records, pending>>
bounds == <<edits, crashes>>
installVars == <<env, disk, pc, mem, outcome, bounds>>

Points == {"idle", "clear", "clean", "walk", "discover", "deps", "rewrite",
           "save"}

Outcomes == {"none", "ok", "cleaned", "crashed", "unresolved", "id_clash",
             "crate_clash", "unreadable", "exotic_dep", "unstaged_dep"}

ASSUME PointsAssumption == EditAt \subseteq Points /\ CrashAt \subseteq Points

StagedDir == [tree: Tree, linked: BOOLEAN, links: Seq(Name), whole: BOOLEAN]

Package == [id: Name, name: MoveName, crate: Name, base: Name, src: Source,
            digest: Tree, framework: BOOLEAN, addr: AddrName \cup {Nil}]

-----------------------------------------------------------------------------
(* Names and keys.  An operator marked "mutant" is the next one with a       *)
(* plausible slip in it; nothing uses it but the mutation tests.             *)

UsedBases == {records[i].base : i \in 1..Len(records)}
UsedIds == {records[i].id : i \in 1..Len(records)}
UsedCrates == {records[i].crate : i \in 1..Len(records)}
StagedKeys == {records[i].src : i \in 1..Len(records)}
                \cup (IF cur = Nil THEN {} ELSE {cur.item.src})

(* source_key canonicalises a path, which fails once the directory is gone: *)
(* its key then differs from the one recorded.  A git key is a plain string.*)
Visible(s) == s \in GitSource \/ live[s] # Gone

SameBasename(s) == Base[s] \in {Base[t] : t \in StagedKeys}  \* mutant
AlreadyStaged(s) == Visible(s) /\ s \in StagedKeys

(* raw if free, else raw-2, raw-3, ...: of Cardinality(taken) + 1 distinct   *)
(* candidates one is free, so the loop of the code ends in this range.       *)
NeverSuffixed(raw, taken) == raw  \* mutant
UniqueBasename(raw, taken) ==
  IF raw \notin taken
    THEN raw
    ELSE LET free == {k \in 2 .. Cardinality(taken) + 2 :
                        Append(raw, k) \notin taken}
         IN  Append(raw, CHOOSE k \in free : \A j \in free : k <= j)

(* A discovered package takes its basename as its id, so it avoids both.     *)
BasenameOf(item) ==
  UniqueBasename(Base[item.src],
                 IF item.id = Nil THEN UsedBases \cup UsedIds ELSE UsedBases)

OverrideOnly(item, base) == item.crate  \* mutant
CrateNameOf(item, base) ==
  IF item.crate # Nil THEN item.crate
  ELSE IF item.id # Nil THEN Append(Leaf[item.src], Rs)
  ELSE Append(base, Rs)

(* The "_" entries of the staged Move.toml of record i after the rewrite.    *)
Placeholders(i) ==
  LET t == staging[records[i].base].tree
  IN  IF records[i].name \in Canonical
        THEN Meta[t].blank
        ELSE Meta[t].addrs \cup {Meta[t].shim}

FirstUse(n) ==
  CHOOSE i \in 1..Len(records) :
    n \in Placeholders(i) /\ \A j \in 1..(i - 1) : n \notin Placeholders(j)

RestartedPerPackage(m, n) ==  \* mutant
  FirstUse(m) = FirstUse(n) /\ AddrOrder[m] < AddrOrder[n]
NumberedBefore(m, n) ==
  \/ FirstUse(m) < FirstUse(n)
  \/ FirstUse(m) = FirstUse(n) /\ AddrOrder[m] < AddrOrder[n]

(* Synthetic addresses 0xff00_0000_0000_0001 + (n - 1), numbered n = 1, 2, ...*)
(* in record order, alphabetically within a package, once per name.          *)
AddressOverrides ==
  LET names == UNION {Placeholders(i) : i \in 1..Len(records)}
  IN  [n \in names |-> 1 + Cardinality({m \in names : NumberedBefore(m, n)})]

(* The single [addresses] entry whose value is "0x0" or "_".                 *)
OwnAddressName(t) ==
  IF \E n \in Meta[t].own : Meta[t].own = {n}
    THEN CHOOSE n \in Meta[t].own : TRUE
    ELSE Nil

OriginalBasename(s) == Base[s]  \* mutant
StagedBasename(s) ==
  records[CHOOSE i \in 1..Len(records) : records[i].src = s].base

-----------------------------------------------------------------------------
Init ==
  /\ live \in [Source -> Tree]
  /\ \A s \in Source : live[s] \in Versions[s]
  /\ conf \in Config
  /\ staging = << >>
  /\ manifest = Nil
  /\ pc = "idle"
  /\ cfg = Nil
  /\ worklist = << >>
  /\ cur = Nil
  /\ records = << >>
  /\ pending = Nil
  /\ outcome = "none"
  /\ edits = 0
  /\ crashes = 0

(* The process ends: its memory is gone, the disk stays as it is.            *)
Stop(why) ==
  /\ pc' = "idle"
  /\ outcome' = why
  /\ cfg' = Nil
  /\ worklist' = << >>
  /\ cur' = Nil
  /\ records' = << >>
  /\ pending' = Nil

Begin ==
  /\ pc = "idle"
  /\ pc' = "clear"
  /\ cfg' = conf
  /\ outcome' = "none"
  /\ UNCHANGED <<env, disk, worklist, cur, records, pending, bounds>>

BeginClean ==
  /\ pc = "idle"
  /\ pc' = "clean"
  /\ outcome' = "none"
  /\ UNCHANGED <<env, disk, mem, bounds>>

(* remove_dir_all deletes entry by entry, in directory order: packages.json  *)
(* has no particular place in it, and a package directory loses its files    *)
(* before it disappears.                                                     *)
Clear ==
  /\ pc \in {"clear", "clean"}
  /\ \/ manifest # Nil /\ manifest' = Nil /\ UNCHANGED staging
     \/ \E b \in DOMAIN staging :
          /\ UNCHANGED manifest
          /\ IF staging[b].whole
               THEN staging' = [staging EXCEPT ![b].whole = FALSE]
               ELSE staging' = [c \in DOMAIN staging \ {b} |-> staging[c]]
  /\ UNCHANGED <<env, pc, mem, outcome, bounds>>

Cleared == manifest = Nil /\ DOMAIN staging = {}

CleanDone ==
  /\ pc = "clean" /\ Cleared
  /\ Stop("cleaned")
  /\ UNCHANGED <<env, disk, bounds>>

(* resolve_path_source looks for the Move.toml of every listed path.         *)
Missing == \E i \in 1..Len(Entries[cfg]) :
             /\ Entries[cfg][i].src \notin GitSource
             /\ live[Entries[cfg][i].src] = Gone

SeedFails ==
  /\ pc = "clear" /\ Cleared /\ Missing
  /\ Stop("unresolved")
  /\ UNCHANGED <<env, disk, bounds>>

Seed ==
  /\ pc = "clear" /\ Cleared /\ ~Missing
  /\ pc' = "walk"
  /\ worklist' = Entries[cfg]
  /\ UNCHANGED <<env, disk, cfg, cur, records, pending, outcome, bounds>>

-----------------------------------------------------------------------------
(* One turn of the worklist: skip, or stage, discover, enqueue, record *)

Requeue ==  \* mutant
  /\ pc = "walk" /\ worklist # << >>
  /\ AlreadyStaged(Head(worklist).src)
  /\ worklist' = Append(Tail(worklist), Head(worklist))
  /\ UNCHANGED <<env, disk, pc, cfg, cur, records, pending, outcome, bounds>>

Skip ==
  /\ pc = "walk" /\ worklist # << >>
  /\ AlreadyStaged(Head(worklist).src)
  /\ worklist' = Tail(worklist)
  /\ UNCHANGED <<env, disk, pc, cfg, cur, records, pending, outcome, bounds>>

EntryId(item) == IF item.id = Nil THEN BasenameOf(item) ELSE item.id

(* No Move.toml at the path, the fetch of a git source fails, or the id of   *)
(* the entry is taken.                                                       *)
StageErrors(item) ==
  (IF live[item.src] = Gone \/ item.src \in GitSource
     THEN {"unresolved"} ELSE {})
  \cup (IF live[item.src] # Gone /\ EntryId(item) \in UsedIds
          THEN {"id_clash"} ELSE {})

StageFails ==
  /\ pc = "walk" /\ worklist # << >>
  /\ ~AlreadyStaged(Head(worklist).src)
  /\ \E why \in StageErrors(Head(worklist)) : Stop(why)
  /\ UNCHANGED <<env, disk, bounds>>

(* Resolve, name and copy.  The copy leaves out build/, target/, .git,       *)
(* Move.lock and Published.toml.                                             *)
Stage ==
  /\ pc = "walk" /\ worklist # << >>
  /\ LET item == Head(worklist)
         base == BasenameOf(item)
     IN  /\ ~AlreadyStaged(item.src)
         /\ live[item.src] # Gone
         /\ EntryId(item) \notin UsedIds
         /\ staging' = [b \in DOMAIN staging \cup {base} |->
                          IF b = base
                            THEN [tree |-> Meta[live[item.src]].copy,
                                  linked |-> FALSE, links |-> << >>,
                                  whole |-> TRUE]
                            ELSE staging[b]]
         /\ cur' = [item |-> item, id |-> EntryId(item), base |-> base,
                    name |-> Nil, crate |-> Nil, deps |-> << >>]
  /\ worklist' = Tail(worklist)
  /\ pc' = "discover"
  /\ UNCHANGED <<env, manifest, cfg, records, pending, outcome, bounds>>

(* [package].name, then the crate-name check, then [dependencies]: all read  *)
(* from the original Move.toml, after the copy was made.                     *)
Discover ==
  /\ pc = "discover"
  /\ live[cur.item.src] # Gone
  /\ CrateNameOf(cur.item, cur.base) \notin UsedCrates
  /\ cur' = [cur EXCEPT !.name = Meta[live[cur.item.src]].name,
                        !.crate = CrateNameOf(cur.item, cur.base),
                        !.deps = Meta[live[cur.item.src]].deps]
  /\ pc' = "deps"
  /\ UNCHANGED <<env, disk, cfg, worklist, records, pending, outcome, bounds>>

CrateClash ==
  /\ pc = "discover"
  /\ live[cur.item.src] # Gone
  /\ CrateNameOf(cur.item, cur.base) \in UsedCrates
  /\ Stop("crate_clash")
  /\ UNCHANGED <<env, disk, bounds>>

Unreadable ==
  /\ pc \in {"discover", "deps"} /\ cur.deps = << >>
  /\ live[cur.item.src] = Gone
  /\ Stop("unreadable")
  /\ UNCHANGED <<env, disk, bounds>>

LocalOnly(d) == d \notin GitSource /\ ~AlreadyStaged(d)  \* mutant
Wanted(d) == ~AlreadyStaged(d)

(* The loop over the dependencies read by Discover.                          *)
Enqueue ==
  /\ pc = "deps" /\ cur.deps # << >>
  /\ LET d == Head(cur.deps)
     IN  IF Wanted(d)
           THEN worklist' = Append(worklist,
                                   [id |-> Nil, src |-> d, crate |-> Nil])
           ELSE UNCHANGED worklist
  /\ cur' = [cur EXCEPT !.deps = Tail(@)]
  /\ UNCHANGED <<env, disk, pc, cfg, records, pending, outcome, bounds>>

(* source_dir_digest hashes the original as it is now, not as it was copied. *)
Record ==
  /\ pc = "deps" /\ cur.deps = << >>
  /\ live[cur.item.src] # Gone
  /\ records' = Append(records,
       [id |-> cur.id, name |-> cur.name, crate |-> cur.crate,
        base |-> cur.base, src |-> cur.item.src,
        digest |-> live[cur.item.src],
        framework |-> cur.name \in Frameworks[cfg],
        addr |-> OwnAddressName(live[cur.item.src])])
  /\ cur' = Nil
  /\ pc' = "walk"
  /\ UNCHANGED <<env, disk, cfg, worklist, pending, outcome, bounds>>

Drained ==
  /\ pc = "walk" /\ worklist = << >>
  /\ pc' = "rewrite"
  /\ UNCHANGED <<env, disk, mem, outcome, bounds>>

-----------------------------------------------------------------------------
(* Second pass over the records, then packages.json *)

Unlinked == {i \in 1..Len(records) : ~staging[records[i].base].linked}
NextRewrite(i) == i \in Unlinked /\ \A j \in Unlinked : i <= j

DepsOf(i) == Meta[staging[records[i].base].tree].deps

Rewrite ==
  /\ pc = "rewrite"
  /\ \E i \in 1..Len(records) :
       /\ NextRewrite(i)
       /\ ~Meta[staging[records[i].base].tree].exotic
       /\ \A n \in 1..Len(DepsOf(i)) : AlreadyStaged(DepsOf(i)[n])
       /\ staging' = [staging EXCEPT
            ![records[i].base].linked = TRUE,
            ![records[i].base].links =
               [n \in 1..Len(DepsOf(i)) |-> StagedBasename(DepsOf(i)[n])]]
  /\ UNCHANGED <<env, manifest, pc, mem, outcome, bounds>>

(* parse_dep_table rejects the entry that read_move_deps left out.           *)
ExoticDep ==
  /\ pc = "rewrite"
  /\ \E i \in 1..Len(records) :
       NextRewrite(i) /\ Meta[staging[records[i].base].tree].exotic
  /\ Stop("exotic_dep")
  /\ UNCHANGED <<env, disk, bounds>>

UnstagedDep ==
  /\ pc = "rewrite"
  /\ \E i \in 1..Len(records) :
       /\ NextRewrite(i)
       /\ \E n \in 1..Len(DepsOf(i)) : ~AlreadyStaged(DepsOf(i)[n])
  /\ Stop("unstaged_dep")
  /\ UNCHANGED <<env, disk, bounds>>

SaveUnflushed ==  \* mutant
  /\ pc = "rewrite" /\ Unlinked = {}
  /\ manifest' = Torn
  /\ Stop("ok")
  /\ UNCHANGED <<env, staging, bounds>>

(* Number the placeholders, hash the config as it is now, create the file.   *)
SaveBegin ==
  /\ pc = "rewrite" /\ Unlinked = {}
  /\ pending' = [config |-> conf, packages |-> records,
                 overrides |-> AddressOverrides]
  /\ manifest' = Torn
  /\ pc' = "save"
  /\ UNCHANGED <<env, staging, cfg, worklist, cur, records, outcome, bounds>>

SaveEnd ==
  /\ pc = "save"
  /\ manifest' = pending
  /\ Stop("ok")
  /\ UNCHANGED <<env, staging, bounds>>

-----------------------------------------------------------------------------
(* The world around the process *)

Edit(s) ==
  /\ pc \in EditAt /\ edits < MaxEdits
  /\ \E t \in (Versions[s] \cup {Gone}) \ {live[s]} :
       live' = [live EXCEPT ![s] = t]
  /\ edits' = edits + 1
  /\ UNCHANGED <<conf, disk, pc, mem, outcome, crashes>>

EditConfig ==
  /\ pc \in EditAt /\ edits < MaxEdits
  /\ conf' \in Config \ {conf}
  /\ edits' = edits + 1
  /\ UNCHANGED <<live, disk, pc, mem, outcome, crashes>>

(* The process is killed, or an I/O operation fails and `?` returns early.   *)
Crash ==
  /\ pc \in CrashAt \ {"idle"} /\ crashes < MaxCrashes
  /\ Stop("crashed")
  /\ crashes' = crashes + 1
  /\ UNCHANGED <<env, disk, edits>>

Step ==
  \/ Clear \/ CleanDone \/ SeedFails \/ Seed
  \/ Skip \/ StageFails \/ Stage
  \/ Discover \/ CrateClash \/ Unreadable \/ Enqueue \/ Record \/ Drained
  \/ Rewrite \/ ExoticDep \/ UnstagedDep \/ SaveBegin \/ SaveEnd

World == (\E s \in Source : Edit(s)) \/ EditConfig \/ Crash

Next == Begin \/ BeginClean \/ Step \/ World

(* A started process keeps taking steps; nobody has to start one.            *)
Spec == Init /\ [][Next]_installVars /\ WF_installVars(Step)

-----------------------------------------------------------------------------
(* Properties *)

Saved == manifest \notin {Nil, Torn}

IsManifest(m) ==
  /\ m = [config |-> m.config, packages |-> m.packages,
          overrides |-> m.overrides]
  /\ m.config \in Config
  /\ m.packages \in Seq(Package)
  /\ DOMAIN m.overrides \subseteq AddrName
  /\ m.overrides \in [DOMAIN m.overrides -> Nat]

WorldTypes ==
  /\ live \in [Source -> Tree \cup {Gone}]
  /\ conf \in Config
  /\ edits \in Nat
  /\ crashes \in Nat

DiskTypes ==
  /\ DOMAIN staging \subseteq Name
  /\ staging \in [DOMAIN staging -> StagedDir]
  /\ Saved => IsManifest(manifest)

RunTypes ==
  /\ pc \in Points
  /\ cfg \in Config \cup {Nil}
  /\ worklist \in Seq(Item)
  /\ cur \in Cur \cup {Nil}
  /\ records \in Seq(Package)
  /\ pending # Nil => IsManifest(pending)
  /\ outcome \in Outcomes

(* The types of the variables; for the manifest, that it lists packages and  *)
(* natural-number overrides, whatever the walk has met.                      *)
TypeOK == WorldTypes /\ DiskTypes /\ RunTypes

Distinct(packages) ==
  \A i, j \in 1..Len(packages) : i # j =>
    /\ packages[i].src # packages[j].src
    /\ packages[i].base # packages[j].base
    /\ packages[i].id # packages[j].id
    /\ packages[i].crate # packages[j].crate

(* Whatever names the sources, the listed ids and the overrides use, the     *)
(* packages of a run differ in source, staging directory, id and crate name: *)
(* none is copied over another (the suffixing of unique_basename and the     *)
(* checks of used_ids and used_crate_names).                                 *)
DistinctPackages == Distinct(records) /\ (Saved => Distinct(manifest.packages))

(* The staged copy of package i points at the packages it depends on.        *)
FollowsDeps(dirs, packages, i) ==
  LET dir == dirs[packages[i].base]
      deps == Meta[dir.tree].deps
  IN  /\ Len(dir.links) = Len(deps)
      /\ \A n \in 1..Len(deps) : \E j \in 1..Len(packages) :
           packages[j].src = deps[n] /\ packages[j].base = dir.links[n]

Complete(dirs, packages) ==
  \A i \in 1..Len(packages) :
    /\ packages[i].base \in DOMAIN dirs
    /\ dirs[packages[i].base].whole
    /\ dirs[packages[i].base].linked
    /\ FollowsDeps(dirs, packages, i)

(* A saved packages.json describes a finished staging directory: each of its *)
(* packages is there, whole and rewritten, and every dependency the staged   *)
(* copy declares points at the directory of the package of that source.      *)
(* Neither edits during the run nor a crash may leave it otherwise; the one  *)
(* exception is a removal of the directory that is under way.                *)
ManifestComplete ==
  Saved /\ pc \notin {"clear", "clean"}
    => Complete(staging, manifest.packages)

(* Every "_" left in a staged Move.toml has a synthetic address, no two      *)
(* names share one, and they are numbered without a gap.                     *)
OverridesBindAll ==
  pc = "save" =>
    LET ov == pending.overrides
    IN  /\ \A i \in 1..Len(records) : Placeholders(i) \subseteq DOMAIN ov
        /\ \A m, n \in DOMAIN ov : ov[m] = ov[n] => m = n
        /\ \A n \in DOMAIN ov : ov[n] \in 1..Cardinality(DOMAIN ov)

(* No listed source gets lost, however the walk reaches it: at the end there *)
(* is a package for every entry of the config the run loaded.                *)
ListedCovered ==
  pc \in {"rewrite", "save"} =>
    \A i \in 1..Len(Entries[cfg]) : \E j \in 1..Len(records) :
      records[j].src = Entries[cfg][i].src

(* Discovery (read_move_deps) and the rewrite agree on the `local` and `git` *)
(* dependencies: the rewrite meets none that the walk has not staged, unless *)
(* a source was edited on the way.  Of the entries with neither form this    *)
(* says nothing, see ExoticDepsSkipped.                                      *)
RewriteFindsDeps == edits = 0 => outcome # "unstaged_dep"

(* What the comments of read_move_deps say of those: they are skipped        *)
(* "without erroring; they're not sources we need to stage", so an install   *)
(* does not fail because of one.                                             *)
ExoticDepsSkipped == outcome # "exotic_dep"

(* A run ends, also when packages depend on each other in a circle.          *)
RunEnds == pc # "idle" ~> pc = "idle"
=============================================================================
