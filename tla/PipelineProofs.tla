--------------------------- MODULE PipelineProofs ---------------------------
(***************************************************************************)
(* generate, working from what install left, implements FreshBindings: for *)
(* every set of sources, contents, configs and bounds, as long as nobody   *)
(* edits a source while an install reads it and no command dies while it   *)
(* removes the staging directory.                                          *)
(***************************************************************************)
EXTENDS Pipeline, InstallProofs

(* Edits between commands and during generate, and a clearing that ends: the *)
(* two assumptions that the code makes without saying so.                    *)
Undisturbed == EditAt \subseteq {"idle"} /\ CrashAt \cap {"clear", "clean"} = {}

(* The staged copies of packages are those of the contents whose digests are *)
(* recorded.                                                                 *)
TrueCopies(dirs, packages) ==
  \A i \in 1..Len(packages) :
    dirs[packages[i].base].tree = Meta[packages[i].digest].copy

CopyInv ==
  /\ InWalk => TrueCopies(staging, records)
  /\ pc \in {"discover", "deps"} =>
       staging[cur.base].tree = Meta[live[cur.item.src]].copy
  /\ pc = "save" => TrueCopies(staging, pending.packages)
  /\ Saved /\ pc \notin {"clear", "clean"} => TrueCopies(staging, manifest.packages)

(* A run stages at least one package: the config lists one.                  *)
NotEmpty ==
  /\ pc = "walk" => worklist # << >> \/ records # << >>
  /\ pc \in {"rewrite", "save"} => records # << >>
  /\ pc = "save" => pending.packages # << >>
  /\ Saved => manifest.packages # << >>

DiskInv == CInv /\ CopyInv /\ NotEmpty

-----------------------------------------------------------------------------
(* What install leaves on disk                                               *)

(* Counting a crash changes nothing else.                                    *)
LEMMA CountCrash ==
  ASSUME DiskInv, UNCHANGED <<env, disk, pc, mem, outcome, edits>>, crashes' \in Nat
  PROVE  DiskInv'
<1> USE DEF DiskInv, CInv, IInv, env, disk, mem
<1>1. TypeOK'
  BY DEF TypeOK, WorldTypes, DiskTypes, RunTypes, Saved
<1>2. Phases'
  BY DEF Phases
<1>3. CurIsNew'
  BY DEF CurIsNew, UsedBases, UsedIds, UsedCrates
<1>4. BasesStaged' /\ PendingDistinct' /\ DistinctPackages'
  BY DEF BasesStaged, PendingDistinct, DistinctPackages, Saved
<1>5. ManifestComplete'
  BY DEF ManifestComplete, Saved
<1>6. Building'
  BY DEF Building, InWalk, FollowsDeps
<1>7. CopyInv'
  BY DEF CopyInv, InWalk, Saved
<1>8. NotEmpty'
  BY DEF NotEmpty, Saved
<1> QED
  BY <1>1, <1>2, <1>3, <1>4, <1>5, <1>6, <1>7, <1>8

(* No step of install or clean changes what the user owns.                   *)
LEMMA StepKeepsEnv ==
  ASSUME Step \/ Crash \/ Begin \/ BeginClean
  PROVE  UNCHANGED env
BY DEF Step, Crash, Begin, BeginClean, Clear, CleanDone, SeedFails, Seed, Skip,
       StageFails, Stage, Discover, CrateClash, Unreadable, Enqueue, Record,
       Drained, Rewrite, ExoticDep, UnstagedDep, SaveBegin, SaveEnd

(* A recorded digest is that of the copy: nobody edits a source between the  *)
(* two, and what was copied stays as it is.                                  *)
LEMMA CopyStep ==
  ASSUME DiskInv, [Next]_installVars, Undisturbed
  PROVE  CopyInv'
<1> USE DEF DiskInv
<1>1. CASE SaveEnd
  <2>1. manifest' = pending /\ pc' = "idle" /\ staging' = staging /\ pc = "save"
    BY <1>1 DEF SaveEnd, Stop
  <2> QED
    BY <2>1 DEF CopyInv, InWalk
<1>2. CASE Begin \/ BeginClean \/ Clear
  <2>1. pc' \in {"clear", "clean"}
    BY <1>2 DEF Begin, BeginClean, Clear
  <2> QED
    BY <2>1 DEF CopyInv, InWalk
<1>3. CASE CleanDone \/ SeedFails
  <2>1. pc' = "idle" /\ manifest' = Nil
    BY <1>3 DEF CleanDone, SeedFails, Cleared, Stop, disk
  <2> QED
    BY <2>1 DEF CopyInv, InWalk, Saved
<1>4. CASE Seed
  <2>1. pc' = "walk" /\ manifest' = Nil /\ records' = << >>
    BY <1>4 DEF Seed, Cleared, disk, CInv, IInv, Phases
  <2> QED
    BY <2>1 DEF CopyInv, InWalk, Saved, TrueCopies
<1>5. CASE Skip \/ Drained
  BY <1>5 DEF Skip, Drained, CopyInv, InWalk, disk, mem, Saved
<1>6. CASE StageFails \/ CrateClash \/ Unreadable \/ ExoticDep \/ UnstagedDep \/ Crash
  <2>1. pc' = "idle" /\ disk' = disk
    BY <1>6 DEF StageFails, StageErrors, CrateClash, Unreadable, ExoticDep, UnstagedDep,
                Crash, Stop
  <2>2. pc \notin {"clear", "clean"}
    BY <1>6 DEF StageFails, CrateClash, Unreadable, ExoticDep, UnstagedDep, Crash, Undisturbed
  <2> QED
    BY <2>1, <2>2 DEF CopyInv, InWalk, disk, Saved
<1>7. CASE Stage
  <2>1. /\ InWalk /\ manifest = Nil /\ manifest' = Nil /\ pc' = "discover"
        /\ UNCHANGED <<live, records>>
    BY <1>7 DEF Stage, InWalk, CInv, Building, env
  <2>2. \A i \in 1..Len(records) : staging'[records[i].base] = staging[records[i].base]
    BY <1>7, StageKeepsRecorded DEF CInv
  <2>3. staging'[cur'.base].tree = Meta[live[cur'.item.src]].copy
    BY <1>7 DEF Stage
  <2>4. TrueCopies(staging', records)
    BY <2>1, <2>2 DEF CopyInv, TrueCopies
  <2> QED
    BY <2>1, <2>3, <2>4 DEF CopyInv, Saved
<1>8. CASE Discover \/ Enqueue
  <2>1. /\ cur'.base = cur.base /\ cur'.item = cur.item
        /\ UNCHANGED <<live, records, staging>>
        /\ pc \in {"discover", "deps"}
    BY <1>8 DEF Discover, Enqueue, CInv, IInv, Phases, Cur, env, disk
  <2>2. pc' = "deps" /\ manifest' = Nil /\ InWalk
    BY <1>8, <2>1 DEF Discover, Enqueue, CInv, Building, InWalk, disk
  <2> QED
    BY <2>1, <2>2 DEF CopyInv, Saved
<1>9. CASE Record
  <2>1. records \in Seq(Package) /\ pc = "deps" /\ pc' = "walk"
    BY <1>9 DEF CInv, IInv, TypeOK, RunTypes, Record
  <2>2. /\ Len(records') = Len(records) + 1
        /\ \A i \in 1..Len(records) : records'[i] = records[i]
        /\ records'[Len(records) + 1].base = cur.base
        /\ records'[Len(records) + 1].digest = live[cur.item.src]
    BY <1>9, <2>1 DEF Record
  <2>3. UNCHANGED <<live, staging>> /\ InWalk /\ manifest' = Nil
    BY <1>9, <2>1 DEF Record, env, disk, InWalk, CInv, Building
  <2>4. TrueCopies(staging, records) /\ staging[cur.base].tree = Meta[live[cur.item.src]].copy
    BY <2>1, <2>3 DEF CopyInv
  <2>5. ASSUME NEW i \in 1..Len(records')
        PROVE  staging[records'[i].base].tree = Meta[records'[i].digest].copy
    <3>1. CASE i = Len(records) + 1
      BY <2>2, <2>4, <3>1
    <3>2. CASE i \in 1..Len(records)
      BY <2>2, <2>4, <3>2 DEF TrueCopies
    <3> QED
      BY <2>1, <2>2, <3>1, <3>2
  <2>6. TrueCopies(staging', records')
    BY <2>3, <2>5 DEF TrueCopies
  <2> QED
    BY <2>1, <2>3, <2>6 DEF CopyInv, Saved
<1>10. CASE Rewrite
  <2>1. /\ pc = "rewrite" /\ pc' = "rewrite" /\ manifest = Nil /\ manifest' = Nil
        /\ records' = records /\ InWalk
    BY <1>10 DEF Rewrite, mem, CInv, Building, InWalk
  <2>2. \A b \in DOMAIN staging : staging[b] \in StagedDir
    BY DEF CInv, IInv, TypeOK, DiskTypes
  <2>3. \A b \in DOMAIN staging : staging'[b].tree = staging[b].tree
    BY <1>10, <2>2 DEF Rewrite, StagedDir
  <2>4. \A i \in 1..Len(records) : records[i].base \in DOMAIN staging
    BY DEF CInv, IInv, BasesStaged
  <2>5. TrueCopies(staging', records')
    BY <2>1, <2>3, <2>4 DEF CopyInv, TrueCopies
  <2> QED
    BY <2>1, <2>5 DEF CopyInv, Saved
<1>11. CASE SaveBegin
  <2>1. /\ InWalk /\ pc' = "save" /\ manifest' = Torn /\ staging' = staging
        /\ pending' = [config |-> conf, packages |-> records, overrides |-> AddressOverrides]
    BY <1>11 DEF SaveBegin, InWalk
  <2>2. pending'.packages = records /\ TrueCopies(staging, records)
    BY <2>1 DEF CopyInv
  <2> QED
    BY <2>1, <2>2 DEF CopyInv, InWalk, Saved
<1>12. CASE (\E s \in Source : Edit(s)) \/ EditConfig \/ UNCHANGED installVars
  <2>1. UNCHANGED <<staging, manifest, pc, cur, records, pending, outcome>>
    BY <1>12 DEF Edit, EditConfig, installVars, disk, mem
  <2>2. pc = "idle" \/ live' = live
    BY <1>12 DEF Edit, EditConfig, Undisturbed, installVars, env
  <2> QED
    BY <2>1, <2>2 DEF CopyInv, InWalk, Saved
<1> QED
  BY <1>1, <1>2, <1>3, <1>5, <1>6, <1>7, <1>8, <1>9, <1>10, <1>11, <1>12, <1>4 DEF Next, Step, World

(* The first entry of the worklist is staged, unless the run fails.          *)
LEMMA NotEmptyStep ==
  ASSUME DiskInv, [Next]_installVars
  PROVE  NotEmpty'
<1> USE DEF DiskInv
<1>1. CASE Seed
  <2>1. cfg \in Config /\ worklist' = Entries[cfg] /\ pc' = "walk" /\ manifest' = manifest
    BY <1>1 DEF Seed, disk, CInv, IInv, Phases
  <2>2. worklist' # << >>
    BY <2>1, ConfigAssumption
  <2> QED
    BY <2>1, <2>2 DEF NotEmpty, Saved
<1>2. CASE Skip
  <2>1. cur = Nil /\ Head(worklist).src \in StagedKeys
    BY <1>2 DEF Skip, AlreadyStaged, CInv, IInv, Phases
  <2>2. records \in Seq(Package)
    BY DEF CInv, IInv, TypeOK, RunTypes
  <2>3. records # << >>
    BY <2>1, <2>2 DEF StagedKeys
  <2> QED
    BY <1>2, <2>3 DEF Skip, NotEmpty, Saved, disk
<1>3. CASE Record
  <2>1. records \in Seq(Package)
    BY DEF CInv, IInv, TypeOK, RunTypes
  <2>2. Len(records') # 0
    BY <1>3, <2>1 DEF Record
  <2>3. records' # << >> /\ pc' = "walk" /\ manifest' = manifest
    BY <1>3, <2>2 DEF Record, disk
  <2> QED
    BY <2>3 DEF NotEmpty, Saved
<1>4. CASE Drained \/ Rewrite \/ SaveBegin \/ SaveEnd
  BY <1>4 DEF Drained, Rewrite, SaveBegin, SaveEnd, NotEmpty, Saved, disk, mem, Stop
<1>5. CASE Stage \/ Discover \/ Enqueue \/ Begin \/ BeginClean \/ Clear
  <2>1. pc' \in {"discover", "deps", "clear", "clean"} /\ (manifest' = manifest \/ manifest' = Nil)
    BY <1>5 DEF Stage, Discover, Enqueue, Begin, BeginClean, Clear, disk
  <2> QED
    BY <2>1 DEF NotEmpty, Saved
<1>6. CASE \/ CleanDone \/ SeedFails \/ StageFails \/ CrateClash \/ Unreadable
           \/ ExoticDep \/ UnstagedDep \/ Crash
  <2>1. pc' = "idle" /\ manifest' = manifest
    BY <1>6 DEF CleanDone, SeedFails, StageFails, CrateClash, Unreadable, ExoticDep,
                UnstagedDep, Crash, Stop, disk
  <2> QED
    BY <2>1 DEF NotEmpty, Saved
<1>7. CASE (\E s \in Source : Edit(s)) \/ EditConfig \/ UNCHANGED installVars
  BY <1>7 DEF Edit, EditConfig, installVars, disk, mem, NotEmpty, Saved
<1> QED
  BY <1>1, <1>2, <1>3, <1>4, <1>5, <1>6, <1>7 DEF Next, Step, World

(* What install leaves on disk is sound at every step, also of generate.     *)
LEMMA DiskStep ==
  ASSUME DiskInv, [PipelineNext]_pipelineVars, Undisturbed
  PROVE  DiskInv'
<1>1. CASE [Next]_installVars
  <2>1. IInv'
    BY <1>1, NextIInv DEF DiskInv, CInv
  <2>2. Building' /\ ManifestComplete'
    BY <1>1, BuildingStep, ManifestCompleteStep DEF DiskInv, Undisturbed
  <2>3. CopyInv' /\ NotEmpty'
    BY <1>1, CopyStep, NotEmptyStep
  <2> QED
    BY <2>1, <2>2, <2>3 DEF DiskInv, CInv
<1>2. CASE GenCrash /\ UNCHANGED <<env, disk, pc, mem, outcome, edits>>
  <2>1. crashes' \in Nat
    BY <1>2 DEF GenCrash, DiskInv, CInv, IInv, TypeOK, WorldTypes
  <2> QED
    BY <1>2, <2>1, CountCrash
<1> QED
  BY <1>1, <1>2 DEF PipelineNext, pipelineVars, Next, World

-----------------------------------------------------------------------------
(* What generate holds                                                       *)

(* The contents whose digest is recorded were there while generate ran, or   *)
(* the source was gone at a moment.                                          *)
Tracked(k) ==
  \/ gm.packages[k].digest \in seen[gm.packages[k].src]
  \/ Gone \in seen[gm.packages[k].src]

(* What compiling a package yields.                                          *)
Crate ==
  [src : Source, crate : Name, tree : Tree,
   address : {AddressOf(gm.packages[k], t) : k \in 1..Len(gm.packages), t \in Tree}]

FromPackage(g) ==
  \E k \in 1..Len(gm.packages) :
    /\ g.src = gm.packages[k].src
    /\ g.tree = Meta[gm.packages[k].digest].copy

(* A crate on disk that generate may list.                                   *)
Written(c) ==
  c \in DOMAIN gout /\ gout[c].src \in Source /\ Promise!Fresh(gout[c])

(* generate runs alone, on the manifest that is on disk; it has seen the     *)
(* sources as they are now.                                                  *)
Watching ==
  /\ gpc = "idle" <=> goutcome # "running"
  /\ gpc # "idle" => pc = "idle" /\ conf \in seenConf
  /\ gpc # "idle" => \A s \in Source : live[s] \in seen[s]
  /\ gpc \notin {"idle", "load"} => Saved /\ gm = manifest
  /\ gnext \in Nat \ {0} /\ (gpc \in {"idle", "load", "verify"} => gnext = 1)

(* The checks come first, so that what is compiled is of contents that were  *)
(* there; what is written already is fresh.                                  *)
Checked ==
  /\ gpc \in {"drift", "build", "write"} => gm.config \in seenConf
  /\ gpc = "drift" => \A k \in 1..Len(gm.packages) :
       k < gnext => k \in drifted \/ Tracked(k)
  /\ gpc \in {"build", "write"} => \A k \in 1..Len(gm.packages) : Tracked(k)
  /\ gpc \notin {"build", "write"} => gloaded = << >>
  /\ gloaded \in Seq(Crate)
  /\ \A i \in 1..Len(gloaded) : FromPackage(gloaded[i])
  /\ gpc = "write" => \A i \in 1..Len(gloaded) :
       i < gnext => Written(gloaded[i].crate)

GenInv == GenTypeOK /\ Watching /\ Checked

(* Every package of a saved manifest can be compiled: a build reads staged   *)
(* packages only.                                                            *)
LEMMA PackagesIntact ==
  ASSUME DiskInv, Saved, pc = "idle", NEW k \in 1..Len(manifest.packages)
  PROVE  /\ Intact(manifest.packages[k].base)
         /\ staging[manifest.packages[k].base].tree
              = Meta[manifest.packages[k].digest].copy
<1> DEFINE packages == manifest.packages
           b == packages[k].base
           bases == {packages[i].base : i \in 1..Len(packages)}
           dirs == bases \cap (Linked \cup {b})
<1>1. Complete(staging, packages)
  BY DEF DiskInv, CInv, ManifestComplete
<1>2. packages \in Seq(Package) /\ Len(packages) \in Nat
  BY DEF DiskInv, CInv, IInv, TypeOK, DiskTypes, IsManifest
<1>3. Closed(dirs)
  <2> SUFFICES ASSUME NEW c \in dirs \cap DOMAIN staging,
                      NEW n \in 1..Len(staging[c].links)
               PROVE  staging[c].links[n] \in dirs
    BY DEF Closed
  <2>1. staging[c].links[n] \in Linked
    BY DEF Linked
  <2>2. PICK i \in 1..Len(packages) : packages[i].base = c
    OBVIOUS
  <2>3. FollowsDeps(staging, packages, i)
    BY <1>1 DEF Complete
  <2>4. \E j \in 1..Len(packages) : packages[j].base = staging[c].links[n]
    BY <2>2, <2>3 DEF FollowsDeps
  <2> QED
    BY <2>1, <2>4
<1>4. b \in dirs /\ dirs \subseteq Linked \cup {b}
  OBVIOUS
<1>5. Reads(b) \subseteq dirs
  BY <1>3, <1>4 DEF Reads
<1>6. \A c \in bases : c \in DOMAIN staging /\ staging[c].whole
  BY <1>1 DEF Complete
<1>7. Intact(b)
  BY <1>5, <1>6 DEF Intact, Present
<1> QED
  BY <1>7 DEF DiskInv, CopyInv, TrueCopies

(* Steps of install and clean, and edits between commands.                   *)
LEMMA RestKeeps ==
  ASSUME GenInv, gpc = "idle", UNCHANGED <<gen, history>>
  PROVE  GenInv'
<1> USE DEF GenInv, gen, history
<1>1. GenTypeOK'
  BY DEF GenTypeOK, IsManifest
<1>2. Watching'
  BY DEF Watching
<1>3. Crate' = Crate
  BY DEF Crate, AddressOf
<1>4. gloaded = << >> /\ Len(gloaded) = 0
  BY DEF Checked
<1>5. Checked'
  BY <1>3, <1>4 DEF Checked
<1> QED
  BY <1>1, <1>2, <1>5

(* Wherever generate ends, it forgets everything but the output.             *)
LEMMA StopKeeps ==
  ASSUME GenInv, NEW why \in {"ok", "failed"}, GenStop(why), gout' = gout,
         members' \subseteq DOMAIN gout
  PROVE  GenInv'
<1>1. GenTypeOK'
  BY DEF GenInv, GenTypeOK, GenStop, GenPoints, GenOutcomes
<1>2. Watching' /\ Checked'
  BY DEF GenStop, Watching, Checked
<1> QED
  BY <1>1, <1>2 DEF GenInv

(* The user edits while generate works: it has seen the new contents too.    *)
LEMMA EditKeeps ==
  ASSUME GenInv, DiskInv, DiskInv', gpc # "idle", Observe, UNCHANGED gen,
         UNCHANGED <<pc, manifest>>
  PROVE  GenInv'
<1> USE DEF GenInv, gen
<1>1. /\ seen' = [s \in Source |-> seen[s] \cup {live'[s]}]
      /\ seenConf' = seenConf \cup {conf'}
  BY DEF Observe
<1>2. live' \in [Source -> Tree \cup {Gone}] /\ conf' \in Config
  BY DEF DiskInv, CInv, IInv, TypeOK, WorldTypes
<1>3. GenTypeOK'
  BY <1>1, <1>2 DEF GenTypeOK, IsManifest
<1>4. Watching'
  BY <1>1 DEF Watching, Saved
<1>5. Crate' = Crate
  BY DEF Crate, AddressOf
<1>6. seen \in [Source -> SUBSET (Tree \cup {Gone})]
  BY DEF GenTypeOK
<1>7. \A s \in Source : seen[s] \subseteq seen'[s]
  BY <1>1
<1>8. gpc \in {"drift", "build", "write"} => gm.packages \in Seq(Package)
  BY DEF Watching, DiskInv, CInv, IInv, TypeOK, DiskTypes, IsManifest
<1>9. ASSUME gpc \in {"drift", "build", "write"}, NEW k \in 1..Len(gm.packages), Tracked(k)
      PROVE  Tracked(k)'
  <2>1. gm.packages \in Seq(Package)
    BY <1>8, <1>9
  <2>2. gm.packages[k] \in Package
    BY <2>1, ElementOfSeq
  <2>3. gm.packages[k].src \in Source
    BY <2>2 DEF Package
  <2>4. seen[gm.packages[k].src] \subseteq seen'[gm.packages[k].src]
    BY <1>7, <2>3
  <2> QED
    BY <1>9, <2>4 DEF Tracked
<1>10. ASSUME NEW i \in 1..Len(gloaded), Written(gloaded[i].crate)
       PROVE  Written(gloaded[i].crate)'
  BY <1>1, <1>7, <1>10 DEF Written, Promise!Fresh
<1>11. ASSUME gpc \in {"drift", "build", "write"}
       PROVE  gm.config \in seenConf'
  BY <1>1, <1>11 DEF Checked
<1>12. gloaded \in Seq(Crate)' /\ \A i \in 1..Len(gloaded) : FromPackage(gloaded[i])'
  BY <1>5 DEF Checked, FromPackage
<1>13. ASSUME gpc = "write", NEW i \in 1..Len(gloaded), i < gnext
       PROVE  Written(gloaded[i].crate)'
  <2>1. Written(gloaded[i].crate)
    BY <1>13 DEF Checked
  <2> QED
    BY <1>10, <2>1
<1>14. Checked'
  BY <1>9, <1>11, <1>12, <1>13 DEF Checked
<1> QED
  BY <1>3, <1>4, <1>14

(* A package adds the crate of what was staged, at an address of its own.    *)
LEMMA CompileKeeps ==
  ASSUME DiskInv, GenInv, GenCompile, UNCHANGED installVars
  PROVE  GenInv'
<1> DEFINE p == gm.packages[gnext]
           g == Generated(p, staging[p.base].tree)
<1>1. /\ gpc = "build" /\ gnext \in Selected /\ pc = "idle" /\ Saved /\ gm = manifest
      /\ UNCHANGED <<gpc, gcfg, gm, drifted, gout, members, goutcome, seen, seenConf>>
      /\ gnext' = gnext + 1
  BY DEF GenCompile, GenInv, Watching, history
<1>2. gm.packages \in Seq(Package) /\ Len(gm.packages) \in Nat \ {0}
  <2>1. gm.packages \in Seq(Package) /\ gm.packages # << >>
    BY <1>1 DEF DiskInv, CInv, IInv, TypeOK, DiskTypes, IsManifest, NotEmpty
  <2> QED
    BY <2>1
<1>3. gnext \in 1..Len(gm.packages)
  BY <1>1, <1>2 DEF Selected
<1>4. p \in Package /\ Intact(p.base) /\ staging[p.base].tree = Meta[p.digest].copy
  BY <1>1, <1>2, <1>3, PackagesIntact, ElementOfSeq
<1>5. staging[p.base].tree \in Tree
  BY <1>4, SourcesAssumption DEF TreeMeta, Package
<1>6. g \in Crate /\ FromPackage(g)
  <2>1. AddressOf(p, staging[p.base].tree)
          \in {AddressOf(gm.packages[k], t) : k \in 1..Len(gm.packages), t \in Tree}
    BY <1>3, <1>5
  <2>2. p.src \in Source /\ p.crate \in Name
    BY <1>4 DEF Package
  <2>3. g \in Crate
    BY <1>5, <2>1, <2>2 DEF Generated, Crate
  <2>4. g.src = p.src /\ g.tree = Meta[p.digest].copy
    BY <1>4 DEF Generated
  <2> QED
    BY <1>3, <2>3, <2>4 DEF FromPackage
<1>7. gloaded' = gloaded \/ gloaded' = Append(gloaded, g)
  <2> HIDE DEF p, g
  <2>1. gloaded' = IF Aliased(g) THEN gloaded ELSE Append(gloaded, g)
    BY <1>4 DEF GenCompile, p, g
  <2> QED
    BY <2>1
<1>8. gloaded \in Seq(Crate) /\ \A i \in 1..Len(gloaded) : FromPackage(gloaded[i])
  BY DEF GenInv, Checked
<1> HIDE DEF p, g
<1>9. gloaded' \in Seq(Crate) /\ \A i \in 1..Len(gloaded') : FromPackage(gloaded'[i])
  <2>1. CASE gloaded' = gloaded
    BY <1>8, <2>1
  <2>2. CASE gloaded' = Append(gloaded, g)
    <3>1. /\ gloaded' \in Seq(Crate) /\ Len(gloaded') = Len(gloaded) + 1 /\ Len(gloaded) \in Nat
          /\ \A i \in 1..Len(gloaded) : gloaded'[i] = gloaded[i]
          /\ gloaded'[Len(gloaded) + 1] = g
      BY <1>6, <1>8, <2>2, AppendProperties, LenProperties
    <3>2. ASSUME NEW i \in 1..Len(gloaded')
          PROVE  FromPackage(gloaded'[i])
      <4>1. CASE i = Len(gloaded) + 1
        BY <1>6, <3>1, <4>1
      <4>2. CASE i \in 1..Len(gloaded)
        BY <1>8, <3>1, <4>2
      <4> QED
        BY <3>1, <4>1, <4>2
    <3> QED
      BY <3>1, <3>2
  <2> QED
    BY <1>7, <2>1, <2>2
<1>10. Crate' = Crate /\ \A h : FromPackage(h)' <=> FromPackage(h)
  BY <1>1 DEF Crate, AddressOf, FromPackage
<1>11. Checked'
  BY <1>1, <1>9, <1>10 DEF Checked, GenInv, FromPackage, Tracked
<1>12. Watching'
  BY <1>1 DEF Watching, GenInv, installVars, env, disk, Saved
<1>13. GenTypeOK'
  <2>1. \A i \in 1..Len(gloaded') : gloaded'[i] \in Crate
    BY <1>9, ElementOfSeq
  <2>2. \A i \in 1..Len(gloaded') : gloaded'[i].src \in Source /\ gloaded'[i].tree \in Tree
    BY <2>1 DEF Crate
  <2> QED
    BY <1>1, <2>2 DEF GenTypeOK, GenInv, IsManifest
<1> QED
  BY <1>11, <1>12, <1>13 DEF GenInv

(* What is written is fresh: it was compiled from contents that generate has *)
(* seen, by a config that it has seen.                                       *)
LEMMA WriteFresh ==
  ASSUME DiskInv, GenInv, GenWrite, UNCHANGED installVars
  PROVE  /\ gnext \in 1..Len(gloaded) /\ gloaded[gnext].crate \in Name
         /\ DOMAIN gout' = DOMAIN gout \cup {gloaded[gnext].crate}
         /\ \A c \in {gloaded[gnext].crate} : Written(c)'
         /\ \A c \in DOMAIN gout \ {gloaded[gnext].crate} : gout'[c] = gout[c]
<1> DEFINE g == gloaded[gnext]
<1>1. /\ gpc = "write" /\ gnext \in 1..Len(gloaded)
      /\ UNCHANGED <<gm, gloaded, members, goutcome, seen, seenConf>>
  BY DEF GenWrite, GenInv, Watching, history
<1>2. /\ DOMAIN gout' = DOMAIN gout \cup {g.crate}
      /\ gout'[g.crate] = [src |-> g.src, tree |-> g.tree, config |-> gm.config]
      /\ \A c \in DOMAIN gout \ {g.crate} : gout'[c] = gout[c]
  BY DEF GenWrite
<1>3. g \in Crate /\ g.crate \in Name /\ g.src \in Source
  <2>1. g \in Crate
    BY <1>1, ElementOfSeq DEF GenInv, Checked
  <2> QED
    BY <2>1 DEF Crate
<1>4. PICK k \in 1..Len(gm.packages) :
        g.src = gm.packages[k].src /\ g.tree = Meta[gm.packages[k].digest].copy
  BY <1>1 DEF GenInv, Checked, FromPackage
<1>5. Tracked(k) /\ gm.config \in seenConf
  BY <1>1 DEF GenInv, Checked
<1>6. gm.packages[k].digest \in Tree
  <2>1. gm.packages \in Seq(Package)
    BY <1>1 DEF DiskInv, CInv, IInv, TypeOK, DiskTypes, IsManifest, GenInv, Watching
  <2>2. gm.packages[k] \in Package
    BY <2>1, ElementOfSeq
  <2> QED
    BY <2>2 DEF Package
<1>7. ASSUME NEW o, o = [src |-> g.src, tree |-> g.tree, config |-> gm.config]
      PROVE  Promise!Fresh(o)'
  <2> HIDE DEF g
  <2>1. o.src = g.src /\ o.tree = g.tree /\ o.config = gm.config
    BY <1>7
  <2>2. Gone \in seen[g.src] \/ \E t \in seen[g.src] : t \in Tree /\ g.tree = Meta[t].copy
    BY <1>4, <1>5, <1>6 DEF Tracked
  <2>3. seen' = seen /\ seenConf' = seenConf
    BY <1>1
  <2>4. \/ Gone \in seen'[o.src]
        \/ \E t \in seen'[o.src] : o.tree = [u \in Tree |-> Meta[u].copy][t]
    BY <2>1, <2>2, <2>3
  <2> QED
    BY <1>5, <2>1, <2>3, <2>4 DEF Promise!Fresh
<1>8. ASSUME NEW c, c = g.crate
      PROVE  Written(c)'
  <2>1. c \in DOMAIN gout' /\ gout'[c].src \in Source
    BY <1>2, <1>3, <1>8
  <2>2. \A o : o = gout'[c] => Promise!Fresh(o)'
    BY <1>2, <1>7, <1>8
  <2> QED
    BY <2>1, <2>2 DEF Written
<1> QED
  BY <1>1, <1>2, <1>3, <1>8

(* Overwriting a crate leaves the others as they are.                        *)
LEMMA WriteKeeps ==
  ASSUME DiskInv, GenInv, GenWrite, UNCHANGED installVars
  PROVE  GenInv'
<1>1. /\ gpc = "write" /\ gnext' = gnext + 1
      /\ UNCHANGED <<gpc, gcfg, gm, drifted, gloaded, members, goutcome, seen, seenConf>>
  BY DEF GenWrite, history
<1>2. GenTypeOK'
  BY <1>1, WriteFresh DEF GenInv, GenTypeOK, IsManifest
<1>3. Watching'
  BY <1>1 DEF Watching, GenInv, installVars, env, disk, Saved
<1>4. ASSUME NEW i \in 1..Len(gloaded), i < gnext + 1
      PROVE  Written(gloaded[i].crate)'
  <2>1. CASE gloaded[i].crate = gloaded[gnext].crate
    <3>1. ASSUME NEW c, c = gloaded[i].crate
          PROVE  Written(c)'
      BY <2>1, <3>1, WriteFresh
    <3> QED
      BY <1>1, <3>1
  <2>2. CASE gloaded[i].crate # gloaded[gnext].crate
    <3>1. i < gnext
      BY <1>4, <2>2 DEF GenInv, Watching
    <3>2. Written(gloaded[i].crate)
      BY <1>1, <3>1 DEF GenInv, Checked
    <3>3. gout'[gloaded[i].crate] = gout[gloaded[i].crate] /\ gloaded[i].crate \in DOMAIN gout'
      BY <2>2, <3>2, WriteFresh DEF Written
    <3> QED
      BY <1>1, <3>2, <3>3 DEF Written, Promise!Fresh
  <2> QED
    BY <2>1, <2>2
<1>5. Crate' = Crate
  BY <1>1 DEF Crate, AddressOf
<1>6. Checked'
  BY <1>1, <1>4, <1>5 DEF Checked, GenInv, FromPackage, Tracked
<1> QED
  BY <1>2, <1>3, <1>6 DEF GenInv

(* generate starts with the sources before it.                               *)
LEMMA BeginKeeps ==
  ASSUME DiskInv, GenInv, GenBegin, UNCHANGED installVars
  PROVE  GenInv'
<1>1. /\ gpc = "idle" /\ pc = "idle" /\ gpc' = "load" /\ goutcome' = "running" /\ gcfg' = conf
      /\ seen' = [s \in Source |-> {live[s]}] /\ seenConf' = {conf}
      /\ UNCHANGED <<gm, gnext, drifted, gloaded, gout, members>>
      /\ UNCHANGED <<live, conf, pc>>
  BY DEF GenBegin, installVars, env
<1>2. live \in [Source -> Tree \cup {Gone}] /\ conf \in Config
  BY DEF DiskInv, CInv, IInv, TypeOK, WorldTypes
<1>3. gloaded = << >> /\ gnext = 1 /\ gnext \in Nat
  BY <1>1 DEF GenInv, Checked, Watching
<1>4. GenTypeOK'
  BY <1>1, <1>2 DEF GenInv, GenTypeOK, GenPoints, GenOutcomes, IsManifest
<1>5. Watching'
  BY <1>1, <1>3 DEF Watching
<1>6. Checked'
  BY <1>1, <1>3 DEF Checked
<1> QED
  BY <1>4, <1>5, <1>6 DEF GenInv

(* Loading and checking compile nothing.                                     *)
LEMMA CheckKeeps ==
  ASSUME DiskInv, GenInv, GenLoad \/ GenConfigSame \/ GenHash \/ GenVerified,
         UNCHANGED installVars
  PROVE  GenInv'
<1> USE DEF GenInv
<1>1. /\ gpc \in {"load", "verify", "drift"} /\ pc = "idle"
      /\ UNCHANGED <<gcfg, gloaded, gout, members, goutcome, seen, seenConf>>
      /\ UNCHANGED <<live, conf, pc, manifest>>
      /\ gloaded = << >> /\ gnext \in Nat \ {0}
  BY DEF GenLoad, GenConfigSame, GenHash, GenVerified, Watching, Checked, history,
         installVars, env, disk
<1>2. CASE GenLoad
  <2>1. gm' = manifest /\ Saved /\ gpc' = "verify" /\ gnext' = gnext /\ drifted' = drifted
    BY <1>2 DEF GenLoad
  <2>2. IsManifest(manifest)
    BY <2>1 DEF DiskInv, CInv, IInv, TypeOK, DiskTypes
  <2>3. IsManifest(gm')
    BY <2>1, <2>2
  <2>4. GenTypeOK'
    BY <1>1, <2>1, <2>3 DEF GenTypeOK, GenPoints, IsManifest
  <2>5. gnext = 1 /\ gpc # "idle" /\ goutcome = "running"
    BY <1>2 DEF GenLoad, Watching
  <2>6. Watching'
    BY <1>1, <2>1, <2>5 DEF Watching, Saved
  <2> QED
    BY <1>1, <2>1, <2>4, <2>6 DEF Checked
<1>3. CASE GenConfigSame
  <2>1. conf = gm.config /\ gm' = gm /\ gpc = "verify" /\ gpc' = "drift"
        /\ UNCHANGED <<gnext, drifted>> /\ gnext = 1
    BY <1>3 DEF GenConfigSame, Watching
  <2>2. GenTypeOK'
    BY <1>1, <2>1 DEF GenTypeOK, GenPoints, IsManifest
  <2>3. Watching'
    BY <1>1, <2>1 DEF Watching, Saved
  <2>4. gm.config \in seenConf
    BY <2>1 DEF Watching
  <2> QED
    BY <1>1, <2>1, <2>2, <2>3, <2>4 DEF Checked
<1>4. CASE GenHash
  <2>1. /\ gpc = "drift" /\ gpc' = gpc /\ gm' = gm /\ gnext' = gnext + 1
        /\ gnext <= Len(gm.packages)
        /\ drifted' = IF HasDrifted(gm.packages[gnext]) THEN drifted \cup {gnext} ELSE drifted
    BY <1>4 DEF GenHash
  <2>2. gm.packages \in Seq(Package) /\ Len(gm.packages) \in Nat
    BY <2>1 DEF Watching, DiskInv, CInv, IInv, TypeOK, DiskTypes, IsManifest
  <2>3. gm.packages[gnext].src \in Source
    <3>1. gm.packages[gnext] \in Package
      BY <1>1, <2>1, <2>2, ElementOfSeq
    <3> QED
      BY <3>1 DEF Package
  <2>4. gnext \in drifted' \/ Tracked(gnext)
    BY <2>1, <2>3 DEF HasDrifted, Tracked, Watching
  <2>5. drifted \subseteq drifted'
    BY <2>1
  <2>6. \A k \in 1..Len(gm.packages) : k < gnext + 1 => k \in drifted' \/ Tracked(k)
    <3> SUFFICES ASSUME NEW k \in 1..Len(gm.packages), k < gnext + 1
                 PROVE  k \in drifted' \/ Tracked(k)
      OBVIOUS
    <3>1. CASE k = gnext
      BY <2>4, <3>1
    <3>2. CASE k < gnext
      BY <2>1, <2>5, <3>2 DEF Checked
    <3> QED
      BY <1>1, <2>2, <3>1, <3>2
  <2>7. GenTypeOK'
    <3>1. drifted \subseteq Nat /\ gnext \in Nat
      BY <1>1 DEF GenTypeOK
    <3>2. drifted' = drifted \cup {gnext} \/ drifted' = drifted
      BY <2>1
    <3>3. drifted' \subseteq Nat /\ gnext' \in Nat
      BY <2>1, <3>1, <3>2
    <3> QED
      BY <1>1, <2>1, <3>3 DEF GenTypeOK, IsManifest
  <2>8. Watching'
    BY <1>1, <2>1 DEF Watching, Saved
  <2>9. \A k \in 1..Len(gm.packages) : Tracked(k) => Tracked(k)'
    BY <1>1, <2>1 DEF Tracked
  <2> QED
    BY <1>1, <2>1, <2>6, <2>7, <2>8, <2>9 DEF Checked
<1>5. CASE GenVerified
  <2>1. /\ gpc = "drift" /\ gpc' = "build" /\ gm' = gm /\ gnext' = 1 /\ drifted' = drifted
        /\ gnext > Len(gm.packages) /\ drifted = {}
    BY <1>5 DEF GenVerified
  <2>2. gm.packages \in Seq(Package) /\ Len(gm.packages) \in Nat
    BY <2>1 DEF Watching, DiskInv, CInv, IInv, TypeOK, DiskTypes, IsManifest
  <2>3. \A k \in 1..Len(gm.packages) : Tracked(k)
    BY <1>1, <2>1, <2>2 DEF Checked
  <2>4. \A k \in 1..Len(gm.packages) : Tracked(k) => Tracked(k)'
    BY <1>1, <2>1 DEF Tracked
  <2>5. GenTypeOK'
    BY <1>1, <2>1 DEF GenTypeOK, GenPoints, IsManifest
  <2>6. Watching'
    BY <1>1, <2>1 DEF Watching, Saved
  <2> QED
    BY <1>1, <2>1, <2>3, <2>4, <2>5, <2>6 DEF Checked
<1> QED
  BY <1>2, <1>3, <1>4, <1>5

(* The steps of the build and of the end that write no crate.                *)
LEMMA OthersKeep ==
  ASSUME DiskInv, GenInv, UNCHANGED installVars,
         \/ GenPass \/ GenCompiled \/ GenFinish \/ GenSortFails
         \/ GenNotInstalled \/ GenUnreadable \/ GenConfigChanged
         \/ GenDrifted \/ GenCompileFails
  PROVE  GenInv'
<1> USE DEF GenInv
<1>1. CASE GenPass \/ GenCompiled
  <2>1. /\ gpc = "build" /\ gpc' \in {"build", "write"}
        /\ gnext' = 1 \/ (gpc' = "build" /\ gnext' = gnext + 1)
        /\ gpc' = "write" => gnext' = 1
        /\ UNCHANGED <<gcfg, gm, drifted, gloaded, gout, members, goutcome, seen, seenConf>>
        /\ UNCHANGED <<live, conf, pc, manifest>>
    BY <1>1 DEF GenPass, GenCompiled, history, installVars, env, disk
  <2>2. gnext \in Nat \ {0} /\ gnext' \in Nat \ {0}
    BY <2>1 DEF Watching
  <2>3. GenTypeOK'
    BY <2>1, <2>2 DEF GenTypeOK, GenPoints, IsManifest
  <2>4. Watching'
    BY <2>1, <2>2 DEF Watching, Saved
  <2>5. Crate' = Crate
    BY <2>1 DEF Crate, AddressOf
  <2>6. gloaded \in Seq(Crate) /\ Len(gloaded) \in Nat
    BY DEF Checked
  <2>7. \A i \in 1..Len(gloaded) : ~(i < 1)
    BY <2>6
  <2>8. Checked'
    BY <2>1, <2>5, <2>7 DEF Checked, FromPackage, Tracked
  <2> QED
    BY <2>3, <2>4, <2>8
<1>2. CASE GenFinish
  <2>1. /\ gpc = "write" /\ gnext > Len(gloaded) /\ GenStop("ok") /\ gout' = gout
        /\ members' = {gloaded[i].crate : i \in 1..Len(gloaded)}
    BY <1>2 DEF GenFinish
  <2>2. \A i \in 1..Len(gloaded) : i < gnext
    BY <2>1 DEF Checked, Watching
  <2>3. members' \subseteq DOMAIN gout
    BY <2>1, <2>2 DEF Checked, Written
  <2> QED
    BY <2>1, <2>3, StopKeeps
<1>3. CASE \/ GenSortFails \/ GenNotInstalled \/ GenUnreadable \/ GenConfigChanged
           \/ GenDrifted \/ GenCompileFails
  <2>1. GenStop("failed") /\ gout' = gout /\ members' = members
    BY <1>3 DEF GenSortFails, GenNotInstalled, GenUnreadable, GenConfigChanged,
                GenDrifted, GenCompileFails
  <2>2. members' \subseteq DOMAIN gout
    BY <2>1 DEF GenTypeOK
  <2> QED
    BY <2>1, <2>2, StopKeeps
<1> QED
  BY <1>1, <1>2, <1>3

(* An install or a clean cannot take a step while generate runs.             *)
LEMMA OneCommand ==
  ASSUME DiskInv, GenInv, Step \/ Crash
  PROVE  gpc = "idle"
<1>1. pc # "idle"
  BY DEF Step, Crash, Clear, CleanDone, SeedFails, Seed, Skip, StageFails, Stage,
         Discover, CrateClash, Unreadable, Enqueue, Record, Drained, Rewrite,
         ExoticDep, UnstagedDep, SaveBegin, SaveEnd
<1> QED
  BY <1>1 DEF GenInv, Watching

(* Every step keeps the invariant of generate.                               *)
LEMMA GenInvStep ==
  ASSUME DiskInv, DiskInv', GenInv, [PipelineNext]_pipelineVars
  PROVE  GenInv'
<1>1. CASE (Begin \/ BeginClean) /\ gpc = "idle" /\ UNCHANGED <<gen, history>>
  BY <1>1, RestKeeps
<1>2. CASE (Step \/ Crash) /\ UNCHANGED <<gen, history>>
  BY <1>2, OneCommand, RestKeeps
<1>3. CASE ((\E s \in Source : Edit(s)) \/ EditConfig) /\ Observe /\ UNCHANGED gen
  <2>1. UNCHANGED <<pc, manifest>>
    BY <1>3 DEF Edit, EditConfig, disk
  <2>2. CASE gpc = "idle"
    BY <1>3, <2>2, RestKeeps DEF Observe
  <2> QED
    BY <1>3, <2>1, <2>2, EditKeeps
<1>4. CASE (GenBegin \/ GenStep) /\ UNCHANGED installVars
  BY <1>4, BeginKeeps, CheckKeeps, CompileKeeps, WriteKeeps, OthersKeep DEF GenStep
<1>5. CASE GenCrash
  <2>1. GenStop("failed") /\ gout' = gout /\ members' = members
    BY <1>5 DEF GenCrash
  <2> QED
    BY <2>1, StopKeeps DEF GenInv, GenTypeOK
<1>6. CASE UNCHANGED pipelineVars
  <2>1. UNCHANGED <<gen, history>> /\ UNCHANGED <<live, conf, pc, manifest>>
    BY <1>6 DEF pipelineVars, installVars, env, disk
  <2>2. UNCHANGED <<gpc, gcfg, gm, gnext, drifted, gloaded, gout, members, goutcome,
                    seen, seenConf>>
    BY <2>1 DEF gen, history
  <2>3. Crate' = Crate
    BY <2>2 DEF Crate, AddressOf
  <2>4. GenTypeOK' /\ Watching'
    BY <2>1, <2>2 DEF GenInv, GenTypeOK, IsManifest, Watching, Saved
  <2>5. ASSUME NEW i \in 1..Len(gloaded), Written(gloaded[i].crate)
        PROVE  Written(gloaded[i].crate)'
    BY <2>2, <2>5 DEF Written, Promise!Fresh
  <2>6. \A h : FromPackage(h)' <=> FromPackage(h)
    BY <2>2 DEF FromPackage
  <2>7. \A k \in 1..Len(gm.packages) : Tracked(k) => Tracked(k)'
    BY <2>2 DEF Tracked
  <2>8. \A i \in 1..Len(gloaded) : FromPackage(gloaded[i])'
    BY <2>2, <2>6 DEF GenInv, Checked, FromPackage
  <2>9. Checked'
    BY <2>2, <2>3, <2>5, <2>7, <2>8 DEF GenInv, Checked
  <2> QED
    BY <2>4, <2>9 DEF GenInv
<1> QED
  BY <1>1, <1>2, <1>3, <1>4, <1>5, <1>6 DEF PipelineNext

-----------------------------------------------------------------------------
(* The promise                                                               *)

(* Every step of the commands and of the user is one that FreshBindings      *)
(* allows, or one it does not see.                                           *)
LEMMA KeepsStep ==
  ASSUME DiskInv, DiskInv', GenInv, [PipelineNext]_pipelineVars
  PROVE  [Promise!Next]_(Promise!vars)
<1> USE DEF Promise!Next
<1>1. CASE ((Begin \/ BeginClean) \/ (Step \/ Crash)) /\ UNCHANGED <<gen, history>>
  <2>1. UNCHANGED env
    BY <1>1, StepKeepsEnv
  <2> QED
    BY <1>1, <2>1 DEF Promise!vars, env, gen, history
<1>2. CASE ((\E s \in Source : Edit(s)) \/ EditConfig) /\ Observe /\ UNCHANGED gen
  <2>1. live' \in [Source -> Tree \cup {Gone}] /\ conf' \in Config
    BY DEF DiskInv, CInv, IInv, TypeOK, WorldTypes
  <2>2. Promise!Change
    BY <1>2, <2>1 DEF Promise!Change, Observe, gen, history, GenInv, Watching
  <2> QED
    BY <2>2
<1>3. CASE GenBegin /\ UNCHANGED installVars
  BY <1>3 DEF GenBegin, Promise!Start, GenInv, Watching, installVars, env
<1>4. CASE GenWrite /\ UNCHANGED installVars
  <2>1. /\ goutcome = "running" /\ members' = members
        /\ UNCHANGED <<live, conf, seen, seenConf, goutcome>>
    BY <1>4 DEF GenWrite, GenInv, Watching, history, installVars, env
  <2>2. ASSUME NEW c \in members, gout'[c] \notin {gout[d] : d \in members}
        PROVE  Promise!Fresh(gout'[c])
    <3>1. c \in DOMAIN gout
      BY DEF GenInv, GenTypeOK
    <3>2. c = gloaded[gnext].crate
      BY <1>4, <2>2, <3>1, WriteFresh
    <3>3. \A e : e = c => Written(e)'
      BY <1>4, <3>2, WriteFresh
    <3>4. \A e : e = c => Promise!Fresh(gout'[e])
      BY <2>1, <3>3 DEF Written, Promise!Fresh
    <3> QED
      BY <3>4
  <2>3. Promise!Emit
    BY <2>1, <2>2 DEF Promise!Emit
  <2> QED
    BY <2>3
<1>5. CASE GenFinish /\ UNCHANGED installVars
  <2>1. /\ gpc = "write" /\ gnext > Len(gloaded) /\ gout' = gout /\ goutcome = "running"
        /\ members' = {gloaded[i].crate : i \in 1..Len(gloaded)} /\ goutcome' = "ok"
        /\ seen' = [s \in Source |-> {}] /\ seenConf' = {} /\ UNCHANGED <<live, conf>>
    BY <1>5 DEF GenFinish, GenStop, GenInv, Watching, installVars, env
  <2>2. \A i \in 1..Len(gloaded) : i < gnext
    BY <2>1 DEF GenInv, Checked, Watching
  <2>3. \A i \in 1..Len(gloaded) : Promise!Fresh(gout[gloaded[i].crate])
    BY <2>1, <2>2 DEF GenInv, Checked, Written
  <2>4. Promise!Finish
    BY <2>1, <2>3 DEF Promise!Finish, Promise!Forget
  <2> QED
    BY <2>4
<1>6. CASE \/ GenCrash /\ UNCHANGED <<env, disk, pc, mem, outcome, edits>>
           \/ /\ \/ GenNotInstalled \/ GenUnreadable \/ GenConfigChanged
                 \/ GenDrifted \/ GenCompileFails \/ GenSortFails
              /\ UNCHANGED installVars
  <2>1. /\ gpc # "idle" /\ GenStop("failed") /\ UNCHANGED <<gout, members>>
        /\ UNCHANGED <<live, conf>>
    BY <1>6 DEF GenCrash, GenSortFails, GenNotInstalled, GenUnreadable, GenConfigChanged,
                GenDrifted, GenCompileFails, installVars, env
  <2> QED
    BY <2>1 DEF GenStop, Promise!Fail, Promise!Forget, GenInv, Watching
<1>7. CASE /\ \/ GenLoad \/ GenConfigSame \/ GenHash \/ GenVerified
              \/ GenPass \/ GenCompile \/ GenCompiled
           /\ UNCHANGED installVars
  BY <1>7 DEF GenLoad, GenConfigSame, GenHash, GenVerified, GenPass, GenCompile,
              GenCompiled, Promise!vars, installVars, env, history
<1>8. CASE UNCHANGED pipelineVars
  BY <1>8 DEF pipelineVars, installVars, env, gen, history, Promise!vars
<1> QED
  BY <1>1, <1>2, <1>3, <1>4, <1>5, <1>6, <1>7, <1>8 DEF PipelineNext, GenStep

(* Both commands start from nothing.                                         *)
LEMMA StartSound ==
  ASSUME PipelineInit
  PROVE  DiskInv /\ GenInv /\ Promise!Init
<1>1. Init /\ GenInit
  BY DEF PipelineInit
<1>2. IInv
  BY <1>1, InitIInv
<1>3. Building /\ ManifestComplete /\ CopyInv /\ NotEmpty
  BY <1>1 DEF Init, Building, ManifestComplete, CopyInv, NotEmpty, InWalk, Saved
<1>4. GenTypeOK
  BY <1>1 DEF GenInit, GenTypeOK, GenPoints, GenOutcomes
<1>5. Watching /\ Checked
  BY <1>1 DEF GenInit, Watching, Checked
<1>6. Promise!Init
  BY <1>1 DEF Init, GenInit, Promise!Init
<1> QED
  BY <1>2, <1>3, <1>4, <1>5, <1>6 DEF DiskInv, CInv, GenInv

(* The invariants of both commands hold throughout.                          *)
LEMMA SoundThroughout ==
  ASSUME Undisturbed
  PROVE  PipelineSpec => [](DiskInv /\ GenInv)
<1>1. PipelineInit => DiskInv /\ GenInv
  BY StartSound
<1>2. (DiskInv /\ GenInv) /\ [PipelineNext]_pipelineVars => (DiskInv /\ GenInv)'
  BY DiskStep, GenInvStep
<1> QED
  BY <1>1, <1>2, PTL DEF PipelineSpec

(* generate never silently produces stale bindings: with the config it goes  *)
(* by and all that it writes it keeps the promise of FreshBindings, whatever *)
(* the user does to the sources while it runs.                               *)
THEOREM FreshOrLoud ==
  ASSUME Undisturbed
  PROVE  PipelineSpec => KeepsPromise
<1>1. PipelineInit => Promise!Init
  BY StartSound
<1>2. DiskInv /\ DiskInv' /\ GenInv /\ [PipelineNext]_pipelineVars
        => [Promise!Next]_(Promise!vars)
  BY KeepsStep
<1> QED
  BY <1>1, <1>2, SoundThroughout, PTL DEF PipelineSpec, KeepsPromise, Promise!Spec

(* The types of what generate keeps; every member it lists is on disk.       *)
THEOREM GenTypes ==
  ASSUME Undisturbed
  PROVE  PipelineSpec => []GenTypeOK
<1>1. DiskInv /\ GenInv => GenTypeOK
  BY DEF GenInv
<1> QED
  BY <1>1, SoundThroughout, PTL

-----------------------------------------------------------------------------
(* After an install that reported success                                    *)

(* An absent and a torn packages.json are no manifests.                      *)
Legible == \A m : IsManifest(m) => m \notin {Nil, Torn}

(* Success is reported last, once packages.json is written.                  *)
OkIsSaved ==
  /\ pc = "save" => IsManifest(pending)
  /\ outcome = "ok" => pc = "idle" /\ Saved

(* A later command takes the report back before it touches the disk.         *)
LEMMA OkIsSavedStep ==
  ASSUME Legible, IInv, OkIsSaved, [Next]_installVars
  PROVE  OkIsSaved'
<1>1. CASE SaveEnd
  <2>1. pc' = "idle" /\ manifest' = pending /\ IsManifest(pending)
    BY <1>1 DEF SaveEnd, Stop, OkIsSaved
  <2> QED
    BY <2>1 DEF OkIsSaved, Saved, Legible
<1>2. CASE SaveBegin
  <2>1. IsManifest([config |-> conf, packages |-> records,
                    overrides |-> AddressOverrides])
    BY OverridesType DEF IsManifest, IInv, TypeOK, WorldTypes, RunTypes
  <2>2. \A m : m = pending' => IsManifest(m)
    BY <1>2, <2>1 DEF SaveBegin
  <2>3. IsManifest(pending')
    BY <2>2
  <2> QED
    BY <1>2, <2>3 DEF SaveBegin, OkIsSaved, IsManifest
<1>3. CASE \/ CleanDone \/ SeedFails \/ StageFails \/ CrateClash \/ Unreadable
           \/ ExoticDep \/ UnstagedDep \/ Crash
  <2>1. pc' = "idle" /\ outcome' # "ok"
    BY <1>3 DEF CleanDone, SeedFails, StageFails, StageErrors, CrateClash, Unreadable,
                ExoticDep, UnstagedDep, Crash, Stop
  <2> QED
    BY <2>1 DEF OkIsSaved
<1>4. CASE Begin \/ BeginClean
  <2>1. pc' \in {"clear", "clean"} /\ outcome' = "none"
    BY <1>4 DEF Begin, BeginClean
  <2> QED
    BY <2>1 DEF OkIsSaved
<1>5. CASE Clear \/ Seed \/ Skip \/ Stage \/ Discover \/ Enqueue \/ Record \/ Drained \/ Rewrite
  <2>1. pc # "idle" /\ pc' # "save" /\ outcome' = outcome
    BY <1>5 DEF Clear, Seed, Skip, Stage, Discover, Enqueue, Record, Drained, Rewrite
  <2> QED
    BY <2>1 DEF OkIsSaved
<1>6. CASE (\E s \in Source : Edit(s)) \/ EditConfig \/ UNCHANGED installVars
  BY <1>6 DEF Edit, EditConfig, installVars, disk, mem, OkIsSaved, Saved, IsManifest
<1> QED
  BY <1>1, <1>2, <1>3, <1>4, <1>5, <1>6 DEF Next, Step, World

(* While the last install stands as successful, generate meets neither a     *)
(* missing or torn packages.json nor a damaged package.                      *)
THEOREM UsableAfterInstall ==
  ASSUME Undisturbed, Legible
  PROVE  PipelineSpec => InstalledIsUsable
<1>1. PipelineInit => OkIsSaved
  BY DEF PipelineInit, Init, OkIsSaved
<1>2. DiskInv /\ OkIsSaved /\ [PipelineNext]_pipelineVars => OkIsSaved'
  <2> SUFFICES ASSUME DiskInv, OkIsSaved, [PipelineNext]_pipelineVars
               PROVE  OkIsSaved'
    OBVIOUS
  <2>1. CASE [Next]_installVars
    BY <2>1, OkIsSavedStep DEF DiskInv, CInv
  <2>2. CASE GenCrash /\ UNCHANGED <<env, disk, pc, mem, outcome, edits>>
    BY <2>2 DEF OkIsSaved, disk, mem, Saved, IsManifest
  <2> QED
    BY <2>1, <2>2 DEF PipelineNext, pipelineVars, Next, World
<1>3. DiskInv /\ GenInv /\ OkIsSaved /\ [PipelineNext]_pipelineVars
        => [Unusable => outcome # "ok"]_pipelineVars
  <2> SUFFICES ASSUME DiskInv, GenInv, outcome = "ok", OkIsSaved, Unusable
               PROVE  FALSE
    OBVIOUS
  <2>1. pc = "idle" /\ Saved
    BY DEF OkIsSaved
  <2>2. (GenCompile \/ GenCompileFails) /\ ~Intact(gm.packages[gnext].base)
    BY <2>1 DEF Unusable, GenNotInstalled, GenUnreadable, Saved
  <2>3. gpc = "build" /\ gnext \in Selected /\ gm = manifest
    BY <2>2 DEF GenCompile, GenCompileFails, GenInv, Watching
  <2>4. manifest.packages \in Seq(Package) /\ manifest.packages # << >>
    BY <2>1 DEF DiskInv, CInv, IInv, TypeOK, DiskTypes, IsManifest, NotEmpty
  <2>5. gnext \in 1..Len(manifest.packages)
    BY <2>3, <2>4 DEF Selected
  <2> QED
    BY <2>1, <2>2, <2>3, <2>5, PackagesIntact
<1> QED
  BY <1>1, <1>2, <1>3, SoundThroughout, PTL DEF PipelineSpec, InstalledIsUsable
=============================================================================
