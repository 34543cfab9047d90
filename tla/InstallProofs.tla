---------------------------- MODULE InstallProofs ----------------------------
(***************************************************************************)
(* Theorems about module Install: every run keeps the types of its state,  *)
(* the packages of a run never share a source, a staging directory, an id  *)
(* or a crate name, and a saved packages.json describes a finished staging *)
(* directory; what a config lists is staged, under the names it asks for,  *)
(* and each dependency the rewrite looks up is found.                      *)
(***************************************************************************)
EXTENDS Install, TLAPS, FiniteSetTheorems, SequenceTheorems,
        WellFoundedInduction

-----------------------------------------------------------------------------
(* The naming helpers *)

(* Every non-empty set of naturals has a smallest element.                   *)
LEMMA SmallestExists ==
  ASSUME NEW T \in SUBSET Nat, T # {}
  PROVE  \E k \in T : \A j \in T : k <= j
<1>1. \E k \in T : \A j \in T : ~(<<j, k>> \in OpToRel(<, Nat))
  BY NatLessThanWellFounded, WFMin
<1>2. PICK k \in T : \A j \in T : ~(<<j, k>> \in OpToRel(<, Nat))
  BY <1>1
<1>3. \A j \in T : ~(j < k)
  BY <1>2 DEF OpToRel
<1>. QED
  BY <1>3

(* Distinct suffixes make distinct names, so the finitely many taken names   *)
(* leave one of Cardinality(taken) + 1 suffixes free.                        *)
LEMMA FreeSuffix ==
  ASSUME NEW raw \in Name, NEW taken, IsFiniteSet(taken)
  PROVE  \E k \in 2 .. Cardinality(taken) + 2 : Append(raw, k) \notin taken
<1>. DEFINE suffixes == 2 .. Cardinality(taken) + 2
            names == [k \in suffixes |-> Append(raw, k)]
<1>1. Cardinality(taken) \in Nat
  BY FS_CardinalityType
<1>2. IsFiniteSet(suffixes) /\ Cardinality(suffixes) = Cardinality(taken) + 1
  BY <1>1, FS_Interval
<1>3. \A j, k \in suffixes : names[j] = names[k] => j = k
  <2>. SUFFICES ASSUME NEW j \in suffixes, NEW k \in suffixes,
                       Append(raw, j) = Append(raw, k)
                PROVE  j = k
    OBVIOUS
  <2>1. j \in Root \cup Nat \cup {Rs} /\ k \in Root \cup Nat \cup {Rs}
    BY <1>1
  <2>. QED
    BY <2>1, AppendInjective DEF Name
<1>4. ASSUME \A k \in suffixes : Append(raw, k) \in taken
      PROVE  FALSE
  <2>1. names \in [suffixes -> taken]
    BY <1>4
  <2>2. Cardinality(taken) < Cardinality(suffixes)
    BY <1>1, <1>2
  <2>3. \E j, k \in suffixes : j # k /\ names[j] = names[k]
    <3>. HIDE DEF suffixes, names
    <3>. QED
      BY <1>2, <2>1, <2>2, FS_PigeonHole
  <2>. QED
    BY <1>3, <2>3
<1>. QED
  BY <1>4

(* unique_basename returns a name, and one that is not taken.                *)
LEMMA UniqueBasenameIsFree ==
  ASSUME NEW raw \in Name, NEW taken, IsFiniteSet(taken)
  PROVE  /\ UniqueBasename(raw, taken) \in Name
         /\ UniqueBasename(raw, taken) \notin taken
<1>1. CASE raw \notin taken
  BY <1>1 DEF UniqueBasename
<1>2. CASE raw \in taken
  <2>. DEFINE free == {k \in 2 .. Cardinality(taken) + 2 :
                         Append(raw, k) \notin taken}
              least == CHOOSE k \in free : \A j \in free : k <= j
  <2>1. Cardinality(taken) \in Nat
    BY FS_CardinalityType
  <2>2. free # {} /\ free \in SUBSET Nat
    BY <2>1, FreeSuffix
  <2>3. least \in free
    <3>. HIDE DEF free
    <3>. QED
      BY <2>2, SmallestExists
  <2>4. least \in Nat /\ Append(raw, least) \notin taken
    BY <2>2, <2>3
  <2>5. Append(raw, least) \in Name
    BY <2>4, AppendProperties DEF Name
  <2>6. UniqueBasename(raw, taken) = Append(raw, least)
    BY <1>2 DEF UniqueBasename
  <2>. QED
    BY <2>4, <2>5, <2>6
<1>. QED
  BY <1>1, <1>2

-----------------------------------------------------------------------------
(* The inductive invariant *)

(* What each point of a run has in memory.                                   *)
Phases ==
  /\ pc \in {"discover", "deps"} => cur \in Cur
  /\ pc \notin {"discover", "deps"} => cur = Nil
  /\ pc \notin {"idle", "clean"} => cfg \in Config
  /\ pc \in {"idle", "clean", "clear"} => records = << >>

(* The package being staged differs from those recorded, so that recording   *)
(* it keeps the records distinct.                                            *)
CurIsNew ==
  pc \in {"discover", "deps"} =>
    /\ cur.item.src \notin {records[i].src : i \in 1..Len(records)}
    /\ cur.base \notin UsedBases
    /\ cur.id \notin UsedIds
    /\ pc = "deps" => cur.name \in MoveName /\ cur.crate \in Name \ UsedCrates

(* Their directories exist.                                                  *)
BasesStaged ==
  /\ \A i \in 1..Len(records) : records[i].base \in DOMAIN staging
  /\ pc \in {"discover", "deps"} => cur.base \in DOMAIN staging

(* The manifest about to be written lists distinct packages.                 *)
PendingDistinct == pending # Nil => Distinct(pending.packages)

IInv ==
  /\ TypeOK /\ Phases /\ CurIsNew /\ BasesStaged /\ PendingDistinct
  /\ DistinctPackages

-----------------------------------------------------------------------------
(* What the actions compute has the right type *)

(* The names used so far are finitely many names.                            *)
LEMMA UsedNamesFinite ==
  ASSUME records \in Seq(Package)
  PROVE  /\ UsedBases \subseteq Name /\ IsFiniteSet(UsedBases)
         /\ UsedIds \subseteq Name /\ IsFiniteSet(UsedIds)
<1>. DEFINE places == 1..Len(records)
            bases == [i \in places |-> records[i].base]
            ids == [i \in places |-> records[i].id]
<1>1. IsFiniteSet(places)
  BY FS_Interval
<1>2. \A i \in places : records[i] \in Package
  OBVIOUS
<1>3. bases \in Surjection(places, UsedBases)
  BY DEF Surjection, UsedBases
<1>4. ids \in Surjection(places, UsedIds)
  BY DEF Surjection, UsedIds
<1>5. IsFiniteSet(UsedBases) /\ IsFiniteSet(UsedIds)
  <2>. HIDE DEF places, bases, ids
  <2>. QED
    BY <1>1, <1>3, <1>4, FS_Surjection
<1>. QED
  BY <1>2, <1>5 DEF UsedBases, UsedIds, Package

(* A staged package gets a directory of its own, and a discovered one an id  *)
(* that no package has.                                                      *)
LEMMA BasenameOfIsFree ==
  ASSUME records \in Seq(Package), NEW item \in Item
  PROVE  /\ BasenameOf(item) \in Name
         /\ BasenameOf(item) \notin UsedBases
         /\ item.id = Nil => BasenameOf(item) \notin UsedIds
<1>1. Base[item.src] \in Name
  BY NamesAssumption DEF Item
<1>2. IsFiniteSet(UsedBases) /\ IsFiniteSet(UsedBases \cup UsedIds)
  BY UsedNamesFinite, FS_Union
<1>. QED
  BY <1>1, <1>2, UniqueBasenameIsFree DEF BasenameOf

(* The id and the crate name of a staged package are names.                  *)
LEMMA EntryNames ==
  ASSUME records \in Seq(Package), NEW item \in Item
  PROVE  /\ EntryId(item) \in Name
         /\ \A base \in Name : CrateNameOf(item, base) \in Name
<1>1. item.id \in Name \cup {Nil} /\ item.crate \in Name \cup {Nil}
  BY DEF Item
<1>2. \A base \in Name : Append(base, Rs) \in Name
  BY AppendProperties DEF Name
<1>3. Leaf[item.src] \in Name
  BY NamesAssumption DEF Item
<1>4. EntryId(item) \in Name
  BY <1>1, BasenameOfIsFree DEF EntryId
<1>. QED
  BY <1>1, <1>2, <1>3, <1>4 DEF CrateNameOf

(* Every address override is a natural number.                               *)
LEMMA OverridesType ==
  ASSUME records \in Seq(Package), DiskTypes, BasesStaged
  PROVE  /\ DOMAIN AddressOverrides \subseteq AddrName
         /\ AddressOverrides \in [DOMAIN AddressOverrides -> Nat]
<1>. DEFINE names == UNION {Placeholders(i) : i \in 1..Len(records)}
            before(n) == {m \in names : NumberedBefore(m, n)}
<1>1. ASSUME NEW i \in 1..Len(records)
      PROVE  Placeholders(i) \subseteq AddrName
  <2>1. staging[records[i].base] \in StagedDir
    BY DEF BasesStaged, DiskTypes
  <2>2. Meta[staging[records[i].base].tree] \in TreeMeta
    BY <2>1, SourcesAssumption DEF StagedDir
  <2>. QED
    BY <2>2 DEF Placeholders, TreeMeta
<1>2. names \subseteq AddrName
  BY <1>1
<1>3. ASSUME NEW n \in names
      PROVE  Cardinality(before(n)) \in Nat
  <2>1. before(n) \in SUBSET AddrName
    BY <1>2
  <2>2. IsFiniteSet(before(n))
    BY <2>1, SourcesAssumption, FS_Subset
  <2>. HIDE DEF before
  <2>. QED
    BY <2>2, FS_CardinalityType
<1>4. AddressOverrides = [n \in names |-> 1 + Cardinality(before(n))]
  BY DEF AddressOverrides
<1>. HIDE DEF names, before
<1>. QED
  BY <1>2, <1>3, <1>4

-----------------------------------------------------------------------------
(* Every step keeps the types *)

(* The sources and the config keep their types.                              *)
LEMMA WorldTypesStep ==
  ASSUME TypeOK, [Next]_installVars
  PROVE  WorldTypes'
<1>. USE DEF TypeOK, WorldTypes
<1>1. CASE \E s \in Source : Edit(s)
  <2>1. PICK s \in Source : \E t \in Versions[s] \cup {Gone} :
          live' = [live EXCEPT ![s] = t]
    BY <1>1 DEF Edit
  <2>2. Versions[s] \subseteq Tree
    BY SourcesAssumption
  <2>3. conf' = conf /\ edits' = edits + 1 /\ crashes' = crashes
    BY <1>1 DEF Edit
  <2>. QED
    BY <2>1, <2>2, <2>3
<1>2. CASE EditConfig
  BY <1>2 DEF EditConfig
<1>3. CASE Crash
  BY <1>3 DEF Crash, env
<1>4. CASE UNCHANGED <<env, bounds>>
  BY <1>4 DEF env, bounds
<1>5. CASE Begin \/ BeginClean \/ Step \/ UNCHANGED installVars
  <2>. USE DEF env, bounds
  <2>1. CASE Begin \/ BeginClean \/ UNCHANGED installVars
    BY <1>4, <2>1 DEF Begin, BeginClean, installVars
  <2>2. CASE Clear \/ CleanDone \/ SeedFails \/ Seed
    BY <1>4, <2>2 DEF Clear, CleanDone, SeedFails, Seed
  <2>3. CASE Skip \/ StageFails \/ Stage \/ Drained
    BY <1>4, <2>3 DEF Skip, StageFails, Stage, Drained
  <2>4. CASE Discover \/ CrateClash \/ Unreadable \/ Enqueue \/ Record
    BY <1>4, <2>4 DEF Discover, CrateClash, Unreadable, Enqueue, Record
  <2>5. CASE Rewrite \/ ExoticDep \/ UnstagedDep \/ SaveBegin \/ SaveEnd
    BY <1>4, <2>5 DEF Rewrite, ExoticDep, UnstagedDep, SaveBegin, SaveEnd
  <2>. QED
    BY <1>5, <2>1, <2>2, <2>3, <2>4, <2>5 DEF Step
<1>. QED
  BY <1>1, <1>2, <1>3, <1>5 DEF Next, World

(* Staged directories have names, and what is saved is a manifest.           *)
LEMMA DiskTypesStep ==
  ASSUME IInv, [Next]_installVars
  PROVE  DiskTypes'
<1>. USE DEF IInv, TypeOK, DiskTypes, Saved
<1>1. CASE Clear
  BY <1>1 DEF Clear, StagedDir
<1>2. CASE Stage
  <2>. DEFINE item == Head(worklist)
  <2>1. item \in Item /\ records \in Seq(Package)
    BY <1>2 DEF Stage, RunTypes
  <2>2. live[item.src] \in Tree
    BY <1>2, <2>1 DEF Stage, WorldTypes, Item
  <2>3. Meta[live[item.src]].copy \in Tree
    BY <2>2, SourcesAssumption DEF TreeMeta
  <2>4. BasenameOf(item) \in Name
    BY <2>1, BasenameOfIsFree
  <2>. QED
    BY <1>2, <2>4, <2>3 DEF Stage, StagedDir
<1>3. CASE Rewrite
  <2>1. PICK i \in 1..Len(records) :
          /\ \A n \in 1..Len(DepsOf(i)) : AlreadyStaged(DepsOf(i)[n])
          /\ staging' = [staging EXCEPT
               ![records[i].base].linked = TRUE,
               ![records[i].base].links =
                 [n \in 1..Len(DepsOf(i)) |-> StagedBasename(DepsOf(i)[n])]]
    BY <1>3 DEF Rewrite
  <2>2. cur = Nil /\ records \in Seq(Package)
    BY <1>3 DEF Rewrite, Phases, RunTypes
  <2>3. ASSUME NEW d, AlreadyStaged(d)
        PROVE  StagedBasename(d) \in Name
    <3>1. \E j \in 1..Len(records) : records[j].src = d
      BY <2>2, <2>3 DEF AlreadyStaged, StagedKeys
    <3>. DEFINE j == CHOOSE k \in 1..Len(records) : records[k].src = d
    <3>2. j \in 1..Len(records)
      BY <3>1
    <3>3. records[j] \in Package
      BY <2>2, <3>2
    <3>. QED
      BY <3>3 DEF StagedBasename, Package
  <2>4. staging[records[i].base] \in StagedDir
    BY DEF BasesStaged
  <2>5. Len(DepsOf(i)) \in Nat
    BY <2>4, SourcesAssumption DEF DepsOf, StagedDir, TreeMeta
  <2>6. [n \in 1..Len(DepsOf(i)) |-> StagedBasename(DepsOf(i)[n])] \in Seq(Name)
    BY <2>1, <2>3, <2>5
  <2>7. DOMAIN staging' = DOMAIN staging /\ manifest' = manifest
    BY <1>3, <2>1 DEF Rewrite
  <2>8. \A b \in DOMAIN staging : staging'[b] \in StagedDir
    BY <2>1, <2>6 DEF StagedDir
  <2>. QED
    BY <2>1, <2>7, <2>8
<1>4. CASE SaveBegin
  BY <1>4 DEF SaveBegin
<1>5. CASE SaveEnd
  BY <1>5 DEF SaveEnd, RunTypes
<1>6. CASE UNCHANGED disk
  BY <1>6 DEF disk
<1>7. CASE Begin \/ BeginClean \/ World \/ UNCHANGED installVars
  BY <1>6, <1>7 DEF Begin, BeginClean, World, Edit, EditConfig, Crash,
                    installVars, disk
<1>8. CASE CleanDone \/ SeedFails \/ Seed \/ Skip \/ StageFails \/ Drained
  BY <1>6, <1>8 DEF CleanDone, SeedFails, Seed, Skip, StageFails, Drained
<1>9. CASE Discover \/ CrateClash \/ Unreadable \/ Enqueue \/ Record
  BY <1>6, <1>9 DEF Discover, CrateClash, Unreadable, Enqueue, Record
<1>10. CASE ExoticDep \/ UnstagedDep
  BY <1>6, <1>10 DEF ExoticDep, UnstagedDep
<1>. QED
  BY <1>1, <1>2, <1>3, <1>4, <1>5, <1>7, <1>8, <1>9, <1>10 DEF Next, Step

(* The steps that fill in the package being staged give it the right type.   *)
LEMMA CurType ==
  ASSUME IInv, Stage \/ Discover \/ Enqueue
  PROVE  cur' \in Cur
<1>. USE DEF IInv, TypeOK, RunTypes
<1>1. CASE Stage
  <2>. DEFINE item == Head(worklist)
  <2>1. item \in Item
    BY <1>1 DEF Stage
  <2>2. EntryId(item) \in Name /\ BasenameOf(item) \in Name
    BY <2>1, EntryNames, BasenameOfIsFree
  <2>3. [item |-> item, id |-> EntryId(item), base |-> BasenameOf(item),
         name |-> Nil, crate |-> Nil, deps |-> << >>] \in Cur
    BY <2>1, <2>2 DEF Cur
  <2>. QED
    BY <1>1, <2>3 DEF Stage
<1>2. CASE Discover
  <2>1. cur \in Cur
    BY <1>2 DEF Discover, Phases
  <2>2. live[cur.item.src] \in Tree
    BY <1>2, <2>1 DEF Discover, WorldTypes, Cur, Item
  <2>3. Meta[live[cur.item.src]] \in TreeMeta
    BY <2>2, SourcesAssumption
  <2>4. CrateNameOf(cur.item, cur.base) \in Name
    BY <2>1, EntryNames DEF Cur
  <2>. QED
    BY <1>2, <2>1, <2>3, <2>4 DEF Discover, Cur, TreeMeta
<1>3. CASE Enqueue
  <2>1. cur \in Cur
    BY <1>3 DEF Enqueue, Phases
  <2>2. Tail(cur.deps) \in Seq(Source)
    BY <1>3, <2>1 DEF Enqueue, Cur
  <2>. QED
    BY <1>3, <2>1, <2>2 DEF Enqueue, Cur
<1>. QED
  BY <1>1, <1>2, <1>3

(* The memory of the process keeps its types.                                *)
LEMMA RunTypesStep ==
  ASSUME IInv, [Next]_installVars
  PROVE  RunTypes'
<1>. USE DEF IInv, TypeOK, RunTypes
<1>1. ASSUME NEW why \in Outcomes, Stop(why)
      PROVE  RunTypes'
  BY <1>1 DEF Stop, Points
<1>2. CASE CleanDone \/ SeedFails \/ CrateClash \/ Unreadable \/ ExoticDep
        \/ UnstagedDep \/ SaveEnd \/ Crash
  BY <1>1, <1>2 DEF CleanDone, SeedFails, CrateClash, Unreadable, ExoticDep,
                    UnstagedDep, SaveEnd, Crash, Outcomes
<1>3. CASE StageFails
  BY <1>1, <1>3 DEF StageFails, StageErrors, Outcomes
<1>4. CASE Begin \/ BeginClean
  BY <1>4 DEF Begin, BeginClean, mem, Points, Outcomes, WorldTypes
<1>5. CASE Clear \/ Drained
  BY <1>5 DEF Clear, Drained, mem, Points
<1>6. CASE Seed
  <2>1. cfg \in Config
    BY <1>6 DEF Seed, Phases
  <2>2. Entries[cfg] \in Seq(Item)
    BY <2>1, ConfigAssumption
  <2>. QED
    BY <1>6, <2>2 DEF Seed, Points
<1>7. CASE Skip
  <2>1. worklist' \in Seq(Item)
    BY <1>7 DEF Skip
  <2>. QED
    BY <1>7, <2>1 DEF Skip
<1>8. CASE Stage
  <2>1. cur' \in Cur
    BY <1>8, CurType
  <2>2. Tail(worklist) \in Seq(Item)
    BY <1>8 DEF Stage
  <2>. QED
    BY <1>8, <2>1, <2>2 DEF Stage, Points
<1>9. CASE Discover
  <2>1. cur' \in Cur
    BY <1>9, CurType
  <2>. QED
    BY <1>9, <2>1 DEF Discover, Points
<1>10. CASE Enqueue
  <2>1. cur \in Cur /\ cur' \in Cur
    BY <1>10, CurType DEF Enqueue, Phases
  <2>2. Head(cur.deps) \in Source
    BY <1>10, <2>1 DEF Enqueue, Cur
  <2>3. [id |-> Nil, src |-> Head(cur.deps), crate |-> Nil] \in Item
    BY <2>2 DEF Item
  <2>4. worklist' \in Seq(Item)
    <3>1. Append(worklist, [id |-> Nil, src |-> Head(cur.deps), crate |-> Nil])
            \in Seq(Item)
      BY <2>3, AppendProperties
    <3>. QED
      BY <1>10, <3>1 DEF Enqueue
  <2>. QED
    BY <1>10, <2>1, <2>4 DEF Enqueue
<1>11. CASE Record
  <2>. DEFINE src == cur.item.src
  <2>1. cur \in Cur /\ cur.name \in MoveName /\ cur.crate \in Name
    BY <1>11 DEF Record, Phases, CurIsNew
  <2>2. src \in Source /\ live[src] \in Tree
    BY <1>11, <2>1 DEF Record, WorldTypes, Cur, Item
  <2>3. OwnAddressName(live[src]) \in AddrName \cup {Nil}
    <3>1. Meta[live[src]].own \subseteq AddrName
      BY <2>2, SourcesAssumption DEF TreeMeta
    <3>. QED
      BY <3>1 DEF OwnAddressName
  <2>4. [id |-> cur.id, name |-> cur.name, crate |-> cur.crate,
         base |-> cur.base, src |-> src, digest |-> live[src],
         framework |-> cur.name \in Frameworks[cfg],
         addr |-> OwnAddressName(live[src])] \in Package
    BY <2>1, <2>2, <2>3 DEF Package, Cur
  <2>5. records' \in Seq(Package)
    BY <1>11, <2>4 DEF Record
  <2>. QED
    BY <1>11, <2>5 DEF Record, Points
<1>12. CASE Rewrite
  BY <1>12 DEF Rewrite, mem
<1>13. CASE SaveBegin
  <2>1. IsManifest([config |-> conf, packages |-> records,
                    overrides |-> AddressOverrides])
    BY OverridesType DEF IsManifest, WorldTypes
  <2>. QED
    BY <1>13, <2>1 DEF SaveBegin, Points
<1>14. CASE (\E s \in Source : Edit(s)) \/ EditConfig \/ UNCHANGED installVars
  BY <1>14 DEF Edit, EditConfig, installVars, mem
<1>. QED
  BY <1>2, <1>3, <1>4, <1>5, <1>6, <1>7, <1>8, <1>9, <1>10, <1>11, <1>12,
     <1>13, <1>14 DEF Next, Step, World

-----------------------------------------------------------------------------
(* Every step keeps the other parts of the invariant *)

(* What the process holds in each phase stays as Phases says.                *)
LEMMA PhasesStep ==
  ASSUME IInv, [Next]_installVars
  PROVE  Phases'
<1>. USE DEF IInv, Phases
<1>1. ASSUME NEW why, Stop(why)
      PROVE  Phases'
  BY <1>1 DEF Stop
<1>2. CASE CleanDone \/ SeedFails \/ StageFails \/ CrateClash \/ Unreadable
        \/ ExoticDep \/ UnstagedDep \/ SaveEnd \/ Crash
  BY <1>1, <1>2 DEF CleanDone, SeedFails, StageFails, CrateClash, Unreadable,
                    ExoticDep, UnstagedDep, SaveEnd, Crash
<1>3. CASE Begin \/ BeginClean \/ Clear
  BY <1>3 DEF Begin, BeginClean, Clear, mem, TypeOK, WorldTypes
<1>4. CASE Seed \/ Skip \/ Drained \/ Rewrite \/ SaveBegin
  BY <1>4 DEF Seed, Skip, Drained, Rewrite, SaveBegin, mem
<1>5. CASE Stage \/ Discover \/ Enqueue
  <2>1. cur' \in Cur
    BY <1>5, CurType
  <2>. QED
    BY <1>5, <2>1 DEF Stage, Discover, Enqueue
<1>6. CASE Record
  BY <1>6 DEF Record
<1>7. CASE (\E s \in Source : Edit(s)) \/ EditConfig \/ UNCHANGED installVars
  BY <1>7 DEF Edit, EditConfig, installVars, mem
<1>. QED
  BY <1>2, <1>3, <1>4, <1>5, <1>6, <1>7 DEF Next, Step, World

(* The package being staged stays distinct from the recorded ones: nothing is  *)
(* recorded between its checks and its own Record.                           *)
LEMMA CurIsNewStep ==
  ASSUME IInv, [Next]_installVars
  PROVE  CurIsNew'
<1>. USE DEF IInv, CurIsNew, UsedBases, UsedIds, UsedCrates
<1>1. ASSUME NEW why, Stop(why)
      PROVE  CurIsNew'
  BY <1>1 DEF Stop
<1>2. CASE CleanDone \/ SeedFails \/ StageFails \/ CrateClash \/ Unreadable
        \/ ExoticDep \/ UnstagedDep \/ SaveEnd \/ Crash
  BY <1>1, <1>2 DEF CleanDone, SeedFails, StageFails, CrateClash, Unreadable,
                    ExoticDep, UnstagedDep, SaveEnd, Crash
<1>3. CASE Begin \/ BeginClean \/ Clear \/ Seed \/ Skip \/ Drained \/ Rewrite
        \/ SaveBegin \/ Record
  BY <1>3 DEF Begin, BeginClean, Clear, Seed, Skip, Drained, Rewrite,
              SaveBegin, Record
<1>4. CASE Stage
  <2>. DEFINE item == Head(worklist)
  <2>1. item \in Item /\ records \in Seq(Package)
    BY <1>4 DEF Stage, TypeOK, RunTypes
  <2>2. BasenameOf(item) \notin UsedBases
    BY <2>1, BasenameOfIsFree
  <2>3. item.src \notin StagedKeys
    BY <1>4 DEF Stage, AlreadyStaged, Visible
  <2>. QED
    BY <1>4, <2>2, <2>3 DEF Stage, StagedKeys
<1>5. CASE Discover
  <2>1. cur \in Cur
    BY <1>5 DEF Discover, Phases
  <2>2. live[cur.item.src] \in Tree
    BY <1>5, <2>1 DEF Discover, TypeOK, WorldTypes, Cur, Item
  <2>3. Meta[live[cur.item.src]].name \in MoveName
    BY <2>2, SourcesAssumption DEF TreeMeta
  <2>4. CrateNameOf(cur.item, cur.base) \in Name
    BY <2>1, EntryNames DEF Cur, TypeOK, RunTypes
  <2>5. /\ cur'.item = cur.item /\ cur'.base = cur.base /\ cur'.id = cur.id
        /\ cur'.name = Meta[live[cur.item.src]].name
        /\ cur'.crate = CrateNameOf(cur.item, cur.base)
    BY <1>5, <2>1 DEF Discover, Cur
  <2>. QED
    BY <1>5, <2>3, <2>4, <2>5 DEF Discover
<1>6. CASE Enqueue
  <2>1. cur \in Cur
    BY <1>6 DEF Enqueue, Phases
  <2>2. /\ cur'.item = cur.item /\ cur'.base = cur.base /\ cur'.id = cur.id
        /\ cur'.name = cur.name /\ cur'.crate = cur.crate
    BY <1>6, <2>1 DEF Enqueue, Cur
  <2>. QED
    BY <1>6, <2>2 DEF Enqueue
<1>7. CASE (\E s \in Source : Edit(s)) \/ EditConfig \/ UNCHANGED installVars
  BY <1>7 DEF Edit, EditConfig, installVars, mem
<1>. QED
  BY <1>2, <1>3, <1>4, <1>5, <1>6, <1>7 DEF Next, Step, World

(* A recorded package keeps its staged directory for as long as the run lasts.  *)
LEMMA BasesStagedStep ==
  ASSUME IInv, [Next]_installVars
  PROVE  BasesStaged'
<1>. USE DEF IInv, BasesStaged
<1>1. ASSUME NEW why, Stop(why)
      PROVE  BasesStaged'
  BY <1>1 DEF Stop
<1>2. CASE CleanDone \/ SeedFails \/ StageFails \/ CrateClash \/ Unreadable
        \/ ExoticDep \/ UnstagedDep \/ SaveEnd \/ Crash
  BY <1>1, <1>2 DEF CleanDone, SeedFails, StageFails, CrateClash, Unreadable,
                    ExoticDep, UnstagedDep, SaveEnd, Crash
<1>3. CASE /\ UNCHANGED <<records, staging>>
           /\ pc' \in {"discover", "deps"} => UNCHANGED <<pc, cur>>
  BY <1>3
<1>4. CASE Begin \/ BeginClean \/ Seed \/ Skip \/ Drained \/ SaveBegin
        \/ (\E s \in Source : Edit(s)) \/ EditConfig \/ UNCHANGED installVars
  BY <1>3, <1>4 DEF Begin, BeginClean, Seed, Skip, Drained, SaveBegin,
                    Edit, EditConfig, installVars, disk, mem
<1>5. CASE Clear
  BY <1>5 DEF Clear, Phases, mem
<1>6. CASE Stage
  BY <1>6 DEF Stage
<1>7. CASE Rewrite
  <2>1. DOMAIN staging' = DOMAIN staging
    BY <1>7 DEF Rewrite
  <2>. QED
    BY <1>7, <2>1 DEF Rewrite, mem
<1>8. CASE Discover \/ Enqueue
  <2>1. cur \in Cur /\ cur'.base = cur.base
    BY <1>8 DEF Discover, Enqueue, Phases, Cur
  <2>. QED
    BY <1>8, <2>1 DEF Discover, Enqueue, disk
<1>9. CASE Record
  <2>. DEFINE new == records'[Len(records) + 1]
  <2>1. records \in Seq(Package)
    BY DEF TypeOK, RunTypes
  <2>2. /\ Len(records') = Len(records) + 1
        /\ \A i \in 1..Len(records) : records'[i] = records[i]
        /\ new.base = cur.base
    BY <1>9, <2>1 DEF Record
  <2>3. cur.base \in DOMAIN staging /\ staging' = staging /\ pc' = "walk"
    BY <1>9 DEF Record, disk
  <2>4. 1..Len(records') = 1..Len(records) \cup {Len(records) + 1}
    BY <2>1, <2>2
  <2>. HIDE DEF new
  <2>. QED
    BY <2>2, <2>3, <2>4 DEF new
<1>. QED
  BY <1>2, <1>4, <1>5, <1>6, <1>7, <1>8, <1>9 DEF Next, Step, World

(* The manifest about to be written stays free of duplicates.                *)
LEMMA PendingDistinctStep ==
  ASSUME IInv, [Next]_installVars
  PROVE  PendingDistinct'
<1>. USE DEF IInv, PendingDistinct
<1>1. ASSUME NEW why, Stop(why)
      PROVE  PendingDistinct'
  BY <1>1 DEF Stop
<1>2. CASE CleanDone \/ SeedFails \/ StageFails \/ CrateClash \/ Unreadable
        \/ ExoticDep \/ UnstagedDep \/ SaveEnd \/ Crash
  BY <1>1, <1>2 DEF CleanDone, SeedFails, StageFails, CrateClash, Unreadable,
                    ExoticDep, UnstagedDep, SaveEnd, Crash
<1>3. CASE SaveBegin
  BY <1>3 DEF SaveBegin, DistinctPackages
<1>4. CASE Begin \/ BeginClean \/ Clear \/ Seed \/ Skip \/ Stage \/ Discover
        \/ Enqueue \/ Record \/ Drained \/ Rewrite
        \/ (\E s \in Source : Edit(s)) \/ EditConfig \/ UNCHANGED installVars
  BY <1>4 DEF Begin, BeginClean, Clear, Seed, Skip, Stage, Discover, Enqueue,
              Record, Drained, Rewrite, Edit, EditConfig, installVars, mem
<1>. QED
  BY <1>2, <1>3, <1>4 DEF Next, Step, World

(* The point of the invariant: a recorded package is new in every respect,   *)
(* and what is saved is what was recorded.                                   *)
LEMMA DistinctPackagesStep ==
  ASSUME IInv, [Next]_installVars
  PROVE  DistinctPackages'
<1>1. Distinct(records)'
  <2>. USE DEF IInv, DistinctPackages, Distinct
  <2>1. CASE Record
    <3>. DEFINE new == records'[Len(records) + 1]
    <3>1. records \in Seq(Package)
      BY DEF TypeOK, RunTypes
    <3>2. /\ Len(records') = Len(records) + 1
          /\ \A i \in 1..Len(records) : records'[i] = records[i]
      BY <2>1, <3>1 DEF Record
    <3>3. /\ new.src = cur.item.src /\ new.base = cur.base
          /\ new.id = cur.id /\ new.crate = cur.crate
      BY <2>1, <3>1 DEF Record
    <3>4. \A i \in 1..Len(records) :
            /\ records[i].src # new.src /\ records[i].base # new.base
            /\ records[i].id # new.id /\ records[i].crate # new.crate
      BY <2>1, <3>3 DEF Record, CurIsNew, UsedBases, UsedIds, UsedCrates
    <3>5. 1..Len(records') = 1..Len(records) \cup {Len(records) + 1}
      BY <3>1, <3>2
    <3>. HIDE DEF new
    <3>. QED
      BY <3>2, <3>4, <3>5 DEF new
  <2>2. CASE records' = << >> \/ records' = records
    BY <2>2
  <2>3. CASE CleanDone \/ SeedFails \/ StageFails \/ CrateClash \/ Unreadable
          \/ ExoticDep \/ UnstagedDep \/ SaveEnd \/ Crash
    BY <2>2, <2>3 DEF CleanDone, SeedFails, StageFails, CrateClash, Unreadable,
                      ExoticDep, UnstagedDep, SaveEnd, Crash, Stop
  <2>4. CASE Begin \/ BeginClean \/ Clear \/ Seed \/ Skip \/ Stage \/ Discover
          \/ Enqueue \/ Drained \/ Rewrite \/ SaveBegin
          \/ (\E s \in Source : Edit(s)) \/ EditConfig \/ UNCHANGED installVars
    BY <2>2, <2>4 DEF Begin, BeginClean, Clear, Seed, Skip, Stage, Discover,
         Enqueue, Drained, Rewrite, SaveBegin, Edit, EditConfig, installVars, mem
  <2>. QED
    BY <2>1, <2>3, <2>4 DEF Next, Step, World
<1>2. Saved' => Distinct(manifest'.packages)
  <2>. USE DEF IInv, DistinctPackages, Saved
  <2>1. CASE SaveEnd
    BY <2>1 DEF SaveEnd, PendingDistinct, RunTypes, TypeOK
  <2>2. CASE manifest' = manifest \/ manifest' = Nil \/ manifest' = Torn
    BY <2>2
  <2>3. CASE CleanDone \/ SeedFails \/ StageFails \/ CrateClash \/ Unreadable
          \/ ExoticDep \/ UnstagedDep \/ Crash
    BY <2>2, <2>3 DEF CleanDone, SeedFails, StageFails, CrateClash, Unreadable,
                      ExoticDep, UnstagedDep, Crash, disk
  <2>4. CASE Begin \/ BeginClean \/ Clear \/ Seed \/ Skip \/ Stage \/ Discover
          \/ Enqueue \/ Record \/ Drained \/ Rewrite \/ SaveBegin
          \/ (\E s \in Source : Edit(s)) \/ EditConfig \/ UNCHANGED installVars
    BY <2>2, <2>4 DEF Begin, BeginClean, Clear, Seed, Skip, Stage, Discover,
         Enqueue, Record, Drained, Rewrite, SaveBegin, Edit, EditConfig,
         installVars, disk
  <2>. QED
    BY <2>1, <2>3, <2>4 DEF Next, Step, World
<1>. QED
  BY <1>1, <1>2 DEF DistinctPackages

-----------------------------------------------------------------------------
(* The theorems *)

(* The invariant holds before the first command.                             *)
LEMMA InitIInv == Init => IInv
<1>. SUFFICES ASSUME Init PROVE IInv
  OBVIOUS
<1>1. TypeOK
  BY SourcesAssumption DEF Init, TypeOK, WorldTypes, DiskTypes, RunTypes, Saved,
                           Points, Outcomes
<1>2. Phases /\ CurIsNew /\ BasesStaged /\ PendingDistinct /\ DistinctPackages
  BY DEF Init, Phases, CurIsNew, BasesStaged, PendingDistinct,
         DistinctPackages, Distinct, Saved
<1>. QED
  BY <1>1, <1>2 DEF IInv

(* Every step keeps the invariant.                                           *)
LEMMA NextIInv == IInv /\ [Next]_installVars => IInv'
<1>. SUFFICES ASSUME IInv, [Next]_installVars PROVE IInv'
  OBVIOUS
<1>1. TypeOK'
  BY WorldTypesStep, DiskTypesStep, RunTypesStep DEF TypeOK, IInv
<1>. QED
  BY <1>1, PhasesStep, CurIsNewStep, BasesStagedStep, PendingDistinctStep,
     DistinctPackagesStep DEF IInv

(* The inductive invariant holds in every state of every run of install and  *)
(* clean.                                                                    *)
THEOREM Invariance == Spec => []IInv
  BY InitIInv, NextIInv, PTL DEF Spec

(* The state keeps its types: in particular a saved packages.json lists real *)
(* packages and an address override for names only, and the loop of          *)
(* unique_basename always finds a name.                                      *)
THEOREM TypeCorrect == Spec => []TypeOK
<1>1. IInv => TypeOK
  BY DEF IInv
<1>. QED
  BY <1>1, Invariance, PTL

(* However many packages there are and whatever they are called, however the *)
(* user edits them during a run and wherever it dies: no two packages of a   *)
(* run, or of a saved packages.json, share a source, a staging directory, an *)
(* id or a crate name (unique_basename, used_ids, used_crate_names).         *)
THEOREM PackagesDistinct == Spec => []DistinctPackages
<1>1. IInv => DistinctPackages
  BY DEF IInv
<1>. QED
  BY <1>1, Invariance, PTL

-----------------------------------------------------------------------------
(* A saved manifest is complete *)

InWalk == pc \in {"walk", "discover", "deps", "rewrite"}

(* From the seeding of the worklist to the last write there is no finished   *)
(* packages.json, every staged directory is whole, and those rewritten point *)
(* at recorded packages; the package being staged is not rewritten yet.      *)
Building ==
  /\ InWalk => manifest = Nil
  /\ pc = "save" => manifest = Torn /\ Complete(staging, pending.packages)
  /\ InWalk => \A b \in DOMAIN staging : staging[b].whole
  /\ InWalk => \A i \in 1..Len(records) :
       staging[records[i].base].linked => FollowsDeps(staging, records, i)
  /\ pc \in {"discover", "deps"} => ~staging[cur.base].linked

CInv == IInv /\ Building /\ ManifestComplete

(* A rewritten package points at the packages it depends on.                 *)
LEMMA RewriteFollows ==
  ASSUME IInv, Building, Rewrite, NEW k \in 1..Len(records),
         staging'[records[k].base].linked
  PROVE  FollowsDeps(staging, records, k)'
<1>. USE DEF IInv
<1>1. PICK i \in 1..Len(records) :
        /\ \A n \in 1..Len(DepsOf(i)) : AlreadyStaged(DepsOf(i)[n])
        /\ staging' = [staging EXCEPT
             ![records[i].base].linked = TRUE,
             ![records[i].base].links =
               [n \in 1..Len(DepsOf(i)) |-> StagedBasename(DepsOf(i)[n])]]
  BY DEF Rewrite
<1>2. records' = records /\ cur = Nil /\ InWalk
  BY DEF Rewrite, Phases, mem, InWalk
<1>3. staging[records[i].base] \in StagedDir /\ records[i].base \in DOMAIN staging
  BY DEF BasesStaged, TypeOK, DiskTypes
<1>4. CASE k = i
  <2>. DEFINE dir == staging'[records[i].base]
              deps == DepsOf(i)
  <2>1. /\ dir.tree = staging[records[i].base].tree
        /\ dir.links = [n \in 1..Len(deps) |-> StagedBasename(deps[n])]
    BY <1>1, <1>3 DEF StagedDir
  <2>2. deps \in Seq(Source)
    BY <1>3, SourcesAssumption DEF DepsOf, StagedDir, TreeMeta
  <2>3. Meta[dir.tree].deps = deps
    BY <2>1 DEF DepsOf
  <2>4. Len(dir.links) = Len(deps)
    <3>1. Len(deps) \in Nat
      BY <2>2
    <3>. HIDE DEF deps, dir
    <3>. QED
      BY <2>1, <3>1
  <2>5. ASSUME NEW n \in 1..Len(deps)
        PROVE  \E j \in 1..Len(records) :
                 records[j].src = deps[n] /\ records[j].base = dir.links[n]
    <3>1. \E j \in 1..Len(records) : records[j].src = deps[n]
      BY <1>1, <1>2 DEF AlreadyStaged, StagedKeys
    <3>. DEFINE j == CHOOSE m \in 1..Len(records) : records[m].src = deps[n]
    <3>2. j \in 1..Len(records) /\ records[j].src = deps[n]
      BY <3>1
    <3>3. dir.links[n] = records[j].base
      BY <2>1 DEF StagedBasename
    <3>. QED
      BY <3>2, <3>3
  <2>. HIDE DEF dir, deps
  <2>. QED
    BY <1>2, <1>4, <2>3, <2>4, <2>5 DEF FollowsDeps, dir
<1>5. CASE k # i
  <2>1. records[k].base # records[i].base
    BY <1>5 DEF DistinctPackages, Distinct
  <2>2. staging'[records[k].base] = staging[records[k].base]
    BY <1>1, <2>1 DEF BasesStaged
  <2>. QED
    BY <1>2, <2>2 DEF Building, FollowsDeps
<1>. QED
  BY <1>4, <1>5

(* Staging a package leaves the recorded ones as they are.                   *)
LEMMA StageKeepsRecorded ==
  ASSUME IInv, Stage
  PROVE  /\ \A i \in 1..Len(records) :
              staging'[records[i].base] = staging[records[i].base]
         /\ cur'.base \in DOMAIN staging'
         /\ ~staging'[cur'.base].linked
         /\ (\A b \in DOMAIN staging : staging[b].whole)
              => \A b \in DOMAIN staging' : staging'[b].whole
<1>. DEFINE item == Head(worklist)
            base == BasenameOf(item)
            dir == [tree |-> Meta[live[item.src]].copy, linked |-> FALSE,
                    links |-> << >>, whole |-> TRUE]
<1>1. item \in Item /\ records \in Seq(Package)
  BY DEF Stage, IInv, TypeOK, RunTypes
<1>2. base \notin UsedBases
  BY <1>1, BasenameOfIsFree
<1>3. \A i \in 1..Len(records) : records[i].base \in DOMAIN staging
  BY DEF IInv, BasesStaged
<1>4. staging' = [b \in DOMAIN staging \cup {base} |->
                    IF b = base THEN dir ELSE staging[b]]
  BY DEF Stage
<1>5. cur'.base = base
  BY DEF Stage
<1>6. \A i \in 1..Len(records) : records[i].base # base
  BY <1>2 DEF UsedBases
<1>7. dir.linked = FALSE /\ dir.whole = TRUE
  OBVIOUS
<1>. HIDE DEF base, dir, item
<1>. QED
  BY <1>3, <1>4, <1>5, <1>6, <1>7

(* Every step keeps what the walk and the rewrite have finished.             *)
LEMMA BuildingStep ==
  ASSUME CInv, [Next]_installVars, CrashAt \cap {"clear", "clean"} = {}
  PROVE  Building'
<1>. USE DEF CInv, Building, InWalk
<1>1. ASSUME NEW why, Stop(why)
      PROVE  Building'
  BY <1>1 DEF Stop
<1>2. CASE CleanDone \/ SeedFails \/ StageFails \/ CrateClash \/ Unreadable
        \/ ExoticDep \/ UnstagedDep \/ SaveEnd \/ Crash
  BY <1>1, <1>2 DEF CleanDone, SeedFails, StageFails, CrateClash, Unreadable,
                    ExoticDep, UnstagedDep, SaveEnd, Crash
<1>3. CASE Begin \/ BeginClean \/ Clear
  BY <1>3 DEF Begin, BeginClean, Clear
<1>4. CASE Seed
  <2>1. records = << >> /\ records' = << >> /\ DOMAIN staging = {}
    BY <1>4 DEF Seed, Cleared, IInv, Phases
  <2>. QED
    BY <1>4, <2>1 DEF Seed, Cleared, disk
<1>5. CASE Skip \/ Drained \/ (\E s \in Source : Edit(s)) \/ EditConfig
        \/ UNCHANGED installVars
  <2>1. /\ UNCHANGED <<disk, records, cur, pending>>
        /\ UNCHANGED pc \/ (pc = "walk" /\ pc' = "rewrite")
    BY <1>5 DEF Skip, Drained, Edit, EditConfig, installVars, mem
  <2>. QED
    BY <2>1 DEF disk
<1>6. CASE Stage
  <2>1. \A i \in 1..Len(records) :
          FollowsDeps(staging', records, i) <=> FollowsDeps(staging, records, i)
    <3>. SUFFICES ASSUME NEW i \in 1..Len(records)
                  PROVE  FollowsDeps(staging', records, i)
                           <=> FollowsDeps(staging, records, i)
      OBVIOUS
    <3>1. staging'[records[i].base] = staging[records[i].base]
      BY <1>6, StageKeepsRecorded
    <3>. QED
      BY <3>1 DEF FollowsDeps
  <2>. QED
    BY <1>6, <2>1, StageKeepsRecorded DEF Stage
<1>7. CASE Discover \/ Enqueue
  <2>1. cur'.base = cur.base
    BY <1>7 DEF Discover, Enqueue, IInv, Phases, Cur
  <2>. QED
    BY <1>7, <2>1 DEF Discover, Enqueue, disk
<1>8. CASE Record
  <2>1. records \in Seq(Package)
    BY DEF IInv, TypeOK, RunTypes
  <2>2. /\ Len(records') = Len(records) + 1
        /\ \A i \in 1..Len(records) : records'[i] = records[i]
        /\ records'[Len(records) + 1].base = cur.base
    BY <1>8, <2>1 DEF Record
  <2>3. ASSUME NEW i \in 1..Len(records'), staging'[records'[i].base].linked
        PROVE  FollowsDeps(staging, records, i) /\ i \in 1..Len(records)
    <3>1. i # Len(records) + 1
      BY <1>8, <2>2, <2>3 DEF Record, disk
    <3>. QED
      BY <1>8, <2>1, <2>2, <2>3, <3>1 DEF Record, disk
  <2>4. ASSUME NEW i \in 1..Len(records), FollowsDeps(staging, records, i)
        PROVE  FollowsDeps(staging, records, i)'
    <3>. DEFINE dir == staging[records[i].base]
                deps == Meta[dir.tree].deps
    <3>1. staging'[records'[i].base] = dir
      BY <1>8, <2>2 DEF Record, disk
    <3>2. ASSUME NEW n \in 1..Len(deps)
          PROVE  \E j \in 1..Len(records') :
                   /\ records'[j].src = deps[n]
                   /\ records'[j].base = dir.links[n]
      <4>1. PICK j \in 1..Len(records) :
              records[j].src = deps[n] /\ records[j].base = dir.links[n]
        BY <2>4 DEF FollowsDeps
      <4>2. j \in 1..Len(records') /\ records'[j] = records[j]
        BY <2>1, <2>2
      <4>. QED
        BY <4>1, <4>2
    <3>3. Len(dir.links) = Len(deps)
      BY <2>4 DEF FollowsDeps
    <3>. HIDE DEF dir
    <3>. QED
      BY <3>1, <3>2, <3>3 DEF FollowsDeps
  <2>. QED
    BY <1>8, <2>3, <2>4 DEF Record, disk
<1>9. CASE Rewrite
  <2>1. \A b \in DOMAIN staging' : staging'[b].whole
    <3>1. \A b \in DOMAIN staging : staging[b] \in StagedDir
      BY DEF IInv, TypeOK, DiskTypes
    <3>. QED
      BY <1>9, <3>1 DEF Rewrite, StagedDir
  <2>. QED
    BY <1>9, <2>1, RewriteFollows DEF Rewrite, mem
<1>10. CASE SaveBegin
  <2>1. records' = records /\ pending'.packages = records /\ pc' = "save"
    BY <1>10 DEF SaveBegin
  <2>2. ASSUME NEW i \in 1..Len(records)
        PROVE  /\ records[i].base \in DOMAIN staging
               /\ staging[records[i].base].whole
               /\ staging[records[i].base].linked
               /\ FollowsDeps(staging, records, i)
    BY <1>10 DEF SaveBegin, Unlinked, IInv, BasesStaged
  <2>3. Complete(staging, pending.packages)'
    BY <1>10, <2>1, <2>2 DEF SaveBegin, Complete
  <2>. QED
    BY <1>10, <2>3 DEF SaveBegin
<1>. QED
  BY <1>2, <1>3, <1>4, <1>5, <1>6, <1>7, <1>8, <1>9, <1>10 DEF Next, Step, World

(* Every step keeps a saved manifest and its staging directory together.     *)
LEMMA ManifestCompleteStep ==
  ASSUME CInv, [Next]_installVars, CrashAt \cap {"clear", "clean"} = {}
  PROVE  ManifestComplete'
<1>. USE DEF CInv, ManifestComplete, Saved
<1>1. CASE SaveEnd
  BY <1>1 DEF SaveEnd, Building
<1>2. CASE manifest' \in {Nil, Torn} \/ pc' \in {"clear", "clean"}
  BY <1>2
<1>3. CASE Begin \/ BeginClean \/ Clear \/ SaveBegin
  BY <1>2, <1>3 DEF Begin, BeginClean, Clear, SaveBegin
<1>4. CASE CleanDone \/ SeedFails \/ Seed
  BY <1>2, <1>4 DEF CleanDone, SeedFails, Seed, Cleared, disk
<1>5. CASE Skip \/ StageFails \/ Stage \/ Discover \/ CrateClash \/ Unreadable
        \/ Enqueue \/ Record \/ Drained \/ Rewrite \/ ExoticDep \/ UnstagedDep
  <2>1. InWalk /\ manifest' = manifest
    BY <1>5 DEF InWalk, Skip, StageFails, Stage, Discover, CrateClash,
         Unreadable, Enqueue, Record, Drained, Rewrite, ExoticDep, UnstagedDep,
         disk
  <2>. QED
    BY <1>2, <2>1 DEF Building
<1>6. CASE Crash
  <2>1. pc \in Points \ {"idle", "clear", "clean"} /\ manifest' = manifest
    BY <1>6 DEF Crash, disk, IInv, TypeOK, RunTypes
  <2>2. manifest \in {Nil, Torn}
    BY <2>1 DEF Building, InWalk, Points
  <2>. QED
    BY <1>2, <2>1, <2>2
<1>7. CASE (\E s \in Source : Edit(s)) \/ EditConfig \/ UNCHANGED installVars
  BY <1>7 DEF Edit, EditConfig, installVars, disk
<1>. QED
  BY <1>1, <1>3, <1>4, <1>5, <1>6, <1>7 DEF Next, Step, World

(* Unless a run is killed while it removes the staging directory: whenever a *)
(* packages.json can be read and no removal is under way, every package it   *)
(* lists is staged whole and rewritten against the other packages, whatever  *)
(* was edited meanwhile and whatever died before.                            *)
THEOREM SavedIsComplete ==
  ASSUME CrashAt \cap {"clear", "clean"} = {}
  PROVE  Spec => []ManifestComplete
<1>1. Init => CInv
  <2>1. Init => Building /\ ManifestComplete
    BY DEF Init, Building, InWalk, ManifestComplete, Saved
  <2>. QED
    BY <2>1, InitIInv DEF CInv
<1>2. CInv /\ [Next]_installVars => CInv'
  BY NextIInv, BuildingStep, ManifestCompleteStep DEF CInv
<1>3. CInv => ManifestComplete
  BY DEF CInv
<1>. QED
  BY <1>1, <1>2, <1>3, PTL DEF Spec

-----------------------------------------------------------------------------
(* Nothing the walk has to reach gets lost                                   *)

(* A source is reached when it is waiting, being staged or staged.           *)
Reached(s) ==
  \/ \E k \in 1..Len(worklist) : worklist[k].src = s
  \/ s \in StagedKeys

(* Nothing waits any more once the worklist is drained.                      *)
NothingWaits == pc \in {"rewrite", "save"} => worklist = << >>

ListedReached ==
  InWalk \/ pc = "save" =>
    \A i \in 1..Len(Entries[cfg]) : Reached(Entries[cfg][i].src)

ReachInv == IInv /\ NothingWaits /\ ListedReached

(* The steps of a run between the seeding of the worklist and the end.       *)
WalkStep ==
  \/ Skip \/ Stage \/ Discover \/ Enqueue \/ Record \/ Drained \/ Rewrite
  \/ SaveBegin
  \/ (\E s \in Source : Edit(s)) \/ EditConfig \/ UNCHANGED installVars

(* The program points of the steps that end a run or clear the directory.    *)
LEMMA OtherSteps ==
  ASSUME [Next]_installVars
  PROVE  WalkStep \/ Seed \/ pc' \in {"idle", "clear", "clean"}
<1>1. CASE Begin \/ BeginClean \/ Clear
  BY <1>1 DEF Begin, BeginClean, Clear
<1>2. ASSUME NEW why, Stop(why) PROVE pc' = "idle"
  BY <1>2 DEF Stop
<1>3. CASE CleanDone \/ SeedFails \/ StageFails \/ CrateClash \/ Unreadable
        \/ ExoticDep \/ UnstagedDep \/ SaveEnd \/ Crash
  BY <1>2, <1>3 DEF CleanDone, SeedFails, StageFails, CrateClash, Unreadable,
                    ExoticDep, UnstagedDep, SaveEnd, Crash
<1>. QED
  BY <1>1, <1>3 DEF Next, Step, World, WalkStep

(* What the process holds during the walk: an item being staged at its       *)
(* points, and none elsewhere.                                               *)
LEMMA KeysOfPhase ==
  ASSUME IInv
  PROVE  /\ worklist \in Seq(Item) /\ records \in Seq(Package)
         /\ pc \in {"discover", "deps"} =>
              cur \in Cur /\ StagedKeys
                = {records[i].src : i \in 1..Len(records)} \cup {cur.item.src}
         /\ pc \notin {"discover", "deps"} =>
              cur = Nil /\ StagedKeys = {records[i].src : i \in 1..Len(records)}
<1>1. Nil \notin Cur
  BY NamesAssumption
<1>. QED
  BY <1>1 DEF IInv, TypeOK, RunTypes, Phases, StagedKeys

(* A source that is reached stays so until the run ends.                     *)
LEMMA ReachedStays ==
  ASSUME IInv, IInv', WalkStep
  PROVE  \A s : Reached(s) => Reached(s)'
<1>. SUFFICES ASSUME NEW s, Reached(s)
              PROVE  Reached(s)'
  OBVIOUS
<1>1. CASE Skip
  <2>1. /\ pc = "walk" /\ pc' = "walk" /\ worklist # << >>
        /\ Head(worklist).src \in StagedKeys
        /\ worklist' = Tail(worklist) /\ UNCHANGED <<records, cur>>
    BY <1>1 DEF Skip, AlreadyStaged
  <2>2. StagedKeys' = StagedKeys
    BY <2>1 DEF StagedKeys
  <2>3. CASE s \notin StagedKeys
    <3>1. PICK k \in 1..Len(worklist) : worklist[k].src = s
      BY <2>3 DEF Reached
    <3>2. k # 1
      BY <2>1, <2>3, <3>1
    <3>3. k - 1 \in 1..Len(worklist') /\ worklist'[k - 1] = worklist[k]
      BY <2>1, <3>1, <3>2, KeysOfPhase
    <3>. QED
      BY <3>1, <3>3 DEF Reached
  <2>. QED
    BY <2>2, <2>3 DEF Reached
<1>2. CASE Stage
  <2>1. /\ pc = "walk" /\ pc' = "discover" /\ worklist # << >>
        /\ cur'.item = Head(worklist)
        /\ worklist' = Tail(worklist) /\ UNCHANGED records
    BY <1>2 DEF Stage
  <2>2. StagedKeys' = StagedKeys \cup {Head(worklist).src}
    <3>1. StagedKeys = {records[i].src : i \in 1..Len(records)}
      BY <2>1, KeysOfPhase
    <3>2. StagedKeys' = {records'[i].src : i \in 1..Len(records')}
                          \cup {cur'.item.src}
      <4>1. cur' \in Cur
        BY <2>1 DEF IInv, Phases
      <4>2. cur' # Nil
        BY <4>1, NamesAssumption
      <4>. QED
        BY <4>2 DEF StagedKeys
    <3>. QED
      BY <2>1, <3>1, <3>2
  <2>3. CASE s \notin StagedKeys'
    <3>1. PICK k \in 1..Len(worklist) : worklist[k].src = s
      BY <2>2, <2>3 DEF Reached
    <3>2. k # 1
      BY <2>1, <2>2, <2>3, <3>1, KeysOfPhase
    <3>3. k - 1 \in 1..Len(worklist') /\ worklist'[k - 1] = worklist[k]
      BY <2>1, <3>1, <3>2, KeysOfPhase
    <3>. QED
      BY <3>1, <3>3 DEF Reached
  <2>. QED
    BY <2>3 DEF Reached
<1>3. CASE Discover
  <2>1. /\ pc = "discover" /\ pc' = "deps" /\ UNCHANGED <<worklist, records>>
        /\ cur' = [cur EXCEPT !.name = Meta[live[cur.item.src]].name,
                              !.crate = CrateNameOf(cur.item, cur.base),
                              !.deps = Meta[live[cur.item.src]].deps]
    BY <1>3 DEF Discover
  <2>2. cur \in Cur
    BY <2>1 DEF IInv, Phases
  <2>3. cur'.item = cur.item /\ cur' # Nil /\ cur # Nil
    <3>1. cur' \in Cur
      BY <2>1 DEF IInv, Phases
    <3>. QED
      BY <2>1, <2>2, <3>1, NamesAssumption DEF Cur
  <2>. QED
    BY <2>1, <2>3 DEF Reached, StagedKeys
<1>4. CASE Enqueue
  <2>1. /\ pc = "deps" /\ pc' = "deps" /\ UNCHANGED records
        /\ worklist' = worklist \/ \E item : worklist' = Append(worklist, item)
        /\ cur' = [cur EXCEPT !.deps = Tail(@)]
    BY <1>4 DEF Enqueue
  <2>2. cur \in Cur /\ cur' \in Cur
    BY <2>1 DEF IInv, Phases
  <2>3. cur'.item = cur.item /\ cur' # Nil /\ cur # Nil
    BY <2>1, <2>2, NamesAssumption DEF Cur
  <2>4. StagedKeys' = StagedKeys
    BY <2>1, <2>3 DEF StagedKeys
  <2>5. \A k \in 1..Len(worklist) :
          k \in 1..Len(worklist') /\ worklist'[k] = worklist[k]
    BY <2>1, KeysOfPhase
  <2>. QED
    BY <2>4, <2>5 DEF Reached
<1>5. CASE Record
  <2>1. /\ pc = "deps" /\ pc' = "walk" /\ UNCHANGED worklist
        /\ \E r : records' = Append(records, r) /\ r.src = cur.item.src
    BY <1>5 DEF Record
  <2>2. StagedKeys = {records[i].src : i \in 1..Len(records)} \cup {cur.item.src}
    BY <2>1, KeysOfPhase
  <2>3. {records'[i].src : i \in 1..Len(records')} \subseteq StagedKeys'
    BY DEF StagedKeys
  <2>4. /\ Len(records') = Len(records) + 1
        /\ \A i \in 1..Len(records) : records'[i] = records[i]
        /\ records'[Len(records) + 1].src = cur.item.src
    BY <2>1, KeysOfPhase
  <2>5. Len(records) \in Nat
    BY KeysOfPhase
  <2>6. StagedKeys \subseteq {records'[i].src : i \in 1..Len(records')}
    BY <2>2, <2>4, <2>5
  <2>. QED
    BY <2>1, <2>3, <2>6 DEF Reached
<1>6. CASE Drained \/ Rewrite \/ SaveBegin \/ (\E t \in Source : Edit(t))
        \/ EditConfig \/ UNCHANGED installVars
  <2>1. UNCHANGED <<worklist, records, cur>>
    BY <1>6 DEF Drained, Rewrite, SaveBegin, Edit, EditConfig, installVars, mem
  <2>. QED
    BY <2>1 DEF Reached, StagedKeys
<1>. QED
  BY <1>1, <1>2, <1>3, <1>4, <1>5, <1>6 DEF WalkStep

(* Every step keeps a drained worklist empty until the run ends.             *)
LEMMA DrainedStays ==
  ASSUME NothingWaits, [Next]_installVars
  PROVE  NothingWaits'
<1>1. CASE WalkStep
  BY <1>1 DEF NothingWaits, WalkStep, Skip, Stage, Discover, Enqueue, Record,
       Drained, Rewrite, SaveBegin, Edit, EditConfig, installVars, mem
<1>2. CASE Seed
  BY <1>2 DEF Seed, NothingWaits
<1>. QED
  BY <1>1, <1>2, OtherSteps DEF NothingWaits

(* Every step keeps what is listed within reach.                             *)
LEMMA ReachStep ==
  ASSUME ReachInv, [Next]_installVars
  PROVE  ReachInv'
<1>. USE DEF ReachInv
<1>1. IInv'
  BY NextIInv
<1>2. CASE WalkStep
  <2>1. cfg' = cfg
    BY <1>2 DEF WalkStep, Skip, Stage, Discover, Enqueue, Record, Drained,
         Rewrite, SaveBegin, Edit, EditConfig, installVars, mem
  <2>2. NothingWaits'
    BY DrainedStays
  <2>3. InWalk' \/ pc' = "save" => InWalk \/ pc = "save"
    BY <1>2 DEF InWalk, WalkStep, Skip, Stage, Discover, Enqueue, Record,
         Drained, Rewrite, SaveBegin, Edit, EditConfig, installVars, mem
  <2>4. ListedReached'
    BY <1>1, <1>2, <2>1, <2>3, ReachedStays DEF ListedReached
  <2>. QED
    BY <1>1, <2>2, <2>4
<1>3. CASE Seed
  <2>1. pc' = "walk" /\ cfg' = cfg /\ worklist' = Entries[cfg]
    BY <1>3 DEF Seed
  <2>. QED
    BY <1>1, <2>1 DEF NothingWaits, ListedReached, Reached
<1>4. CASE pc' \in {"idle", "clear", "clean"}
  BY <1>1, <1>4 DEF NothingWaits, ListedReached, InWalk
<1>. QED
  BY <1>2, <1>3, <1>4, OtherSteps

(* Before the first run no walk is under way.                                *)
LEMMA InitReach == Init => ReachInv
BY InitIInv DEF Init, ReachInv, NothingWaits, ListedReached, InWalk

(* Whatever the sources, names and configs, whatever is edited and whatever  *)
(* died before: when the walk is over there is a package for every entry of  *)
(* the config the run loaded.                                                *)
THEOREM ListedAreStaged == Spec => []ListedCovered
<1>1. ReachInv => ListedCovered
  <2>. SUFFICES ASSUME ReachInv, pc \in {"rewrite", "save"},
                       NEW i \in 1..Len(Entries[cfg])
                PROVE  \E j \in 1..Len(records) :
                         records[j].src = Entries[cfg][i].src
    BY DEF ListedCovered
  <2>1. worklist = << >> /\ Reached(Entries[cfg][i].src)
    BY DEF ReachInv, NothingWaits, ListedReached, InWalk
  <2>2. Entries[cfg][i].src \in StagedKeys
    BY <2>1 DEF Reached
  <2>. QED
    BY <2>2, KeysOfPhase DEF ReachInv
<1>. QED
  BY <1>1, InitReach, ReachStep, PTL DEF Spec

-----------------------------------------------------------------------------
(* Synthetic addresses                                                       *)

(* The placeholders of a staged package, and the package that first uses one.*)
LEMMA PlaceholderTypes ==
  ASSUME records \in Seq(Package), DiskTypes, BasesStaged
  PROVE  /\ \A i \in 1..Len(records) : Placeholders(i) \subseteq AddrName
         /\ \A i \in 1..Len(records) : \A n \in Placeholders(i) :
              FirstUse(n) \in 1..Len(records)
<1>1. ASSUME NEW i \in 1..Len(records)
      PROVE  Placeholders(i) \subseteq AddrName
  <2>1. staging[records[i].base] \in StagedDir
    BY DEF BasesStaged, DiskTypes
  <2>2. Meta[staging[records[i].base].tree] \in TreeMeta
    BY <2>1, SourcesAssumption DEF StagedDir
  <2>. QED
    BY <2>2 DEF Placeholders, TreeMeta
<1>2. ASSUME NEW i \in 1..Len(records), NEW n \in Placeholders(i)
      PROVE  FirstUse(n) \in 1..Len(records)
  <2>. DEFINE users == {k \in 1..Len(records) : n \in Placeholders(k)}
  <2>1. Len(records) \in Nat
    OBVIOUS
  <2>2. users \in SUBSET Nat /\ users # {}
    BY <1>2
  <2>3. PICK k \in users : \A j \in users : k <= j
    <3>. HIDE DEF users
    <3>. QED
      BY <2>2, SmallestExists
  <2>4. /\ k \in 1..Len(records) /\ n \in Placeholders(k)
        /\ \A j \in 1..(k - 1) : n \notin Placeholders(j)
    BY <2>1, <2>3
  <2>. QED
    BY <2>4 DEF FirstUse
<1>. QED
  BY <1>1, <1>2

(* Names are numbered one by one: of two one comes before the other, and a   *)
(* later one has a larger number.                                            *)
LEMMA NumbersApart ==
  ASSUME records \in Seq(Package), DiskTypes, BasesStaged
  PROVE  LET ov == AddressOverrides
         IN  /\ \A i \in 1..Len(records) : Placeholders(i) \subseteq DOMAIN ov
             /\ \A m, n \in DOMAIN ov : ov[m] = ov[n] => m = n
             /\ \A n \in DOMAIN ov : ov[n] \in 1..Cardinality(DOMAIN ov)
<1>. DEFINE names == UNION {Placeholders(i) : i \in 1..Len(records)}
            before(n) == {m \in names : NumberedBefore(m, n)}
<1>1. AddressOverrides = [n \in names |-> 1 + Cardinality(before(n))]
  BY DEF AddressOverrides
<1>2. names \subseteq AddrName /\ \A n \in names : FirstUse(n) \in Nat
  BY PlaceholderTypes
<1>3. /\ \A n \in names : AddrOrder[n] \in Nat
      /\ \A m, n \in names : AddrOrder[m] = AddrOrder[n] => m = n
  BY <1>2, SourcesAssumption
<1>4. IsFiniteSet(names) /\ Cardinality(names) \in Nat
  BY <1>2, SourcesAssumption, FS_Subset, FS_CardinalityType
<1>5. \A i \in 1..Len(records) : Placeholders(i) \subseteq names
  OBVIOUS
<1>. HIDE DEF names
<1>6. \A m, n \in names : m # n => NumberedBefore(m, n) \/ NumberedBefore(n, m)
  BY <1>2, <1>3 DEF NumberedBefore
<1>7. \A l, m, n \in names :
        /\ ~NumberedBefore(n, n)
        /\ NumberedBefore(l, m) /\ NumberedBefore(m, n) => NumberedBefore(l, n)
  BY <1>2, <1>3 DEF NumberedBefore
<1>8. ASSUME NEW n \in names
      PROVE  /\ IsFiniteSet(before(n)) /\ Cardinality(before(n)) \in Nat
             /\ Cardinality(before(n)) + 1 <= Cardinality(names)
  <2>1. before(n) \subseteq names \ {n}
    BY <1>7
  <2>2. /\ IsFiniteSet(names \ {n})
        /\ Cardinality(names \ {n}) = Cardinality(names) - 1
    BY <1>4, FS_RemoveElement
  <2>3. IsFiniteSet(before(n)) /\ Cardinality(before(n)) <= Cardinality(names) - 1
    BY <2>1, <2>2, FS_Subset
  <2>4. Cardinality(before(n)) \in Nat
    BY <2>3, FS_CardinalityType
  <2>. HIDE DEF before
  <2>. QED
    BY <1>4, <2>3, <2>4
<1>9. ASSUME NEW m \in names, NEW n \in names, NumberedBefore(m, n)
      PROVE  Cardinality(before(m)) < Cardinality(before(n))
  <2>1. before(m) \cup {m} \subseteq before(n) /\ m \notin before(m)
    BY <1>7, <1>9
  <2>2. Cardinality(before(m) \cup {m}) = Cardinality(before(m)) + 1
    BY <1>8, <2>1, FS_AddElement
  <2>3. Cardinality(before(m) \cup {m}) <= Cardinality(before(n))
    BY <1>8, <2>1, FS_Subset
  <2>. HIDE DEF before
  <2>. QED
    BY <1>8, <2>2, <2>3
<1>. HIDE DEF before
<1>10. ASSUME NEW m \in names, NEW n \in names,
              AddressOverrides[m] = AddressOverrides[n]
       PROVE  m = n
  <2>1. Cardinality(before(m)) = Cardinality(before(n))
    BY <1>1, <1>8, <1>10
  <2>. QED
    BY <1>6, <1>8, <1>9, <2>1
<1>11. \A n \in names : AddressOverrides[n] \in 1..Cardinality(names)
  BY <1>1, <1>4, <1>8
<1>12. DOMAIN AddressOverrides = names
  BY <1>1
<1>. QED
  BY <1>5, <1>10, <1>11, <1>12

(* For any number of packages, placeholders and names, and any order of the  *)
(* names: every "_" of a staged Move.toml gets a synthetic address, no two   *)
(* names share one, and the numbering has no gap.                            *)
THEOREM OverridesBind == Spec => []OverridesBindAll
<1>1. Init => IInv /\ OverridesBindAll
  BY InitIInv DEF Init, OverridesBindAll
<1>2. IInv /\ OverridesBindAll /\ [Next]_installVars
        => IInv' /\ OverridesBindAll'
  <2>. SUFFICES ASSUME IInv, OverridesBindAll, [Next]_installVars, pc' = "save"
                PROVE  OverridesBindAll'
    BY NextIInv DEF OverridesBindAll
  <2>1. CASE SaveBegin
    <3>1. pending'.overrides = AddressOverrides /\ UNCHANGED <<records, staging>>
      BY <2>1 DEF SaveBegin
    <3>2. \A i : Placeholders(i)' = Placeholders(i)
      BY <3>1 DEF Placeholders
    <3>3. records \in Seq(Package) /\ DiskTypes /\ BasesStaged
      BY DEF IInv, TypeOK, RunTypes
    <3>. QED
      BY <3>1, <3>2, <3>3, NumbersApart DEF OverridesBindAll
  <2>2. CASE ~SaveBegin
    <3>1. pc = "save" /\ UNCHANGED <<records, staging, pending>>
      BY <2>2, OtherSteps DEF WalkStep, Seed, Skip, Stage, Discover, Enqueue,
           Record, Drained, Rewrite, Edit, EditConfig, installVars, disk, mem
    <3>2. \A i : Placeholders(i)' = Placeholders(i)
      BY <3>1 DEF Placeholders
    <3>. QED
      BY <3>1, <3>2 DEF OverridesBindAll
  <2>. QED
    BY <2>1, <2>2
<1>. QED
  BY <1>1, <1>2, PTL DEF Spec

-----------------------------------------------------------------------------
(* The rewrite finds every dependency staged                                 *)

(* What source s depends on has been reached.                                *)
DirectDeps(s) ==
  {Meta[live[s]].deps[n] : n \in 1..Len(Meta[live[s]].deps)}
DepsReached(s) == \A d \in DirectDeps(s) : Reached(d)

Recorded == {records[i].src : i \in 1..Len(records)}

SourceIsCopied(i) ==
  staging[records[i].base].tree = Meta[live[records[i].src]].copy

(* With no edit so far: every source is there, the staged copies are those   *)
(* of the sources, and what the recorded packages depend on is within reach, *)
(* but for the dependencies of the current one that are still to be looked   *)
(* at.                                                                       *)
Walked ==
  /\ live \in [Source -> Tree]
  /\ InWalk => (\A i \in 1..Len(records) : SourceIsCopied(i))
              /\ \A s \in Recorded : DepsReached(s)
  /\ pc \in {"discover", "deps"} =>
       staging[cur.base].tree = Meta[live[cur.item.src]].copy
  /\ pc = "deps" =>
       \A d \in DirectDeps(cur.item.src) :
         Reached(d) \/ \E k \in 1..Len(cur.deps) : cur.deps[k] = d

WalkInv ==
  IInv /\ NothingWaits /\ (edits = 0 => Walked /\ outcome # "unstaged_dep")

(* Without edits the rewrite has no reason to stop at a dependency.          *)
LEMMA NoUnstagedDep ==
  ASSUME WalkInv, edits = 0
  PROVE  ~UnstagedDep
<1>. SUFFICES ASSUME pc = "rewrite", NEW i \in 1..Len(records),
                     NEW n \in 1..Len(DepsOf(i)), ~AlreadyStaged(DepsOf(i)[n])
              PROVE  FALSE
  BY DEF UnstagedDep
<1>1. records[i].src \in Source
  <2>1. records \in Seq(Package)
    BY KeysOfPhase DEF WalkInv
  <2>2. records[i] \in Package
    BY <2>1
  <2>. QED
    BY <2>2 DEF Package
<1>. USE DEF WalkInv, Walked
<1>2. live[records[i].src] \in Tree
  BY <1>1
<1>3. DepsOf(i) = Meta[live[records[i].src]].deps
  BY <1>2, CopyAssumption DEF DepsOf, InWalk, SourceIsCopied
<1>4. Reached(DepsOf(i)[n])
  <2>1. DepsReached(records[i].src)
    BY DEF InWalk, Recorded
  <2>. QED
    BY <1>3, <2>1 DEF DepsReached, DirectDeps
<1>5. DepsOf(i)[n] \in StagedKeys
  BY <1>4 DEF NothingWaits, Reached
<1>6. DepsOf(i)[n] \in Source
  <2>1. Meta[live[records[i].src]].deps \in Seq(Source)
    BY <1>2, SourcesAssumption DEF TreeMeta
  <2>. QED
    BY <1>3, <2>1
<1>7. live[DepsOf(i)[n]] # Gone
  BY <1>6, SourcesAssumption
<1>. QED
  BY <1>5, <1>7 DEF AlreadyStaged, Visible

(* Every step without an edit keeps this.                                    *)
LEMMA WalkedStep ==
  ASSUME WalkInv, IInv', [Next]_installVars, edits' = 0
  PROVE  Walked' /\ outcome' # "unstaged_dep"
<1>. USE DEF WalkInv
<1>1. edits = 0 /\ live' = live
  <2>1. edits \in Nat
    BY DEF IInv, TypeOK, WorldTypes
  <2>2. ~(\E s \in Source : Edit(s)) /\ ~EditConfig
    BY <2>1 DEF Edit, EditConfig
  <2>. QED
    BY <2>2 DEF Next, Step, World, Begin, BeginClean, Clear, CleanDone,
         SeedFails, Seed, Skip, StageFails, Stage, Discover, CrateClash,
         Unreadable, Enqueue, Record, Drained, Rewrite, ExoticDep, UnstagedDep,
         SaveBegin, SaveEnd, Crash, installVars, env, bounds
<1>2. Walked /\ outcome # "unstaged_dep"
  BY <1>1
<1>3. live' \in [Source -> Tree]
  BY <1>1, <1>2 DEF Walked
<1>4. ASSUME WalkStep
      PROVE  \A s : DepsReached(s) => DepsReached(s)'
  <2>1. \A s : DirectDeps(s)' = DirectDeps(s)
    BY <1>1 DEF DirectDeps
  <2>2. \A d : Reached(d) => Reached(d)'
    BY <1>4, ReachedStays
  <2>. QED
    BY <2>1, <2>2 DEF DepsReached
<1>5. outcome' # "unstaged_dep"
  <2>1. ~UnstagedDep
    BY <1>1, NoUnstagedDep
  <2>. QED
    BY <1>2, <2>1 DEF Next, Step, World, Begin, BeginClean, Clear, CleanDone,
         SeedFails, Seed, Skip, StageFails, StageErrors, Stage, Discover,
         CrateClash, Unreadable, Enqueue, Record, Drained, Rewrite, ExoticDep,
         SaveBegin, SaveEnd, Edit, EditConfig, Crash, Stop, installVars
<1>6. CASE pc' \in {"idle", "clear", "clean", "save"}
  BY <1>3, <1>5, <1>6 DEF Walked, InWalk
<1>7. CASE Seed
  <2>1. records' = << >> /\ pc' = "walk"
    BY <1>7 DEF Seed, IInv, Phases
  <2>. QED
    BY <1>3, <1>5, <2>1 DEF Walked, InWalk, Recorded
<1>8. CASE Skip \/ Drained \/ Rewrite \/ UNCHANGED installVars
  <2>1. /\ UNCHANGED <<records, cur>>
        /\ InWalk' => InWalk
        /\ pc' \in {"discover", "deps"} => pc' = pc
    BY <1>8 DEF Skip, Drained, Rewrite, installVars, mem, InWalk
  <2>2. \A b \in DOMAIN staging : staging'[b].tree = staging[b].tree
    <3>1. \A b \in DOMAIN staging : staging[b] \in StagedDir
      BY DEF IInv, TypeOK, DiskTypes
    <3>2. CASE Rewrite
      <4>1. PICK i \in 1..Len(records) :
              staging' = [staging EXCEPT
                ![records[i].base].linked = TRUE,
                ![records[i].base].links =
                   [n \in 1..Len(DepsOf(i)) |-> StagedBasename(DepsOf(i)[n])]]
        BY <3>2 DEF Rewrite
      <4>. QED
        BY <3>1, <4>1 DEF StagedDir
    <3>. QED
      BY <1>8, <3>2 DEF Skip, Drained, installVars, disk
  <2>3. WalkStep
    BY <1>8 DEF WalkStep
  <2>4. /\ \A i \in 1..Len(records) : records[i].base \in DOMAIN staging
        /\ pc \in {"discover", "deps"} => cur.base \in DOMAIN staging
    BY DEF IInv, BasesStaged
  <2>5. InWalk' => /\ \A i \in 1..Len(records') : SourceIsCopied(i)'
                   /\ \A s \in Recorded' : DepsReached(s)'
    <3>. SUFFICES ASSUME InWalk'
                  PROVE  /\ \A i \in 1..Len(records) : SourceIsCopied(i)'
                         /\ \A s \in Recorded : DepsReached(s)'
      BY <2>1 DEF Recorded
    <3>1. \A s \in Recorded : DepsReached(s)'
      BY <1>2, <1>4, <2>1, <2>3 DEF Walked
    <3>2. ASSUME NEW i \in 1..Len(records)
          PROVE  SourceIsCopied(i)'
      <4>1. SourceIsCopied(i)
        BY <1>2, <2>1 DEF Walked
      <4>. QED
        BY <1>1, <2>1, <2>2, <2>4, <4>1 DEF SourceIsCopied
    <3>. QED
      BY <3>1, <3>2
  <2>6. pc' \in {"discover", "deps"} =>
          staging'[cur'.base].tree = Meta[live'[cur'.item.src]].copy
    BY <1>1, <1>2, <2>1, <2>2, <2>4 DEF Walked
  <2>7. \A s : Reached(s) => Reached(s)'
    BY <2>3, ReachedStays
  <2>8. pc' = "deps" =>
          \A d \in DirectDeps(cur.item.src) :
            Reached(d)' \/ \E k \in 1..Len(cur.deps) : cur.deps[k] = d
    BY <1>2, <2>1, <2>7 DEF Walked
  <2>9. DirectDeps(cur.item.src)' = DirectDeps(cur.item.src)
    BY <1>1, <2>1 DEF DirectDeps
  <2>. QED
    BY <1>3, <1>5, <2>1, <2>5, <2>6, <2>8, <2>9 DEF Walked
<1>9. CASE Stage
  <2>1. /\ pc = "walk" /\ pc' = "discover" /\ records' = records
        /\ staging'[cur'.base].tree = Meta[live[cur'.item.src]].copy
    BY <1>9 DEF Stage
  <2>2. \A i \in 1..Len(records) :
          staging'[records[i].base] = staging[records[i].base]
    BY <1>9, StageKeepsRecorded
  <2>3. WalkStep
    BY <1>9 DEF WalkStep
  <2>4. \A i \in 1..Len(records') : SourceIsCopied(i)'
    <3>. SUFFICES ASSUME NEW i \in 1..Len(records) PROVE SourceIsCopied(i)'
      BY <2>1
    <3>1. SourceIsCopied(i)
      BY <1>2, <2>1 DEF Walked, InWalk
    <3>. QED
      BY <1>1, <2>1, <2>2, <3>1 DEF SourceIsCopied
  <2>5. \A s \in Recorded' : DepsReached(s)'
    BY <1>2, <1>4, <2>1, <2>3 DEF Walked, InWalk, Recorded
  <2>. QED
    BY <1>1, <1>3, <1>5, <2>1, <2>4, <2>5 DEF Walked
<1>10. CASE Discover \/ Enqueue
  <2>1. /\ pc \in {"discover", "deps"} /\ pc' = "deps"
        /\ UNCHANGED <<records, staging>>
    BY <1>10 DEF Discover, Enqueue, disk
  <2>2. cur \in Cur
    BY <2>1 DEF IInv, Phases
  <2>3. cur'.base = cur.base /\ cur'.item = cur.item
    BY <1>10, <2>2 DEF Discover, Enqueue, Cur
  <2>4. WalkStep
    BY <1>10 DEF WalkStep
  <2>5. \A i \in 1..Len(records') : SourceIsCopied(i)'
    <3>. SUFFICES ASSUME NEW i \in 1..Len(records) PROVE SourceIsCopied(i)'
      BY <2>1
    <3>1. SourceIsCopied(i)
      BY <1>2, <2>1 DEF Walked, InWalk
    <3>. QED
      BY <1>1, <2>1, <3>1 DEF SourceIsCopied
  <2>6. \A s \in Recorded' : DepsReached(s)'
    BY <1>2, <1>4, <2>1, <2>4 DEF Walked, InWalk, Recorded
  <2>7. ASSUME NEW d \in DirectDeps(cur.item.src)
        PROVE  Reached(d)' \/ \E k \in 1..Len(cur'.deps) : cur'.deps[k] = d
    <3>1. CASE Discover
      <4>1. cur'.deps = Meta[live[cur.item.src]].deps
        BY <2>2, <3>1 DEF Discover, Cur
      <4>. QED
        BY <4>1 DEF DirectDeps
    <3>2. CASE Enqueue
      <4>1. CASE Reached(d)
        BY <2>4, <4>1, ReachedStays
      <4>2. CASE ~Reached(d)
        <5>1. PICK k \in 1..Len(cur.deps) : cur.deps[k] = d
          BY <1>2, <3>2, <4>2 DEF Walked, Enqueue
        <5>2. /\ cur.deps \in Seq(Source) /\ cur.deps # << >>
              /\ cur'.deps = Tail(cur.deps)
          BY <2>2, <3>2 DEF Enqueue, Cur
        <5>3. CASE k = 1
          <6>1. Head(cur.deps) = d
            BY <5>1, <5>2, <5>3
          <6>2. d \notin StagedKeys
            BY <4>2 DEF Reached
          <6>3. worklist' = Append(worklist,
                              [id |-> Nil, src |-> d, crate |-> Nil])
            BY <3>2, <6>1, <6>2 DEF Enqueue, Wanted, AlreadyStaged
          <6>4. /\ Len(worklist') = Len(worklist) + 1 /\ Len(worklist) \in Nat
                /\ worklist'[Len(worklist) + 1].src = d
            BY <6>3, KeysOfPhase
          <6>. QED
            BY <6>4 DEF Reached
        <5>4. CASE k # 1
          <6>1. k - 1 \in 1..Len(cur'.deps) /\ cur'.deps[k - 1] = cur.deps[k]
            BY <5>1, <5>2, <5>4
          <6>. QED
            BY <5>1, <6>1
        <5>. QED
          BY <5>3, <5>4
      <4>. QED
        BY <4>1, <4>2
    <3>. QED
      BY <1>10, <3>1, <3>2
  <2>8. DirectDeps(cur.item.src)' = DirectDeps(cur.item.src)
    BY <1>1, <2>3 DEF DirectDeps
  <2>9. staging'[cur'.base].tree = Meta[live'[cur'.item.src]].copy
    BY <1>1, <1>2, <2>1, <2>3 DEF Walked
  <2>. QED
    BY <1>1, <1>3, <1>5, <2>1, <2>3, <2>5, <2>7, <2>9, <2>6, <2>8 DEF Walked
<1>11. CASE Record
  <2>1. /\ pc = "deps" /\ pc' = "walk" /\ UNCHANGED staging /\ cur.deps = << >>
        /\ \E r : /\ records' = Append(records, r)
                  /\ r.src = cur.item.src /\ r.base = cur.base
    BY <1>11 DEF Record, disk
  <2>2. /\ records \in Seq(Package) /\ Len(records') = Len(records) + 1
        /\ \A i \in 1..Len(records) : records'[i] = records[i]
        /\ records'[Len(records) + 1].src = cur.item.src
        /\ records'[Len(records) + 1].base = cur.base
    BY <2>1, KeysOfPhase
  <2>3. WalkStep
    BY <1>11 DEF WalkStep
  <2>4. DepsReached(cur.item.src)
    BY <1>2, <2>1 DEF Walked, DepsReached
  <2>5. ASSUME NEW i \in 1..Len(records')
        PROVE  SourceIsCopied(i)'
    <3>1. CASE i = Len(records) + 1
      <4>1. staging[cur.base].tree = Meta[live[cur.item.src]].copy
        BY <1>2, <2>1 DEF Walked
      <4>. QED
        BY <1>1, <2>1, <2>2, <3>1, <4>1 DEF SourceIsCopied
    <3>2. CASE i \in 1..Len(records)
      <4>1. SourceIsCopied(i)
        BY <1>2, <2>1, <3>2 DEF Walked, InWalk
      <4>. QED
        BY <1>1, <2>1, <2>2, <3>2, <4>1 DEF SourceIsCopied
    <3>. QED
      BY <2>2, <3>1, <3>2
  <2>6. Recorded' \subseteq Recorded \cup {cur.item.src}
    <3>. SUFFICES ASSUME NEW i \in 1..Len(records')
                  PROVE  records'[i].src \in Recorded \cup {cur.item.src}
      BY DEF Recorded
    <3>1. i = Len(records) + 1 \/ i \in 1..Len(records)
      BY <2>2
    <3>. QED
      BY <2>2, <3>1 DEF Recorded
  <2>7. \A s \in Recorded' : DepsReached(s)'
    BY <1>2, <1>4, <2>1, <2>3, <2>4, <2>6 DEF Walked, InWalk
  <2>. QED
    BY <1>3, <1>5, <2>1, <2>5, <2>7 DEF Walked
<1>12. ~(\E s \in Source : Edit(s)) /\ ~EditConfig
  <2>1. edits \in Nat
    BY DEF IInv, TypeOK, WorldTypes
  <2>. QED
    BY <2>1 DEF Edit, EditConfig
<1>13. CASE SaveBegin
  BY <1>6, <1>13 DEF SaveBegin
<1>. QED
  BY <1>5, <1>6, <1>7, <1>8, <1>9, <1>10, <1>11, <1>12, <1>13, OtherSteps
     DEF WalkStep

(* Unless something was edited: whatever the packages and however they       *)
(* depend on each other, the rewrite of the staged manifests meets no `local`*)
(* or `git` dependency that the walk has not staged.                         *)
THEOREM RewriteFinds == Spec => []RewriteFindsDeps
<1>1. Init => WalkInv
  <2>1. Init => IInv /\ ReachInv
    BY InitIInv, InitReach
  <2>2. Init => Walked /\ outcome # "unstaged_dep"
    BY DEF Init, Walked, InWalk
  <2>. QED
    BY <2>1, <2>2 DEF WalkInv, ReachInv
<1>2. WalkInv /\ [Next]_installVars => WalkInv'
  <2>. SUFFICES ASSUME WalkInv, [Next]_installVars
                PROVE  WalkInv'
    OBVIOUS
  <2>1. IInv'
    BY NextIInv DEF WalkInv
  <2>2. NothingWaits'
    BY DrainedStays DEF WalkInv
  <2>3. edits' = 0 => Walked' /\ outcome' # "unstaged_dep"
    BY <2>1, WalkedStep
  <2>. QED
    BY <2>1, <2>2, <2>3 DEF WalkInv
<1>3. WalkInv => RewriteFindsDeps
  BY DEF WalkInv, RewriteFindsDeps
<1>. QED
  BY <1>1, <1>2, <1>3, PTL DEF Spec
=============================================================================
