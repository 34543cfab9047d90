--------------------------- MODULE SourcesProofs ----------------------------
(* Theorems about ConfigCheck and Sources, for every set of configs and of    *)
(* repositories, any number of installs at once, of clones that die, of       *)
(* fetches that fail and of commits pushed upstream.                          *)
EXTENDS Sources, FiniteSetTheorems, SequenceTheorems, TLAPS

-----------------------------------------------------------------------------
(* What Config::load makes of a config                                        *)

(* Tables with different ids are listed in the order of the ids, each once.   *)
LEMMA InOrderLists ==
    ASSUME NEW S, IsFiniteSet(S), \A r \in S : r.id \in Ids,
           \A r, s \in S : r.id = s.id => r = s
    PROVE  /\ InOrder(S) \in Seq(S) /\ Len(InOrder(S)) = Cardinality(S)
           /\ \A i, j \in DOMAIN InOrder(S) :
                i < j => Before(InOrder(S)[i], InOrder(S)[j])
<1> DEFINE n == Cardinality(S)
           before(r) == {s \in S : Before(s, r)}
           f == [r \in S |-> Cardinality(before(r))]
<1>1. n \in Nat
  BY FS_CardinalityType
<1>2. /\ \A r \in S : IdRank[r.id] \in Nat
      /\ \A r, s \in S : r # s => Before(r, s) \/ Before(s, r)
  BY TablesAssumption DEF IsInjective, Before
<1>3. \A r, s, t \in S : ~Before(r, r) /\ (Before(r, s) /\ Before(s, t) => Before(r, t))
  BY <1>2 DEF Before
<1> HIDE DEF f
<1>4. \A r \in S : IsFiniteSet(before(r)) /\ f[r] \in 0 .. n - 1
  <2> SUFFICES ASSUME NEW r \in S PROVE IsFiniteSet(before(r)) /\ f[r] \in 0 .. n - 1
    OBVIOUS
  <2>1. before(r) \subseteq S \ {r}
    BY <1>3
  <2>2. IsFiniteSet(S \ {r}) /\ Cardinality(S \ {r}) = n - 1
    BY FS_RemoveElement
  <2>3. IsFiniteSet(before(r)) /\ Cardinality(before(r)) <= n - 1
    BY <2>1, <2>2, FS_Subset
  <2>4. Cardinality(before(r)) \in Nat
    BY <2>3, FS_CardinalityType
  <2> QED
    BY <1>1, <2>3, <2>4 DEF f
<1>5. ASSUME NEW r \in S, NEW s \in S, Before(r, s) PROVE f[r] < f[s]
  <2>1. before(r) \cup {r} \subseteq before(s) /\ r \notin before(r)
    BY <1>3, <1>5
  <2>2. Cardinality(before(r) \cup {r}) = Cardinality(before(r)) + 1
    BY <1>4, <2>1, FS_AddElement
  <2>3. Cardinality(before(r) \cup {r}) <= Cardinality(before(s))
    BY <1>4, <2>1, FS_Subset
  <2>4. f[r] = Cardinality(before(r)) /\ f[s] = Cardinality(before(s))
    BY DEF f
  <2> HIDE DEF n, before
  <2>5. f[r] \in Int /\ f[s] \in Int
    BY <1>4
  <2> QED
    BY <2>2, <2>3, <2>4, <2>5
<1>6. f \in Injection(S, 0 .. n - 1)
  <2>1. f \in [S -> 0 .. n - 1]
    BY <1>4 DEF f
  <2>2. \A r, s \in S : f[r] = f[s] => r = s
    <3> HIDE DEF n, before
    <3>1. \A r \in S : f[r] \in Int
      BY <1>4
    <3> QED
      BY <1>2, <1>5, <3>1
  <2>3. DOMAIN f = S
    BY DEF f
  <2> QED
    BY <2>1, <2>2, <2>3, Zenon DEF Injection, IsInjective
<1>7. f \in Surjection(S, 0 .. n - 1)
  <2>1. IsFiniteSet(0 .. n - 1) /\ Cardinality(0 .. n - 1) = n
    BY <1>1, FS_Interval
  <2> HIDE DEF n
  <2>2. n = Cardinality(S)
    BY DEF n
  <2> QED
    BY <1>6, <2>1, <2>2, FS_Injection, Zenon
<1>8. \A k \in 1 .. n : InOrder(S)[k] \in S /\ f[InOrder(S)[k]] = k - 1
  <2> SUFFICES ASSUME NEW k \in 1 .. n
               PROVE  InOrder(S)[k] \in S /\ f[InOrder(S)[k]] = k - 1
    OBVIOUS
  <2>1. \E r \in S : f[r] = k - 1
    BY <1>1, <1>7 DEF Surjection
  <2>2. \E r \in S : Cardinality(before(r)) = k - 1
    BY <2>1 DEF f
  <2>3. InOrder(S)[k] = CHOOSE r \in S : Cardinality(before(r)) = k - 1
    BY DEF InOrder
  <2>4. InOrder(S)[k] \in S /\ Cardinality(before(InOrder(S)[k])) = k - 1
    BY <2>2, <2>3
  <2> QED
    BY <2>4 DEF f
<1>9. DOMAIN InOrder(S) = 1 .. n
  BY DEF InOrder
<1>10. InOrder(S) = [k \in 1 .. n |-> InOrder(S)[k]]
  <2> DEFINE pick(k) == CHOOSE r \in S : Cardinality(before(r)) = k - 1
  <2>1. InOrder(S) = [k \in 1 .. n |-> pick(k)]
    BY DEF InOrder
  <2> HIDE DEF pick, n
  <2> QED
    BY <2>1
<1>11. InOrder(S) \in Seq(S) /\ Len(InOrder(S)) = n
  <2> DEFINE o == InOrder(S)
  <2>1. o = [k \in 1 .. n |-> o[k]] /\ \A k \in 1 .. n : o[k] \in S
    BY <1>8, <1>10
  <2> HIDE DEF o, n
  <2>2. o \in [1 .. n -> S]
    BY <2>1
  <2>3. o \in Seq(S) /\ Len(o) = n
    BY <1>1, <2>2
  <2> QED
    BY <2>3 DEF o
<1>12. ASSUME NEW i \in 1 .. n, NEW j \in 1 .. n, i < j
       PROVE  Before(InOrder(S)[i], InOrder(S)[j])
  <2>1. f[InOrder(S)[i]] < f[InOrder(S)[j]]
    BY <1>1, <1>8, <1>12
  <2>2. InOrder(S)[i] # InOrder(S)[j] /\ ~(f[InOrder(S)[j]] < f[InOrder(S)[i]])
    BY <1>1, <1>8, <1>12
  <2> QED
    BY <1>2, <1>5, <1>8, <2>2
<1> QED
  BY <1>9, <1>11, <1>12

(* At most one of two fields is given when at most one of several is.         *)
LEMMA OneGiven ==
    ASSUME NEW r, NEW fields, IsFiniteSet(fields), Cardinality(Given(r, fields)) <= 1,
           NEW f \in fields, NEW g \in fields, f # g
    PROVE  r[f] = None \/ r[g] = None
<1> SUFFICES ASSUME r[f] # None, r[g] # None PROVE FALSE
  OBVIOUS
<1>1. {f, g} \subseteq Given(r, fields) /\ IsFiniteSet(Given(r, fields))
  <2>1. Given(r, fields) \subseteq fields /\ {f, g} \subseteq Given(r, fields)
    BY DEF Given
  <2> QED
    BY <2>1, FS_Subset, Zenon
<1>2. Cardinality({f}) = 1 /\ IsFiniteSet({f})
  BY FS_Singleton
<1>3. Cardinality({f} \cup {g}) = 2
  <2>1. g \notin {f}
    OBVIOUS
  <2>2. Cardinality({f} \cup {g}) = Cardinality({f}) + 1
    BY <1>2, <2>1, FS_AddElement, Zenon
  <2> QED
    BY <1>2, <2>2
<1>4. Cardinality({f, g}) <= Cardinality(Given(r, fields))
  BY <1>1, FS_Subset
<1>5. {f} \cup {g} = {f, g}
  OBVIOUS
<1>6. Cardinality(Given(r, fields)) \in Nat
  BY <1>1, FS_CardinalityType
<1> QED
  BY <1>3, <1>4, <1>5, <1>6

(* A git table that PackageSource::from_raw lets through has no path and at   *)
(* most one of rev, branch and tag: the ref that names its cache directory is *)
(* the one to be checked out.                                                 *)
LEMMA GitFits ==
    ASSUME NEW r \in Table, SourceOk(r), r.git # None
    PROVE  /\ SourceOf(r) \in Sourced
           /\ Label(SourceOf(r)) \in Refs \cup {None}
           /\ CheckoutRef(SourceOf(r)) = Label(SourceOf(r))
<1>1. r \in Raw /\ r.git \in Urls /\ r.rev \in Refs \cup {None}
      /\ r.branch \in Branches \cup {None} /\ r.tag \in Tags \cup {None}
  BY DEF Table
<1>2. r.path = None
  <2>1. IsFiniteSet({"path"} \cup {"git"})
    BY FS_Singleton, FS_AddElement
  <2>2. {"path"} \cup {"git"} = {"path", "git"}
    OBVIOUS
  <2>3. r["path"] = None \/ r["git"] = None
    BY <2>1, <2>2, OneGiven DEF SourceOk
  <2> QED
    BY <2>3
<1>3. SourceOf(r) = [kind |-> "git", at |-> r.git, rev |-> r.rev, branch |-> r.branch,
                     tag |-> r.tag, subdir |-> r.subdir]
  BY <1>2 DEF SourceOf
<1>4. (r.rev = None \/ r.branch = None) /\ (r.rev = None \/ r.tag = None)
      /\ (r.branch = None \/ r.tag = None)
  <2>1. IsFiniteSet({"rev"} \cup {"branch"} \cup {"tag"})
    BY FS_Singleton, FS_AddElement
  <2>2. {"rev"} \cup {"branch"} \cup {"tag"} = {"rev", "branch", "tag"}
    OBVIOUS
  <2>3. Cardinality(Given(r, {"rev", "branch", "tag"})) <= 1
    BY DEF SourceOk
  <2>4. \A f, g \in {"rev", "branch", "tag"} : f # g => r[f] = None \/ r[g] = None
    BY <2>1, <2>2, <2>3, OneGiven
  <2> QED
    BY <2>4
<1>5. SourceOf(r) \in Sourced
  BY <1>1, <1>3 DEF Sourced, Raw
<1>6. /\ Label(SourceOf(r)) = FirstGiven(r.rev, r.branch, r.tag)
      /\ CheckoutRef(SourceOf(r)) = FirstGiven(r.rev, r.tag, r.branch)
  BY <1>3 DEF Label, CheckoutRef
<1> QED
  BY <1>1, <1>4, <1>5, <1>6 DEF Refs, FirstGiven

(* The tables of an accepted config: finitely many, of different ids.         *)
LEMMA TablesFit ==
    ASSUME NEW c \in RawConfigs, Accepted(c)
    PROVE  /\ Tables(c) \subseteq Table /\ IsFiniteSet(Tables(c))
           /\ \A r, s \in Tables(c) : r.id = s.id => r = s
           /\ \A r \in Tables(c) : SourceOk(r) /\ r.id \in Ids
<1>1. CASE c.format = "single-crate"
  <2>1. Tables(c) = {c.package} /\ c.package \in Table
    BY <1>1, TomlAssumption DEF Tables, Accepted, SectionsOk
  <2> QED
    BY <2>1, FS_Singleton DEF Accepted, Table, Raw
<1>2. CASE c.format # "single-crate"
  <2>1. Tables(c) = c.packages
    BY <1>2 DEF Tables
  <2> QED
    BY <2>1, TomlAssumption DEF Accepted, Table, Raw
<1> QED
  BY <1>1, <1>2

(* The git entries of a config that is loaded are pins of the machine.        *)
LEMMA GitSourcesFit ==
    ASSUME NEW c \in RawConfigs, Accepted(c)
    PROVE  GitSources(c) \in Seq(Pins)
<1> DEFINE G == {r \in Tables(c) : r.git # None}
           g == InOrder(G)
<1>1. G \subseteq Tables(c) /\ IsFiniteSet(Tables(c))
      /\ (\A r \in Tables(c) : r.id \in Ids)
      /\ (\A r, s \in Tables(c) : r.id = s.id => r = s)
  BY TablesFit
<1>2. IsFiniteSet(G)
  BY <1>1, FS_Subset
<1>3. g \in Seq(G)
  <2> HIDE DEF G
  <2> QED
    BY <1>1, <1>2, InOrderLists
<1>4. GitSources(c) = [i \in DOMAIN g |-> SourceOf(g[i])]
  BY DEF GitSources
<1> HIDE DEF G, g
<1>5. DOMAIN g = 1 .. Len(g) /\ Len(g) \in Nat
  BY <1>3
<1>6. \A i \in 1 .. Len(g) : GitSources(c)[i] \in Pins
  BY <1>4, <1>5 DEF Pins, ToSet
<1> QED
  BY <1>4, <1>5, <1>6

(* What is known of the pins.                                                 *)
LEMMA PinsFit ==
    ASSUME NEW s \in Pins
    PROVE  /\ s \in Sourced
           /\ Label(s) \in Refs \cup {None}
           /\ CheckoutRef(s) = Label(s)
           /\ CacheDir(s) \in Dirs
<1>1. PICK c \in RawConfigs : Accepted(c) /\ s \in ToSet(GitSources(c))
  BY DEF Pins
<1> DEFINE G == {r \in Tables(c) : r.git # None}
           g == InOrder(G)
<1>2. IsFiniteSet(G)
  BY <1>1, TablesFit, FS_Subset
<1>3. g \in Seq(G)
  <2>1. (\A r \in G : r.id \in Ids) /\ (\A r, t \in G : r.id = t.id => r = t)
    BY <1>1, TablesFit
  <2> HIDE DEF G
  <2> QED
    BY <1>2, <2>1, InOrderLists
<1>4. PICK i \in DOMAIN g : s = SourceOf(g[i])
  BY <1>1 DEF GitSources, ToSet
<1>5. g[i] \in G
  BY <1>3, <1>4
<1>6. /\ s \in Sourced
      /\ Label(s) \in Refs \cup {None}
      /\ CheckoutRef(s) = Label(s)
  BY <1>1, <1>4, <1>5, TablesFit, GitFits
<1> QED
  BY <1>6 DEF CacheDir, Dirs, Sourced
-----------------------------------------------------------------------------
(* The inductive invariant                                                    *)

\* What a directory d of MOVE_HOME may hold: the clone of a repository that a pin
\* with this directory names, in which each name stands for a commit that it named
\* upstream, and a local name for one; its files are those of the ref it is for.
Sound(d, dir) ==
    /\ dir \in Dir
    /\ dir.git = "no" => dir = Absent
    /\ dir.git # "no" => \E s \in Pins : CacheDir(s) = d /\ s.at = dir.origin
    /\ \A n \in dir.local \cup dir.tracked : n.commit \in EverNamed(dir.origin, n.name)
    /\ \A c \in dir.has : c[2] \in Refs /\ c \in EverNamed(dir.origin, c[2])
    /\ dir.files # None => dir.files \in EverNamed(dir.origin, d[2])
    /\ \A m, n \in dir.local : m.name = n.name => m = n

\* A commit that a finished clone goes on to check out for a ref: that of its
\* local name, or that of a commit id.
Settled(dir, ref, commit) ==
    /\ dir.git = "whole"
    /\ IF ref \in Revs THEN commit = <<dir.origin, ref, 0>>
                       ELSE [name |-> ref, commit |-> commit] \in dir.local

\* What an install relies on at a point of an entry, unless it joined a clone that
\* was not finished.
Relies(where, s, unfinished, dir) ==
    /\ where = "cloning" => dir.git = "half" /\ dir.origin = s.at
    /\ where \in {"checkout", "copy"} /\ ~unfinished => dir.git = "whole"
    /\ where = "copy" /\ ~unfinished /\ dir.files # None => Settled(dir, Label(s), dir.files)

Busy == {"clone", "cloning", "fetch", "checkout", "copy"}

Loaded == \A p \in Procs : left[p] \in Seq(Pins)

Caches == \A d \in Dirs : Sound(d, cache[d])

Installing == \A p \in Procs : spot[p] \in Busy =>
    /\ left[p] # <<>> /\ Label(Entry(p)) # None
    /\ Relies(spot[p], Entry(p), joined[p], Here(p))

OneCloner == \A p, q \in Procs :
    spot[p] = "cloning" /\ spot[q] = "cloning" /\ CacheDir(Entry(p)) = CacheDir(Entry(q)) => p = q

\* What the record of an install's copies holds.
Copied == [source : Sourced, commit : Commits, joined : BOOLEAN]

\* What was copied, and what a directory still shows of it.
Copies == \A p \in Procs : \A x \in copied[p] :
    /\ x.source \in Pins
    /\ \E s \in Pins : SameDir(s, x.source) /\ x.commit \in EverNamed(s.at, CheckoutRef(s))
    /\ ~x.joined => Settled(cache[CacheDir(x.source)], Label(x.source), x.commit)

SourcesInv ==
    SourcesTypeOK /\ Loaded /\ Caches /\ Installing /\ OneCloner /\ Copies

-----------------------------------------------------------------------------
(* What a step does to one directory                                          *)

\* What survives a step that makes after of before, if no clone ends by it.
Later(d, before, after) ==
    /\ before.git \in {"half", "whole"} => after.git = before.git /\ after.origin = before.origin
    /\ before.git = "whole" => before.local \subseteq after.local
    /\ after.files = before.files \/ (before.git = "whole" => Settled(after, d[2], after.files))

\* The directory of a pin is named after its URL and its ref, and its ref is checked out.
LEMMA RefOfDir ==
    ASSUME NEW s \in Pins
    PROVE  CacheDir(s)[1] = Dirname[s.at] /\ CacheDir(s)[2] = Label(s) /\ CheckoutRef(s) = Label(s)
BY PinsFit DEF CacheDir

\* Commits that a ref named are commits it has named at any later time.
LEMMA NamedForGood ==
    ASSUME SourcesTypeOK, tip' \in [Urls -> [Branches -> 0 .. MaxPush]],
           \A u \in Urls, b \in Branches : tip[u][b] <= tip'[u][b]
    PROVE  /\ \A u \in Urls : \A ref, c : c \in EverNamed(u, ref) => c \in EverNamed(u, ref)'
           /\ \A d, dir : Sound(d, dir) => Sound(d, dir)'
<1>1. ASSUME NEW u \in Urls, NEW ref, NEW c, c \in EverNamed(u, ref)
      PROVE  c \in EverNamed(u, ref)'
  <2>1. CASE ref \in Branches
    <3>1. tip[u][ref] \in Nat /\ tip'[u][ref] \in Nat /\ tip[u][ref] <= tip'[u][ref]
      BY <2>1, UpstreamAssumption DEF SourcesTypeOK
    <3>2. \A n \in 0 .. tip[u][ref] : n \in 0 .. tip'[u][ref]
      BY <3>1
    <3> QED
      BY <1>1, <2>1, <3>2 DEF EverNamed
  <2>2. CASE ref \notin Branches
    BY <1>1, <2>2 DEF EverNamed
  <2> QED
    BY <2>1, <2>2
<1>2. ASSUME NEW d, NEW dir, Sound(d, dir) PROVE Sound(d, dir)'
  <2>1. CASE dir.git = "no"
    <3>1. dir = Absent
      BY <1>2, <2>1 DEF Sound
    <3> QED
      BY <1>2, <2>1, <3>1 DEF Sound, Absent
  <2>2. CASE dir.git # "no"
    <3>1. dir.origin \in Urls
      BY <1>2, <2>2, PinsFit DEF Sound, Sourced
    <3> QED
      BY <1>1, <1>2, <2>2, <3>1 DEF Sound
  <2> QED
    BY <2>1, <2>2
<1> QED
  BY <1>1, <1>2

\* What a directory kept of a commit, and what the other installs rely on.
LEMMA LaterKeeps ==
    ASSUME NEW d, NEW before, NEW after, Later(d, before, after)
    PROVE  /\ \A ref, c : Settled(before, ref, c) => Settled(after, ref, c)
           /\ \A where, s, j : Label(s) = d[2] /\ Relies(where, s, j, before)
                 => Relies(where, s, j, after)
<1>1. \A ref, c : Settled(before, ref, c) => Settled(after, ref, c)
  BY DEF Later, Settled
<1>2. ASSUME NEW where, NEW s, NEW j, Label(s) = d[2], Relies(where, s, j, before)
      PROVE  Relies(where, s, j, after)
  BY <1>1, <1>2 DEF Later, Relies
<1> QED
  BY <1>1, <1>2

\* Nobody else clones into a directory or relies on what a clone left in it.
LEMMA OwnClone ==
    ASSUME SourcesInv, NEW p \in Procs, spot[p] = "cloning"
    PROVE  /\ Here(p).git = "half"
           /\ \A q \in Procs \ {p} : \A after : spot[q] \in Busy /\ CacheDir(Entry(q)) = CacheDir(Entry(p))
                 => Relies(spot[q], Entry(q), joined[q], after)
           /\ \A q \in Procs : \A x \in copied[q] :
                 ~x.joined => CacheDir(x.source) # CacheDir(Entry(p))
<1>1. Here(p).git = "half"
  BY DEF SourcesInv, Installing, Busy, Relies
<1>2. ASSUME NEW q \in Procs \ {p}, NEW after, spot[q] \in Busy,
             CacheDir(Entry(q)) = CacheDir(Entry(p))
      PROVE  Relies(spot[q], Entry(q), joined[q], after)
  <2>1. spot[q] # "cloning"
    BY <1>2 DEF SourcesInv, OneCloner
  <2>2. Here(q) = Here(p)
    BY <1>2 DEF Here
  <2>3. Relies(spot[q], Entry(q), joined[q], Here(q))
    BY <1>2 DEF SourcesInv, Installing
  <2> QED
    BY <1>1, <2>1, <2>2, <2>3 DEF Relies
<1>3. \A q \in Procs : \A x \in copied[q] :
         ~x.joined => CacheDir(x.source) # CacheDir(Entry(p))
  BY <1>1 DEF SourcesInv, Copies, Settled, Here
<1> QED
  BY <1>1, <1>2, <1>3

\* The entry an install is at.
LEMMA AtEntry ==
    ASSUME SourcesInv, NEW p \in Procs, left[p] # <<>>
    PROVE  /\ Entry(p) \in Pins /\ Entry(p) \in Sourced /\ CacheDir(Entry(p)) \in Dirs
           /\ CacheDir(Entry(p))[2] = Label(Entry(p)) /\ CheckoutRef(Entry(p)) = Label(Entry(p))
           /\ Label(Entry(p)) # None => Label(Entry(p)) \in Refs
           /\ Sound(CacheDir(Entry(p)), Here(p))
<1>1. Entry(p) \in Pins
  BY DEF SourcesInv, Loaded, Entry
<1> QED
  BY <1>1, PinsFit, RefOfDir DEF SourcesInv, Caches, Here

\* A step of an install that moves on with its entry and leaves the directory as
\* a sound one.
LEMMA MovesOn ==
    ASSUME SourcesInv, NEW p \in Procs, spot[p] \in Busy, NEW where \in Busy \cup {"failed"},
           NEW after, Sound(CacheDir(Entry(p)), after),
           UNCHANGED <<tip, left, copied, runs>>, deaths' \in 0 .. MaxDeaths,
           spot' = [spot EXCEPT ![p] = where], joined' \in [Procs -> BOOLEAN],
           \A q \in Procs \ {p} : joined'[q] = joined[q],
           cache' = [cache EXCEPT ![CacheDir(Entry(p))] = after],
           \/ Later(CacheDir(Entry(p)), Here(p), after)
           \/ spot[p] = "cloning",
           where = "cloning" => Here(p).git = "no",
           where # "failed" => Relies(where, Entry(p), joined'[p], after)
    PROVE  SourcesInv'
<1> DEFINE d == CacheDir(Entry(p))
<1>1. \A q \in Procs : spot[q] \in Busy =>
        /\ left[q] # <<>> /\ Label(Entry(q)) # None
        /\ CacheDir(Entry(q)) \in Dirs /\ CacheDir(Entry(q))[2] = Label(Entry(q))
        /\ Relies(spot[q], Entry(q), joined[q], Here(q))
  BY AtEntry DEF SourcesInv, Installing
<1>2. d \in Dirs /\ Here(p) = cache[d]
  BY <1>1 DEF Here
<1>3. /\ cache'[d] = after /\ \A e \in Dirs \ {d} : cache'[e] = cache[e]
      /\ cache' \in [Dirs -> Dir]
  BY <1>2 DEF SourcesInv, SourcesTypeOK, Sound
<1>4. spot'[p] = where /\ \A q \in Procs \ {p} : spot'[q] = spot[q]
  BY DEF SourcesInv, SourcesTypeOK
<1>5. \A q \in Procs : Entry(q)' = Entry(q) /\ Here(q)' = cache'[CacheDir(Entry(q))]
  BY DEF Entry, Here, CacheDir, Label
<1> HIDE DEF d
<1>6. SourcesTypeOK'
  BY <1>3 DEF SourcesInv, SourcesTypeOK, Busy
<1>7. Loaded'
  BY DEF SourcesInv, Loaded
<1>8. /\ \A e, dir : Sound(e, dir) => Sound(e, dir)'
      /\ \A u \in Urls : \A ref, c : c \in EverNamed(u, ref) => c \in EverNamed(u, ref)'
  <2>1. tip' \in [Urls -> [Branches -> 0 .. MaxPush]]
        /\ \A u \in Urls, b \in Branches : tip[u][b] <= tip'[u][b]
    BY DEF SourcesInv, SourcesTypeOK
  <2> QED
    BY <2>1, NamedForGood DEF SourcesInv
<1>9. Caches'
  <2> SUFFICES ASSUME NEW e \in Dirs PROVE Sound(e, cache[e])'
    BY DEF Caches
  <2>1. \A dir : dir = cache'[e] => Sound(e, dir)'
    BY <1>3, <1>8, d = CacheDir(Entry(p)) DEF SourcesInv, Caches, d
  <2> QED
    BY <2>1 DEF Sound
<1>10. ASSUME NEW q \in Procs, spot'[q] \in Busy
       PROVE  /\ left[q] # <<>> /\ Label(Entry(q)) # None
              /\ Relies(spot'[q], Entry(q), joined'[q], cache'[CacheDir(Entry(q))])
  <2>1. CASE q = p
    BY <1>1, <1>3, <1>4, <1>10, <2>1 DEF Busy, d
  <2>2. CASE q # p /\ CacheDir(Entry(q)) # d
    BY <1>1, <1>3, <1>4, <1>10, <2>2 DEF Here
  <2>3. CASE q # p /\ CacheDir(Entry(q)) = d /\ Later(d, Here(p), after)
    <3>1. Here(q) = Here(p) /\ spot[q] \in Busy
      BY <1>2, <1>4, <1>10, <2>3 DEF Here
    <3> QED
      BY <1>1, <1>3, <1>4, <2>3, <3>1, LaterKeeps
  <2>4. CASE q # p /\ CacheDir(Entry(q)) = d /\ spot[p] = "cloning"
    BY <1>1, <1>4, <1>10, <2>4, OwnClone DEF d
  <2> QED
    BY <2>1, <2>2, <2>3, <2>4 DEF d
<1>11. Installing'
  <2>1. \A q \in Procs : Relies(spot'[q], Entry(q), joined'[q], cache'[CacheDir(Entry(q))])
                           => Relies(spot[q], Entry(q), joined[q], Here(q))'
    BY <1>5 DEF Relies, Settled, Label
  <2>2. \A q \in Procs : (Label(Entry(q)) # None => (Label(Entry(q)) # None)')
                         /\ (left[q] # <<>> => (left[q] # <<>>)')
    BY <1>5 DEF Label
  <2> QED
    BY <1>10, <2>1, <2>2 DEF Installing
<1>12. OneCloner'
  <2>1. \A q \in Procs \ {p} :
          spot[q] = "cloning" /\ CacheDir(Entry(q)) = d => Here(p).git = "half"
    BY <1>1, <1>2 DEF Busy, Relies, Here
  <2>2. ASSUME NEW q \in Procs, NEW r \in Procs, spot'[q] = "cloning", spot'[r] = "cloning",
               CacheDir(Entry(q)) = CacheDir(Entry(r))
        PROVE  q = r
    <3>1. CASE q # p /\ r # p
      BY <1>4, <2>2, <3>1 DEF SourcesInv, OneCloner
    <3>2. CASE q = p /\ r # p
      BY <1>4, <2>1, <2>2, <3>2 DEF d
    <3>3. CASE q # p /\ r = p
      BY <1>4, <2>1, <2>2, <3>3 DEF d
    <3> QED
      BY <3>1, <3>2, <3>3
  <2>3. \A q \in Procs : CacheDir(Entry(q))' = CacheDir(Entry(q))
    BY DEF Entry, CacheDir, Label
  <2> QED
    BY <2>2, <2>3 DEF OneCloner
<1>13. Copies'
  <2> SUFFICES ASSUME NEW q \in Procs, NEW x \in copied[q]
               PROVE  /\ x.source \in Pins
                      /\ \E s \in Pins :
                            SameDir(s, x.source) /\ x.commit \in EverNamed(s.at, CheckoutRef(s))'
                      /\ ~x.joined => Settled(cache'[CacheDir(x.source)], Label(x.source), x.commit)
    BY DEF Copies, Settled
  <2>1. \E s \in Pins : SameDir(s, x.source) /\ x.commit \in EverNamed(s.at, CheckoutRef(s))'
    BY <1>8, PinsFit DEF SourcesInv, Copies, Sourced
  <2>2. x.source \in Pins /\ CacheDir(x.source) \in Dirs
        /\ (~x.joined => Settled(cache[CacheDir(x.source)], Label(x.source), x.commit))
    BY PinsFit DEF SourcesInv, Copies
  <2>3. ASSUME ~x.joined, CacheDir(x.source) = d
        PROVE  Settled(cache'[CacheDir(x.source)], Label(x.source), x.commit)
    <3>1. Later(d, Here(p), after)
      BY <2>3, OwnClone DEF d
    <3> QED
      BY <1>2, <1>3, <2>2, <2>3, <3>1, LaterKeeps
  <2> QED
    BY <1>3, <2>1, <2>2, <2>3
<1> QED
  BY <1>6, <1>7, <1>9, <1>11, <1>12, <1>13 DEF SourcesInv

\* A step of an install at which it leaves the cache alone and looks at another
\* entry, or at none.
LEMMA Rests ==
    ASSUME SourcesInv, NEW p \in Procs, UNCHANGED <<tip, deaths, cache>>, runs' \in 0 .. MaxRuns,
           NEW where \in {"idle", "refused", "resolve", "clone", "fetch", "done", "failed"},
           spot' = [spot EXCEPT ![p] = where],
           left' \in [Procs -> Seq(Pins)],
           joined' \in [Procs -> BOOLEAN],
           \A q \in Procs \ {p} : left'[q] = left[q] /\ joined'[q] = joined[q],
           where \in Busy => left'[p] = left[p] /\ left[p] # <<>> /\ Label(Entry(p)) # None,
           copied' = copied \/ (Copies' /\ copied' \in [Procs -> SUBSET Copied])
    PROVE  SourcesInv'
<1>1. spot'[p] = where /\ \A q \in Procs \ {p} : spot'[q] = spot[q]
  BY DEF SourcesInv, SourcesTypeOK
<1>2. SourcesTypeOK'
  <2>1. left' \in [Procs -> Seq(Sourced)]
    <3>1. Pins \subseteq Sourced
      BY PinsFit
    <3>2. Seq(Pins) \subseteq Seq(Sourced)
      BY <3>1
    <3> QED
      BY <3>2
  <2>2. copied' \in [Procs -> SUBSET Copied]
    BY DEF SourcesInv, SourcesTypeOK, Copied
  <2> QED
    BY <2>1, <2>2 DEF SourcesInv, SourcesTypeOK, Copied
<1>3. Loaded'
  BY DEF SourcesInv, Loaded
<1>4. Caches'
  <2>1. tip' \in [Urls -> [Branches -> 0 .. MaxPush]]
        /\ \A u \in Urls, b \in Branches : tip[u][b] <= tip'[u][b]
    BY DEF SourcesInv, SourcesTypeOK
  <2>2. \A d, dir : Sound(d, dir) => Sound(d, dir)'
    BY <2>1, NamedForGood DEF SourcesInv
  <2> SUFFICES ASSUME NEW d \in Dirs PROVE Sound(d, cache[d])'
    BY DEF Caches
  <2>3. \A dir : dir = cache'[d] => Sound(d, dir)'
    BY <2>2 DEF SourcesInv, Caches
  <2> QED
    BY <2>3 DEF Sound
<1>5. \A q \in Procs \ {p} : /\ (Entry(q))' = Entry(q) /\ (CacheDir(Entry(q)))' = CacheDir(Entry(q))
                             /\ (Here(q))' = Here(q) /\ (Label(Entry(q)))' = Label(Entry(q))
  BY DEF Entry, Here, CacheDir, Label
<1>6. Installing'
  <2> SUFFICES ASSUME NEW q \in Procs, spot'[q] \in Busy
               PROVE  (left[q] # <<>> /\ Label(Entry(q)) # None
                        /\ Relies(spot[q], Entry(q), joined[q], Here(q)))'
    BY DEF Installing
  <2>1. CASE q = p
    <3>1. where \in {"clone", "fetch"}
      BY <1>1, <2>1 DEF Busy
    <3>2. left'[p] = left[p] /\ left[p] # <<>> /\ (Label(Entry(p)))' = Label(Entry(p))
      BY <1>1, <2>1 DEF Entry, Label
    <3> QED
      BY <1>1, <2>1, <3>1, <3>2 DEF Relies, Busy
  <2>2. CASE q # p
    <3>1. spot[q] \in Busy /\ spot'[q] = spot[q] /\ left'[q] = left[q] /\ joined'[q] = joined[q]
      BY <1>1, <2>2
    <3>2. left[q] # <<>> /\ Label(Entry(q)) # None
            /\ Relies(spot[q], Entry(q), joined[q], Here(q))
      BY <3>1 DEF SourcesInv, Installing
    <3> QED
      BY <1>5, <2>2, <3>1, <3>2 DEF Relies, Settled
  <2> QED
    BY <2>1, <2>2
<1>7. OneCloner'
  <2>1. \A q \in Procs : spot'[q] = "cloning" => q # p /\ spot[q] = "cloning"
    BY <1>1
  <2> QED
    BY <1>5, <2>1 DEF SourcesInv, OneCloner
<1>8. Copies'
  BY DEF SourcesInv, Copies, Settled, SameDir, EverNamed, CheckoutRef, CacheDir, Label, Pins
<1> QED
  BY <1>2, <1>3, <1>4, <1>6, <1>7, <1>8 DEF SourcesInv

-----------------------------------------------------------------------------
(* The steps                                                                  *)

\* A config is or refused.
LEMMA LoadKeeps ==
    ASSUME SourcesInv, NEW p \in Procs, Load(p)
    PROVE  SourcesInv'
<1>1. /\ UNCHANGED <<tip, deaths, cache, joined, copied>> /\ runs < MaxRuns /\ runs' = runs + 1
      /\ \E c \in RawConfigs :
            IF Accepted(c)
            THEN /\ left' = [left EXCEPT ![p] = GitSources(c)]
                 /\ spot' = [spot EXCEPT ![p] = "resolve"]
            ELSE /\ spot' = [spot EXCEPT ![p] = "refused"]
                 /\ UNCHANGED left
  BY DEF Load, Goto
<1>2. runs' \in 0 .. MaxRuns
  BY <1>1, UpstreamAssumption DEF SourcesInv, SourcesTypeOK
<1>3. left \in [Procs -> Seq(Pins)] /\ joined \in [Procs -> BOOLEAN]
  BY DEF SourcesInv, SourcesTypeOK, Loaded
<1>4. CASE spot' = [spot EXCEPT ![p] = "refused"] /\ UNCHANGED left
  BY <1>1, <1>2, <1>3, <1>4, Rests DEF Busy
<1>5. ASSUME NEW c \in RawConfigs, Accepted(c),
             left' = [left EXCEPT ![p] = GitSources(c)],
             spot' = [spot EXCEPT ![p] = "resolve"]
      PROVE  SourcesInv'
  <2>1. GitSources(c) \in Seq(Pins)
    BY <1>5, GitSourcesFit
  <2>2. left' \in [Procs -> Seq(Pins)]
    BY <1>3, <1>5, <2>1
  <2>3. \A q \in Procs \ {p} : left'[q] = left[q]
    BY <1>3, <1>5
  <2> QED
    BY <1>1, <1>2, <1>3, <1>5, <2>2, <2>3, Rests DEF Busy
<1> QED
  BY <1>1, <1>4, <1>5

\* An entry is finished, passed over, or its way through the cache is decided.
LEMMA EntryKeeps ==
    ASSUME SourcesInv, NEW p \in Procs, Finish(p) \/ NoPin(p) \/ Reuse(p) \/ Decide(p)
    PROVE  SourcesInv'
<1>1. /\ UNCHANGED <<tip, deaths, runs, cache, left, joined, copied>>
      /\ \E where \in {"done", "failed", "fetch", "clone"} :
            /\ spot' = [spot EXCEPT ![p] = where]
            /\ where \in Busy => left[p] # <<>> /\ Label(Entry(p)) # None
  BY DEF Finish, NoPin, Reuse, Decide, Goto, world, Busy
<1>2. /\ left \in [Procs -> Seq(Pins)]
      /\ joined \in [Procs -> BOOLEAN] /\ runs \in 0 .. MaxRuns
  BY DEF SourcesInv, SourcesTypeOK, Loaded
<1> QED
  BY <1>1, <1>2, Rests

\* A process forgets what it did and starts anew.
LEMMA AgainKeeps ==
    ASSUME SourcesInv, NEW p \in Procs, Again(p)
    PROVE  SourcesInv'
<1>1. /\ UNCHANGED <<tip, deaths, runs, cache>> /\ spot' = [spot EXCEPT ![p] = "idle"]
      /\ left' = [left EXCEPT ![p] = <<>>] /\ copied' = [copied EXCEPT ![p] = {}]
      /\ joined' = [joined EXCEPT ![p] = FALSE]
  BY DEF Again, Goto, world
<1>2. /\ left \in [Procs -> Seq(Pins)] /\ copied \in [Procs -> SUBSET Copied]
      /\ joined \in [Procs -> BOOLEAN] /\ runs \in 0 .. MaxRuns
  BY DEF SourcesInv, SourcesTypeOK, Loaded, Copied
<1>3. left' \in [Procs -> Seq(Pins)] /\ joined' \in [Procs -> BOOLEAN]
  BY <1>1, <1>2
<1>4. \A q \in Procs \ {p} : left'[q] = left[q] /\ joined'[q] = joined[q]
  BY <1>1, <1>2
<1>5. copied' \in [Procs -> SUBSET Copied] /\ \A q \in Procs : copied'[q] \subseteq copied[q]
  BY <1>1, <1>2
<1>6. Copies'
  <2>1. \A u, ref : EverNamed(u, ref)' = EverNamed(u, ref)
    BY <1>1 DEF EverNamed
  <2> SUFFICES ASSUME NEW q \in Procs, NEW x \in copied[q]
               PROVE  /\ x.source \in Pins
                      /\ \E s \in Pins :
                            SameDir(s, x.source) /\ x.commit \in EverNamed(s.at, CheckoutRef(s))'
                      /\ ~x.joined => Settled(cache[CacheDir(x.source)], Label(x.source), x.commit)
    BY <1>1, <1>5 DEF Copies, Settled
  <2> QED
    BY <2>1 DEF SourcesInv, Copies
<1> QED
  BY <1>1, <1>2, <1>3, <1>4, <1>5, <1>6, Rests DEF Busy

\* What is copied is what the ref of the directory named in the repository that
\* the directory is a clone of.
LEMMA CopyKeeps ==
    ASSUME SourcesInv, NEW p \in Procs, Copy(p)
    PROVE  SourcesInv'
<1> DEFINE s == Entry(p)
           x == [source |-> s, commit |-> Here(p).files, joined |-> joined[p]]
<1>1. /\ spot[p] = "copy" /\ Here(p).files # None
      /\ copied' = [copied EXCEPT ![p] = @ \cup {x}]
      /\ left' = [left EXCEPT ![p] = Tail(@)] /\ spot' = [spot EXCEPT ![p] = "resolve"]
      /\ UNCHANGED <<tip, deaths, runs, cache, joined>>
  BY DEF Copy, Goto, world
<1>2. /\ left \in [Procs -> Seq(Pins)] /\ copied \in [Procs -> SUBSET Copied]
      /\ joined \in [Procs -> BOOLEAN] /\ runs \in 0 .. MaxRuns
  BY DEF SourcesInv, SourcesTypeOK, Loaded, Copied
<1>3. left[p] # <<>> /\ Relies("copy", s, joined[p], Here(p))
  BY <1>1 DEF SourcesInv, Installing, Busy
<1>4. /\ s \in Pins /\ s \in Sourced /\ CacheDir(s)[2] = Label(s)
      /\ Sound(CacheDir(s), Here(p)) /\ Here(p) = cache[CacheDir(s)]
  BY <1>3, AtEntry DEF Here
<1>5. left' \in [Procs -> Seq(Pins)] /\ \A q \in Procs \ {p} : left'[q] = left[q]
  BY <1>1, <1>2, <1>3
<1>6. Here(p).git # "no"
  BY <1>1, <1>4 DEF Sound, Absent
<1>7. PICK t \in Pins : CacheDir(t) = CacheDir(s) /\ t.at = Here(p).origin
  BY <1>4, <1>6 DEF Sound
<1>8. SameDir(t, s) /\ Here(p).files \in EverNamed(t.at, CheckoutRef(t))
  BY <1>1, <1>4, <1>7, RefOfDir DEF SameDir, Sound
<1>9. x \in Copied
  BY <1>1, <1>2, <1>4 DEF Sound, Dir, Copied
<1>10. ~joined[p] => Settled(cache[CacheDir(s)], Label(s), Here(p).files)
  BY <1>1, <1>3, <1>4 DEF Relies
<1>11. x.source = s /\ x.commit = Here(p).files /\ x.joined = joined[p]
  OBVIOUS
<1> HIDE DEF x, s
<1>12. \A q \in Procs : \A y \in copied'[q] :
          /\ y.source \in Pins
          /\ \E u \in Pins : SameDir(u, y.source) /\ y.commit \in EverNamed(u.at, CheckoutRef(u))
          /\ ~y.joined => Settled(cache[CacheDir(y.source)], Label(y.source), y.commit)
  <2> SUFFICES ASSUME NEW q \in Procs, NEW y \in copied'[q]
               PROVE  /\ y.source \in Pins
                      /\ \E u \in Pins :
                            SameDir(u, y.source) /\ y.commit \in EverNamed(u.at, CheckoutRef(u))
                      /\ ~y.joined => Settled(cache[CacheDir(y.source)], Label(y.source), y.commit)
    OBVIOUS
  <2>1. CASE y \in copied[q]
    BY <2>1 DEF SourcesInv, Copies
  <2>2. CASE y = x
    BY <1>4, <1>8, <1>10, <1>11, <2>2
  <2> QED
    BY <1>1, <1>2, <2>1, <2>2
<1>13. Copies'
  <2>1. \A u, ref : EverNamed(u, ref)' = EverNamed(u, ref)
    BY <1>1 DEF EverNamed
  <2> SUFFICES ASSUME NEW q \in Procs, NEW y \in copied'[q]
               PROVE  /\ y.source \in Pins
                      /\ \E u \in Pins :
                            SameDir(u, y.source) /\ y.commit \in EverNamed(u.at, CheckoutRef(u))'
                      /\ ~y.joined => Settled(cache'[CacheDir(y.source)], Label(y.source), y.commit)
    BY DEF Copies, Settled
  <2> QED
    BY <1>1, <1>12, <2>1
<1>14. copied' \in [Procs -> SUBSET Copied]
  BY <1>1, <1>2, <1>9
<1> QED
  BY <1>1, <1>2, <1>5, <1>13, <1>14, Rests DEF Busy

\* What the ref of an entry names, and its type.
LEMMA NamedFits ==
    ASSUME SourcesTypeOK, NEW u \in Urls, NEW ref \in Refs
    PROVE  /\ Named(u, ref) \in EverNamed(u, ref) /\ Named(u, ref)[2] = ref
           /\ EverNamed(u, ref) \subseteq Commits
           /\ ref \notin Branches => EverNamed(u, ref) = {<<u, ref, 0>>}
<1>1. MaxPush \in Nat /\ (ref \in Branches => tip[u][ref] \in 0 .. MaxPush)
  BY UpstreamAssumption DEF SourcesTypeOK
<1>2. CASE ref \in Branches
  BY <1>1, <1>2 DEF Named, EverNamed, Commits
<1>3. CASE ref \notin Branches
  BY <1>1, <1>3 DEF Named, EverNamed, Commits
<1> QED
  BY <1>2, <1>3

\* Where a directory that is there comes from.
LEMMA OriginFits ==
    ASSUME NEW d, NEW dir, Sound(d, dir), dir.git # "no"
    PROVE  dir.origin \in Urls
BY PinsFit DEF Sound, Sourced

\* A directory that is not there holds nothing wrong.
LEMMA AbsentSound == \A d : Sound(d, Absent)
BY DEF Sound, Absent, Dir

\* The common part of the steps of an entry.
LEMMA BusyFacts ==
    ASSUME SourcesInv, NEW p \in Procs, spot[p] \in Busy
    PROVE  /\ Entry(p) \in Pins /\ Entry(p).at \in Urls
           /\ CacheDir(Entry(p)) \in Dirs /\ CacheDir(Entry(p))[2] = Label(Entry(p))
           /\ CheckoutRef(Entry(p)) = Label(Entry(p)) /\ Label(Entry(p)) \in Refs
           /\ Sound(CacheDir(Entry(p)), Here(p)) /\ Here(p) = cache[CacheDir(Entry(p))]
           /\ Relies(spot[p], Entry(p), joined[p], Here(p))
           /\ joined \in [Procs -> BOOLEAN] /\ deaths \in 0 .. MaxDeaths
           /\ cache = [cache EXCEPT ![CacheDir(Entry(p))] = Here(p)]
<1>1. left[p] # <<>> /\ Label(Entry(p)) # None /\ Relies(spot[p], Entry(p), joined[p], Here(p))
  BY DEF SourcesInv, Installing
<1>2. /\ joined \in [Procs -> BOOLEAN] /\ deaths \in 0 .. MaxDeaths /\ cache \in [Dirs -> Dir]
  BY DEF SourcesInv, SourcesTypeOK
<1>3. Here(p) = cache[CacheDir(Entry(p))]
  BY DEF Here
<1> QED
  BY <1>1, <1>2, <1>3, AtEntry DEF Sourced

\* The clone refuses, dies or fails, or the checkout fails: the command ends.
LEMMA FailureKeeps ==
    ASSUME SourcesInv, NEW p \in Procs,
           CloneRefused(p) \/ CloneFails(p) \/ CloneDies(p) \/ CheckoutFails(p) \/ CopyFails(p)
    PROVE  SourcesInv'
<1>1. /\ spot[p] \in Busy /\ spot' = [spot EXCEPT ![p] = "failed"]
      /\ UNCHANGED <<tip, left, copied, runs, joined>>
      /\ deaths' \in 0 .. MaxDeaths
      /\ \/ cache' = cache
         \/ spot[p] = "cloning" /\ cache' = [cache EXCEPT ![CacheDir(Entry(p))] = Absent]
  BY UpstreamAssumption DEF CloneRefused, CloneFails, CloneDies, CheckoutFails, CopyFails, Goto,
         SetHere, world, Busy, SourcesInv, SourcesTypeOK
<1>2. CASE cache' = cache
  <2>1. Later(CacheDir(Entry(p)), Here(p), Here(p))
    BY DEF Later
  <2> QED
    BY <1>1, <1>2, <2>1, BusyFacts, MovesOn DEF Busy
<1>3. CASE spot[p] = "cloning" /\ cache' = [cache EXCEPT ![CacheDir(Entry(p))] = Absent]
  BY <1>1, <1>3, BusyFacts, AbsentSound, MovesOn DEF Busy
<1> QED
  BY <1>1, <1>2, <1>3

\* A clone creates its directory.
LEMMA CloneStartKeeps ==
    ASSUME SourcesInv, NEW p \in Procs, CloneStart(p)
    PROVE  SourcesInv'
<1> DEFINE after == [Absent EXCEPT !.git = "half", !.origin = Entry(p).at]
           d == CacheDir(Entry(p))
<1>1. /\ spot[p] = "clone" /\ Here(p).git = "no" /\ spot' = [spot EXCEPT ![p] = "cloning"]
      /\ cache' = [cache EXCEPT ![d] = after]
      /\ UNCHANGED <<tip, left, copied, runs, joined, deaths>>
  BY DEF CloneStart, SetHere, Goto, world
<1>2. /\ after.git = "half" /\ after.origin = Entry(p).at /\ after.has = {} /\ after.local = {}
      /\ after.tracked = {} /\ after.files = None
      /\ (Entry(p).at \in Urls => after \in Dir)
  BY DEF Absent, Dir
<1> HIDE DEF after
<1>3. /\ Entry(p) \in Pins /\ Entry(p).at \in Urls /\ Sound(d, Here(p))
      /\ joined \in [Procs -> BOOLEAN] /\ deaths \in 0 .. MaxDeaths
  BY <1>1, BusyFacts DEF Busy
<1>4. Sound(d, after)
  BY <1>2, <1>3 DEF Sound
<1>5. Later(d, Here(p), after)
  <2>1. Here(p).files = None
    BY <1>1, <1>3 DEF Sound, Absent
  <2> QED
    BY <1>1, <1>2, <2>1 DEF Later
<1>6. Relies("cloning", Entry(p), joined[p], after)
  BY <1>2 DEF Relies
<1> QED
  BY <1>1, <1>3, <1>4, <1>5, <1>6, MovesOn DEF Busy

\* The clone names what upstream names at the moment it ends.
LEMMA CloneEndKeeps ==
    ASSUME SourcesInv, NEW p \in Procs, CloneEnd(p)
    PROVE  SourcesInv'
<1> DEFINE d == CacheDir(Entry(p))
           dir == Here(p)
           url == Entry(p).at
           refs == [r \in Refs |-> Named(url, r)]
           after == [dir EXCEPT
                       !.git = "whole",
                       !.has = @ \cup {refs[r] : r \in Refs},
                       !.tracked = {[name |-> b, commit |-> refs[b]] : b \in Branches},
                       !.local = Put(@, Default, refs[Default])
                                   \cup {[name |-> t, commit |-> refs[t]] : t \in Tags}]
<1>1. /\ spot[p] = "cloning" /\ spot' = [spot EXCEPT ![p] = "fetch"]
      /\ cache' = [cache EXCEPT ![d] = after]
      /\ UNCHANGED <<tip, left, copied, runs, joined, deaths>>
  BY DEF CloneEnd, SetHere, Goto, world
<1>2. /\ Entry(p) \in Pins /\ url \in Urls /\ Sound(d, dir)
      /\ joined \in [Procs -> BOOLEAN] /\ deaths \in 0 .. MaxDeaths
      /\ dir.origin = url /\ dir.git = "half" /\ dir \in Dir
  BY <1>1, BusyFacts DEF Busy, Relies, Sound
<1>3. /\ Branches \cup Tags \subseteq Refs /\ Default \in Branches /\ Tags \cap Branches = {}
      /\ \A r \in Refs : /\ refs[r] \in EverNamed(url, r) /\ refs[r][2] = r
                         /\ refs[r] \in Commits
                         /\ EverNamed(url, r) \subseteq Commits
                         /\ r \notin Branches => EverNamed(url, r) = {<<url, r, 0>>}
  BY <1>2, NamedFits, UpstreamAssumption DEF Refs, SourcesInv
<1> HIDE DEF refs
<1>4. /\ after.git = "whole" /\ after.origin = url /\ after.files = dir.files
      /\ after.has = dir.has \cup {refs[r] : r \in Refs}
      /\ after.tracked = {[name |-> b, commit |-> refs[b]] : b \in Branches}
      /\ after.local = {n \in dir.local : n.name # Default}
                         \cup {[name |-> Default, commit |-> refs[Default]]}
                         \cup {[name |-> t, commit |-> refs[t]] : t \in Tags}
  BY <1>2 DEF Dir, Put
<1>5. after \in Dir
  <2>1. \A r \in Refs : [name |-> r, commit |-> refs[r]] \in Names
    BY <1>3 DEF Names
  <2>2. dir.has \subseteq Commits /\ dir.local \subseteq Names
    BY <1>2 DEF Dir
  <2>3. /\ dir.has \cup {refs[r] : r \in Refs} \in SUBSET Commits
        /\ {[name |-> b, commit |-> refs[b]] : b \in Branches} \in SUBSET Names
        /\ Put(dir.local, Default, refs[Default])
             \cup {[name |-> t, commit |-> refs[t]] : t \in Tags} \in SUBSET Names
    BY <1>3, <2>1, <2>2 DEF Put
  <2> QED
    BY <1>2, <2>3 DEF Dir
<1>6. \A n \in after.local :
        \/ n \in dir.local /\ n.name # Default
        \/ n.name \in Tags \cup {Default} /\ n.commit = refs[n.name]
  BY <1>4
<1>7. \A n \in after.local \cup after.tracked : n.commit \in EverNamed(url, n.name)
  <2>1. \A n \in dir.local : n.commit \in EverNamed(url, n.name)
    BY <1>2 DEF Sound
  <2>2. \A n \in after.tracked : n.commit \in EverNamed(url, n.name)
    BY <1>3, <1>4
  <2> QED
    BY <1>3, <1>6, <2>1, <2>2
<1>8. \A c \in after.has : c[2] \in Refs /\ c \in EverNamed(url, c[2])
  BY <1>2, <1>3, <1>4 DEF Sound
<1>9. ASSUME NEW m \in after.local, NEW n \in after.local, m.name = n.name PROVE m = n
  <2>1. m \in Names /\ n \in Names
    BY <1>5, <1>9 DEF Dir
  <2>2. CASE m.name = Default
    <3> HIDE DEF after
    <3>1. m.commit = refs[Default] /\ n.commit = refs[Default]
      BY <1>6, <1>9, <2>2
    <3> QED
      BY <1>9, <2>1, <3>1 DEF Names
  <2>3. CASE m.name \in Tags
    <3>1. m.name \in Refs /\ m.name \notin Branches
      BY <1>3, <2>3
    <3>2. EverNamed(url, m.name) = {<<url, m.name, 0>>}
      BY <1>3, <3>1
    <3>3. m.commit = n.commit
      BY <1>7, <1>9, <3>2
    <3> QED
      BY <1>9, <2>1, <3>3 DEF Names
  <2>4. CASE m.name \notin Tags \cup {Default}
    BY <1>2, <1>6, <1>9, <2>4 DEF Sound
  <2> QED
    BY <2>2, <2>3, <2>4
<1>10. Sound(d, after)
  <2> HIDE DEF after
  <2> QED
    BY <1>2, <1>4, <1>5, <1>7, <1>8, <1>9 DEF Sound
<1> HIDE DEF after
<1> QED
  BY <1>1, <1>2, <1>10, MovesOn DEF Busy, Relies

\* A fetch brings what the ref names upstream at the moment, or nothing.
LEMMA FetchKeeps ==
    ASSUME SourcesInv, NEW p \in Procs, Fetch(p)
    PROVE  SourcesInv'
<1> DEFINE d == CacheDir(Entry(p))
           dir == Here(p)
           ref == CheckoutRef(Entry(p))
           commit == Named(dir.origin, ref)
           fetched == [dir EXCEPT
                         !.has = @ \cup {commit},
                         !.tracked = IF ref \in Branches THEN Put(@, ref, commit) ELSE @]
<1>1. /\ spot[p] = "fetch" /\ spot' = [spot EXCEPT ![p] = "checkout"]
      /\ joined' = [joined EXCEPT ![p] = dir.git # "whole"]
      /\ UNCHANGED <<tip, left, copied, runs, deaths>>
      /\ \/ dir.git # "no" /\ cache' = [cache EXCEPT ![d] = fetched]
         \/ cache' = cache
  BY DEF Fetch, SetHere, Goto, world
<1>2. /\ Sound(d, dir) /\ ref = Label(Entry(p)) /\ ref \in Refs /\ dir \in Dir
      /\ joined \in [Procs -> BOOLEAN] /\ deaths \in 0 .. MaxDeaths
      /\ cache = [cache EXCEPT ![d] = dir]
  BY <1>1, BusyFacts DEF Busy, Sound
<1>3. /\ joined'[p] = (dir.git # "whole") /\ joined' \in [Procs -> BOOLEAN]
      /\ \A q \in Procs \ {p} : joined'[q] = joined[q]
  BY <1>1, <1>2
<1>4. CASE cache' = cache
  <2>1. Later(d, dir, dir)
    BY DEF Later
  <2>2. Relies("checkout", Entry(p), joined'[p], dir)
    BY <1>3 DEF Relies
  <2> QED
    BY <1>1, <1>2, <1>3, <1>4, <2>1, <2>2, MovesOn DEF Busy
<1>5. CASE dir.git # "no" /\ cache' = [cache EXCEPT ![d] = fetched]
  <2>1. dir.origin \in Urls
    BY <1>2, <1>5, OriginFits
  <2>2. /\ commit \in EverNamed(dir.origin, ref) /\ commit[2] = ref
        /\ EverNamed(dir.origin, ref) \subseteq Commits
    BY <1>2, <2>1, NamedFits DEF SourcesInv
  <2> HIDE DEF commit, ref, dir
  <2>3. /\ fetched.git = dir.git /\ fetched.origin = dir.origin /\ fetched.local = dir.local
        /\ fetched.files = dir.files /\ fetched.has = dir.has \cup {commit}
        /\ fetched.tracked = IF ref \in Branches THEN Put(dir.tracked, ref, commit) ELSE dir.tracked
    BY <1>2 DEF Dir
  <2>4. \A n \in fetched.tracked : \/ n \in dir.tracked
                                   \/ n.name = ref /\ n.commit = commit
    BY <2>3 DEF Put
  <2>5. fetched \in Dir
    <3>1. dir.has \subseteq Commits /\ dir.tracked \subseteq Names
      BY <1>2 DEF Dir
    <3>2. [name |-> ref, commit |-> commit] \in Names
      BY <1>2, <2>2 DEF Names
    <3>3. dir.has \cup {commit} \in SUBSET Commits
          /\ (IF ref \in Branches THEN Put(dir.tracked, ref, commit) ELSE dir.tracked) \in SUBSET Names
      BY <2>2, <3>1, <3>2 DEF Put
    <3> QED
      BY <1>2, <3>3 DEF Dir
  <2> HIDE DEF fetched
  <2>6. Sound(d, fetched)
    BY <1>2, <1>5, <2>2, <2>3, <2>4, <2>5 DEF Sound
  <2>7. Later(d, dir, fetched)
    BY <2>3 DEF Later
  <2>8. Relies("checkout", Entry(p), joined'[p], fetched)
    BY <1>3, <2>3 DEF Relies
  <2> QED
    BY <1>1, <1>2, <1>3, <1>5, <2>6, <2>7, <2>8, MovesOn DEF Busy, dir
<1> QED
  BY <1>1, <1>4, <1>5

\* A commit that git checkout finds is one that the ref named; a local name that
\* is there wins, so that a finished clone does not move it.
LEMMA CandidateFits ==
    ASSUME SourcesTypeOK, NEW d, NEW dir, Sound(d, dir), NEW ref \in Refs,
           NEW commit \in Candidates(dir, ref)
    PROVE  /\ dir.git # "no" /\ dir.origin \in Urls
           /\ commit \in EverNamed(dir.origin, ref) /\ commit \in Commits
           /\ ref \in Revs => commit = <<dir.origin, ref, 0>>
           /\ \A n \in dir.local : n.name = ref => n.commit = commit
<1>1. \/ \E n \in dir.local : n.name = ref /\ n.commit = commit
      \/ /\ \A n \in dir.local : n.name # ref
         /\ \/ \E n \in dir.tracked : n.name = ref /\ n.commit = commit
            \/ commit \in dir.has /\ commit[2] = ref /\ ref \in Revs
  BY DEF Candidates, Lookup
<1>2. dir.git # "no" /\ dir.origin \in Urls
  <2>1. dir.git # "no"
    BY <1>1 DEF Sound, Absent
  <2> QED
    BY <2>1, OriginFits
<1>3. commit \in EverNamed(dir.origin, ref)
  BY <1>1 DEF Sound
<1>4. \A n \in dir.local : n.name = ref => n.commit = commit
  BY <1>1 DEF Sound
<1> QED
  BY <1>2, <1>3, <1>4, NamedFits, UpstreamAssumption

\* A checkout, of a commit the directory has or of a ref.
LEMMA CheckoutKeeps ==
    ASSUME SourcesInv, NEW p \in Procs, Checkout(p)
    PROVE  /\ SourcesInv'
           /\ LET d == CacheDir(Entry(p))
              IN  /\ \A e \in Dirs : e # d => cache'[e] = cache[e]
                  /\ Later(d, cache[d], cache'[d])
<1> DEFINE d == CacheDir(Entry(p))
           dir == Here(p)
           ref == CheckoutRef(Entry(p))
           with(c) == [dir EXCEPT !.files = c,
                                  !.local = IF ref \in Revs THEN @ ELSE Put(@, ref, c)]
<1>1. PICK commit \in Candidates(dir, ref) :
        cache' = [cache EXCEPT ![d] = with(commit)]
  BY DEF Checkout, SetHere
<1>2. /\ spot[p] = "checkout"
      /\ \E where \in {"failed", "copy"} : spot' = [spot EXCEPT ![p] = where]
      /\ UNCHANGED <<tip, left, joined, copied, runs, deaths>>
  BY DEF Checkout, Goto, world
<1>3. /\ Sound(d, dir) /\ ref = Label(Entry(p)) /\ ref \in Refs /\ dir \in Dir /\ d[2] = ref
      /\ joined \in [Procs -> BOOLEAN] /\ deaths \in 0 .. MaxDeaths
      /\ Relies("checkout", Entry(p), joined[p], dir)
  BY <1>2, BusyFacts DEF Busy, Sound
<1>4. /\ dir.git # "no" /\ dir.origin \in Urls
      /\ commit \in EverNamed(dir.origin, ref) /\ commit \in Commits
      /\ ref \in Revs => commit = <<dir.origin, ref, 0>>
      /\ \A n \in dir.local : n.name = ref => n.commit = commit
  BY <1>1, <1>3, CandidateFits DEF SourcesInv
<1> DEFINE after == with(commit)
           entry == [name |-> ref, commit |-> commit]
<1> HIDE DEF dir, ref
<1>5. /\ after.git = dir.git /\ after.origin = dir.origin /\ after.has = dir.has
      /\ after.tracked = dir.tracked /\ after.files = commit
      /\ after.local = IF ref \in Revs THEN dir.local
                       ELSE {n \in dir.local : n.name # ref} \cup {entry}
  BY <1>3 DEF Dir, Put
<1>6. entry \in Names /\ entry.name = ref /\ entry.commit = commit
  BY <1>3, <1>4 DEF Names
<1>7. after \in Dir
  <2>1. dir.local \subseteq Names
    BY <1>3 DEF Dir
  <2>2. (IF ref \in Revs THEN dir.local ELSE Put(dir.local, ref, commit)) \in SUBSET Names
    BY <1>6, <2>1 DEF Put
  <2> QED
    BY <1>3, <1>4, <2>2 DEF Dir
<1> HIDE DEF after, entry
<1>8. /\ \A n \in after.local : n \in dir.local \/ (n = entry /\ ref \notin Revs)
      /\ \A n \in after.local : n.name = ref /\ ref \notin Revs => n = entry
  BY <1>5
<1>9. Sound(d, after)
  <2>1. \A m, n \in after.local : m.name = n.name => m = n
    BY <1>3, <1>5, <1>6, <1>8 DEF Sound
  <2>2. \A n \in after.local \cup after.tracked : n.commit \in EverNamed(after.origin, n.name)
    BY <1>3, <1>4, <1>5, <1>6, <1>8 DEF Sound
  <2> QED
    BY <1>3, <1>4, <1>5, <1>7, <2>1, <2>2 DEF Sound
<1>10. dir.git = "whole" => Settled(after, ref, commit)
  BY <1>4, <1>5, <1>6 DEF Settled, entry
<1>11. Later(d, dir, after)
  <2>1. dir.local \subseteq after.local
    <3>1. \A n \in dir.local : n \in Names
      BY <1>3 DEF Dir
    <3>2. \A n \in dir.local : n.name = ref => n = entry
      BY <1>4, <3>1 DEF Names, entry
    <3> QED
      BY <1>5, <3>2
  <2> QED
    BY <1>3, <1>5, <1>10, <2>1 DEF Later
<1>12. Relies("copy", Entry(p), joined[p], after)
  BY <1>3, <1>5, <1>10 DEF Relies
<1>13. cache' = [cache EXCEPT ![d] = after]
  BY <1>1 DEF after
<1>14. SourcesInv'
  BY <1>2, <1>3, <1>9, <1>11, <1>12, <1>13, MovesOn DEF Busy, dir
<1>15. /\ \A e \in Dirs : e # d => cache'[e] = cache[e]
       /\ Later(d, cache[d], cache'[d])
  <2>1. d \in Dirs /\ cache \in [Dirs -> Dir]
    BY <1>2, BusyFacts DEF Busy, SourcesInv, SourcesTypeOK
  <2>2. cache'[d] = after /\ dir = cache[d]
    BY <1>13, <2>1 DEF dir, Here
  <2> QED
    BY <1>11, <1>13, <2>1, <2>2
<1> QED
  BY <1>14, <1>15

\* What installs rely on is in the cache.
LEMMA StillInstalling ==
    ASSUME Installing, OneCloner, UNCHANGED <<cache, spot, left, joined>>
    PROVE  Installing' /\ OneCloner'
<1>1. \A q \in Procs : /\ (Entry(q))' = Entry(q) /\ (CacheDir(Entry(q)))' = CacheDir(Entry(q))
                       /\ (Here(q))' = Here(q) /\ (Label(Entry(q)))' = Label(Entry(q))
  BY DEF Entry, Here, CacheDir, Label
<1>2. Installing'
  <2> SUFFICES ASSUME NEW q \in Procs, spot[q] \in Busy
               PROVE  (left[q] # <<>> /\ Label(Entry(q)) # None
                        /\ Relies(spot[q], Entry(q), joined[q], Here(q)))'
    BY DEF Installing
  <2>1. left[q] # <<>> /\ Label(Entry(q)) # None /\ Relies(spot[q], Entry(q), joined[q], Here(q))
    BY DEF Installing
  <2> QED
    BY <1>1, <2>1 DEF Relies, Settled
<1>3. OneCloner'
  BY <1>1 DEF OneCloner
<1> QED
  BY <1>2, <1>3

\* A push moves a tip on; nothing here depends on what a branch names now.
LEMMA PushKeeps ==
    ASSUME SourcesInv, Push
    PROVE  SourcesInv'
<1>1. /\ UNCHANGED <<deaths, runs, cache, spot, left, joined, copied>>
      /\ \E u \in Moving, b \in Branches : tip[u][b] < MaxPush /\ tip' = [tip EXCEPT ![u][b] = @ + 1]
  BY DEF Push
<1>2. /\ tip' \in [Urls -> [Branches -> 0 .. MaxPush]]
      /\ \A u \in Urls, b \in Branches : tip[u][b] <= tip'[u][b]
  BY <1>1, UpstreamAssumption DEF SourcesInv, SourcesTypeOK
<1>3. /\ \A u \in Urls : \A ref, c : c \in EverNamed(u, ref) => c \in EverNamed(u, ref)'
      /\ \A d, dir : Sound(d, dir) => Sound(d, dir)'
  BY <1>2, NamedForGood DEF SourcesInv
<1>4. SourcesTypeOK'
  BY <1>1, <1>2 DEF SourcesInv, SourcesTypeOK
<1>5. Loaded'
  BY <1>1 DEF SourcesInv, Loaded
<1>6. Caches'
  <2> SUFFICES ASSUME NEW d \in Dirs PROVE Sound(d, cache[d])'
    BY DEF Caches
  <2>1. \A dir : dir = cache'[d] => Sound(d, dir)'
    BY <1>1, <1>3 DEF SourcesInv, Caches
  <2> QED
    BY <2>1 DEF Sound
<1>7. Installing' /\ OneCloner'
  BY <1>1, StillInstalling DEF SourcesInv
<1>8. Copies'
  <2> SUFFICES ASSUME NEW q \in Procs, NEW x \in copied[q]
               PROVE  /\ x.source \in Pins
                      /\ \E s \in Pins :
                            SameDir(s, x.source) /\ x.commit \in EverNamed(s.at, CheckoutRef(s))'
                      /\ ~x.joined => Settled(cache[CacheDir(x.source)], Label(x.source), x.commit)
    BY <1>1 DEF Copies, Settled
  <2> QED
    BY <1>3, PinsFit DEF SourcesInv, Copies, Sourced
<1> QED
  BY <1>4, <1>5, <1>6, <1>7, <1>8 DEF SourcesInv

\* Nothing happens.
LEMMA StutterKeeps ==
    ASSUME SourcesInv, UNCHANGED vars
    PROVE  SourcesInv'
<1>1. UNCHANGED <<tip, deaths, runs, cache, spot, left, joined, copied>>
  BY DEF vars, world
<1>2. \A u, ref : EverNamed(u, ref)' = EverNamed(u, ref)
  BY <1>1 DEF EverNamed
<1>3. SourcesTypeOK' /\ Loaded' /\ Installing' /\ OneCloner'
  BY <1>1, StillInstalling DEF SourcesInv, SourcesTypeOK, Loaded
<1>4. Caches'
  BY <1>1, <1>2 DEF SourcesInv, Caches, Sound
<1>5. Copies'
  BY <1>1, <1>2 DEF SourcesInv, Copies, Settled
<1> QED
  BY <1>3, <1>4, <1>5 DEF SourcesInv

-----------------------------------------------------------------------------
(* The theorems                                                               *)

\* The invariant holds throughout.
THEOREM SourcesInvariance == SourcesSpec => []SourcesInv
<1>1. SourcesInit => SourcesInv
  <2> SUFFICES ASSUME SourcesInit PROVE SourcesInv
    OBVIOUS
  <2>1. /\ cache = [d \in Dirs |-> Absent]
        /\ \A p \in Procs : spot[p] = "idle" /\ left[p] = <<>> /\ copied[p] = {}
    BY DEF SourcesInit
  <2>2. SourcesTypeOK
    <3>1. Absent \in Dir
      BY AbsentSound DEF Sound
    <3>2. /\ tip \in [Urls -> [Branches -> 0 .. MaxPush]]
          /\ deaths \in 0 .. MaxDeaths /\ runs \in 0 .. MaxRuns
          /\ copied \in [Procs -> SUBSET [source : Sourced, commit : Commits, joined : BOOLEAN]]
      BY UpstreamAssumption DEF SourcesInit
    <3>3. /\ spot \in [Procs -> {"idle", "refused", "resolve", "clone", "cloning", "fetch",
                                 "checkout", "copy", "done", "failed"}]
          /\ left \in [Procs -> Seq(Sourced)]
          /\ joined \in [Procs -> BOOLEAN] /\ cache \in [Dirs -> Dir]
      BY <3>1 DEF SourcesInit
    <3> QED
      BY <3>2, <3>3 DEF SourcesTypeOK
  <2>3. Loaded
    <3>1. <<>> \in Seq(Pins)
      OBVIOUS
    <3> QED
      BY <2>1, <3>1, Zenon DEF Loaded
  <2>4. Caches
    <3>1. \A d \in Dirs : cache[d] = Absent
      BY <2>1
    <3> QED
      BY <3>1, AbsentSound, Zenon DEF Caches
  <2>5. Installing /\ OneCloner /\ Copies
    BY <2>1 DEF Installing, OneCloner, Copies, Busy
  <2> QED
    BY <2>2, <2>3, <2>4, <2>5 DEF SourcesInv
<1>2. SourcesInv /\ [SourcesNext]_vars => SourcesInv'
  <2> SUFFICES ASSUME SourcesInv, [SourcesNext]_vars PROVE SourcesInv'
    OBVIOUS
  <2>1. ASSUME NEW p \in Procs,
               \/ Load(p) \/ Finish(p) \/ NoPin(p) \/ Reuse(p) \/ Decide(p)
               \/ CloneStart(p) \/ CloneRefused(p) \/ CloneEnd(p) \/ CloneFails(p) \/ CloneDies(p)
               \/ Fetch(p) \/ Checkout(p) \/ CheckoutFails(p) \/ Copy(p) \/ CopyFails(p) \/ Again(p)
        PROVE  SourcesInv'
    BY <2>1, LoadKeeps, EntryKeeps, AgainKeeps, CopyKeeps, FailureKeeps, CloneStartKeeps,
       CloneEndKeeps, FetchKeeps, CheckoutKeeps, Zenon
  <2> QED
    BY <2>1, PushKeeps, StutterKeeps, Zenon DEF SourcesNext
<1> QED
  BY <1>1, <1>2, PTL DEF SourcesSpec

\* Every state has the declared types, whatever installs, deaths of clones and
\* pushes come together.
THEOREM SourcesTypes == SourcesSpec => []SourcesTypeOK
<1>1. SourcesInv => SourcesTypeOK
  BY DEF SourcesInv
<1> QED
  BY <1>1, SourcesInvariance, PTL

\* However installs share MOVE_HOME, an install copies what its own pin, or one
\* with the same directory, named at some moment.
THEOREM CopiesArePinned == SourcesSpec => []CopiedIsPinned
<1>1. SourcesInv => CopiedIsPinned
  BY DEF SourcesInv, Copies, CopiedIsPinned
<1> QED
  BY <1>1, SourcesInvariance, PTL

\* A finished clone never moves the commit of a pin, so that all that an install
\* copies for it is of the same one.
THEOREM OneCommit == SourcesSpec => []OneCommitPerPin
<1>1. SourcesInv => OneCommitPerPin
  <2> SUFFICES ASSUME SourcesInv, NEW p \in Procs, NEW x \in copied[p], NEW y \in copied[p],
                      x.source.at = y.source.at, SameDir(x.source, y.source),
                      ~x.joined, ~y.joined
               PROVE  x.commit = y.commit
    BY DEF OneCommitPerPin
  <2>1. x.source \in Pins /\ y.source \in Pins
    BY DEF SourcesInv, Copies
  <2>2. CacheDir(x.source) = CacheDir(y.source) /\ Label(x.source) = Label(y.source)
    BY <2>1, RefOfDir DEF SameDir, CacheDir
  <2> DEFINE dir == cache[CacheDir(x.source)]
             ref == Label(x.source)
  <2>3. Settled(dir, ref, x.commit) /\ Settled(dir, ref, y.commit)
    BY <2>2 DEF SourcesInv, Copies
  <2>4. \A m, n \in dir.local : m.name = n.name => m = n
    BY <2>1, PinsFit DEF SourcesInv, Caches, Sound
  <2> HIDE DEF dir, ref
  <2>5. CASE ref \in Revs
    BY <2>3, <2>5 DEF Settled
  <2>6. CASE ref \notin Revs
    <3>1. /\ [name |-> ref, commit |-> x.commit] \in dir.local
          /\ [name |-> ref, commit |-> y.commit] \in dir.local
      BY <2>3, <2>6 DEF Settled
    <3>2. [name |-> ref, commit |-> x.commit] = [name |-> ref, commit |-> y.commit]
      BY <2>4, <3>1
    <3> QED
      BY <3>2
  <2> QED
    BY <2>5, <2>6
<1> QED
  BY <1>1, SourcesInvariance, PTL

-----------------------------------------------------------------------------
(* What stays in a clone                                                      *)

\* A finished clone stays where it is, of the repository it was cloned from, and
\* keeps its local names at their commits, whatever the installs do that share it.
LocalNamesStay == [][\A d \in Dirs : cache[d].git = "whole" =>
    /\ cache'[d].git = "whole" /\ cache'[d].origin = cache[d].origin
    /\ cache[d].local \subseteq cache'[d].local]_vars

\* A step of an install at a directory that is no finished clone.
LEMMA UnfinishedOnly ==
    ASSUME SourcesInv, NEW p \in Procs, CloneStart(p) \/ CloneEnd(p) \/ CloneFails(p)
    PROVE  \A d \in Dirs : cache[d].git = "whole" => cache'[d] = cache[d]
<1>1. /\ spot[p] \in {"clone", "cloning"}
      /\ \A d \in Dirs : d # CacheDir(Entry(p)) => cache'[d] = cache[d]
  BY DEF CloneStart, CloneEnd, CloneFails, SetHere, SourcesInv, SourcesTypeOK
<1>2. Here(p).git # "whole"
  <2>1. CASE CloneStart(p)
    BY <2>1 DEF CloneStart
  <2>2. CASE CloneEnd(p) \/ CloneFails(p)
    <3>1. spot[p] = "cloning"
      BY <2>2 DEF CloneEnd, CloneFails
    <3> QED
      BY <3>1 DEF SourcesInv, Installing, Relies, Busy
  <2> QED
    BY <2>1, <2>2
<1> QED
  BY <1>1, <1>2 DEF Here

\* A fetch brings commits and remote-tracking names.
LEMMA FetchNames ==
    ASSUME SourcesInv, NEW p \in Procs, Fetch(p), NEW d \in Dirs
    PROVE  /\ cache'[d].git = cache[d].git /\ cache'[d].origin = cache[d].origin
           /\ cache'[d].local = cache[d].local
<1>1. CASE cache' = cache
  BY <1>1
<1>2. CASE cache' # cache
  <2>1. PICK has, tracked :
          cache' = [cache EXCEPT ![CacheDir(Entry(p))] =
                      [Here(p) EXCEPT !.has = has, !.tracked = tracked]]
    BY <1>2 DEF Fetch, SetHere
  <2>2. cache \in [Dirs -> Dir]
    BY DEF SourcesInv, SourcesTypeOK
  <2> QED
    BY <2>1, <2>2 DEF Here, Dir
<1> QED
  BY <1>1, <1>2

\* However many installs fetch, check out, fail and die in one MOVE_HOME and
\* however upstream moves: a finished clone is never removed nor made another, and
\* no local branch or tag of it ever moves.  It is why a pin, once cloned, stays at
\* one commit, and why a branch that moved upstream is not followed.
THEOREM NamesNeverMove == SourcesSpec => LocalNamesStay
<1>1. SourcesInv /\ [SourcesNext]_vars => [\A d \in Dirs : cache[d].git = "whole" =>
        /\ cache'[d].git = "whole" /\ cache'[d].origin = cache[d].origin
        /\ cache[d].local \subseteq cache'[d].local]_vars
  <2> SUFFICES ASSUME SourcesInv, SourcesNext, NEW d \in Dirs, cache[d].git = "whole"
               PROVE  /\ cache'[d].git = "whole" /\ cache'[d].origin = cache[d].origin
                      /\ cache[d].local \subseteq cache'[d].local
    OBVIOUS
  <2>1. CASE cache'[d] = cache[d]
    BY <2>1
  <2>2. ASSUME NEW p \in Procs, CloneStart(p) \/ CloneEnd(p) \/ CloneFails(p)
        PROVE  cache'[d] = cache[d]
    BY <2>2, UnfinishedOnly
  <2>3. ASSUME NEW p \in Procs, Fetch(p)
        PROVE  /\ cache'[d].git = cache[d].git /\ cache'[d].origin = cache[d].origin
               /\ cache'[d].local = cache[d].local
    BY <2>3, FetchNames
  <2>4. ASSUME NEW p \in Procs, Checkout(p)
        PROVE  \/ cache'[d] = cache[d]
               \/ Later(d, cache[d], cache'[d])
    BY <2>4, CheckoutKeeps
  <2>5. ASSUME NEW p \in Procs,
               \/ Load(p) \/ Finish(p) \/ NoPin(p) \/ Reuse(p) \/ Decide(p)
               \/ CloneRefused(p) \/ CloneDies(p) \/ CheckoutFails(p)
               \/ Copy(p) \/ CopyFails(p) \/ Again(p)
        PROVE  cache'[d] = cache[d]
    BY <2>5 DEF Load, Finish, NoPin, Reuse, Decide, CloneRefused, CloneDies, CheckoutFails,
                Copy, CopyFails, Again
  <2>6. ASSUME Push
        PROVE  cache'[d] = cache[d]
    BY <2>6 DEF Push
  <2>7. CASE \E p \in Procs : Checkout(p)
    BY <2>4, <2>7 DEF Later
  <2>8. CASE \E p \in Procs : Fetch(p)
    BY <2>3, <2>8
  <2>9. \/ cache'[d] = cache[d]
        \/ \E p \in Procs : Checkout(p) \/ Fetch(p)
    BY <2>2, <2>5, <2>6 DEF SourcesNext
  <2> QED
    BY <2>1, <2>7, <2>8, <2>9
<1> QED
  BY <1>1, SourcesInvariance, PTL DEF SourcesSpec, LocalNamesStay
=============================================================================
