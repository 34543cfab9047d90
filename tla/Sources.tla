------------------------------ MODULE Sources -------------------------------
(* How installs get the git sources of their configs: each accepted git entry *)
(* is resolved to a checkout in a cache that all installs of the machine      *)
(* share (MOVE_HOME), one directory per URL and pin, and then copied.  Two    *)
(* installs may run at once, a clone may die, the network may fail and        *)
(* upstream branches move.                                                    *)
EXTENDS ConfigCheck

CONSTANTS
    Procs,      \* installs
    Urls,       \* repositories
    RawConfigs, \* configs an install may be started with
    Dirname,    \* sanitized forms of the URLs
    Default,    \* name of the default branch of every repository
    Branches,   \* names of branches, the default one among them
    Tags,       \* names of tags
    Revs,       \* names that are commit ids
    Bare,       \* subdirs without a Move.toml
    Moving,     \* bound: repositories that are pushed to
    Offline,    \* TRUE: any fetch may fail
    MaxPush,    \* bound: commits pushed to a branch
    MaxDeaths,  \* bound: clones that die
    MaxRuns     \* bound: installs started

ASSUME UpstreamAssumption ==
    /\ Default \in Branches /\ Branches \cap Tags = {}
    /\ Revs \cap (Branches \cup Tags) = {}
    /\ Urls \subseteq Texts /\ Moving \subseteq Urls /\ Dirname \in [Urls -> Texts]
    /\ None \notin Branches \cup Tags \cup Revs /\ Offline \in BOOLEAN
    /\ MaxPush \in Nat /\ MaxDeaths \in Nat /\ MaxRuns \in Nat

Refs == Branches \cup Tags \cup Revs

\* What the TOML of a config may hold: a table for each of some ids, and in it
\* the URL of a repository and names that it knows.  A rev may name a branch or
\* a tag as well as a commit.
Table == {r \in Raw : /\ r.git \in Urls \cup {None} /\ r.rev \in Refs \cup {None}
                     /\ r.branch \in Branches \cup {None} /\ r.tag \in Tags \cup {None}}

ASSUME TomlAssumption == \A c \in RawConfigs :
    /\ c.package \in Table \cup {None}
    /\ c.packages \subseteq Table /\ IsFiniteSet(c.packages)
    /\ \A r, s \in c.packages : r.id = s.id => r = s

VARIABLES
    tip,        \* upstream: [url, branch] -> number of its newest commit
    cache,      \* MOVE_HOME: directory -> Dir
    spot,       \* where each install is
    left,       \* the git entries of its config still to be resolved, in order
    joined,     \* it uses a clone that was not finished when it fetched
    copied,     \* what each install copied so far (history)
    deaths,
    runs        \* installs started

world == <<tip, deaths, runs>>
vars == <<world, cache, spot, left, joined, copied>>

-----------------------------------------------------------------------------
(* Commits.  A branch of a repository names <<url, branch, n>> when it is at  *)
(* its n-th commit; a tag and a commit id name one commit for good.           *)

Named(url, ref) == IF ref \in Branches THEN <<url, ref, tip[url][ref]>> ELSE <<url, ref, 0>>

\* What a ref named at one moment or another.
EverNamed(url, ref) ==
    IF ref \in Branches THEN {<<url, ref, n>> : n \in 0 .. tip[url][ref]} ELSE {<<url, ref, 0>>}

Commits == {<<url, ref, n>> : url \in Urls, ref \in Refs, n \in 0 .. MaxPush}

-----------------------------------------------------------------------------
(* The pin of an entry and its directory.                                     *)

\* rev, else branch, else tag names the directory; rev, else tag, else branch
\* is checked out.  An accepted entry has at most one of them.
FirstGiven(a, b, c) == IF a # None THEN a ELSE IF b # None THEN b ELSE c
Label(s) == FirstGiven(s.rev, s.branch, s.tag)
CheckoutRef(s) == FirstGiven(s.rev, s.tag, s.branch)

\* mutant of CacheDir: one clone per repository
DirPerUrl(s) == <<Dirname[s.at], None>>

CacheDir(s) == <<Dirname[s.at], Label(s)>>

\* A directory: whether it has a .git, the repository it was cloned from, the
\* commits it has, its local names, its remote-tracking names and its files.
Absent == [git |-> "no", origin |-> None, has |-> {}, local |-> {}, tracked |-> {}, files |-> None]

Dirs == {<<Dirname[u], label>> : u \in Urls, label \in Refs \cup {None}}

Lookup(names, ref) == {n.commit : n \in {m \in names : m.name = ref}}
Put(names, ref, commit) == {n \in names : n.name # ref} \cup {[name |-> ref, commit |-> commit]}

Entry(p) == left[p][1]
Here(p) == cache[CacheDir(Entry(p))]
SetHere(p, dir) == cache' = [cache EXCEPT ![CacheDir(Entry(p))] = dir]

-----------------------------------------------------------------------------
GitSources(c) ==
    LET entries == InOrder({r \in Tables(c) : r.git # None})
    IN [i \in DOMAIN entries |-> SourceOf(entries[i])]

SourcesInit ==
    /\ tip = [u \in Urls |-> [b \in Branches |-> 0]]
    /\ cache = [d \in Dirs |-> Absent]
    /\ spot = [p \in Procs |-> "idle"]
    /\ left = [p \in Procs |-> <<>>]
    /\ joined = [p \in Procs |-> FALSE]
    /\ copied = [p \in Procs |-> {}] /\ deaths = 0 /\ runs = 0

Goto(p, where) == spot' = [spot EXCEPT ![p] = where]

\* Config::load of one of the configs; a refused one ends the command.
Load(p) == /\ spot[p] = "idle" /\ runs < MaxRuns /\ runs' = runs + 1
           /\ \E c \in RawConfigs :
                 IF Accepted(c)
                 THEN /\ left' = [left EXCEPT ![p] = GitSources(c)]
                      /\ Goto(p, "resolve")
                 ELSE /\ Goto(p, "refused")
                      /\ UNCHANGED left
           /\ UNCHANGED <<tip, deaths, cache, joined, copied>>

Finish(p) == /\ spot[p] = "resolve" /\ left[p] = <<>>
             /\ Goto(p, "done")
             /\ UNCHANGED <<world, cache, left, joined, copied>>

\* A git entry may be accepted without rev, branch and tag.
NoPin(p) == /\ spot[p] = "resolve" /\ left[p] # <<>> /\ Label(Entry(p)) = None
            /\ Goto(p, "failed")
            /\ UNCHANGED <<world, cache, left, joined, copied>>

\* A .git is there: no clone.
Reuse(p) == /\ spot[p] = "resolve" /\ left[p] # <<>> /\ Label(Entry(p)) # None
            /\ Here(p).git # "no"
            /\ Goto(p, "fetch")
            /\ UNCHANGED <<world, cache, left, joined, copied>>

Decide(p) == /\ spot[p] = "resolve" /\ left[p] # <<>> /\ Label(Entry(p)) # None
             /\ Here(p).git = "no"
             /\ Goto(p, "clone")
             /\ UNCHANGED <<world, cache, left, joined, copied>>

\* git clone creates .git first; it refuses a directory that has come to exist.
CloneStart(p) == /\ spot[p] = "clone" /\ Here(p).git = "no"
                 /\ SetHere(p, [Absent EXCEPT !.git = "half", !.origin = Entry(p).at])
                 /\ Goto(p, "cloning")
                 /\ UNCHANGED <<world, left, joined, copied>>

CloneRefused(p) == /\ spot[p] = "clone" /\ Here(p).git # "no"
                   /\ Goto(p, "failed")
                   /\ UNCHANGED <<world, cache, left, joined, copied>>

\* The clone has all refs of the moment; the default branch becomes a local one,
\* and so do the tags.  No files are checked out.
CloneEnd(p) ==
    /\ spot[p] = "cloning"
    /\ LET url == Entry(p).at
           refs == [r \in Refs |-> Named(url, r)]
       IN SetHere(p, [Here(p) EXCEPT
            !.git = "whole",
            !.has = @ \cup {refs[r] : r \in Refs},
            !.tracked = {[name |-> b, commit |-> refs[b]] : b \in Branches},
            !.local = Put(@, Default, refs[Default])
                        \cup {[name |-> t, commit |-> refs[t]] : t \in Tags}])
    /\ Goto(p, "fetch")
    /\ UNCHANGED <<world, left, joined, copied>>

\* git removes what it created when the clone fails.
CloneFails(p) == /\ spot[p] = "cloning"
                 /\ SetHere(p, Absent)
                 /\ Goto(p, "failed")
                 /\ UNCHANGED <<world, left, joined, copied>>

\* The machine dies, or git is killed: .git stays.
CloneDies(p) == /\ spot[p] = "cloning" /\ deaths < MaxDeaths
                /\ deaths' = deaths + 1
                /\ Goto(p, "failed")
                /\ UNCHANGED <<tip, runs, cache, left, joined, copied>>

\* git fetch origin <ref> brings the commit and moves the remote-tracking name of
\* a branch.  Nobody looks at its exit status: it fails where there is no clone,
\* and wherever the network is down.
Fetch(p) ==
    /\ spot[p] = "fetch"
    /\ joined' = [joined EXCEPT ![p] = Here(p).git # "whole"]
    /\ \/ LET ref == CheckoutRef(Entry(p))
              commit == Named(Here(p).origin, ref)
          IN /\ Here(p).git # "no"
             /\ SetHere(p, [Here(p) EXCEPT
                   !.has = @ \cup {commit},
                   !.tracked = IF ref \in Branches THEN Put(@, ref, commit) ELSE @])
       \/ (Offline \/ Here(p).git = "no") /\ UNCHANGED cache
    /\ Goto(p, "checkout")
    /\ UNCHANGED <<world, left, copied>>

\* mutant of Candidates: follows the branch
Followed(dir, ref) == Lookup(dir.tracked, ref) \cup Lookup(dir.local, ref)

\* What git checkout <ref> checks out: a local name, else the remote-tracking
\* branch, which becomes a local one, else a commit that is there.
Candidates(dir, ref) ==
    IF Lookup(dir.local, ref) # {} THEN Lookup(dir.local, ref)
    ELSE IF Lookup(dir.tracked, ref) # {} THEN Lookup(dir.tracked, ref)
    ELSE {c \in dir.has : c[2] = ref /\ ref \in Revs}

Checkout(p) ==
    /\ spot[p] = "checkout"
    /\ \E commit \in Candidates(Here(p), CheckoutRef(Entry(p))) :
          LET ref == CheckoutRef(Entry(p))
          IN SetHere(p, [Here(p) EXCEPT
                !.files = commit,
                !.local = IF ref \in Revs THEN @ ELSE Put(@, ref, commit)])
    /\ Goto(p, IF Entry(p).subdir \in Bare THEN "failed" ELSE "copy")
    /\ UNCHANGED <<world, left, joined, copied>>

\* The ref is unknown, or its files cannot be had: the clone was without blobs, or
\* is not finished.
CheckoutFails(p) == /\ spot[p] = "checkout"
                    /\ \/ Offline \/ joined[p]
                       \/ Candidates(Here(p), CheckoutRef(Entry(p))) = {}
                    /\ Goto(p, "failed")
                    /\ UNCHANGED <<world, cache, left, joined, copied>>

\* install copies the checkout; the next entry follows.
Copy(p) == /\ spot[p] = "copy" /\ Here(p).files # None
           /\ copied' = [copied EXCEPT ![p] = @ \cup
                {[source |-> Entry(p), commit |-> Here(p).files, joined |-> joined[p]]}]
           /\ left' = [left EXCEPT ![p] = Tail(@)]
           /\ Goto(p, "resolve")
           /\ UNCHANGED <<world, cache, joined>>

\* A clone that failed took the checkout of another install with it.
CopyFails(p) == /\ spot[p] = "copy" /\ Here(p).files = None
                /\ Goto(p, "failed")
                /\ UNCHANGED <<world, cache, left, joined, copied>>

\* The next command.  A clean before it removes what was staged, not MOVE_HOME.
Again(p) == /\ spot[p] \in {"refused", "done", "failed"}
            /\ Goto(p, "idle")
            /\ left' = [left EXCEPT ![p] = <<>>]
            /\ joined' = [joined EXCEPT ![p] = FALSE]
            /\ copied' = [copied EXCEPT ![p] = {}]
            /\ UNCHANGED <<world, cache>>

\* Somebody pushes to a branch.
Push == /\ \E u \in Moving, b \in Branches :
              /\ tip[u][b] < MaxPush
              /\ tip' = [tip EXCEPT ![u][b] = @ + 1]
        /\ UNCHANGED <<deaths, runs, cache, spot, left, joined, copied>>

SourcesNext ==
    \/ \E p \in Procs :
          \/ Load(p) \/ Finish(p) \/ NoPin(p) \/ Reuse(p) \/ Decide(p)
          \/ CloneStart(p) \/ CloneRefused(p) \/ CloneEnd(p) \/ CloneFails(p) \/ CloneDies(p)
          \/ Fetch(p) \/ Checkout(p) \/ CheckoutFails(p) \/ Copy(p) \/ CopyFails(p) \/ Again(p)
    \/ Push

SourcesSpec == SourcesInit /\ [][SourcesNext]_vars

-----------------------------------------------------------------------------
Sourced == [kind : {"git"}, at : Urls, rev : Texts, branch : Texts, tag : Texts, subdir : Texts]
Names == [name : Refs, commit : Commits]
Dir == [git : {"no", "half", "whole"}, origin : Urls \cup {None}, has : SUBSET Commits,
        local : SUBSET Names, tracked : SUBSET Names, files : Commits \cup {None}]

SourcesTypeOK ==
    /\ tip \in [Urls -> [Branches -> 0 .. MaxPush]]
    /\ cache \in [Dirs -> Dir]
    /\ spot \in [Procs -> {"idle", "refused", "resolve", "clone", "cloning", "fetch",
                           "checkout", "copy", "done", "failed"}]
    /\ left \in [Procs -> Seq(Sourced)]
    /\ joined \in [Procs -> BOOLEAN]
    /\ copied \in [Procs -> SUBSET [source : Sourced, commit : Commits, joined : BOOLEAN]]
    /\ deaths \in 0 .. MaxDeaths
    /\ runs \in 0 .. MaxRuns

\* The pins of all configs; those that end up in one directory of MOVE_HOME.
Pins == UNION {ToSet(GitSources(c)) : c \in {d \in RawConfigs : Accepted(d)}}
SameDir(s, t) == Dirname[s.at] = Dirname[t.at] /\ CheckoutRef(s) = CheckoutRef(t)

\* With any other install at work in MOVE_HOME, with clones that died and fetches
\* that failed unnoticed, what an install copies was named by its own pin at some
\* moment, or by a pin that shares its directory: one whose URL is sanitized alike
\* and may be of another repository.  It is not said when: a stale commit will do.
CopiedIsPinned == \A p \in Procs : \A x \in copied[p] : \E s \in Pins :
    SameDir(s, x.source) /\ x.commit \in EverNamed(s.at, CheckoutRef(s))

\* The packages of one repository that one install gets for one pin come from one
\* commit, however often upstream moves between their checkouts and whatever other
\* installs do; exempt are checkouts in a clone that was not finished.
OneCommitPerPin == \A p \in Procs : \A x, y \in copied[p] :
    x.source.at = y.source.at /\ SameDir(x.source, y.source) /\ ~x.joined /\ ~y.joined
      => x.commit = y.commit
=============================================================================
