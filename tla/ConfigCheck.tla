---------------------------- MODULE ConfigCheck -----------------------------
(* Which configs Config::load accepts, and the entries it makes of them.  A   *)
(* field that the TOML leaves out is None.                                    *)
EXTENDS FiniteSets, Naturals, Sequences, SequencesExt

CONSTANTS
    None,
    Ids,        \* keys of [packages.<id>]; "package" is the id of a [package]
    IdRank,     \* their places in the order of strings
    Texts,      \* values of path, git, rev, branch, tag, subdir and crate_name
    Stem,       \* kebab-cased last component of a path, a subdir or a URL,
                \* with "-rs": the default crate name
    BadNames    \* network names with characters that are not allowed

Raw == [id : Ids, path : Texts, git : Texts, rev : Texts, branch : Texts,
        tag : Texts, subdir : Texts, crate_name : Texts]

ASSUME TablesAssumption ==
    /\ None \in Texts /\ Stem \in [Texts -> Texts \ {None}]
    /\ IdRank \in [Ids -> Nat] /\ IsInjective(IdRank)

Given(r, fields) == {f \in fields : r[f] # None}

\* RuntimeSpec::from_raw, given the kinds of source the table sets.
RuntimeOk(kinds) == Cardinality(kinds) = 1

-----------------------------------------------------------------------------
(* PackageSource::from_raw                                                    *)

SourceOk(r) ==
    /\ Cardinality(Given(r, {"path", "git"})) = 1
    /\ r.git # None => Cardinality(Given(r, {"rev", "branch", "tag"})) <= 1

SourceOf(r) ==
    IF r.path # None
    THEN [kind |-> "path", at |-> r.path, rev |-> None, branch |-> None, tag |-> None, subdir |-> None]
    ELSE [kind |-> "git", at |-> r.git, rev |-> r.rev, branch |-> r.branch,
          tag |-> r.tag, subdir |-> r.subdir]

DefaultCrateName(source) ==
    IF source.subdir # None THEN Stem[source.subdir] ELSE Stem[source.at]

CrateName(r) == IF r.crate_name # None THEN r.crate_name ELSE DefaultCrateName(SourceOf(r))

-----------------------------------------------------------------------------
(* A whole config: format, output name, [package], [packages.*], the kinds of *)
(* runtime source and the names of [publish].networks.                        *)

\* The tables the format calls for, and none of the other kind.
SectionsOk(c) ==
    \/ c.format = "single-crate" /\ c.package # None /\ c.packages = {}
    \/ c.format = "workspace" /\ c.package = None /\ c.packages # {}

Tables(c) == IF c.format = "single-crate" THEN {c.package} ELSE c.packages

UniqueSources(c) == IsInjective([r \in Tables(c) |-> SourceOf(r)])

UniqueCrateNames(c) == IsInjective([r \in Tables(c) |-> CrateName(r)])

NetworksOk(names) ==
    /\ ToSet(names) \cap BadNames = {}
    /\ \A i, j \in DOMAIN names : names[i] = names[j] => i = j

\* mutant of Accepted: the tables are not validated
AcceptedUnchecked(c) == SectionsOk(c) /\ RuntimeOk(c.runtime) /\ NetworksOk(c.networks)

Accepted(c) ==
    /\ SectionsOk(c)
    /\ RuntimeOk(c.runtime)
    /\ \A r \in Tables(c) : SourceOk(r)
    /\ UniqueSources(c)
    /\ UniqueCrateNames(c)
    /\ c.format = "workspace" => c.name # None
    /\ NetworksOk(c.networks)

Before(r, s) == IdRank[r.id] < IdRank[s.id]

\* Tables sorted by id: the k-th is the one with k - 1 before it.
InOrder(rows) ==
    [k \in 1 .. Cardinality(rows) |->
        CHOOSE r \in rows : Cardinality({s \in rows : Before(s, r)}) = k - 1]
=============================================================================
