----------------------------- MODULE MCSources ------------------------------
(* Three repositories, two of which share a directory name, one branch, one   *)
(* tag and one commit id; configs of one or two entries, right and wrong.     *)
EXTENDS Sources

MCUrls == {"u1", "u2", "u2.git"}
MCDirname == [u \in MCUrls |-> IF u = "u1" THEN "u1" ELSE "u2"]
MCTexts == MCUrls \cup {None, "main", "v1", "c0ffee", "x", "y", "x-rs", "y-rs", "u-rs"}
MCStem == [t \in MCTexts |-> IF t = "y" THEN "y-rs" ELSE IF t = "x" THEN "x-rs" ELSE "u-rs"]
MCIds == {"package", "one", "two"}
MCIdRank == [i \in MCIds |-> IF i = "one" THEN 1 ELSE IF i = "package" THEN 2 ELSE 3]

Row(id) == [id |-> id, path |-> None, git |-> None, rev |-> None,
            branch |-> None, tag |-> None, subdir |-> None, crate_name |-> None]
Single(row) == [format |-> "single-crate", name |-> None, package |-> row, packages |-> {},
                runtime |-> {"git"}, networks |-> <<"main">>]
Workspace(rows) == [format |-> "workspace", name |-> "x", package |-> None, packages |-> rows,
                    runtime |-> {"git"}, networks |-> <<>>]

MainX == [Row("one") EXCEPT !.git = "u1", !.branch = "main", !.subdir = "x"]
MainY == [Row("two") EXCEPT !.git = "u1", !.branch = "main", !.subdir = "y"]
AtRev == [Row("package") EXCEPT !.git = "u1", !.rev = "c0ffee"]
\* A branch named as a rev, as the configs of this repository do.
RevMain == [Row("package") EXCEPT !.git = "u1", !.rev = "main", !.subdir = "x"]
AtTag == [Row("package") EXCEPT !.git = "u1", !.tag = "v1", !.subdir = "x"]
Other == [Row("two") EXCEPT !.git = "u2", !.branch = "main"]
Alike == [Row("package") EXCEPT !.git = "u2.git", !.branch = "main"]
NoRef == [Row("package") EXCEPT !.git = "u2"]
Local == [Row("one") EXCEPT !.path = "x"]

Good == {Workspace({MainX, MainY}), Workspace({Other, Local}), Single(AtRev), Single(AtTag),
         Single(RevMain), Single(Alike), Single(NoRef)}
Wrong == {
    Single([AtTag EXCEPT !.branch = "main"]),
    Single([AtRev EXCEPT !.path = "x"]),
    Single(Row("package")),
    Workspace({MainX, [MainX EXCEPT !.id = "two"]}),
    Workspace({Local, [MainX EXCEPT !.id = "two"]}),
    Workspace({}),
    [Workspace({Local}) EXCEPT !.package = AtRev],
    [Workspace({Local}) EXCEPT !.name = None],
    [Workspace({Local}) EXCEPT !.runtime = {}],
    [Workspace({Local}) EXCEPT !.runtime = {"git", "path"}],
    [Single(AtRev) EXCEPT !.packages = {Local}],
    [Single(AtRev) EXCEPT !.networks = <<"main", "x", "main">>],
    [Single(AtRev) EXCEPT !.networks = <<"y">>]}
MCRawConfigs == Good \cup Wrong
=============================================================================
