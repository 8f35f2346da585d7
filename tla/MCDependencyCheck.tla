------------------------- MODULE MCDependencyCheck --------------------------
(***************************************************************************)
(* A small instance of DependencyCheck: roots of one or two entries, of    *)
(* every kind of manifest with declarations of every form, one package     *)
(* name in all three registries, and a package pinned at, and answered by, *)
(* every version of a sample.                                              *)
(***************************************************************************)
EXTENDS DependencyCheck

Text(release, tag) == [release |-> release, tag |-> tag]
One == Text(<<1>>, NoTag)
Old == Text(<<1, 2>>, NoTag)
New == Text(<<1, 10>>, NoTag)
Pre == Text(<<2>>, "rc")

D(package, form, version) == [package |-> package, form |-> form, version |-> version]

Mixed == <<D("left", "exact", Old), D("right", "range", One), D("right", "exact", Pre)>>
Loose == <<D("left", "compatible", Old), D("right", "wildcard", One), D("left", "unversioned", One)>>
Other == <<D("left", "exact", Text(<<1, 2>>, "local")), D("left", "hidden", Old),
           D("right", "exact", Text(<<1, 2>>, "epoch")), D("left", "exact", Old)>>
Twice == <<D("left", "exact", Old), D("left", "compatible", Old)>>

File(path, name, content) == [path |-> path, file |-> TRUE, name |-> name, content |-> content]

MCEntries ==
    {File("requirements.txt", "requirements", c) : c \in {Malformed, Mixed, Loose, Other}}
    \cup {File("pyproject.toml", "pyproject", c) : c \in {Malformed, Mixed, Other}}
    \cup {File("package.json", "package_json", c) : c \in {Mixed, Loose, Twice, Other}}
    \cup {File("app.csproj", "csproj", c) : c \in {Mixed, Loose, Other}}
    \cup {File("README.md", "other", <<>>),
          [File("lib.csproj", "csproj", <<>>) EXCEPT !.file = FALSE]}

Distinct(r) == \A i, j \in DOMAIN r : r[i].path = r[j].path => i = j

Samples ==
    {Text(r, NoTag) : r \in UNION {[1..n -> 0..1] : n \in 1..3} \cup {<<2>>, <<0, 2>>, <<1, 2, 0>>, <<10>>}}
    \cup {Text(<<1>>, t) : t \in {"rc", "dev"}}
    \cup {Text(<<1, 2>>, t) : t \in {"local", "epoch"}}

Pinned(v) == File("requirements.txt", "requirements", <<D("sampled", "exact", v)>>)

MCRoots ==
    {r \in UNION {[1..n -> MCEntries] : n \in 0..2} : Distinct(r)}
    \cup {<<Pinned(v)>> : v \in Samples}

MCRegistry ==
    [pypi  |-> [left |-> {New}, right |-> {None, Pre}, sampled |-> Samples],
     npm   |-> [left |-> {One, Old}, right |-> {None}, sampled |-> {None}],
     nuget |-> [left |-> {Old, None}, right |-> {Text(<<3>>, NoTag)}, sampled |-> {None}]]
=============================================================================
