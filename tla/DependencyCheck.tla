-------------------------- MODULE DependencyCheck ---------------------------
(***************************************************************************)
(* The tool check_dependency_versions (services/dependency_check.py): list *)
(* the repository's root, and, manifest by manifest, fetch it, parse it    *)
(* and ask the ecosystem's registry about each version it declares.  An    *)
(* exception ends the tool, and execute_tool_turn answers the model with   *)
(* an error instead of the findings.                                       *)
(*                                                                         *)
(* An entry of the root has a path, whether it is a file, the kind of its  *)
(* name and its content: Malformed, or a sequence of declarations.  A      *)
(* declaration has a package, a form and a version:                        *)
(*   exact       one version ("==1.2", "1.2" in package.json and .csproj)  *)
(*   compatible  npm's "^1.2" and "~1.2"                                   *)
(*   wildcard    "==1.*", "1.*"                                            *)
(*   range       ">=1.2", "[1.0,2.0)"                                      *)
(*   hidden      one version, where no parser looks: "name[extra]==1.2",   *)
(*               "===1.2", a nested <Version>, pyproject's optional and    *)
(*               package.json's peer dependencies                          *)
(*   unversioned no version at all                                         *)
(***************************************************************************)
EXTENDS Versions, SequencesExt

CONSTANTS
    None, Malformed,
    Packages,
    Roots,      \* the root listings of the reviewed commit
    Registry    \* the answers, of versions and None, of [ecosystem][package]

EcosystemOf ==
    [requirements |-> "pypi", pyproject |-> "pypi", package_json |-> "npm", csproj |-> "nuget"]

Ecosystems == {"pypi", "npm", "nuget"}
Manifests  == DOMAIN EcosystemOf

Declaration ==
    [package: Packages,
     form: {"exact", "compatible", "wildcard", "range", "hidden", "unversioned"},
     version: Version]

Entry ==
    [path: STRING, file: BOOLEAN, name: Manifests \cup {"other"},
     content: Seq(Declaration) \cup {Malformed}]

ASSUME RootsAssumption == Roots \subseteq Seq(Entry) /\ Malformed \notin Seq(Declaration)
ASSUME RegistryAssumption ==
    /\ Registry \in [Ecosystems -> [Packages -> SUBSET (Version \cup {None})]]
    /\ None \notin Version
ASSUME ResultAssumption == None \notin {"returned", "parse_error", "github_error", "registry_error"}

(* What the characters of the PEP 508 expression leave out of a version: a *)
(* local part ("2.0.0+cu118"), and all that follows an epoch ("1!2.0",     *)
(* whose release starts with the epoch).                                   *)
CutTags == {"local", "epoch"}

ASSUME FormsAssumption == {"wildcard", "range"} \cup CutTags \subseteq Tags

VARIABLES
    root,        \* the root listing GitHub holds
    pc,          \* what the tool awaits
    manifests,   \* manifest_paths still to check; the first is being checked
    declared,    \* its parsed dependencies still to be looked up
    findings,
    result       \* None, "returned" or the kind of exception raised

vars == <<root, pc, manifests, declared, findings, result>>

-----------------------------------------------------------------------------
(* The forms each parser reads: the PEP 508 expression takes the start of  *)
(* what follows "==", npm's takes dotted integers after an optional "^" or *)
(* "~", and .csproj's takes the Version attribute as it is.                *)
FormsRead ==
    [pypi |-> {"exact", "wildcard"}, npm |-> {"exact", "compatible"},
     nuget |-> {"exact", "wildcard", "range"}]

IsRead(ecosystem, d) ==
    d.form \in FormsRead[ecosystem] /\ (ecosystem = "npm" => IsNumeric(d.version))

(* "2.0.0" of "2.0.0+cu118", and "1" of "1!2.0".                           *)
Cut(v) ==
    [release |-> IF v.tag = "epoch" THEN <<Head(v.release)>> ELSE v.release, tag |-> NoTag]

(* The version text a parser returns: the Python manifests' is cut, "^1.2" *)
(* loses its prefix, and what is left of a wildcard or a range is no       *)
(* dotted integer.                                                         *)
TextOf(ecosystem, d) ==
    IF ecosystem = "pypi" /\ d.version.tag \in CutTags THEN Cut(d.version)
    ELSE IF d.form \in {"exact", "compatible"} THEN d.version
    ELSE [d.version EXCEPT !.tag = d.form]

(* The elements of s that are in S, in order (SelectSeq, for a set).       *)
Among(s, S) ==
    LET among[n \in 0..Len(s)] ==
            IF n = 0 THEN <<>>
            ELSE IF s[n] \in S THEN Append(among[n - 1], s[n]) ELSE among[n - 1]
    IN  among[Len(s)]

Parse(ecosystem, content) ==
    LET kept == Among(content, {d \in ToSet(content) : IsRead(ecosystem, d)})
    IN  [i \in DOMAIN kept |->
            [name |-> kept[i].package, version |-> TextOf(ecosystem, kept[i])]]

(* A malformed requirements.txt has lines that are no pin; every other     *)
(* parser raises.                                                          *)
ParserRaises(m) == m.content = Malformed /\ m.name # "requirements"

ParsedContent(m) ==
    IF m.content = Malformed THEN <<>> ELSE Parse(EcosystemOf[m.name], m.content)

Finding(m, dependency, latest) ==
    [file |-> m.path, ecosystem |-> EcosystemOf[m.name], package_name |-> dependency.name,
     declared_version |-> dependency.version, latest_version |-> latest,
     is_outdated |-> latest # None /\ is_outdated(dependency.version, latest)]

-----------------------------------------------------------------------------
IsManifest(e) == e.file /\ e.name \in Manifests

Init ==
    /\ root \in Roots
    /\ pc = "list_root"
    /\ manifests = <<>> /\ declared = <<>> /\ findings = <<>>
    /\ result = None

Raises(exception) ==
    /\ pc' = "done"
    /\ result' = exception
    /\ UNCHANGED <<root, manifests, declared, findings>>

ListRoot ==
    /\ pc = "list_root"
    /\ pc' = "fetch_file"
    /\ manifests' = Among(root, {e \in ToSet(root) : IsManifest(e)})
    /\ UNCHANGED <<root, declared, findings, result>>

FetchManifest ==
    /\ pc = "fetch_file" /\ manifests # <<>>
    /\ \/ ParserRaises(Head(manifests)) /\ Raises("parse_error")
       \/ /\ ~ParserRaises(Head(manifests))
          /\ pc' = "look_up"
          /\ declared' = ParsedContent(Head(manifests))
          /\ UNCHANGED <<root, manifests, findings, result>>

(* Mutant: every package is looked up in one registry.                     *)
LookUp_OneRegistry ==
    /\ pc = "look_up" /\ declared # <<>>
    /\ \E latest \in Registry["pypi"][Head(declared).name] :
          findings' = Append(findings, Finding(Head(manifests), Head(declared), latest))
    /\ declared' = Tail(declared)
    /\ UNCHANGED <<root, pc, manifests, result>>

(* fetch_latest: an HTTP error status, a private package's 404 for one, is *)
(* answered None like a registry that lists no version.                    *)
LookUp ==
    /\ pc = "look_up" /\ declared # <<>>
    /\ \E latest \in Registry[EcosystemOf[Head(manifests).name]][Head(declared).name] :
          findings' = Append(findings, Finding(Head(manifests), Head(declared), latest))
    /\ declared' = Tail(declared)
    /\ UNCHANGED <<root, pc, manifests, result>>

(* Mutant: the findings of a manifest replace those of the one before.     *)
NextManifest_Replaces ==
    /\ pc = "look_up" /\ declared = <<>>
    /\ pc' = "fetch_file"
    /\ manifests' = Tail(manifests)
    /\ findings' = Among(findings, {f \in ToSet(findings) : f.file = Head(manifests).path})
    /\ UNCHANGED <<root, declared, result>>

NextManifest ==
    /\ pc = "look_up" /\ declared = <<>>
    /\ pc' = "fetch_file"
    /\ manifests' = Tail(manifests)
    /\ UNCHANGED <<root, declared, findings, result>>

Return ==
    /\ pc = "fetch_file" /\ manifests = <<>>
    /\ pc' = "done"
    /\ result' = "returned"
    /\ UNCHANGED <<root, manifests, declared, findings>>

(* A GitHub call fails for good, or what it answers cannot be decoded.     *)
GithubFails ==
    /\ \/ pc = "list_root"
       \/ pc = "fetch_file" /\ manifests # <<>>
    /\ Raises("github_error")

(* A registry call fails without an HTTP status (no connection, a timeout) *)
(* or its answer is not the expected JSON: neither is caught.              *)
RegistryFails ==
    /\ pc = "look_up" /\ declared # <<>>
    /\ Raises("registry_error")

Terminated == pc = "done" /\ UNCHANGED vars

Next ==
    \/ ListRoot \/ FetchManifest \/ LookUp \/ NextManifest \/ Return
    \/ GithubFails \/ RegistryFails
    \/ Terminated

Spec == Init /\ [][Next]_vars

-----------------------------------------------------------------------------
(* When the tool returns, no manifest at the root was one it could not     *)
(* parse, and every plain pin has a finding of its own that shows it as it *)
(* is declared, in the order of the root and of the declarations, with     *)
(* nothing dropped or mixed up where one manifest follows another.  Not    *)
(* every exact version is plain: the parsers pass over the hidden ones and *)
(* npm's that are not dotted integers, and cut those of Python manifests   *)
(* that have a local part or an epoch.                                     *)
ManifestPlaces == {i \in DOMAIN root : IsManifest(root[i])}

IsPlainPin(e, d) ==
    /\ d.form = "exact"
    /\ EcosystemOf[e.name] = "npm" => IsNumeric(d.version)
    /\ EcosystemOf[e.name] = "pypi" => d.version.tag \notin CutTags

PinPlaces ==
    UNION {{<<i, j>> : j \in {d \in DOMAIN root[i].content :
                                 IsPlainPin(root[i], root[i].content[d])}} :
           i \in {m \in ManifestPlaces : root[m].content # Malformed}}

Precedes(p, q) == p[1] < q[1] \/ (p[1] = q[1] /\ p[2] < q[2])

Reports(f, p) ==
    LET d == root[p[1]].content[p[2]]
    IN  f.file = root[p[1]].path /\ f.package_name = d.package /\ f.declared_version = d.version

(* The pins have findings of their own, in order.                          *)
Covered(pins) ==
    \E at \in [pins -> DOMAIN findings] :
        /\ \A p \in pins : Reports(findings[at[p]], p)
        /\ \A p, q \in pins : Precedes(p, q) => at[p] < at[q]

PlainPinsAreReported ==
    result = "returned" =>
        /\ \A i \in ManifestPlaces : ~ParserRaises(root[i])
        /\ Covered(PinPlaces)

(* The same package name lives in several registries: a finding compares   *)
(* with what the registry of its own file's ecosystem answers.             *)
RightRegistry ==
    \A f \in ToSet(findings) : \E e \in ToSet(root) :
        /\ e.path = f.file /\ e.name \in Manifests
        /\ f.latest_version \in Registry[EcosystemOf[e.name]][f.package_name]

(* Read as the digits of a number, the first the heaviest, a version is    *)
(* reported as outdated exactly if it is worth less than the latest one,   *)
(* so that "1.2" is not behind "1.2.0" and "1.10" not behind "1.9".  With  *)
(* no latest version, or none but the declared one, nothing is outdated.   *)
Segments(v) == {v.release[i] : i \in DOMAIN v.release}

Worth(v, width, base) ==
    LET worth[n \in 0..width] ==
            IF n = 0 THEN 0
            ELSE worth[n - 1] * base + (IF n \in DOMAIN v.release THEN v.release[n] ELSE 0)
    IN  worth[width]

WorthLess(v, w) ==
    LET width == Longer(v.release, w.release)
        base  == 1 + Max(Segments(v) \cup Segments(w))
    IN  Worth(v, width, base) < Worth(w, width, base)

OutdatedIsWorthLess ==
    \A f \in ToSet(findings) :
        LET pin    == f.declared_version
            latest == f.latest_version
        IN  IF latest \in {None, pin} THEN ~f.is_outdated
            ELSE IsNumeric(pin) /\ IsNumeric(latest) => f.is_outdated = WorthLess(pin, latest)
=============================================================================
