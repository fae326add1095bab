------------------------------ MODULE Authoring ------------------------------
(***************************************************************************)
(* From an authoring document to an unsigned bundle: the checks of         *)
(* `ctf validate`, the name table and the manifest `ctf pack` compiles,    *)
(* and the sections it writes.  Each is a function of the document and the *)
(* files beside it.  `doc.shaped` stands for every value that is judged on *)
(* its own (the id, the scope, the runtime, the overlay), `doc.policy` for *)
(* what only the platform descriptor is asked; a name in BadNames is one   *)
(* check_name refuses.  An Option is a set with at most one element.       *)
(***************************************************************************)
EXTENDS Format

CONSTANTS
    BadNames        \* names that are empty, path-like or hold control characters

ASSUME BadNamesAssumption == "" \in BadNames

(***************************************************************************)
(* What validate() finds: the keys that are wrong                          *)
(***************************************************************************)
Names(seq) == {x.name : x \in ToSet(seq)}

Repeats(seq) == \E i, j \in DOMAIN seq : i # j /\ seq[i].name = seq[j].name

GenerateIssues(g) ==
    {k \in {"generate.wasm", "generate.outputs"} :
        CASE k = "generate.wasm" ->
                IF g.determinism = "flag_only" THEN g.wasm # {} ELSE g.wasm \in {{}, {""}}
          [] k = "generate.outputs" ->
                \/ g.determinism = "flag_only" /\ g.outputs # <<>>
                \/ Names(g.outputs) \cap BadNames # {} \/ Repeats(g.outputs)}

\* R5: what is sealed is not for players.
SealedIssues(doc) ==
    LET visible == UNION {{o.name : o \in {o \in ToSet(g.outputs) : o.visible}} : g \in doc.generate}
    IN UNION {IF s.members \cap (visible \cup Names(doc.artifacts)) # {} \/ s.release = "other"
              THEN {"sealed"} ELSE {} : s \in doc.sealed}

OutputNames(doc) == UNION {Names(g.outputs) : g \in doc.generate}

\* Where a section is extracted to.
Destination(artifact) ==
    IF artifact.path = {} THEN artifact.name ELSE CHOOSE p \in artifact.path : TRUE

\* Only the paths of artifacts are compared with each other.
CollidesByPath(doc, i) ==
    LET a == doc.artifacts IN
    \E j \in 1 .. i - 1 : a[i].path # {} /\ a[j].path = a[i].path

\* The manifest and every output claim their flat name before the artifacts do.
Collides(doc, i) ==
    LET a == doc.artifacts IN
    \/ Destination(a[i]) \in {"manifest"} \cup OutputNames(doc)
    \/ \E j \in 1 .. i - 1 : a[j].name # "manifest" /\ Destination(a[j]) = Destination(a[i])

ArtifactIssues(doc) ==
    IF \/ "manifest" \in OutputNames(doc)
       \/ Repeats(doc.artifacts)
       \/ \E i \in DOMAIN doc.artifacts :
            \/ doc.artifacts[i].name \in BadNames \cup {"manifest"}
            \/ doc.artifacts[i].path \cap BadNames # {}
            \/ Collides(doc, i)
    THEN {"artifacts"} ELSE {}

\* Every other name the document gives a section.
Assigned(doc) ==
    OutputNames(doc) \cup (UNION {g.wasm : g \in doc.generate})
        \cup (UNION {s.members : s \in doc.sealed}) \cup doc.solver

\* Names shared with an artifact are let through.
ExternalIssuesSharing(doc) ==
    IF \/ Repeats(doc.external)
       \/ \E x \in ToSet(doc.external) :
            \/ x.name \in BadNames \cup {"manifest"} \cup Assigned(doc)
            \/ x.mirrors = {}
    THEN {"external"} ELSE {}

ExternalIssues(doc) ==
    IF \/ Repeats(doc.external)
       \/ \E x \in ToSet(doc.external) :
            \/ x.name \in BadNames \cup {"manifest"} \cup Names(doc.artifacts) \cup Assigned(doc)
            \/ x.mirrors = {}
    THEN {"external"} ELSE {}

Issues(doc) ==
    (IF doc.shaped THEN {} ELSE {"shape"})
        \cup (IF doc.stageGate /\ ~doc.derived THEN {"flag.stage_gate"} ELSE {})
        \cup (UNION {GenerateIssues(g) : g \in doc.generate})
        \cup SealedIssues(doc)
        \cup (IF doc.solver = {""} THEN {"verify.solver"} ELSE {})
        \cup ArtifactIssues(doc) \cup ExternalIssues(doc)

(***************************************************************************)
(* pack                                                                    *)
(***************************************************************************)
\* name_sources: artifacts first, externals last, every name once, in id order.
NameTable(doc) ==
    LET names(seq) == [i \in DOMAIN seq |-> seq[i].name]
        one(option) == SetToSeq(option)
        generated == FlattenSeq([i \in 1 .. Cardinality(doc.generate) |->
                        LET g == CHOOSE g \in doc.generate : TRUE IN
                        one(g.wasm) \o names(g.outputs)])
        all == <<"manifest">> \o names(doc.artifacts) \o generated
               \o SetToSeq(UNION {s.members : s \in doc.sealed})
               \o one(doc.solver) \o names(doc.external)
    IN Picked(all, {i \in DOMAIN all : all[i] # "" /\ \A j \in 1 .. i - 1 : all[j] # all[i]})

IdOf(table, name) == (CHOOSE i \in DOMAIN table : table[i] = name) - 1

\* A path that repeats the flat name is left out; `crit` names the tree if there is one.
ManifestFor(doc) ==
    LET table == NameTable(doc)
        placed == {a \in ToSet(doc.artifacts) : a.path \notin {{}, {a.name}}}
        id(x) == IdOf(table, x.name)
    IN [shaped |-> doc.shaped, spec |-> 1, crit |-> IF placed = {} THEN {} ELSE {"paths"},
        keys |-> KnownKeys, names |-> table,
        paths |-> [n \in {id(a) : a \in placed} |->
                      Destination(CHOOSE a \in placed : id(a) = n)],
        external |-> [n \in {id(x) : x \in ToSet(doc.external)} |->
                         LET x == CHOOSE x \in ToSet(doc.external) : id(x) = n IN
                         [size |-> Len(x.plain), root |-> Hash(x.plain), mirrors |-> x.mirrors]],
        sealed |-> doc.sealed]

\* pack::descriptor_for.
CanDescribe(doc) ==
    /\ Issues(doc) = {}
    /\ ToSet(NameTable(doc)) \cap BadNames = {}
    /\ DecodeOk(ManifestFor(doc))
    /\ doc.policy

InlineSpec(kind, id, flags, plain) ==
    [from |-> "inline", kind |-> kind, name |-> id, flags |-> flags, plain |-> plain,
     cs |-> 0, comp |-> "none", index |-> <<>>, encrypt |-> FALSE, stage |-> FALSE, to |-> <<>>]

\* The manifest, the artifacts and the records of the external payloads.  A sealed
\* member, a generator and a solver get a name and no section.
PackOrder(doc, suite) ==
    LET table == NameTable(doc)
        inline(a) == InlineSpec("artifact", IdOf(table, a.name), {"PLAYER_VISIBLE"}, a.plain)
        outside(x) == [InlineSpec("artifact", IdOf(table, x.name),
                                  {"EXTERNAL", "PLAYER_VISIBLE"}, x.plain) EXCEPT !.from = "external"]
    IN [suite |-> suite,
        specs |-> <<InlineSpec("manifest", 0, {}, <<<<"man", ManifestFor(doc)>>>>)>>
                  \o [i \in DOMAIN doc.artifacts |-> inline(doc.artifacts[i])]
                  \o [i \in DOMAIN doc.external |-> outside(doc.external[i])]]

\* write_bundle parses its own output before it returns it.
Reopened(f) == IF Parse(f).ok THEN Ok(f) ELSE Failed

Write(order) == IF CanLay(order) THEN Reopened(Laid(order)) ELSE Failed

SourcesFound(doc) == \A a \in ToSet(doc.artifacts) : a.readable

Pack(doc, suite) ==
    IF CanDescribe(doc) /\ SourcesFound(doc) THEN Write(PackOrder(doc, suite)) ELSE Failed

\* ctf validate: the checks of the document, then of its descriptor.
ValidateAccepts(doc) == Issues(doc) = {} /\ CanDescribe(doc)
=============================================================================
