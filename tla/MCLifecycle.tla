----------------------------- MODULE MCLifecycle -----------------------------
(***************************************************************************)
(* A small instance of Lifecycle: every document over two or three names   *)
(* that breaks or keeps a rule, a few that are worked on, and bundles only *)
(* the library writes (sealed sections, an external chunk index, a feature *)
(* of a later version).                                                    *)
(***************************************************************************)
EXTENDS Lifecycle

Data(n) == [i \in 1 .. n |-> <<"data", i>>]

MCRecipients == {To("seal", "org"), To("storage", "host")}
\* A chain of one record, and of two.
MCChain(n) == [i \in 1 .. n |-> <<"data", 70 + i>>]
MCChains == {MCChain(1), MCChain(2)}
MCRewrites == {<<"a", "a">>, <<"a", "b">>}

MCSymmetry == Permutations(Workers)

(***************************************************************************)
(* Documents                                                               *)
(***************************************************************************)
Plainest == [shaped |-> TRUE, policy |-> TRUE, stageGate |-> FALSE, derived |-> FALSE,
             artifacts |-> <<>>, external |-> <<>>, generate |-> {}, sealed |-> {}, solver |-> {}]

MCArtifact(name, path) == [name |-> name, path |-> path, plain |-> Data(3), readable |-> TRUE]

Outputs(seq) == {[determinism |-> "derived", wasm |-> {"gen"}, outputs |-> seq]}
MCOutput(name, visible) == [name |-> name, visible |-> visible]

PairDocs ==
    {[Plainest EXCEPT !.artifacts = <<MCArtifact(n1, p1), MCArtifact(n2, p2)>>] :
        n1, n2 \in {"a", "b", "manifest", "bad"}, p1, p2 \in {{}, {"a"}, {"b"}, {"x"}, {"bad"}}}

MixedDocs ==
    {[Plainest EXCEPT !.artifacts = a, !.external = x, !.generate = g, !.sealed = s, !.solver = v] :
        a \in {<<MCArtifact("a", p)>> : p \in {{}, {"b"}, {"x"}, {"manifest"}}},
        x \in {<<>>} \cup {<<[name |-> n, plain |-> Data(5), mirrors |-> {"m"}]>> : n \in {"a", "c"}}
              \cup {<<[name |-> "c", plain |-> Data(5), mirrors |-> {}]>>},
        g \in {{}, Outputs(<<>>), Outputs(<<MCOutput("b", TRUE)>>), Outputs(<<MCOutput("b", FALSE), MCOutput("b", TRUE)>>),
               {[determinism |-> "flag_only", wasm |-> {}, outputs |-> <<>>]},
               {[determinism |-> "flag_only", wasm |-> {"gen"}, outputs |-> <<MCOutput("b", TRUE)>>]}},
        s \in {{}} \cup {{[release |-> r, members |-> {m}]} : r \in {"event_end", "other"}, m \in {"a", "b", "c"}},
        v \in {{}, {""}, {"c"}}}

OddDocs ==
    {[Plainest EXCEPT !.shaped = FALSE], [Plainest EXCEPT !.policy = FALSE],
     [Plainest EXCEPT !.stageGate = TRUE], [Plainest EXCEPT !.stageGate = TRUE, !.derived = TRUE],
     [Plainest EXCEPT !.artifacts = <<[MCArtifact("a", {}) EXCEPT !.readable = FALSE]>>]}

MCHandled ==
    {[Plainest EXCEPT !.artifacts = <<MCArtifact("a", {"x"})>>,
                      !.external = <<[name |-> "c", plain |-> Data(5), mirrors |-> {"m"}]>>],
     [Plainest EXCEPT !.artifacts = <<MCArtifact("a", {}), [MCArtifact("b", {}) EXCEPT !.plain = Data(1)]>>,
                      !.sealed = {[release |-> "event_end", members |-> {"sol"}]}]}

MCDocs == PairDocs \cup MixedDocs \cup OddDocs \cup MCHandled

(***************************************************************************)
(* Bundles the library writes                                              *)
(***************************************************************************)
MCManifest(names, sealed, external) ==
    InlineSpec("manifest", 0, {}, <<<<"man",
        [shaped |-> TRUE, spec |-> 1, crit |-> {}, keys |-> KnownKeys, names |-> names,
         paths |-> [id \in {} |-> "none"], external |-> external, sealed |-> sealed]>>>>)

SealedSpec(kind, id, n, to) ==
    [InlineSpec(kind, id, {"SEALED"}, Data(n)) EXCEPT !.cs = 2, !.encrypt = TRUE, !.to = to]

SealedOrder(sealed) ==
    [suite |-> Suite, specs |->
        <<MCManifest(<<"manifest", "sol", "writeup", "keys">>, sealed, [id \in {} |-> "none"]),
          SealedSpec("solver", 1, 3, <<To("seal", "org"), To("storage", "host")>>),
          SealedSpec("artifact", 2, 1, <<To("seal", "org")>>),
          [InlineSpec("keys", 3, {}, <<>>) EXCEPT !.from = "envelopes"]>>]

\* One that was handed to a player, with the chain of that.
Handed(order) ==
    [order EXCEPT !.specs[1].plain[1][2].names = Append(@, "entitlement"),
                  !.specs = Append(@, InlineSpec("entitlement", Len(order.specs[1].plain[1][2].names),
                                                 {}, MCChain(1)))]

Declared(release, members) == {[release |-> release, members |-> members]}

Mirrors(id) == [x \in {id} |-> [size |-> 5, root |-> Hash(Data(5)), mirrors |-> {"m"}]]

MirroredSpec(id) ==
    [InlineSpec("artifact", id, {"EXTERNAL", "PLAYER_VISIBLE"}, Data(5)) EXCEPT
        !.from = "external", !.cs = 2, !.index = BuildIndex(Data(5), 2).value]

MirroredOrder ==
    [suite |-> Suite, specs |->
        <<MCManifest(<<"manifest", "a", "c", "keys">>, {}, Mirrors(2)),
          [InlineSpec("artifact", 1, {"PLAYER_VISIBLE"}, Data(3)) EXCEPT !.comp = "zstd"],
          MirroredSpec(2),
          [InlineSpec("keys", 3, {}, <<>>) EXCEPT !.from = "envelopes"]>>]

\* The least that is handed on and sealed.
RemoteOrder ==
    [suite |-> Suite, specs |-> <<MCManifest(<<"manifest", "c">>, {}, Mirrors(1)), MirroredSpec(1)>>]

Written(order) == [order |-> order, ro |-> {"container_v1"}]

\* A header with a feature of a later version.
Newer(order) == [order |-> order, ro |-> {"container_v1", "later"}]

MCGiven ==
    {Written(SealedOrder(s)) : s \in {{}, Declared("manual", {"sol"}), Declared("event_end", {"malformed"})}}
    \cup {Written(Handed(SealedOrder(Declared("event_end", {"sol"})))),
          Written(Handed(RemoteOrder)), Written(MirroredOrder), Newer(MirroredOrder)}
=============================================================================
