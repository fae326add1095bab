----------------------------- MODULE MCContainer -----------------------------
(***************************************************************************)
(* A small instance of Container: what callers ask the writer for.         *)
(***************************************************************************)
EXTENDS Container

Data(n) == [i \in 1 .. n |-> <<"data", i>>]

MCSection(kind, name, flags, plain) ==
    [from |-> "inline", kind |-> kind, name |-> name, flags |-> flags, plain |-> plain,
     cs |-> 0, comp |-> "none", index |-> <<>>, encrypt |-> FALSE, stage |-> FALSE, to |-> <<>>]

MCManifest(external) ==
    MCSection("manifest", 0, {}, <<<<"man",
        [shaped |-> TRUE, spec |-> 1, crit |-> {"paths"}, keys |-> KnownKeys,
         names |-> <<"manifest", "a", "b">>,
         paths |-> [id \in {1} |-> "x/a"], external |-> external]>>>>)

\* A manifest that names three sections, and the external ones among `specs`.
MCOrder(specs) ==
    LET outside == {s \in ToSet(specs) : s.from = "external"}
        external == [id \in {s.name : s \in outside} |->
                        LET s == CHOOSE s \in outside : s.name = id IN
                        [size |-> Len(s.plain), root |-> Hash(s.plain), mirrors |-> {"m"}]]
    IN [suite |-> "s1", specs |-> <<MCManifest(external)>> \o specs]

Artifact(plain) == MCSection("artifact", 1, {"PLAYER_VISIBLE"}, plain)
Chunked(s, cs) == [s EXCEPT !.cs = cs]
Compressed(s) == [s EXCEPT !.comp = "zstd"]
Future(plain) == MCSection("future", 2, {"OPTIONAL", "PLAYER_VISIBLE"}, plain)
External(plain, cs, index) ==
    [MCSection("artifact", 2, {"EXTERNAL", "PLAYER_VISIBLE"}, plain) EXCEPT
        !.from = "external", !.cs = cs, !.index = index]
Sealed(plain, to) ==
    [MCSection("solver", 1, {"SEALED"}, plain) EXCEPT !.cs = 2, !.encrypt = TRUE, !.to = to]
Keys == [MCSection("keys", 2, {}, <<>>) EXCEPT !.from = "envelopes"]

PlainOrders == {MCOrder(<<Artifact(Data(n))>>) : n \in {0, 3}}
    \cup {MCOrder(<<Chunked(Artifact(Data(n)), 2)>>) : n \in {2, 3, 5, 9}}
    \cup {MCOrder(<<Compressed(Chunked(Artifact(Data(n)), 2))>>) : n \in {0, 3}}
    \cup {MCOrder(<<Compressed(Artifact(Data(9)))>>)}      \* more than MaxRatio
    \cup {MCOrder(<<Artifact(Data(1)), Compressed(Future(Data(1)))>>)}

SealedOrders ==
    {MCOrder(<<Sealed(Data(n), <<To("seal", "org"), To("storage", "host")>>), Keys>>) : n \in {0, 3, 7}}
    \cup {MCOrder(<<Compressed(Sealed(Data(n), <<To("seal", "org")>>)), Keys>>) : n \in {0, 3}}
    \cup {MCOrder(<<[Sealed(Data(3), <<To("storage", "host")>>) EXCEPT
                        !.kind = "artifact", !.flags = {"PLAYER_VISIBLE"}], Keys>>)}
    \cup {MCOrder(<<[Sealed(Data(3), <<>>) EXCEPT !.stage = TRUE], Future(Data(1))>>)}

ExternalOrders ==
    {MCOrder(<<Artifact(Data(2)), External(Data(5), 2, BuildIndex(Data(5), 2).value)>>),
     MCOrder(<<Artifact(Data(1)), External(Data(3), 0, <<>>)>>)}

\* Orders the writer must refuse.
BadOrders ==
    {[MCOrder(<<Artifact(Data(1))>>) EXCEPT !.suite = "s9"],
     MCOrder(<<Sealed(Data(3), <<To("seal", "org")>>)>>),
     MCOrder(<<[Sealed(Data(3), <<>>) EXCEPT !.encrypt = FALSE]>>),
     MCOrder(<<Chunked(Artifact(Data(3)), 1)>>),
     MCOrder(<<Chunked(Artifact(Data(9)), 2), [Artifact(Data(1)) EXCEPT !.name = 3]>>),
     MCOrder(<<Artifact(Data(2)), External(Data(5), 2, BuildIndex(Data(4), 2).value)>>),
     MCOrder(<<Artifact(Data(2)), External(Data(4), 2, [BuildIndex(Data(4), 2).value EXCEPT ![1] = <<"data", 1>>])>>)}

\* An order with another manifest.
WithManifest(order, m) == [order EXCEPT !.specs[1].plain[1][2] = m]

BadManifests ==
    LET plain == MCOrder(<<Artifact(Data(1)), [Artifact(Data(1)) EXCEPT !.name = 2]>>)
        outside == MCOrder(<<Artifact(Data(1)), External(Data(3), 0, <<>>)>>)
        m(order) == order.specs[1].plain[1][2]
    IN {WithManifest(plain, v) : v \in Variants(m(plain),
            [crit |-> {{"vm"}}, names |-> {<<"manifest", "a", "a">>, <<"manifest", "a">>},
             paths |-> {[id \in {1, 2} |-> "x/a"], [id \in {3} |-> "x/a"]}])}
       \cup {WithManifest(outside, [m(outside) EXCEPT !.external[2] = v]) :
                v \in Variants(m(outside).external[2], [size |-> {2}, mirrors |-> {{}}])}
       \cup {WithManifest(outside, [m(outside) EXCEPT !.external = <<>>])}

MCOrders == PlainOrders \cup SealedOrders \cup ExternalOrders \cup BadOrders \cup BadManifests
=============================================================================
