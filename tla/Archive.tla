------------------------------- MODULE Archive -------------------------------
(***************************************************************************)
(* What the ingest store promises: a growing set of complete dossiers and  *)
(* a journal.  A bundle is stored whole, with one verdict and the journal  *)
(* entry that says so, or not at all; a rejection leaves only its entry;   *)
(* only what is stored is ever released; nothing is changed or removed.    *)
(* (crates/ctf-tui/README.md, "Ingest rules that the code enforces".)      *)
(***************************************************************************)
CONSTANTS Bundles, Challenges, SectionNames, Verdicts

VARIABLES dossiers, journal

\* One bundle, with every row that mentions it.
Dossier(bundle, challenges, sections, verdicts) ==
    [bundle |-> bundle, challenges |-> challenges, sections |-> sections,
     verdicts |-> verdicts]

Entry(action, bundles, verdicts) ==
    [action |-> action, bundles |-> bundles, verdicts |-> verdicts]

Init == dossiers = {} /\ journal = {}

Store(bundle, challenge, verdict) ==
    /\ \A d \in dossiers : d.bundle # bundle
    /\ dossiers' = dossiers \cup {Dossier(bundle, {challenge}, SectionNames, {verdict})}
    /\ journal' = journal \cup {Entry("ingest.stored", {bundle}, {verdict})}

Reject ==
    /\ journal' = journal \cup {Entry("ingest.rejected", {}, {"rejected"})}
    /\ UNCHANGED dossiers

Release(d) ==
    /\ journal' = journal \cup {Entry("release.event_end", {d.bundle}, {})}
    /\ UNCHANGED dossiers

Next ==
    \/ \E bundle \in Bundles, challenge \in Challenges, verdict \in Verdicts :
          Store(bundle, challenge, verdict)
    \/ Reject
    \/ \E d \in dossiers : Release(d)

Spec == Init /\ [][Next]_<<dossiers, journal>>
=============================================================================
