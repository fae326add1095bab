------------------------------ MODULE Custody ------------------------------
(***************************************************************************)
(* What an entitlement chain promises, without records, hashes or          *)
(* signatures: a set of custody histories.  A history begins with a grant  *)
(* bound to one bundle version and is only ever extended, by a handoff     *)
(* that its current holder made or by a note that leaves the holder alone. *)
(* (spec/SPEC.md section 18, docs/FORMAT-DESIGN.md section 9.)             *)
(***************************************************************************)
EXTENDS Naturals, SequencesExt

CONSTANTS Holders, Roots

VARIABLE histories      \* every history anybody can show

\* The set of holders that put their name to an event is {} unless it is a handoff.
Event(kind, holder, by, root) == [kind |-> kind, holder |-> holder, by |-> by, root |-> root]

CurrentHolder(h) == Last(h).holder

Init == histories = {}

Grant(holder, root) ==
    histories' = histories \cup {<<Event("grant", holder, {}, {root})>>}

Handoff(h, holder) ==
    histories' = histories \cup {Append(h, Event("handoff", holder, {CurrentHolder(h)}, {}))}

Note(h) ==
    histories' = histories \cup {Append(h, Event("note", CurrentHolder(h), {}, {}))}

Next ==
    \/ \E holder \in Holders, root \in Roots : Grant(holder, root)
    \/ \E h \in histories :
          \/ \E holder \in Holders : Handoff(h, holder)
          \/ Note(h)

Spec == Init /\ [][Next]_histories
=============================================================================
