------------------------------- MODULE Ingest -------------------------------
(***************************************************************************)
(* The admin console's background tasks over the Postgres store: `ingest`  *)
(* writes one bundle in one transaction, a rejection and a release write   *)
(* one audit row each.  Tasks of one or several consoles interleave at     *)
(* every statement; any statement can fail, the answer to one that took    *)
(* effect can be lost, and a console can die at any point.                 *)
(*                                                                         *)
(* A transaction runs at READ COMMITTED.  `now()` is the time it began,    *)
(* the ids come from sequences that never go back, and the upsert of the   *)
(* challenge row locks that row until the transaction ends.  Reading and   *)
(* checking the file touches nothing shared, so it is part of the step     *)
(* that starts a task.  A challenge stands for its (slug, version) row,    *)
(* whose name, category and updated_at are left out.                       *)
(***************************************************************************)
EXTENDS Naturals, FiniteSets

CONSTANTS
    Tasks,          \* background tasks that may be in flight at a time
    NoTask,         \* the owner of a challenge row nobody has locked
    Challenges,     \* (slug, version) pairs
    SectionNames,   \* the name_ids of a bundle's section table
    Verdicts,       \* of the offline gate; "rejected" never gets a verification row
    MaxConnections, \* the size of the connection pool
    MaxRuns,        \* bound: how many tasks are started
    MaxClock        \* bound: how often the clock advances

ASSUME IngestAssumption ==
    /\ NoTask \notin Tasks /\ "rejected" \notin Verdicts
    /\ MaxConnections \in Nat \ {0} /\ MaxRuns \in Nat /\ MaxClock \in Nat

VARIABLES
    db,         \* the committed rows
    next,       \* the sequences behind bundles.id and verification.id
    lock,       \* lock[c]: the task whose transaction wrote challenge c
    clock,      \* now()
    task,       \* task[t]: where task t is and what it has not committed
    runs,       \* history: how many tasks were started
    answers     \* history: what the console was told

vars == <<db, next, lock, clock, task, runs, answers>>

(***************************************************************************)
(* Rows                                                                    *)
(***************************************************************************)
BundleRows == [id: Nat, challenge: Challenges, at: Nat, run: Nat]
SectionRows == [bundle: Nat, name_id: SectionNames]
VerificationRows == [id: Nat, bundle: Nat, status: Verdicts, at: Nat]
AuditRows == [action: {"ingest.stored", "ingest.rejected", "release.event_end"},
           bundles: SUBSET Nat, verdicts: SUBSET (Verdicts \cup {"rejected"}), run: Nat]

Tables == [bundles: SUBSET BundleRows, sections: SUBSET SectionRows,
           verification: SUBSET VerificationRows, audit_log: SUBSET AuditRows]

Empty == [bundles |-> {}, sections |-> {}, verification |-> {}, audit_log |-> {}]

With(rows, more) == [table \in DOMAIN rows |-> rows[table] \cup more[table]]

AuditRow(action, bundles, verdicts, run) ==
    [action |-> action, bundles |-> bundles, verdicts |-> verdicts, run |-> run]

(***************************************************************************)
(* Tasks                                                                   *)
(***************************************************************************)
\* In a transaction, in statement order; "sections" repeats until all are written.
Transaction == {"challenge", "bundle", "sections", "verification", "audit", "commit"}

\* "begin", "reject" and "release" still wait for a connection; "reply" is a task
\* whose last statement took effect and whose caller has not been told.
Phases == {"idle", "begin", "reject", "release", "reply"} \cup Transaction

\* tx holds the rows written and not committed, result the answer if all goes well.
Task(pc, run, challenges, verdicts, bundle, result) ==
    [pc |-> pc, run |-> run, challenges |-> challenges, verdicts |-> verdicts,
     bundle |-> bundle, at |-> 0, tx |-> Empty, result |-> result]

Idle == Task("idle", 0, {}, {}, 0, "error")

Results == {"stored", "rejected", "released", "error"}

TypeOK ==
    /\ db \in Tables
    /\ next \in [bundle: Nat, verification: Nat]
    /\ lock \in [Challenges -> Tasks \cup {NoTask}]
    /\ clock \in 0..MaxClock
    /\ task \in [Tasks -> [pc: Phases, run: Nat, challenges: SUBSET Challenges,
                           verdicts: SUBSET Verdicts, bundle: Nat, at: Nat, tx: Tables,
                           result: Results]]
    /\ runs \in 0..MaxRuns
    /\ answers \subseteq [run: Nat, bundle: Nat, verdicts: SUBSET Verdicts, result: Results]

Init ==
    /\ db = Empty
    /\ next = [bundle |-> 1, verification |-> 1]
    /\ lock = [c \in Challenges |-> NoTask]
    /\ clock = 0
    /\ task = [t \in Tasks |-> Idle]
    /\ runs = 0
    /\ answers = {}

Connected == {t \in Tasks : task[t].pc \in Transaction}

ConnectionFree == Cardinality(Connected) < MaxConnections

Goto(t, pc) == task' = [task EXCEPT ![t].pc = pc]

\* Write rows in t's transaction and go on.
Write(t, pc, rows) ==
    task' = [task EXCEPT ![t].pc = pc, ![t].tx = With(@, rows)]

Unlocked(t) == [c \in Challenges |-> IF lock[c] = t THEN NoTask ELSE lock[c]]

(***************************************************************************)
(* Ingest                                                                  *)
(***************************************************************************)
\* The operator submits a file that checks out, with the verdict the gate gives it.
StartIngest(t, challenge, verdict) ==
    /\ task[t].pc = "idle" /\ runs < MaxRuns
    /\ runs' = runs + 1
    /\ task' = [task EXCEPT ![t] = Task("begin", runs', {challenge}, {verdict}, 0, "stored")]
    /\ UNCHANGED <<db, next, lock, clock, answers>>

\* A rejected file stored all the same, with a status no gate gives.
StartBadIngestStored(t) ==
    /\ task[t].pc = "idle" /\ runs < MaxRuns
    /\ runs' = runs + 1
    /\ \E c \in Challenges :
          task' = [task EXCEPT ![t] = Task("begin", runs', {c}, {"rejected"}, 0, "rejected")]
    /\ UNCHANGED <<db, next, lock, clock, answers>>

\* One that does not parse, or whose sections or chunks do not match their roots.
StartBadIngest(t) ==
    /\ task[t].pc = "idle" /\ runs < MaxRuns
    /\ runs' = runs + 1
    /\ task' = [task EXCEPT ![t] = Task("reject", runs', {}, {}, 0, "rejected")]
    /\ UNCHANGED <<db, next, lock, clock, answers>>

\* A rejection reported whether or not it was recorded.
RecordRejectionOrNot(t) ==
    /\ task[t].pc = "reject" /\ ConnectionFree
    /\ \/ UNCHANGED db
       \/ db' = [db EXCEPT !.audit_log =
                    @ \cup {AuditRow("ingest.rejected", {}, {"rejected"}, task[t].run)}]
    /\ Goto(t, "reply")
    /\ UNCHANGED <<next, lock, clock, runs, answers>>

\* record_rejection: one statement on its own connection.
RecordRejection(t) ==
    /\ task[t].pc = "reject" /\ ConnectionFree
    /\ db' = [db EXCEPT !.audit_log =
                 @ \cup {AuditRow("ingest.rejected", {}, {"rejected"}, task[t].run)}]
    /\ Goto(t, "reply")
    /\ UNCHANGED <<next, lock, clock, runs, answers>>

\* BEGIN fixes now() for the transaction; the clock need not have moved since.
Begin(t) ==
    /\ task[t].pc = "begin" /\ ConnectionFree
    /\ task' = [task EXCEPT ![t].pc = "challenge", ![t].at = clock]
    /\ clock' \in {clock, clock + 1} \cap 0..MaxClock
    /\ UNCHANGED <<db, next, lock, runs, answers>>

\* INSERT ... ON CONFLICT DO NOTHING: waits for a concurrent insert of the same row,
\* but locks none that is there.
UpsertChallengeDoNothing(t) ==
    /\ task[t].pc = "challenge"
    /\ \A c \in task[t].challenges : lock[c] \in {t, NoTask}
    /\ lock' = [c \in Challenges |->
                   IF c \in task[t].challenges /\ \A b \in db.bundles : b.challenge # c
                   THEN t ELSE lock[c]]
    /\ Goto(t, "bundle")
    /\ UNCHANGED <<db, next, clock, runs, answers>>

\* INSERT ... ON CONFLICT DO UPDATE: waits while another transaction has the row.
UpsertChallenge(t) ==
    /\ task[t].pc = "challenge"
    /\ \A c \in task[t].challenges : lock[c] \in {t, NoTask}
    /\ lock' = [c \in Challenges |-> IF c \in task[t].challenges THEN t ELSE lock[c]]
    /\ Goto(t, "bundle")
    /\ UNCHANGED <<db, next, clock, runs, answers>>

InsertBundle(t) ==
    /\ task[t].pc = "bundle"
    /\ task' = [task EXCEPT ![t].pc = "sections", ![t].bundle = next.bundle,
                            ![t].tx.bundles = @ \cup
                  {[id |-> next.bundle, challenge |-> c, at |-> task[t].at,
                    run |-> task[t].run] : c \in task[t].challenges}]
    /\ next' = [next EXCEPT !.bundle = @ + 1]
    /\ UNCHANGED <<db, lock, clock, runs, answers>>

\* One row per section, in table order; then on to the verdict.
InsertSection(t) ==
    LET written == {s.name_id : s \in task[t].tx.sections} IN
    /\ task[t].pc = "sections"
    /\ IF written = SectionNames
       THEN Goto(t, "verification")
       ELSE LET name_id == CHOOSE n \in SectionNames \ written : TRUE IN
            Write(t, "sections",
                  [Empty EXCEPT !.sections = {[bundle |-> task[t].bundle, name_id |-> name_id]}])
    /\ UNCHANGED <<db, next, lock, clock, runs, answers>>

InsertVerification(t) ==
    /\ task[t].pc = "verification"
    /\ Write(t, "audit",
             [Empty EXCEPT !.verification =
                 {[id |-> next.verification, bundle |-> task[t].bundle, status |-> v,
                   at |-> task[t].at] : v \in task[t].verdicts}])
    /\ next' = [next EXCEPT !.verification = @ + 1]
    /\ UNCHANGED <<db, lock, clock, runs, answers>>

Stored(t) == AuditRow("ingest.stored", {task[t].bundle}, task[t].verdicts, task[t].run)

\* record_audit where record_audit_in_tx is meant: the row is not in the transaction.
RecordAuditOnItsOwn(t) ==
    /\ task[t].pc = "audit"
    /\ db' = [db EXCEPT !.audit_log = @ \cup {Stored(t)}]
    /\ Goto(t, "commit")
    /\ UNCHANGED <<next, lock, clock, runs, answers>>

RecordAuditInTx(t) ==
    /\ task[t].pc = "audit"
    /\ Write(t, "commit", [Empty EXCEPT !.audit_log = {Stored(t)}])
    /\ UNCHANGED <<db, next, lock, clock, runs, answers>>

Commit(t) ==
    /\ task[t].pc = "commit"
    /\ db' = With(db, task[t].tx)
    /\ lock' = Unlocked(t)
    /\ task' = [task EXCEPT ![t].pc = "reply", ![t].tx = Empty]
    /\ UNCHANGED <<next, clock, runs, answers>>

(***************************************************************************)
(* Release                                                                 *)
(***************************************************************************)
\* The bytes are read and the sealed sections opened; what is left is to record it.
StartRelease(t, b) ==
    /\ task[t].pc = "idle" /\ runs < MaxRuns
    /\ runs' = runs + 1
    /\ task' = [task EXCEPT ![t] = Task("release", runs', {}, {}, b.id, "released")]
    /\ UNCHANGED <<db, next, lock, clock, answers>>

RecordRelease(t) ==
    /\ task[t].pc = "release" /\ ConnectionFree
    /\ db' = [db EXCEPT !.audit_log =
                 @ \cup {AuditRow("release.event_end", {task[t].bundle}, {}, task[t].run)}]
    /\ Goto(t, "reply")
    /\ UNCHANGED <<next, lock, clock, runs, answers>>

(***************************************************************************)
(* How a task ends                                                         *)
(***************************************************************************)
Tell(t, result) ==
    answers' = answers \cup {[run |-> task[t].run, bundle |-> task[t].bundle,
                              verdicts |-> task[t].verdicts, result |-> result]}

Reply(t) ==
    /\ task[t].pc = "reply"
    /\ Tell(t, task[t].result)
    /\ task' = [task EXCEPT ![t] = Idle]
    /\ UNCHANGED <<db, next, lock, clock, runs>>

\* A dropped transaction whose connection goes back to the pool without a ROLLBACK.
EndWithoutRollback(t) ==
    /\ task' = [task EXCEPT ![t] = Idle]
    /\ UNCHANGED <<db, next, lock, clock, runs>>

\* A dropped transaction is rolled back: its rows and its lock are gone, the ids it
\* took are not given back.
End(t) ==
    /\ lock' = Unlocked(t)
    /\ task' = [task EXCEPT ![t] = Idle]
    /\ UNCHANGED <<db, next, clock, runs>>

\* A statement fails, the pool has no connection for ten seconds, or the reply to the
\* last statement is lost: the console is told of an error.
Fail(t) ==
    /\ task[t].pc # "idle"
    /\ Tell(t, "error")
    /\ End(t)

\* The console quits or dies: nobody is told.
Crash(t) ==
    /\ task[t].pc # "idle"
    /\ End(t)
    /\ UNCHANGED answers

(***************************************************************************)
(* Specification                                                           *)
(***************************************************************************)
Start(t) ==
    \/ \E c \in Challenges, v \in Verdicts : StartIngest(t, c, v)
    \/ StartBadIngest(t)
    \/ \E b \in db.bundles : StartRelease(t, b)

Step(t) ==
    \/ RecordRejection(t)
    \/ Begin(t)
    \/ UpsertChallenge(t)
    \/ InsertBundle(t)
    \/ InsertSection(t)
    \/ InsertVerification(t)
    \/ RecordAuditInTx(t)
    \/ Commit(t)
    \/ RecordRelease(t)
    \/ Reply(t)

Next == \E t \in Tasks : Start(t) \/ Step(t) \/ Fail(t) \/ Crash(t)

Spec == Init /\ [][Next]_vars

\* The runtime runs every task and the server answers every statement.  No statement
\* has to fail and nobody has to quit.
Fairness == \A t \in Tasks : WF_vars(Step(t))

FairSpec == Spec /\ Fairness

(***************************************************************************)
(* What the console reads                                                  *)
(***************************************************************************)
\* ORDER BY ingested_at DESC, id DESC (checked_at for a verdict): the first row.
Newest(rows) ==
    CHOOSE r \in rows : \A q \in rows \ {r} : r.at > q.at \/ (r.at = q.at /\ r.id > q.id)

BundlesForChallenge(c) == {b \in db.bundles : b.challenge = c}

VerdictsForChallenge(c) ==
    {v \in db.verification : \E b \in BundlesForChallenge(c) : b.id = v.bundle}

(***************************************************************************)
(* Properties                                                              *)
(***************************************************************************)
\* The verdict the challenge list shows is that of the bundle the inspector lists
\* first, in whatever order concurrent ingests of the challenge began and ended.
VerdictOfNewestBundle ==
    \A c \in Challenges : BundlesForChallenge(c) # {} =>
        Newest(VerdictsForChallenge(c)).bundle = Newest(BundlesForChallenge(c)).id

\* What the console is told of a task is so: a stored bundle is there with the verdict
\* told, a rejected or released one is in the audit log, and a rejected file left no row.
AnswersAreTrue ==
    \A a \in answers :
        /\ a.result = "stored" =>
              /\ \E b \in db.bundles : b.id = a.bundle /\ b.run = a.run
              /\ \E v \in db.verification : v.bundle = a.bundle /\ {v.status} = a.verdicts
        /\ a.result = "rejected" =>
              /\ AuditRow("ingest.rejected", {}, {"rejected"}, a.run) \in db.audit_log
              /\ \A b \in db.bundles : b.run # a.run
        /\ a.result = "released" =>
              AuditRow("release.event_end", {a.bundle}, {}, a.run) \in db.audit_log

\* Every task that was started ends: none waits forever for a row lock or a connection
\* another one keeps.
EveryTaskEnds == \A t \in Tasks : task[t].pc # "idle" ~> task[t].pc = "idle"

\* The promise of module Archive.  A dossier is all that the tables hold under one
\* bundle id, so that a row whose bundle is missing makes a dossier nobody stored.
Mentioned ==
    {b.id : b \in db.bundles} \cup {s.bundle : s \in db.sections}
        \cup {v.bundle : v \in db.verification}

DossierOf(id) ==
    [bundle |-> id,
     challenges |-> {b.challenge : b \in {x \in db.bundles : x.id = id}},
     sections |-> {s.name_id : s \in {x \in db.sections : x.bundle = id}},
     verdicts |-> {v.status : v \in {x \in db.verification : x.bundle = id}}]

Journal ==
    {[action |-> a.action, bundles |-> a.bundles, verdicts |-> a.verdicts] : a \in db.audit_log}

Promise == INSTANCE Archive WITH Bundles <- 1..MaxRuns,
                                 dossiers <- {DossierOf(id) : id \in Mentioned},
                                 journal <- Journal

ArchiveSpec == Promise!Spec
=============================================================================
