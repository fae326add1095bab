---------------------------- MODULE IngestProofs ----------------------------
(***************************************************************************)
(* The ingest store tells the truth, shows the verdict of the bundle it    *)
(* shows, and keeps the promise of module Archive, for any number of       *)
(* tasks, challenges, sections, verdicts and connections, whichever        *)
(* statements fail and whoever dies.                                       *)
(*                                                                         *)
(* The invariant says what an open transaction has written at each of its  *)
(* statements, that its ids are its own and newer than every committed id  *)
(* of the challenge whose row it has locked, and that no two tasks are the *)
(* same run.                                                               *)
(***************************************************************************)
EXTENDS Ingest, FiniteSetTheorems, TLAPS

\* Statements after which a transaction has ids, and after which it has the row lock.
Writing == {"sections", "verification", "audit", "commit"}
Locking == Writing \cup {"bundle"}
Opening == {"begin", "challenge", "bundle"}

TaskRows == [pc: Phases, run: Nat, challenges: SUBSET Challenges, verdicts: SUBSET Verdicts,
             bundle: Nat, at: Nat, tx: Tables, result: Results]

Busy == {t \in Tasks : task[t].pc # "idle"}
Open == {t \in Tasks : task[t].pc \in Writing}
Waiting == {t \in Tasks : task[t].pc \in Opening}

\* One conjunct of AnswersAreTrue, of an answer or of a task about to give it.
Truthful(a) ==
    /\ a.result = "stored" =>
          /\ \E b \in db.bundles : b.id = a.bundle /\ b.run = a.run
          /\ \E v \in db.verification : v.bundle = a.bundle /\ {v.status} = a.verdicts
    /\ a.result = "rejected" =>
          /\ AuditRow("ingest.rejected", {}, {"rejected"}, a.run) \in db.audit_log
          /\ \A b \in db.bundles : b.run # a.run
    /\ a.result = "released" =>
          AuditRow("release.event_end", {a.bundle}, {}, a.run) \in db.audit_log

\* What a task is for, by where it is.
Role(T) ==
    /\ T.pc \in Opening \cup Writing =>
          /\ T.result = "stored"
          /\ \E c \in Challenges, v \in Verdicts : T.challenges = {c} /\ T.verdicts = {v}
    /\ T.pc = "reject" => T.result = "rejected" /\ \A b \in db.bundles : b.run # T.run
    /\ T.pc = "release" => T.result = "released" /\ \E b \in db.bundles : b.id = T.bundle
    /\ T.pc = "reply" => Truthful(T)
    /\ T.pc \notin Writing => T.tx = Empty

\* What an open transaction has written, before and after its verdict is in.
Written(T) ==
    /\ T.tx.bundles = {[id |-> T.bundle, challenge |-> c, at |-> T.at, run |-> T.run] :
                          c \in T.challenges}
    /\ \A s \in T.tx.sections : s.bundle = T.bundle
    /\ T.pc # "sections" => {s.name_id : s \in T.tx.sections} = SectionNames
    /\ T.tx.audit_log =
          IF T.pc = "commit"
          THEN {AuditRow("ingest.stored", {T.bundle}, T.verdicts, T.run)} ELSE {}

Judged(T) ==
    IF T.pc \in {"sections", "verification"} THEN T.tx.verification = {}
    ELSE \E v \in T.tx.verification :
            /\ T.tx.verification = {v}
            /\ v.bundle = T.bundle /\ v.at = T.at /\ {v.status} = T.verdicts

Rows(T) ==
    /\ Written(T) /\ Judged(T)
    /\ T.bundle < next.bundle
    /\ \A v \in T.tx.verification : v.id < next.verification

\* Its ids are newer than what is committed of its challenge.
Newer(T) ==
    \A c \in T.challenges :
        /\ \A b \in BundlesForChallenge(c) : b.id < T.bundle
        /\ \A x \in T.tx.verification, v \in VerdictsForChallenge(c) : v.id < x.id

First(r, rows) ==
    \A q \in rows \ {r} : r.at > q.at \/ (r.at = q.at /\ r.id > q.id)

\* A bundle and its own verdict come first in their lists.
Latest(c) ==
    BundlesForChallenge(c) # {} =>
        \E b \in BundlesForChallenge(c), v \in VerdictsForChallenge(c) :
            /\ v.bundle = b.id /\ v.at = b.at
            /\ First(b, BundlesForChallenge(c)) /\ First(v, VerdictsForChallenge(c))

RunsOK ==
    /\ \A t \in Busy : task[t].run \in 1..runs
    /\ \A s, t \in Busy : task[s].run = task[t].run => s = t
    /\ \A b \in db.bundles : b.run \in 1..runs

AnswersOK ==
    \A a \in answers : /\ Truthful(a) /\ a.run \in 1..runs
                       /\ \A t \in Busy : task[t].run # a.run

LocksOK ==
    \A t \in Tasks : task[t].pc \in Locking => \A c \in task[t].challenges : lock[c] = t

IdsOK ==
    /\ \A id \in Mentioned : id \in 1..next.bundle-1
    /\ \A v \in db.verification : v.id < next.verification
    /\ \A t \in Open : task[t].bundle \notin Mentioned /\ task[t].bundle > 0
    /\ \A s, t \in Open : task[s].bundle = task[t].bundle => s = t

\* Every id was taken by a run that no longer waits for one.
BudgetOK ==
    /\ IsFiniteSet(Waiting)
    /\ next.bundle + Cardinality(Waiting) <= runs + 1
    /\ next.bundle > 0

IngestInv ==
    /\ TypeOK
    /\ \A t \in Tasks : Role(task[t])
    /\ \A t \in Open : Rows(task[t]) /\ Newer(task[t])
    /\ RunsOK /\ AnswersOK /\ LocksOK /\ IdsOK /\ BudgetOK
    /\ \A c \in Challenges : Latest(c)

(***************************************************************************)
(* Ways in which a step changes one task                                   *)
(***************************************************************************)
LEMMA Phased == /\ Opening \subseteq Phases /\ Writing \subseteq Phases
                /\ "idle" \notin Opening \cup Writing /\ "reply" \notin Opening \cup Writing
                /\ Opening \cap Writing = {}
BY DEF Opening, Writing, Phases, Transaction

\* A task goes on without a change of db or of what it is for.
LEMMA GoesOn ==
    ASSUME IngestInv, NEW t \in Tasks, NEW r, task' = [task EXCEPT ![t] = r],
           UNCHANGED <<db, runs, answers>>, TypeOK',
           next'.bundle = next.bundle, next'.verification >= next.verification,
           task[t].pc # "idle", r.pc # "idle", r.run = task[t].run, r.bundle = task[t].bundle,
           r.pc \in Opening <=> task[t].pc \in Opening,
           r.pc \in Writing <=> task[t].pc \in Writing,
           Role(r), r.pc \in Writing => Rows(r)' /\ Newer(r)', LocksOK'
    PROVE  IngestInv'
<1>1. /\ task'[t] = r /\ \A s \in Tasks : s # t => task'[s] = task[s]
  BY DEF IngestInv, TypeOK
<1>2. Busy' = Busy /\ Open' = Open /\ Waiting' = Waiting
  BY <1>1 DEF Busy, Open, Waiting
<1>3. \A s \in Tasks : task'[s].run = task[s].run /\ task'[s].bundle = task[s].bundle
  BY <1>1
<1>4. \A s \in Tasks : Role(task[s])'
  <2> SUFFICES ASSUME NEW s \in Tasks PROVE Role(task[s])'
    OBVIOUS
  <2>1. CASE s = t
    BY <1>1, <2>1 DEF Role, Truthful
  <2>2. CASE s # t
    BY <1>1, <2>2 DEF Role, Truthful, IngestInv
  <2> QED
    BY <2>1, <2>2
<1>5. \A s \in Open' : Rows(task[s])' /\ Newer(task[s])'
  <2> SUFFICES ASSUME NEW s \in Open PROVE Rows(task[s])' /\ Newer(task[s])'
    BY <1>2
  <2>1. CASE s = t
    <3>1. task'[s] = r /\ r.pc \in Writing
      BY <1>1, <2>1 DEF Open
    <3>2. Rows(r)' /\ Newer(r)'
      BY <3>1
    <3>3. Rows(task[s])'
      BY <3>1, <3>2 DEF Rows
    <3>4. Newer(task[s])'
      BY <3>1, <3>2 DEF Newer, BundlesForChallenge, VerdictsForChallenge
    <3> QED
      BY <3>3, <3>4
  <2>2. CASE s # t
    <3>1. task'[s] = task[s] /\ Rows(task[s]) /\ Newer(task[s]) /\ s \in Tasks
      BY <1>1, <2>2 DEF IngestInv, Open
    <3>2. Newer(task[s])'
      BY <3>1 DEF Newer, BundlesForChallenge, VerdictsForChallenge
    <3>3. Rows(task[s])'
      <4>1. \A v \in task[s].tx.verification : v.id \in Nat
        BY <3>1 DEF IngestInv, TypeOK, Tables, VerificationRows
      <4>2. next.verification \in Nat /\ next'.verification \in Nat
        BY DEF IngestInv, TypeOK
      <4> QED
        BY <3>1, <4>1, <4>2 DEF Rows
    <3> QED
      BY <3>2, <3>3
  <2> QED
    BY <2>1, <2>2
<1>6. RunsOK'
  BY <1>2, <1>3 DEF RunsOK, Busy, IngestInv
<1>7. AnswersOK'
  BY <1>2, <1>3 DEF AnswersOK, Truthful, Busy, IngestInv
<1>8. IdsOK'
  <2>1. \A v \in db.verification : v.id \in Nat
    BY DEF IngestInv, TypeOK, Tables, VerificationRows
  <2> QED
    BY <1>2, <1>3, <2>1 DEF IdsOK, Open, Mentioned, IngestInv, TypeOK
<1>9. BudgetOK'
  BY <1>2 DEF BudgetOK, IngestInv
<1>10. (\A c \in Challenges : Latest(c))'
  BY DEF IngestInv, Latest, First, BundlesForChallenge, VerdictsForChallenge
<1> QED
  BY <1>4, <1>5, <1>6, <1>7, <1>8, <1>9, <1>10 DEF IngestInv

LEMMA RecordTypes ==
    /\ Empty \in Tables /\ Idle \in TaskRows
    /\ \A p \in Phases, n \in Nat, cs \in SUBSET Challenges, vs \in SUBSET Verdicts,
          b \in Nat, x \in Results : Task(p, n, cs, vs, b, x) \in TaskRows
<1>1. Empty \in Tables
  BY DEF Empty, Tables
<1>2. \A p \in Phases, n \in Nat, cs \in SUBSET Challenges, vs \in SUBSET Verdicts,
         b \in Nat, x \in Results : Task(p, n, cs, vs, b, x) \in TaskRows
  BY <1>1 DEF Task, TaskRows
<1>3. Idle \in TaskRows
  BY <1>2 DEF Idle, Phases, Results
<1> QED
  BY <1>1, <1>2, <1>3

\* A task is given up, answered or not: its rows are dropped and its lock is free.
LEMMA EndKeeps ==
    ASSUME IngestInv, NEW t \in Tasks, task[t].pc # "idle", task' = [task EXCEPT ![t] = Idle],
           UNCHANGED <<db, next, clock, runs>>,
           lock' = lock \/ lock' = Unlocked(t),
           \/ answers' = answers
           \/ \E a \in [run: Nat, bundle: Nat, verdicts: SUBSET Verdicts, result: Results] :
                 answers' = answers \cup {a} /\ a.run = task[t].run /\ Truthful(a)
    PROVE  IngestInv'
<1>1. /\ task'[t] = Idle /\ \A s \in Tasks : s # t => task'[s] = task[s]
  BY DEF IngestInv, TypeOK
<1>2. Idle.pc = "idle" /\ Idle.tx = Empty
  BY DEF Idle, Task
<1>3. Busy' = Busy \ {t} /\ Open' = Open \ {t} /\ Waiting' = Waiting \ {t} /\ t \in Busy
  BY <1>1, <1>2, Phased DEF Busy, Open, Waiting
<1>4. Open \subseteq Tasks /\ Busy \subseteq Tasks
  BY DEF Open, Busy
<1>5. TypeOK'
  <2>1. lock' \in [Challenges -> Tasks \cup {NoTask}]
    BY DEF IngestInv, TypeOK, Unlocked
  <2>2. task' \in [Tasks -> TaskRows]
    BY RecordTypes DEF IngestInv, TypeOK, TaskRows
  <2> QED
    BY <2>1, <2>2 DEF IngestInv, TypeOK, TaskRows
<1>6. \A s \in Tasks : Role(task[s])'
  <2> SUFFICES ASSUME NEW s \in Tasks PROVE Role(task[s])'
    OBVIOUS
  <2>1. CASE s = t
    BY <1>1, <1>2, <2>1, Phased DEF Role
  <2>2. CASE s # t
    BY <1>1, <2>2 DEF Role, Truthful, IngestInv
  <2> QED
    BY <2>1, <2>2
<1>7. \A s \in Open' : Rows(task[s])' /\ Newer(task[s])'
  <2> SUFFICES ASSUME NEW s \in Open, s # t PROVE Rows(task[s])' /\ Newer(task[s])'
    BY <1>3
  <2>1. task'[s] = task[s] /\ Rows(task[s]) /\ Newer(task[s])
    BY <1>1, <1>4 DEF IngestInv
  <2> QED
    BY <2>1 DEF Rows, Newer, BundlesForChallenge, VerdictsForChallenge
<1>8. RunsOK'
  BY <1>1, <1>3, <1>4 DEF RunsOK, IngestInv
<1>9. AnswersOK'
  <2>1. \A a \in answers :
           (Truthful(a) /\ a.run \in 1..runs /\ \A s \in Busy : task[s].run # a.run)'
    BY <1>1, <1>3, <1>4 DEF AnswersOK, Truthful, IngestInv
  <2>2. ASSUME NEW a, a.run = task[t].run, Truthful(a)
        PROVE  (Truthful(a) /\ a.run \in 1..runs /\ \A s \in Busy : task[s].run # a.run)'
    BY <2>2, <1>1, <1>3, <1>4 DEF RunsOK, Truthful, IngestInv
  <2> QED
    BY <2>1, <2>2 DEF AnswersOK
<1>10. LocksOK'
  <2> SUFFICES ASSUME NEW s \in Tasks, task'[s].pc \in Locking, NEW c \in task'[s].challenges
               PROVE  lock'[c] = s
    BY DEF LocksOK
  <2>1. s # t
    BY <1>1, <1>2 DEF Locking, Writing
  <2>2. task'[s] = task[s] /\ lock[c] = s /\ c \in Challenges
    BY <1>1, <2>1 DEF LocksOK, IngestInv, TypeOK
  <2> QED
    BY <2>1, <2>2 DEF Unlocked
<1>11. IdsOK'
  BY <1>1, <1>3, <1>4 DEF IdsOK, Mentioned, IngestInv
<1>12. BudgetOK'
  <2>1. IsFiniteSet(Waiting) /\ Cardinality(Waiting) \in Nat
    <3>1. IsFiniteSet(Waiting)
      BY DEF IngestInv, BudgetOK
    <3> QED
      BY <3>1, FS_CardinalityType
  <2>3. IsFiniteSet(Waiting \ {t}) /\ Cardinality(Waiting \ {t}) <= Cardinality(Waiting)
    <3>1. /\ IsFiniteSet(Waiting \ {t})
          /\ Cardinality(Waiting \ {t}) =
                IF t \in Waiting THEN Cardinality(Waiting) - 1 ELSE Cardinality(Waiting)
      BY <2>1, FS_RemoveElement, Zenon
    <3> QED
      BY <2>1, <3>1
  <2>4. Cardinality(Waiting \ {t}) \in Nat
    BY <2>3, FS_CardinalityType
  <2>2. next.bundle \in Nat /\ runs \in Nat
    BY DEF IngestInv, TypeOK
  <2> QED
    BY <1>3, <2>1, <2>2, <2>3, <2>4 DEF BudgetOK, IngestInv
<1>13. (\A c \in Challenges : Latest(c))'
  BY DEF IngestInv, Latest, First, BundlesForChallenge, VerdictsForChallenge
<1> QED
  BY <1>5, <1>6, <1>7, <1>8, <1>9, <1>10, <1>11, <1>12, <1>13 DEF IngestInv

\* A task begins, as the next run.
LEMMA StartKeeps ==
    ASSUME IngestInv, NEW t \in Tasks, NEW r \in TaskRows, task[t].pc = "idle", runs < MaxRuns,
           runs' = runs + 1, task' = [task EXCEPT ![t] = r],
           UNCHANGED <<db, next, lock, clock, answers>>,
           r.run = runs + 1, r.pc \in {"begin", "reject", "release"}, Role(r)
    PROVE  IngestInv'
<1>1. /\ task'[t] = r /\ \A s \in Tasks : s # t => task'[s] = task[s]
  BY DEF IngestInv, TypeOK
<1>2. r.pc \notin Locking /\ r.pc \notin Writing /\ r.pc # "idle"
  BY DEF Locking, Writing
<1>3. /\ Busy' = Busy \cup {t} /\ Open' = Open /\ t \notin Busy /\ t \notin Open /\ t \notin Waiting
      /\ Waiting' = Waiting \/ Waiting' = Waiting \cup {t}
  BY <1>1, <1>2, Phased DEF Busy, Open, Waiting
<1>4. Open \subseteq Tasks /\ Busy \subseteq Tasks /\ runs \in Nat /\ MaxRuns \in Nat
  BY IngestAssumption DEF Open, Busy, IngestInv, TypeOK
<1>5. TypeOK'
  <2>1. task' \in [Tasks -> TaskRows]
    BY DEF IngestInv, TypeOK, TaskRows
  <2>2. runs' \in 0..MaxRuns
    BY <1>4
  <2> QED
    BY <2>1, <2>2 DEF IngestInv, TypeOK, TaskRows
<1>6. \A s \in Tasks : Role(task[s])'
  <2> SUFFICES ASSUME NEW s \in Tasks PROVE Role(task[s])'
    OBVIOUS
  <2>1. CASE s = t
    BY <1>1, <2>1 DEF Role, Truthful
  <2>2. CASE s # t
    BY <1>1, <2>2 DEF Role, Truthful, IngestInv
  <2> QED
    BY <2>1, <2>2
<1>7. \A s \in Open' : Rows(task[s])' /\ Newer(task[s])'
  <2> SUFFICES ASSUME NEW s \in Open PROVE Rows(task[s])' /\ Newer(task[s])'
    BY <1>3
  <2>1. task'[s] = task[s] /\ Rows(task[s]) /\ Newer(task[s])
    BY <1>1, <1>3, <1>4 DEF IngestInv
  <2> QED
    BY <2>1 DEF Rows, Newer, BundlesForChallenge, VerdictsForChallenge
<1>8. RunsOK'
  <2>1. \A s \in Busy : task'[s] = task[s] /\ task'[s].run \in 1..runs
    BY <1>1, <1>3, <1>4 DEF RunsOK, IngestInv
  <2>2. \A s \in Busy' : task'[s].run \in 1..runs'
    BY <1>1, <1>3, <1>4, <2>1
  <2>3. \A s, u \in Busy' : task'[s].run = task'[u].run => s = u
    BY <1>1, <1>3, <1>4, <2>1 DEF RunsOK, IngestInv
  <2>4. \A b \in db.bundles : b.run \in 1..runs'
    BY <1>4 DEF RunsOK, IngestInv
  <2> QED
    BY <2>2, <2>3, <2>4 DEF RunsOK
<1>9. AnswersOK'
  BY <1>1, <1>3, <1>4 DEF AnswersOK, Truthful, IngestInv
<1>10. LocksOK'
  BY <1>1, <1>2 DEF LocksOK, IngestInv
<1>11. IdsOK'
  BY <1>1, <1>3, <1>4 DEF IdsOK, Mentioned, IngestInv
<1>12. BudgetOK'
  <2>1. /\ IsFiniteSet(Waiting \cup {t}) /\ Cardinality(Waiting \cup {t}) = Cardinality(Waiting) + 1
        /\ IsFiniteSet(Waiting) /\ Cardinality(Waiting) \in Nat
    BY <1>3, FS_AddElement, FS_CardinalityType DEF IngestInv, BudgetOK
  <2>2. next.bundle \in Nat
    BY DEF IngestInv, TypeOK
  <2>3. next.bundle > 0 /\ next.bundle + Cardinality(Waiting) <= runs + 1
    BY DEF BudgetOK, IngestInv
  <2>4. CASE Waiting' = Waiting
    BY <1>4, <2>1, <2>2, <2>3, <2>4 DEF BudgetOK
  <2>5. CASE Waiting' = Waiting \cup {t}
    <3>1. IsFiniteSet(Waiting)' /\ Cardinality(Waiting)' = Cardinality(Waiting) + 1
      BY <2>1, <2>5
    <3> QED
      BY <1>4, <2>1, <2>2, <2>3, <3>1 DEF BudgetOK
  <2> QED
    BY <1>3, <2>4, <2>5
<1>13. (\A c \in Challenges : Latest(c))'
  BY DEF IngestInv, Latest, First, BundlesForChallenge, VerdictsForChallenge
<1> QED
  BY <1>5, <1>6, <1>7, <1>8, <1>9, <1>10, <1>11, <1>12, <1>13 DEF IngestInv

\* A statement of its own adds a row to the journal, and its task has an answer.
LEMMA AuditKeeps ==
    ASSUME IngestInv, NEW t \in Tasks, NEW row \in AuditRows,
           task[t].pc \in {"reject", "release"}, Goto(t, "reply"),
           db' = [db EXCEPT !.audit_log = @ \cup {row}],
           UNCHANGED <<next, lock, clock, runs, answers>>, Truthful(task[t])'
    PROVE  IngestInv'
<1> DEFINE r == [task[t] EXCEPT !.pc = "reply"]
<1>1. /\ task'[t] = r /\ \A s \in Tasks : s # t => task'[s] = task[s]
  BY DEF Goto, IngestInv, TypeOK
<1>2. /\ r.pc = "reply" /\ r.run = task[t].run /\ r.bundle = task[t].bundle /\ r.tx = task[t].tx
      /\ r.verdicts = task[t].verdicts /\ r.result = task[t].result
  BY DEF IngestInv, TypeOK
<1>3. "reply" \in Phases /\ task[t].pc \notin Writing \cup Opening \cup Locking
  BY DEF Phases, Writing, Opening, Locking
<1> HIDE DEF r
<1>4. Busy' = Busy /\ Open' = Open /\ Waiting' = Waiting /\ t \notin Open
  BY <1>1, <1>2, <1>3, Phased DEF Busy, Open, Waiting
<1>5. Open \subseteq Tasks /\ Busy \subseteq Tasks
  BY DEF Open, Busy
<1>6. /\ db'.bundles = db.bundles /\ db'.sections = db.sections
      /\ db'.verification = db.verification
      /\ db.audit_log \subseteq db'.audit_log /\ db' \in Tables
  BY DEF IngestInv, TypeOK, Tables
<1>7. TypeOK'
  BY <1>3, <1>6 DEF Goto, IngestInv, TypeOK
<1>8. \A s \in Tasks : Role(task[s])'
  <2> SUFFICES ASSUME NEW s \in Tasks PROVE Role(task[s])'
    OBVIOUS
  <2>1. CASE s = t
    <3>1. Role(task[t]) /\ task[t].tx = Empty
      BY <1>3 DEF IngestInv, Role
    <3> QED
      BY <1>1, <1>2, <2>1, <3>1, Phased DEF Role, Truthful
  <2>2. CASE s # t
    <3>1. task'[s] = task[s] /\ Role(task[s])
      BY <1>1, <2>2 DEF IngestInv
    <3>2. Truthful(task[s]) => Truthful(task[s])'
      BY <1>6, <3>1 DEF Truthful
    <3> QED
      BY <1>6, <3>1, <3>2 DEF Role
  <2> QED
    BY <2>1, <2>2
<1>9. \A s \in Open' : Rows(task[s])' /\ Newer(task[s])'
  <2> SUFFICES ASSUME NEW s \in Open PROVE Rows(task[s])' /\ Newer(task[s])'
    BY <1>4
  <2>1. task'[s] = task[s] /\ Rows(task[s]) /\ Newer(task[s])
    BY <1>1, <1>4, <1>5 DEF IngestInv
  <2> QED
    BY <2>1, <1>6 DEF Rows, Newer, BundlesForChallenge, VerdictsForChallenge
<1>10. RunsOK'
  BY <1>1, <1>2, <1>4, <1>5, <1>6 DEF RunsOK, IngestInv
<1>11. AnswersOK'
  BY <1>1, <1>2, <1>4, <1>5, <1>6 DEF AnswersOK, Truthful, IngestInv
<1>12. LocksOK'
  BY <1>1, <1>2, <1>3 DEF LocksOK, IngestInv, Locking, Writing
<1>13. IdsOK'
  BY <1>1, <1>4, <1>5, <1>6 DEF IdsOK, Mentioned, IngestInv
<1>14. BudgetOK'
  BY <1>4 DEF BudgetOK, IngestInv
<1>15. (\A c \in Challenges : Latest(c))'
  BY <1>6 DEF IngestInv, Latest, First, BundlesForChallenge, VerdictsForChallenge
<1> QED
  BY <1>7, <1>8, <1>9, <1>10, <1>11, <1>12, <1>13, <1>14, <1>15 DEF IngestInv

\* A transaction takes the id of its bundle.
LEMMA InsertBundleKeeps ==
    ASSUME IngestInv, NEW t \in Tasks, InsertBundle(t)
    PROVE  IngestInv'
<1> DEFINE row(c) == [id |-> next.bundle, challenge |-> c, at |-> task[t].at, run |-> task[t].run]
           r == [task[t] EXCEPT !.pc = "sections", !.bundle = next.bundle,
                    !.tx.bundles = @ \cup {row(c) : c \in task[t].challenges}]
<1>1. /\ task'[t] = r /\ \A s \in Tasks : s # t => task'[s] = task[s]
  BY DEF InsertBundle, IngestInv, TypeOK
<1>2. task[t].tx = Empty /\ task[t].pc = "bundle" /\ task[t] \in TaskRows
  BY DEF IngestInv, Role, Writing, InsertBundle, TypeOK, TaskRows
<1>3. /\ r.pc = "sections" /\ r.run = task[t].run /\ r.bundle = next.bundle /\ r.at = task[t].at
      /\ r.verdicts = task[t].verdicts /\ r.result = task[t].result
      /\ r.challenges = task[t].challenges
  BY <1>2 DEF TaskRows
<1>4. /\ r.tx.bundles = {row(c) : c \in task[t].challenges}
      /\ r.tx.sections = {} /\ r.tx.verification = {} /\ r.tx.audit_log = {}
  BY <1>2 DEF TaskRows, Empty
<1>5. /\ next.bundle \in Nat /\ next' = [next EXCEPT !.bundle = next.bundle + 1]
      /\ next'.bundle = next.bundle + 1 /\ next'.verification = next.verification
      /\ UNCHANGED <<db, lock, clock, runs, answers>> /\ runs \in Nat
  BY DEF InsertBundle, IngestInv, TypeOK
<1>6. r \in TaskRows
  <2>1. {row(c) : c \in task[t].challenges} \in SUBSET BundleRows
    BY <1>2, <1>5 DEF TaskRows, BundleRows
  <2>2. [task[t].tx EXCEPT !.bundles = @ \cup {row(c) : c \in task[t].challenges}] \in Tables
    BY <1>2, <2>1 DEF Tables, TaskRows
  <2> QED
    BY <1>2, <1>5, <2>2 DEF TaskRows, Phases, Transaction
<1> HIDE DEF r
<1>7. /\ Busy' = Busy /\ Open' = Open \cup {t} /\ Waiting' = Waiting \ {t}
      /\ t \in Busy /\ t \notin Open /\ t \in Waiting
  BY <1>1, <1>2, <1>3 DEF Busy, Open, Waiting, Opening, Writing
<1>8. Open \subseteq Tasks /\ Busy \subseteq Tasks
  BY DEF Open, Busy
<1>9. TypeOK'
  <2>1. task' \in [Tasks -> TaskRows]
    <3>1. task' = [task EXCEPT ![t] = r]
      BY DEF InsertBundle, IngestInv, TypeOK, r
    <3> QED
      BY <1>6, <3>1 DEF IngestInv, TypeOK, TaskRows
  <2> QED
    BY <1>5, <2>1 DEF IngestInv, TypeOK, TaskRows
<1>10. \A s \in Tasks : Role(task[s])'
  <2> SUFFICES ASSUME NEW s \in Tasks PROVE Role(task[s])'
    OBVIOUS
  <2>1. CASE s = t
    <3>1. Role(task[t])
      BY DEF IngestInv
    <3> QED
      BY <1>1, <1>2, <1>3, <2>1, <3>1 DEF Role, Opening, Writing
  <2>2. CASE s # t
    BY <1>1, <1>5, <2>2 DEF Role, Truthful, IngestInv
  <2> QED
    BY <2>1, <2>2
<1>11. \A b \in db.bundles : b.id < next.bundle
  <2>1. \A b \in db.bundles : b.id \in Mentioned
    BY DEF Mentioned
  <2> QED
    BY <1>5, <2>1 DEF IngestInv, IdsOK
<1>12. \A s \in Open' : Rows(task[s])' /\ Newer(task[s])'
  <2> SUFFICES ASSUME NEW s \in Open' PROVE Rows(task[s])' /\ Newer(task[s])'
    OBVIOUS
  <2>1. CASE s = t
    <3>1. Written(r) /\ Judged(r)
      BY <1>3, <1>4 DEF Written, Judged
    <3>2. Written(task'[s]) /\ Judged(task'[s])
      BY <1>1, <2>1, <3>1
    <3>3. Rows(task[s])'
      BY <1>1, <1>3, <1>4, <1>5, <2>1, <3>2 DEF Rows
    <3>4. Newer(task[s])'
      BY <1>1, <1>3, <1>4, <1>5, <1>11, <2>1 DEF Newer, BundlesForChallenge
    <3> QED
      BY <3>3, <3>4
  <2>2. CASE s # t
    <3>1. task'[s] = task[s] /\ Rows(task[s]) /\ Newer(task[s]) /\ task[s].bundle \in Nat
      BY <1>1, <1>7, <1>8, <2>2 DEF IngestInv, TypeOK
    <3>2. Rows(task[s])'
      BY <1>5, <3>1 DEF Rows
    <3>3. Newer(task[s])'
      BY <1>5, <3>1 DEF Newer, BundlesForChallenge, VerdictsForChallenge
    <3> QED
      BY <3>2, <3>3
  <2> QED
    BY <2>1, <2>2
<1>13. RunsOK'
  BY <1>1, <1>3, <1>5, <1>7, <1>8 DEF RunsOK, IngestInv
<1>14. AnswersOK'
  BY <1>1, <1>3, <1>5, <1>7, <1>8 DEF AnswersOK, Truthful, IngestInv
<1>15. LocksOK'
  BY <1>1, <1>2, <1>3, <1>5 DEF LocksOK, IngestInv, Locking
<1>16. IdsOK'
  <2>1. \A s \in Open : task'[s].bundle = task[s].bundle /\ task[s].bundle < next.bundle
    BY <1>1, <1>7, <1>8 DEF IngestInv, Rows
  <2>2. next.bundle \notin Mentioned /\ Mentioned' = Mentioned /\ next.bundle > 0
    BY <1>5 DEF Mentioned, IngestInv, IdsOK, BudgetOK
  <2>3. \A s \in Open' : task'[s].bundle \notin Mentioned /\ task'[s].bundle > 0
    BY <1>1, <1>3, <1>7, <2>1, <2>2 DEF IngestInv, IdsOK
  <2>4. \A s, u \in Open' : task'[s].bundle = task'[u].bundle => s = u
    BY <1>1, <1>3, <1>5, <1>7, <2>1 DEF IngestInv, IdsOK
  <2>5. \A id \in Mentioned : id \in 1..next'.bundle-1
    BY <1>5 DEF IngestInv, IdsOK
  <2> QED
    BY <1>5, <2>2, <2>3, <2>4, <2>5 DEF IdsOK, IngestInv
<1>17. BudgetOK'
  <2>1. IsFiniteSet(Waiting)
    BY DEF IngestInv, BudgetOK
  <2>2. /\ IsFiniteSet(Waiting \ {t})
        /\ Cardinality(Waiting \ {t}) =
              IF t \in Waiting THEN Cardinality(Waiting) - 1 ELSE Cardinality(Waiting)
    BY <2>1, FS_RemoveElement, Zenon
  <2>3. Cardinality(Waiting) \in Nat
    BY <2>1, FS_CardinalityType
  <2> QED
    BY <1>5, <1>7, <2>2, <2>3 DEF BudgetOK, IngestInv
<1>18. (\A c \in Challenges : Latest(c))'
  BY <1>5 DEF IngestInv, Latest, First, BundlesForChallenge, VerdictsForChallenge
<1> QED
  BY <1>9, <1>10, <1>12, <1>13, <1>14, <1>15, <1>16, <1>17, <1>18 DEF IngestInv

LEMMA WithTables ==
    ASSUME NEW rows \in Tables, NEW more \in Tables
    PROVE  /\ With(rows, more) \in Tables
           /\ With(rows, more).bundles = rows.bundles \cup more.bundles
           /\ With(rows, more).sections = rows.sections \cup more.sections
           /\ With(rows, more).verification = rows.verification \cup more.verification
           /\ With(rows, more).audit_log = rows.audit_log \cup more.audit_log
<1>1. DOMAIN rows = {"bundles", "sections", "verification", "audit_log"}
  BY DEF Tables
<1>2. With(rows, more) = [table \in {"bundles", "sections", "verification", "audit_log"} |->
                             rows[table] \cup more[table]]
  BY <1>1 DEF With
<1>3. With(rows, more) = [bundles |-> rows.bundles \cup more.bundles,
                          sections |-> rows.sections \cup more.sections,
                          verification |-> rows.verification \cup more.verification,
                          audit_log |-> rows.audit_log \cup more.audit_log]
  BY <1>2
<1> QED
  BY <1>3 DEF Tables

LEMMA WithNothing ==
    ASSUME NEW rows \in Tables
    PROVE  With(rows, Empty) = rows
<1>1. rows = [table \in {"bundles", "sections", "verification", "audit_log"} |-> rows[table]]
  BY DEF Tables
<1>2. \A table \in {"bundles", "sections", "verification", "audit_log"} :
         rows[table] \cup Empty[table] = rows[table]
  BY DEF Empty
<1>3. With(rows, Empty) = [table \in {"bundles", "sections", "verification", "audit_log"} |->
                              rows[table] \cup Empty[table]]
  BY DEF With, Tables
<1> QED
  BY <1>1, <1>2, <1>3

\* What a transaction of challenge c and verdict v adds when it commits.
Adds(t, c, v, b, x) ==
    /\ task[t].challenges = {c} /\ task[t].verdicts = {v} /\ task[t].result = "stored"
    /\ b = [id |-> task[t].bundle, challenge |-> c, at |-> task[t].at, run |-> task[t].run]
    /\ task[t].tx.verification = {x} /\ x.id < next.verification
    /\ x.bundle = task[t].bundle /\ x.at = task[t].at /\ x.status = v
    /\ db'.bundles = db.bundles \cup {b}
    /\ db'.verification = db.verification \cup {x}
    /\ db'.sections = db.sections \cup task[t].tx.sections
    /\ \A s \in task[t].tx.sections : s.bundle = task[t].bundle
    /\ {s.name_id : s \in task[t].tx.sections} = SectionNames
    /\ db'.audit_log = db.audit_log
          \cup {AuditRow("ingest.stored", {task[t].bundle}, {v}, task[t].run)}

LEMMA AtCommit ==
    ASSUME IngestInv, NEW t \in Tasks, Commit(t)
    PROVE  /\ db' \in Tables
           /\ \E c \in Challenges, v \in Verdicts, b \in BundleRows, x \in VerificationRows :
                 Adds(t, c, v, b, x)
<1>1. t \in Open /\ task[t] \in TaskRows /\ task[t].pc = "commit"
  BY DEF Commit, Open, Writing, IngestInv, TypeOK, TaskRows
<1>2. Role(task[t]) /\ Rows(task[t])
  BY <1>1 DEF IngestInv
<1>3. PICK c \in Challenges, v \in Verdicts : task[t].challenges = {c} /\ task[t].verdicts = {v}
  BY <1>1, <1>2 DEF Role, Writing
<1>4. task[t].result = "stored"
  BY <1>1, <1>2 DEF Role, Writing
<1>5. Judged(task[t]) /\ Written(task[t])
  BY <1>2 DEF Rows
<1>6. PICK x \in task[t].tx.verification :
         /\ task[t].tx.verification = {x}
         /\ x.bundle = task[t].bundle /\ x.at = task[t].at /\ {x.status} = task[t].verdicts
  BY <1>1, <1>5 DEF Judged
<1>7. x \in VerificationRows /\ x.id < next.verification /\ x.status = v
  BY <1>1, <1>2, <1>3, <1>6 DEF TaskRows, Tables, Rows
<1>8. db' = With(db, task[t].tx) /\ db \in Tables /\ task[t].tx \in Tables
  BY <1>1 DEF Commit, TaskRows, IngestInv, TypeOK
<1>9. /\ db' \in Tables
      /\ db'.bundles = db.bundles \cup task[t].tx.bundles
      /\ db'.sections = db.sections \cup task[t].tx.sections
      /\ db'.verification = db.verification \cup task[t].tx.verification
      /\ db'.audit_log = db.audit_log \cup task[t].tx.audit_log
  BY <1>8, WithTables
<1> DEFINE b == [id |-> task[t].bundle, challenge |-> c, at |-> task[t].at, run |-> task[t].run]
<1>10. b \in BundleRows
  BY <1>1 DEF BundleRows, TaskRows
<1>11. task[t].tx.bundles = {b}
  BY <1>3, <1>5 DEF Written
<1>12. task[t].tx.audit_log = {AuditRow("ingest.stored", {task[t].bundle}, {v}, task[t].run)}
  BY <1>1, <1>3, <1>5 DEF Written
<1>13. /\ \A s \in task[t].tx.sections : s.bundle = task[t].bundle
       /\ {s.name_id : s \in task[t].tx.sections} = SectionNames
  BY <1>1, <1>5 DEF Written
<1>14. Adds(t, c, v, b, x)
  BY <1>3, <1>4, <1>6, <1>7, <1>9, <1>11, <1>12, <1>13 DEF Adds
<1> HIDE DEF b
<1> QED
  BY <1>7, <1>9, <1>10, <1>14

\* A row that is newer than those of a list comes first, or the first one stays.
LEMMA AddNewer ==
    ASSUME NEW rows, NEW r, NEW first \in rows,
           \A q \in rows \cup {r} : q.at \in Nat /\ q.id \in Nat,
           First(first, rows), \A q \in rows : q.id < r.id
    PROVE  First(IF r.at >= first.at THEN r ELSE first, rows \cup {r})
BY DEF First

\* A commit changes nothing of the other challenges.
LEMMA CommitElsewhere ==
    ASSUME IngestInv, NEW t \in Tasks, Commit(t), NEW k \in Challenges, k \notin task[t].challenges
    PROVE  /\ BundlesForChallenge(k)' = BundlesForChallenge(k)
           /\ VerdictsForChallenge(k)' = VerdictsForChallenge(k)
<1>0. PICK c \in Challenges, v \in Verdicts, b \in BundleRows, x \in VerificationRows :
         Adds(t, c, v, b, x)
  BY AtCommit
<1>1. /\ task[t].challenges = {c} /\ b.challenge = c /\ b.id = task[t].bundle
      /\ x.bundle = task[t].bundle
      /\ db'.bundles = db.bundles \cup {b}
      /\ db'.verification = db.verification \cup {x}
  BY <1>0 DEF Adds
<1>2. \A z \in db.bundles : z.id # b.id
  <2>1. \A z \in db.bundles : z.id \in Mentioned
    BY DEF Mentioned
  <2> QED
    BY <1>1, <2>1 DEF IngestInv, IdsOK, Commit, Open, Writing
<1>3. BundlesForChallenge(k)' = BundlesForChallenge(k)
  BY <1>1 DEF BundlesForChallenge
<1>4. \A z \in BundlesForChallenge(k) : z.id # x.bundle
  BY <1>1, <1>2 DEF BundlesForChallenge
<1> QED
  BY <1>1, <1>3, <1>4 DEF VerdictsForChallenge

LEMMA CommitLatest ==
    ASSUME IngestInv, NEW t \in Tasks, Commit(t), NEW k \in Challenges
    PROVE  Latest(k)'
<1>0. PICK c \in Challenges, v \in Verdicts, b \in BundleRows, x \in VerificationRows :
         Adds(t, c, v, b, x)
  BY AtCommit
<1>1. /\ task[t].challenges = {c} /\ task[t].tx.verification = {x}
      /\ b = [id |-> task[t].bundle, challenge |-> c, at |-> task[t].at, run |-> task[t].run]
      /\ x.bundle = task[t].bundle /\ x.at = task[t].at
      /\ db'.bundles = db.bundles \cup {b}
      /\ db'.verification = db.verification \cup {x}
  BY <1>0 DEF Adds
<1>2. t \in Open /\ Newer(task[t])
  BY DEF Commit, Open, Writing, IngestInv
<1>4. \A z \in db.verification : z.bundle # b.id
  <2>1. \A z \in db.verification : z.bundle \in Mentioned
    BY DEF Mentioned
  <2> QED
    BY <1>1, <1>2, <2>1 DEF IngestInv, IdsOK
<1>6. CASE k # c
  <2>1. Latest(k)
    BY DEF IngestInv
  <2> QED
    BY <1>1, <1>6, <2>1, CommitElsewhere DEF Latest, First
<1>7. CASE k = c
  <2> DEFINE B == BundlesForChallenge(k)
             V == VerdictsForChallenge(k)
  <2>1. BundlesForChallenge(k)' = B \cup {b}
    BY <1>1, <1>7 DEF BundlesForChallenge
  <2>2. VerdictsForChallenge(k)' = V \cup {x}
    BY <1>1, <1>4, <2>1 DEF VerdictsForChallenge
  <2>3. /\ \A q \in B \cup {b} : q.at \in Nat /\ q.id \in Nat
        /\ \A q \in V \cup {x} : q.at \in Nat /\ q.id \in Nat
    BY <1>1 DEF IngestInv, TypeOK, Tables, BundleRows, VerificationRows, BundlesForChallenge,
                VerdictsForChallenge
  <2>4. (\A q \in B : q.id < b.id) /\ \A q \in V : q.id < x.id
    BY <1>1, <1>2, <1>7 DEF Newer
  <2>5. CASE B = {}
    <3>1. V = {}
      BY <2>5 DEF VerdictsForChallenge
    <3>2. First(b, B \cup {b}) /\ First(x, V \cup {x})
      BY <2>5, <3>1 DEF First
    <3> QED
      BY <1>1, <2>1, <2>2, <3>2 DEF Latest, First
  <2>6. CASE B # {}
    <3>1. PICK b1 \in B, v1 \in V :
             v1.bundle = b1.id /\ v1.at = b1.at /\ First(b1, B) /\ First(v1, V)
      BY <2>6 DEF IngestInv, Latest
    <3>2. First(IF b.at >= b1.at THEN b ELSE b1, B \cup {b})
      BY <2>3, <2>4, <3>1, AddNewer
    <3>3. First(IF x.at >= v1.at THEN x ELSE v1, V \cup {x})
      BY <2>3, <2>4, <3>1, AddNewer
    <3>4. CASE b.at >= b1.at
      <4>1. First(b, B \cup {b}) /\ First(x, V \cup {x}) /\ x.bundle = b.id /\ x.at = b.at
        BY <1>1, <3>1, <3>2, <3>3, <3>4
      <4> QED
        BY <2>1, <2>2, <4>1 DEF Latest, First
    <3>5. CASE ~(b.at >= b1.at)
      <4>1. First(b1, B \cup {b}) /\ First(v1, V \cup {x})
        BY <1>1, <3>1, <3>2, <3>3, <3>5
      <4> QED
        BY <2>1, <2>2, <3>1, <4>1 DEF Latest, First
    <3> QED
      BY <3>4, <3>5
  <2> QED
    BY <2>5, <2>6
<1> QED
  BY <1>6, <1>7

LEMMA CommitKeeps ==
    ASSUME IngestInv, NEW t \in Tasks, Commit(t)
    PROVE  IngestInv'
<1> DEFINE r == [task[t] EXCEPT !.pc = "reply", !.tx = Empty]
<1>1. /\ task' = [task EXCEPT ![t] = r]
      /\ task'[t] = r /\ \A s \in Tasks : s # t => task'[s] = task[s]
  BY DEF Commit, IngestInv, TypeOK
<1>2. /\ task[t] \in TaskRows /\ task[t].pc = "commit" /\ UNCHANGED <<next, clock, runs, answers>>
      /\ lock' = Unlocked(t)
  BY DEF IngestInv, TypeOK, TaskRows, Commit
<1>3. /\ r \in TaskRows /\ r.pc = "reply" /\ r.tx = Empty /\ r.run = task[t].run
      /\ r.bundle = task[t].bundle /\ r.verdicts = task[t].verdicts /\ r.result = task[t].result
  BY <1>2, RecordTypes DEF TaskRows, Phases
<1> HIDE DEF r
<1>4. /\ Busy' = Busy /\ Open' = Open \ {t} /\ Waiting' = Waiting /\ t \in Busy /\ t \in Open
  BY <1>1, <1>2, <1>3 DEF Busy, Open, Waiting, Opening, Writing
<1>5. Open \subseteq Tasks /\ Busy \subseteq Tasks /\ Open \subseteq Busy
  BY Phased DEF Open, Busy
<1>6. PICK c \in Challenges, v \in Verdicts, b \in BundleRows, x \in VerificationRows :
         Adds(t, c, v, b, x)
  BY AtCommit
<1>7. /\ task[t].challenges = {c} /\ task[t].verdicts = {v} /\ task[t].result = "stored"
      /\ b.id = task[t].bundle /\ b.run = task[t].run
      /\ x.bundle = task[t].bundle /\ {x.status} = task[t].verdicts /\ x.id < next.verification
      /\ db'.bundles = db.bundles \cup {b}
      /\ db'.verification = db.verification \cup {x}
      /\ db'.sections = db.sections \cup task[t].tx.sections
      /\ \A s \in task[t].tx.sections : s.bundle = task[t].bundle
      /\ db.audit_log \subseteq db'.audit_log
  BY <1>6 DEF Adds
<1>8. TypeOK'
  <2>1. task' \in [Tasks -> TaskRows]
    BY <1>1, <1>3 DEF IngestInv, TypeOK, TaskRows
  <2>2. lock' \in [Challenges -> Tasks \cup {NoTask}]
    BY <1>2 DEF IngestInv, TypeOK, Unlocked
  <2>3. db' \in Tables
    BY AtCommit
  <2> QED
    BY <1>2, <2>1, <2>2, <2>3 DEF IngestInv, TypeOK, TaskRows
<1>9. ASSUME NEW a, Truthful(a), a.run # task[t].run PROVE Truthful(a)'
  BY <1>7, <1>9 DEF Truthful
<1>10. \A s \in Busy : s # t => task[s].run # task[t].run
  BY <1>4 DEF IngestInv, RunsOK
<1>11. \A s \in Tasks : Role(task[s])'
  <2> SUFFICES ASSUME NEW s \in Tasks PROVE Role(task[s])'
    OBVIOUS
  <2>1. CASE s = t
    <3>1. Truthful(task[t])'
      BY <1>1, <1>3, <1>7 DEF Truthful
    <3> QED
      BY <1>1, <1>3, <2>1, <3>1, Phased DEF Role
  <2>2. CASE s # t
    <3>1. task'[s] = task[s] /\ Role(task[s])
      BY <1>1, <2>2 DEF IngestInv
    <3>2. task[s].pc = "reply" => Truthful(task[s])'
      BY <1>9, <1>10, <2>2, <3>1 DEF Busy, Role
    <3>3. task[s].pc = "reject" => \A q \in db'.bundles : q.run # task[s].run
      BY <1>7, <1>10, <2>2, <3>1 DEF Busy, Role
    <3> QED
      BY <1>7, <3>1, <3>2, <3>3 DEF Role, Truthful
  <2> QED
    BY <2>1, <2>2
<1>12. \A s \in Open' : Rows(task[s])' /\ Newer(task[s])'
  <2> SUFFICES ASSUME NEW s \in Open, s # t PROVE Rows(task[s])' /\ Newer(task[s])'
    BY <1>4
  <2>1. task'[s] = task[s] /\ Rows(task[s]) /\ Newer(task[s]) /\ s \in Tasks
    BY <1>1, <1>5 DEF IngestInv
  <2>2. c \notin task[s].challenges /\ task[s].challenges \subseteq Challenges
    <3>1. LocksOK /\ task[s].pc \in Locking /\ task[t].pc \in Locking
      BY <1>4 DEF IngestInv, Open, Locking
    <3>2. task[s].challenges \subseteq Challenges
      BY <2>1 DEF IngestInv, TypeOK
    <3> QED
      BY <1>7, <2>1, <3>1, <3>2 DEF LocksOK
  <2>3. \A k \in task[s].challenges : /\ BundlesForChallenge(k)' = BundlesForChallenge(k)
                                      /\ VerdictsForChallenge(k)' = VerdictsForChallenge(k)
    BY <1>7, <2>2, CommitElsewhere
  <2>4. Rows(task[s])'
    BY <1>2, <2>1 DEF Rows
  <2>5. Newer(task[s])'
    BY <2>1, <2>3 DEF Newer
  <2> QED
    BY <2>4, <2>5
<1>13. \A s \in Busy : task'[s].run = task[s].run
  BY <1>1, <1>3, <1>5
<1>14. RunsOK'
  BY <1>2, <1>4, <1>7, <1>13 DEF RunsOK, IngestInv
<1>15. AnswersOK'
  <2> SUFFICES ASSUME NEW a \in answers
               PROVE  Truthful(a)' /\ a.run \in 1..runs /\ \A s \in Busy : task'[s].run # a.run
    BY <1>2, <1>4 DEF AnswersOK
  <2>1. Truthful(a) /\ a.run \in 1..runs /\ \A s \in Busy : task[s].run # a.run
    BY DEF AnswersOK, IngestInv
  <2>2. Truthful(a)'
    BY <1>4, <1>9, <2>1
  <2> QED
    BY <1>13, <2>1, <2>2
<1>16. LocksOK'
  <2> SUFFICES ASSUME NEW s \in Tasks, task'[s].pc \in Locking, NEW k \in task'[s].challenges
               PROVE  lock'[k] = s
    BY DEF LocksOK
  <2>1. s # t
    BY <1>1, <1>3 DEF Locking, Writing
  <2>2. task'[s] = task[s] /\ lock[k] = s /\ k \in Challenges
    BY <1>1, <2>1 DEF LocksOK, IngestInv, TypeOK
  <2> QED
    BY <1>2, <2>1, <2>2 DEF Unlocked
<1>17. IdsOK'
  <2>1. Mentioned' = Mentioned \cup {task[t].bundle}
    BY <1>7 DEF Mentioned
  <2>2. task[t].bundle \in 1..next.bundle-1
    <3>1. /\ task[t].bundle \in Nat /\ next.bundle \in Nat /\ task[t].bundle < next.bundle
          /\ task[t].bundle > 0
      BY <1>2, <1>4 DEF IngestInv, TypeOK, TaskRows, IdsOK, Rows
    <3> QED
      BY <3>1
  <2>3. \A s \in Open' : task'[s] = task[s] /\ s \in Open /\ s # t
    BY <1>1, <1>4, <1>5
  <2> QED
    BY <1>2, <1>4, <1>7, <2>1, <2>2, <2>3 DEF IdsOK, IngestInv
<1>18. BudgetOK'
  BY <1>2, <1>4 DEF BudgetOK, IngestInv
<1>19. (\A k \in Challenges : Latest(k))'
  BY CommitLatest
<1> QED
  BY <1>8, <1>11, <1>12, <1>14, <1>15, <1>16, <1>17, <1>18, <1>19 DEF IngestInv

(***************************************************************************)
(* The statements of a transaction                                         *)
(***************************************************************************)
LEMMA BeginKeeps ==
    ASSUME IngestInv, NEW t \in Tasks, Begin(t)
    PROVE  IngestInv'
<1>1. PICK r : r = [task[t] EXCEPT !.pc = "challenge", !.at = clock]
  OBVIOUS
<1>2. /\ task[t] \in TaskRows /\ task[t].pc = "begin" /\ Role(task[t]) /\ clock \in Nat
      /\ UNCHANGED <<db, next, lock, runs, answers>>
  BY DEF IngestInv, TypeOK, TaskRows, Begin
<1>3. /\ r \in TaskRows /\ r.pc = "challenge" /\ r.run = task[t].run /\ r.tx = task[t].tx
      /\ r.bundle = task[t].bundle /\ r.verdicts = task[t].verdicts
      /\ r.challenges = task[t].challenges /\ r.result = task[t].result
  BY <1>1, <1>2 DEF TaskRows, Phases, Transaction
<1>4. task' = [task EXCEPT ![t] = r]
  BY <1>1 DEF Begin, IngestInv, TypeOK
<1>5. TypeOK'
  <2>1. task' \in [Tasks -> TaskRows] /\ clock' \in 0..MaxClock
    BY <1>3, <1>4 DEF IngestInv, TypeOK, TaskRows, Begin
  <2> QED
    BY <1>2, <2>1 DEF IngestInv, TypeOK, TaskRows
<1>6. Role(r)
  BY <1>2, <1>3 DEF Role, Opening, Writing
<1>7. LocksOK'
  BY <1>2, <1>3, <1>4 DEF LocksOK, IngestInv, TypeOK, Locking, Writing
<1>8. r.pc \in Opening /\ task[t].pc \in Opening /\ r.pc \notin Writing /\ task[t].pc \notin Writing
  BY <1>2, <1>3 DEF Opening, Writing
<1>9. next'.bundle = next.bundle /\ next'.verification >= next.verification
  BY <1>2 DEF IngestInv, TypeOK
<1> QED
  BY <1>2, <1>3, <1>4, <1>5, <1>6, <1>7, <1>8, <1>9, GoesOn

LEMMA UpsertChallengeKeeps ==
    ASSUME IngestInv, NEW t \in Tasks, UpsertChallenge(t)
    PROVE  IngestInv'
<1>1. PICK r : r = [task[t] EXCEPT !.pc = "bundle"]
  OBVIOUS
<1>2. /\ task[t] \in TaskRows /\ task[t].pc = "challenge" /\ Role(task[t])
      /\ UNCHANGED <<db, next, clock, runs, answers>>
  BY DEF IngestInv, TypeOK, TaskRows, UpsertChallenge
<1>3. /\ r \in TaskRows /\ r.pc = "bundle" /\ r.run = task[t].run /\ r.tx = task[t].tx
      /\ r.bundle = task[t].bundle /\ r.verdicts = task[t].verdicts
      /\ r.challenges = task[t].challenges /\ r.result = task[t].result
  BY <1>1, <1>2 DEF TaskRows, Phases, Transaction
<1>4. task' = [task EXCEPT ![t] = r]
  BY <1>1 DEF UpsertChallenge, Goto, IngestInv, TypeOK
<1>5. TypeOK'
  <2>1. task' \in [Tasks -> TaskRows]
    BY <1>3, <1>4 DEF IngestInv, TypeOK, TaskRows
  <2>2. lock' \in [Challenges -> Tasks \cup {NoTask}]
    BY DEF IngestInv, TypeOK, UpsertChallenge
  <2> QED
    BY <1>2, <2>1, <2>2 DEF IngestInv, TypeOK, TaskRows
<1>6. Role(r)
  BY <1>2, <1>3 DEF Role, Opening, Writing
<1>7. LocksOK'
  <2> SUFFICES ASSUME NEW s \in Tasks, task'[s].pc \in Locking, NEW c \in task'[s].challenges
               PROVE  lock'[c] = s
    BY DEF LocksOK
  <2>1. CASE s = t
    <3>1. c \in task[t].challenges /\ c \in Challenges
      BY <1>2, <1>3, <1>4, <2>1 DEF IngestInv, TypeOK, TaskRows
    <3> QED
      BY <2>1, <3>1 DEF UpsertChallenge
  <2>2. CASE s # t
    <3>1. task'[s] = task[s] /\ lock[c] = s /\ c \in Challenges
      BY <1>4, <2>2 DEF LocksOK, IngestInv, TypeOK
    <3>2. c \notin task[t].challenges
      BY <2>2, <3>1, IngestAssumption DEF UpsertChallenge
    <3> QED
      BY <3>1, <3>2 DEF UpsertChallenge
  <2> QED
    BY <2>1, <2>2
<1>8. r.pc \in Opening /\ task[t].pc \in Opening /\ r.pc \notin Writing /\ task[t].pc \notin Writing
  BY <1>2, <1>3 DEF Opening, Writing
<1>9. next'.bundle = next.bundle /\ next'.verification >= next.verification
  BY <1>2 DEF IngestInv, TypeOK
<1> QED
  BY <1>2, <1>3, <1>4, <1>5, <1>6, <1>7, <1>8, <1>9, GoesOn

\* A statement of an open transaction that writes rows of its own bundle.
LEMMA WriteKeeps ==
    ASSUME IngestInv, NEW t \in Tasks, NEW pc \in Writing, NEW rows \in Tables, t \in Open,
           Write(t, pc, rows) \/ (Goto(t, pc) /\ rows = Empty),
           UNCHANGED <<db, lock, clock, runs, answers>>,
           next' \in [bundle: Nat, verification: Nat], next'.bundle = next.bundle,
           next'.verification >= next.verification,
           \A r : /\ r.pc = pc /\ r.tx = With(task[t].tx, rows) /\ r.bundle = task[t].bundle
                  /\ r.at = task[t].at /\ r.verdicts = task[t].verdicts /\ r.run = task[t].run
                  /\ r.challenges = task[t].challenges
                  => Written(r) /\ Judged(r),
           \A v \in rows.verification : v.id < next'.verification,
           \A v \in rows.verification, u \in db.verification : u.id < v.id
    PROVE  IngestInv'
<1>1. PICK r : r = [task[t] EXCEPT !.pc = pc, !.tx = With(task[t].tx, rows)]
  OBVIOUS
<1>2. /\ task[t] \in TaskRows /\ task[t].pc \in Writing /\ Role(task[t]) /\ pc \in Phases
      /\ Rows(task[t]) /\ Newer(task[t]) /\ task[t].tx \in Tables
      /\ next.verification \in Nat /\ next'.verification \in Nat
  BY Phased DEF IngestInv, TypeOK, TaskRows, Open
<1>3. /\ With(task[t].tx, rows) \in Tables
      /\ With(task[t].tx, rows).verification = task[t].tx.verification \cup rows.verification
  BY <1>2, WithTables
<1>4. /\ r \in TaskRows /\ r.pc = pc /\ r.run = task[t].run /\ r.tx = With(task[t].tx, rows)
      /\ r.bundle = task[t].bundle /\ r.verdicts = task[t].verdicts /\ r.at = task[t].at
      /\ r.challenges = task[t].challenges /\ r.result = task[t].result
  BY <1>1, <1>2, <1>3 DEF TaskRows
<1>5. task' = [task EXCEPT ![t] = r]
  <2>1. CASE Write(t, pc, rows)
    BY <1>1, <2>1 DEF Write, IngestInv, TypeOK
  <2>2. CASE Goto(t, pc) /\ rows = Empty
    <3>1. With(task[t].tx, rows) = task[t].tx
      BY <1>2, <2>2, WithNothing
    <3>2. r = [task[t] EXCEPT !.pc = pc]
      BY <1>1, <1>2, <3>1 DEF TaskRows
    <3> QED
      BY <2>2, <3>2 DEF Goto, IngestInv, TypeOK
  <2> QED
    BY <2>1, <2>2
<1>6. TypeOK'
  <2>1. task' \in [Tasks -> TaskRows]
    BY <1>4, <1>5 DEF IngestInv, TypeOK, TaskRows
  <2> QED
    BY <2>1 DEF IngestInv, TypeOK, TaskRows
<1>7. Role(r)
  BY <1>2, <1>4, Phased DEF Role, Writing
<1>8. Rows(r)'
  <2>1. Written(r) /\ Judged(r)
    BY <1>4
  <2>2. \A v \in r.tx.verification : v.id < next'.verification
    <3>1. \A v \in task[t].tx.verification : v.id \in Nat /\ v.id < next.verification
      BY <1>2 DEF Rows, Tables, VerificationRows
    <3> QED
      BY <1>2, <1>3, <1>4, <3>1
  <2>3. r.bundle < next'.bundle
    BY <1>2, <1>4 DEF Rows
  <2> QED
    BY <2>1, <2>2, <2>3 DEF Rows, Written, Judged
<1>9. Newer(r)'
  <2>1. \A c \in r.challenges : \A b \in BundlesForChallenge(c) : b.id < r.bundle
    BY <1>2, <1>4 DEF Newer
  <2>2. \A c \in r.challenges :
           \A x \in r.tx.verification, v \in VerdictsForChallenge(c) : v.id < x.id
    BY <1>2, <1>3, <1>4 DEF Newer, VerdictsForChallenge
  <2>3. \A c : /\ BundlesForChallenge(c)' = BundlesForChallenge(c)
               /\ VerdictsForChallenge(c)' = VerdictsForChallenge(c)
    BY DEF BundlesForChallenge, VerdictsForChallenge
  <2> QED
    BY <2>1, <2>2, <2>3 DEF Newer
<1>10. LocksOK'
  BY <1>2, <1>4, <1>5 DEF LocksOK, IngestInv, TypeOK, Locking
<1>11. r.pc \in Writing /\ r.pc \notin Opening /\ task[t].pc \notin Opening
       /\ r.pc # "idle" /\ task[t].pc # "idle"
  BY <1>2, <1>4, Phased
<1> QED
  BY <1>2, <1>4, <1>5, <1>6, <1>7, <1>8, <1>9, <1>10, <1>11, GoesOn

LEMMA InsertSectionKeeps ==
    ASSUME IngestInv, NEW t \in Tasks, InsertSection(t)
    PROVE  IngestInv'
<1> DEFINE written == {s.name_id : s \in task[t].tx.sections}
<1>1. /\ t \in Open /\ task[t].pc = "sections" /\ task[t].tx \in Tables /\ task[t].bundle \in Nat
      /\ Written(task[t]) /\ Judged(task[t])
      /\ UNCHANGED <<db, next, lock, clock, runs, answers>>
  BY DEF InsertSection, Open, Writing, IngestInv, TypeOK, Rows
<1>2. next' \in [bundle: Nat, verification: Nat] /\ next'.verification >= next.verification
  BY <1>1 DEF IngestInv, TypeOK
<1>3. CASE written = SectionNames
  <2>1. Goto(t, "verification") /\ Empty \in Tables
    BY <1>3, RecordTypes DEF InsertSection
  <2>2. ASSUME NEW r, r.pc = "verification", r.tx = With(task[t].tx, Empty),
               r.bundle = task[t].bundle, r.at = task[t].at, r.run = task[t].run,
               r.challenges = task[t].challenges
        PROVE  Written(r) /\ Judged(r)
    <3>1. r.tx = task[t].tx
      BY <1>1, <2>2, WithNothing
    <3> QED
      BY <1>1, <1>3, <2>2, <3>1 DEF Written, Judged
  <2>3. Empty.verification = {} /\ "verification" \in Writing
    BY DEF Empty, Writing
  <2> QED
    BY <1>1, <1>2, <2>1, <2>2, <2>3, WriteKeeps
<1>4. CASE written # SectionNames
  <2>1. PICK n : /\ n \in SectionNames
                 /\ Write(t, "sections",
                          [Empty EXCEPT !.sections = {[bundle |-> task[t].bundle, name_id |-> n]}])
    <3>1. written \subseteq SectionNames
      BY <1>1 DEF Tables, SectionRows
    <3>2. (CHOOSE n \in SectionNames \ written : TRUE) \in SectionNames
      BY <1>4, <3>1
    <3> QED
      BY <1>4, <3>2 DEF InsertSection
  <2>2. PICK rows : rows = [Empty EXCEPT !.sections = {[bundle |-> task[t].bundle, name_id |-> n]}]
    OBVIOUS
  <2>3. /\ rows \in Tables /\ rows.bundles = {} /\ rows.verification = {} /\ rows.audit_log = {}
        /\ rows.sections = {[bundle |-> task[t].bundle, name_id |-> n]}
    BY <1>1, <2>1, <2>2 DEF Empty, Tables, SectionRows
  <2>4. ASSUME NEW r, r.pc = "sections", r.tx = With(task[t].tx, rows),
               r.bundle = task[t].bundle, r.at = task[t].at, r.run = task[t].run,
               r.challenges = task[t].challenges
        PROVE  Written(r) /\ Judged(r)
    <3>1. /\ r.tx.bundles = task[t].tx.bundles
          /\ r.tx.sections = task[t].tx.sections \cup {[bundle |-> task[t].bundle, name_id |-> n]}
          /\ r.tx.verification = task[t].tx.verification /\ r.tx.audit_log = task[t].tx.audit_log
      <4>1. /\ r.tx.bundles = task[t].tx.bundles \cup rows.bundles
            /\ r.tx.sections = task[t].tx.sections \cup rows.sections
            /\ r.tx.verification = task[t].tx.verification \cup rows.verification
            /\ r.tx.audit_log = task[t].tx.audit_log \cup rows.audit_log
        <5>1. r.tx = With(task[t].tx, rows) /\ rows \in Tables /\ task[t].tx \in Tables
          BY <1>1, <2>3, <2>4
        <5> QED
          BY <5>1, WithTables
      <4> QED
        BY <2>3, <4>1
    <3> QED
      BY <1>1, <2>4, <3>1 DEF Written, Judged
  <2>5. "sections" \in Writing
    BY DEF Writing
  <2> QED
    BY <1>1, <1>2, <2>1, <2>2, <2>3, <2>4, <2>5, WriteKeeps
<1> QED
  BY <1>3, <1>4

LEMMA InsertVerificationKeeps ==
    ASSUME IngestInv, NEW t \in Tasks, InsertVerification(t)
    PROVE  IngestInv'
<1>1. /\ t \in Open /\ task[t].pc = "verification" /\ task[t].tx \in Tables
      /\ task[t].bundle \in Nat /\ task[t].at \in Nat /\ Written(task[t]) /\ Judged(task[t])
      /\ UNCHANGED <<db, lock, clock, runs, answers>>
  BY DEF InsertVerification, Open, Writing, IngestInv, TypeOK, Rows
<1>2. PICK v \in Verdicts : task[t].verdicts = {v}
  BY <1>1 DEF IngestInv, Role, Writing
<1>3. PICK x : x = [id |-> next.verification, bundle |-> task[t].bundle, status |-> v,
                    at |-> task[t].at]
  OBVIOUS
<1>4. /\ next' \in [bundle: Nat, verification: Nat] /\ next'.bundle = next.bundle
      /\ next'.verification = next.verification + 1 /\ next.verification \in Nat
  BY DEF InsertVerification, IngestInv, TypeOK
<1>5. PICK rows : rows = [Empty EXCEPT !.verification = {x}]
  OBVIOUS
<1>6. /\ rows \in Tables /\ rows.bundles = {} /\ rows.verification = {x} /\ rows.audit_log = {}
      /\ rows.sections = {}
  BY <1>1, <1>3, <1>4, <1>5 DEF Empty, Tables, VerificationRows
<1>7. Write(t, "audit", rows)
  BY <1>2, <1>3, <1>5 DEF InsertVerification
<1>8. ASSUME NEW r, r.pc = "audit", r.tx = With(task[t].tx, rows),
             r.bundle = task[t].bundle, r.at = task[t].at, r.run = task[t].run,
             r.challenges = task[t].challenges, r.verdicts = task[t].verdicts
      PROVE  Written(r) /\ Judged(r)
  <2>1. /\ r.tx.bundles = task[t].tx.bundles /\ r.tx.sections = task[t].tx.sections
        /\ r.tx.verification = {x} /\ r.tx.audit_log = task[t].tx.audit_log
    <3>1. task[t].tx.verification = {}
      BY <1>1 DEF Judged
    <3>2. /\ r.tx.bundles = task[t].tx.bundles \cup rows.bundles
          /\ r.tx.sections = task[t].tx.sections \cup rows.sections
          /\ r.tx.verification = task[t].tx.verification \cup rows.verification
          /\ r.tx.audit_log = task[t].tx.audit_log \cup rows.audit_log
      <4>1. r.tx = With(task[t].tx, rows) /\ rows \in Tables /\ task[t].tx \in Tables
        BY <1>1, <1>6, <1>8
      <4> QED
        BY <4>1, WithTables
    <3> QED
      BY <1>6, <3>1, <3>2
  <2>2. Written(r)
    BY <1>1, <1>8, <2>1 DEF Written
  <2>3. Judged(r)
    BY <1>2, <1>3, <1>8, <2>1 DEF Judged
  <2> QED
    BY <2>2, <2>3
<1>9. (\A u \in rows.verification : u.id < next'.verification)
      /\ \A u \in rows.verification, w \in db.verification : w.id < u.id
  BY <1>3, <1>4, <1>6 DEF IngestInv, IdsOK
<1>10. "audit" \in Writing
  BY DEF Writing
<1>11. next'.verification >= next.verification
  BY <1>4
<1> QED
  BY <1>1, <1>4, <1>6, <1>7, <1>8, <1>9, <1>10, <1>11, WriteKeeps

LEMMA RecordAuditKeeps ==
    ASSUME IngestInv, NEW t \in Tasks, RecordAuditInTx(t)
    PROVE  IngestInv'
<1>1. /\ t \in Open /\ task[t].pc = "audit" /\ task[t].tx \in Tables
      /\ task[t].bundle \in Nat /\ task[t].run \in Nat /\ task[t].verdicts \subseteq Verdicts
      /\ Written(task[t]) /\ Judged(task[t])
      /\ UNCHANGED <<db, next, lock, clock, runs, answers>>
  BY DEF RecordAuditInTx, Open, Writing, IngestInv, TypeOK, Rows
<1>2. next' \in [bundle: Nat, verification: Nat] /\ next'.verification >= next.verification
  BY <1>1 DEF IngestInv, TypeOK
<1>3. PICK rows : rows = [Empty EXCEPT !.audit_log = {Stored(t)}]
  OBVIOUS
<1>4. Stored(t) \in AuditRows
  BY <1>1 DEF Stored, AuditRow, AuditRows
<1>5. /\ rows \in Tables /\ rows.bundles = {} /\ rows.verification = {} /\ rows.sections = {}
      /\ rows.audit_log = {Stored(t)}
  BY <1>3, <1>4 DEF Empty, Tables
<1>6. Write(t, "commit", rows)
  BY <1>3 DEF RecordAuditInTx
<1>7. ASSUME NEW r, r.pc = "commit", r.tx = With(task[t].tx, rows),
             r.bundle = task[t].bundle, r.at = task[t].at, r.run = task[t].run,
             r.challenges = task[t].challenges, r.verdicts = task[t].verdicts
      PROVE  Written(r) /\ Judged(r)
  <2>1. /\ r.tx.bundles = task[t].tx.bundles /\ r.tx.sections = task[t].tx.sections
        /\ r.tx.verification = task[t].tx.verification
        /\ r.tx.audit_log = task[t].tx.audit_log \cup {Stored(t)}
    <3>1. /\ r.tx.bundles = task[t].tx.bundles \cup rows.bundles
          /\ r.tx.sections = task[t].tx.sections \cup rows.sections
          /\ r.tx.verification = task[t].tx.verification \cup rows.verification
          /\ r.tx.audit_log = task[t].tx.audit_log \cup rows.audit_log
      <4>1. r.tx = With(task[t].tx, rows) /\ rows \in Tables /\ task[t].tx \in Tables
        BY <1>1, <1>5, <1>7
      <4> QED
        BY <4>1, WithTables
    <3> QED
      BY <1>5, <3>1
  <2>2. task[t].tx.audit_log = {}
    BY <1>1 DEF Written
  <2>3. Written(r)
    BY <1>1, <1>7, <2>1, <2>2 DEF Written, Stored
  <2>4. Judged(r)
    BY <1>1, <1>7, <2>1 DEF Judged
  <2> QED
    BY <2>3, <2>4
<1>8. "commit" \in Writing
  BY DEF Writing
<1> QED
  BY <1>1, <1>2, <1>5, <1>6, <1>7, <1>8, WriteKeeps

(***************************************************************************)
(* The steps that begin, record and end                                    *)
(***************************************************************************)
LEMMA BeginningKeeps ==
    ASSUME IngestInv, NEW t \in Tasks, Start(t)
    PROVE  IngestInv'
<1>1. runs \in Nat /\ runs + 1 \in Nat
  BY DEF IngestInv, TypeOK
<1>2. ASSUME NEW c \in Challenges, NEW v \in Verdicts, StartIngest(t, c, v)
      PROVE  IngestInv'
  <2>1. PICK r : r = Task("begin", runs + 1, {c}, {v}, 0, "stored")
    OBVIOUS
  <2>2. r \in TaskRows
    BY <1>1, <2>1, RecordTypes DEF Phases, Results
  <2>3. r.pc = "begin" /\ r.run = runs + 1 /\ Role(r)
    BY <2>1 DEF Task, Role, Opening, Writing
  <2> QED
    BY <1>2, <2>1, <2>2, <2>3, StartKeeps DEF StartIngest
<1>3. ASSUME StartBadIngest(t)
      PROVE  IngestInv'
  <2>1. PICK r : r = Task("reject", runs + 1, {}, {}, 0, "rejected")
    OBVIOUS
  <2>2. r \in TaskRows
    BY <1>1, <2>1, RecordTypes DEF Phases, Results
  <2>3. r.pc = "reject" /\ r.run = runs + 1 /\ r.result = "rejected" /\ r.tx = Empty
    BY <2>1 DEF Task
  <2>4. \A b \in db.bundles : b.run # r.run
    BY <1>1, <2>3 DEF IngestInv, RunsOK
  <2>5. Role(r)
    BY <2>3, <2>4 DEF Role, Opening, Writing
  <2> QED
    BY <1>3, <2>1, <2>2, <2>3, <2>5, StartKeeps DEF StartBadIngest
<1>4. ASSUME NEW b \in db.bundles, StartRelease(t, b)
      PROVE  IngestInv'
  <2>1. PICK r : r = Task("release", runs + 1, {}, {}, b.id, "released")
    OBVIOUS
  <2>2. b.id \in Nat
    BY DEF IngestInv, TypeOK, Tables, BundleRows
  <2>3. r \in TaskRows
    BY <1>1, <2>1, <2>2, RecordTypes DEF Phases, Results
  <2>4. r.pc = "release" /\ r.run = runs + 1 /\ Role(r)
    BY <2>1 DEF Task, Role, Opening, Writing
  <2> QED
    BY <1>4, <2>1, <2>3, <2>4, StartKeeps DEF StartRelease
<1> QED
  BY <1>2, <1>3, <1>4 DEF Start

LEMMA RecordingKeeps ==
    ASSUME IngestInv, NEW t \in Tasks, RecordRejection(t) \/ RecordRelease(t)
    PROVE  IngestInv'
<1>1. /\ task[t].run \in Nat /\ task[t].bundle \in Nat /\ db \in Tables
      /\ Role(task[t])
  BY DEF IngestInv, TypeOK
<1>2. CASE RecordRejection(t)
  <2>1. PICK row : row = AuditRow("ingest.rejected", {}, {"rejected"}, task[t].run)
    OBVIOUS
  <2>2. row \in AuditRows
    BY <1>1, <2>1 DEF AuditRow, AuditRows
  <2>3. /\ db' = [db EXCEPT !.audit_log = @ \cup {row}] /\ task[t].pc = "reject"
        /\ Goto(t, "reply") /\ UNCHANGED <<next, lock, clock, runs, answers>>
    BY <1>2, <2>1 DEF RecordRejection
  <2>4. /\ task'[t].run = task[t].run /\ task'[t].result = "rejected"
        /\ db'.bundles = db.bundles /\ row \in db'.audit_log
        /\ \A b \in db.bundles : b.run # task[t].run
    BY <1>1, <2>3 DEF Goto, IngestInv, TypeOK, Role, Tables
  <2>5. Truthful(task[t])'
    BY <2>1, <2>4 DEF Truthful
  <2> QED
    BY <2>2, <2>3, <2>5, AuditKeeps
<1>3. CASE RecordRelease(t)
  <2>1. PICK row : row = AuditRow("release.event_end", {task[t].bundle}, {}, task[t].run)
    OBVIOUS
  <2>2. row \in AuditRows
    BY <1>1, <2>1 DEF AuditRow, AuditRows
  <2>3. /\ db' = [db EXCEPT !.audit_log = @ \cup {row}] /\ task[t].pc = "release"
        /\ Goto(t, "reply") /\ UNCHANGED <<next, lock, clock, runs, answers>>
    BY <1>3, <2>1 DEF RecordRelease
  <2>4. /\ task'[t].run = task[t].run /\ task'[t].bundle = task[t].bundle
        /\ task'[t].result = "released" /\ row \in db'.audit_log
    BY <1>1, <2>3 DEF Goto, IngestInv, TypeOK, Role, Tables
  <2>5. Truthful(task[t])'
    BY <2>1, <2>4 DEF Truthful
  <2> QED
    BY <2>2, <2>3, <2>5, AuditKeeps
<1> QED
  BY <1>2, <1>3

LEMMA EndingKeeps ==
    ASSUME IngestInv, NEW t \in Tasks, Reply(t) \/ Fail(t) \/ Crash(t)
    PROVE  IngestInv'
<1>1. ASSUME NEW x \in Results, Tell(t, x)
      PROVE  \E a \in [run: Nat, bundle: Nat, verdicts: SUBSET Verdicts, result: Results] :
                /\ answers' = answers \cup {a} /\ a.run = task[t].run /\ a.result = x
                /\ a.bundle = task[t].bundle /\ a.verdicts = task[t].verdicts
  <2>1. PICK a : a = [run |-> task[t].run, bundle |-> task[t].bundle,
                      verdicts |-> task[t].verdicts, result |-> x]
    OBVIOUS
  <2>2. a \in [run: Nat, bundle: Nat, verdicts: SUBSET Verdicts, result: Results]
    BY <2>1 DEF IngestInv, TypeOK
  <2> QED
    BY <1>1, <2>1, <2>2 DEF Tell
<1>2. CASE Reply(t)
  <2>1. task[t].pc = "reply" /\ Truthful(task[t]) /\ task[t].result \in Results
        /\ Tell(t, task[t].result)
    BY <1>2 DEF Reply, IngestInv, TypeOK, Role
  <2>2. PICK a \in [run: Nat, bundle: Nat, verdicts: SUBSET Verdicts, result: Results] :
           /\ answers' = answers \cup {a} /\ a.run = task[t].run /\ a.result = task[t].result
           /\ a.bundle = task[t].bundle /\ a.verdicts = task[t].verdicts
    BY <1>1, <2>1
  <2>3. Truthful(a)
    BY <2>1, <2>2 DEF Truthful
  <2> QED
    BY <1>2, <2>1, <2>2, <2>3, EndKeeps DEF Reply
<1>3. CASE Fail(t)
  <2>1. PICK a \in [run: Nat, bundle: Nat, verdicts: SUBSET Verdicts, result: Results] :
           /\ answers' = answers \cup {a} /\ a.run = task[t].run /\ a.result = "error"
           /\ a.bundle = task[t].bundle /\ a.verdicts = task[t].verdicts
    BY <1>1, <1>3 DEF Fail, Results
  <2>2. Truthful(a)
    BY <2>1 DEF Truthful
  <2> QED
    BY <1>3, <2>1, <2>2, EndKeeps DEF Fail, End
<1>4. CASE Crash(t)
  BY <1>4, EndKeeps DEF Crash, End
<1> QED
  BY <1>2, <1>3, <1>4

LEMMA InitInv == Init => IngestInv
<1> SUFFICES ASSUME Init PROVE IngestInv
  OBVIOUS
<1>1. /\ db.bundles = {} /\ db.sections = {} /\ db.verification = {} /\ db.audit_log = {}
      /\ db \in Tables
  BY RecordTypes DEF Init, Empty
<1>2. \A t \in Tasks : task[t] = Idle
  BY DEF Init
<1>3. Idle.pc = "idle" /\ Idle.tx = Empty /\ Idle \in TaskRows
  BY RecordTypes DEF Idle, Task
<1>4. Busy = {} /\ Open = {} /\ Waiting = {} /\ Mentioned = {}
  BY <1>1, <1>2, <1>3, Phased DEF Busy, Open, Waiting, Mentioned
<1>5. TypeOK
  <2>1. task \in [Tasks -> TaskRows]
    BY <1>3 DEF Init
  <2> QED
    BY <1>1, <2>1, IngestAssumption DEF Init, TypeOK, TaskRows
<1>6. \A t \in Tasks : Role(task[t])
  BY <1>2, <1>3, Phased DEF Role
<1>7. RunsOK /\ AnswersOK
  BY <1>1, <1>4 DEF Init, RunsOK, AnswersOK
<1>8. LocksOK
  BY <1>2, <1>3 DEF LocksOK, Locking, Writing
<1>9. IdsOK
  BY <1>1, <1>4 DEF IdsOK
<1>10. BudgetOK
  BY <1>4, FS_EmptySet DEF BudgetOK, Init
<1>11. \A c \in Challenges : Latest(c)
  BY <1>1 DEF Latest, BundlesForChallenge
<1> QED
  BY <1>4, <1>5, <1>6, <1>7, <1>8, <1>9, <1>10, <1>11 DEF IngestInv

LEMMA NextInv == IngestInv /\ [Next]_vars => IngestInv'
<1> SUFFICES ASSUME IngestInv, [Next]_vars PROVE IngestInv'
  OBVIOUS
<1>1. ASSUME NEW t \in Tasks, Start(t) PROVE IngestInv'
  BY <1>1, BeginningKeeps
<1>2. ASSUME NEW t \in Tasks, Step(t) PROVE IngestInv'
  BY <1>2, BeginKeeps, UpsertChallengeKeeps, InsertBundleKeeps, InsertSectionKeeps,
     InsertVerificationKeeps, RecordAuditKeeps, CommitKeeps, RecordingKeeps, EndingKeeps DEF Step
<1>3. ASSUME NEW t \in Tasks, Fail(t) \/ Crash(t) PROVE IngestInv'
  BY <1>3, EndingKeeps
<1>4. CASE UNCHANGED vars
  <2>1. TypeOK' /\ RunsOK' /\ LocksOK' /\ BudgetOK'
    BY <1>4 DEF vars, IngestInv, TypeOK, RunsOK, LocksOK, BudgetOK, Busy, Waiting
  <2>2. \A t \in Tasks : Role(task[t])'
    BY <1>4 DEF vars, IngestInv, Role, Truthful
  <2>3. \A t \in Open' : Rows(task[t])' /\ Newer(task[t])'
    <3> SUFFICES ASSUME NEW t \in Open PROVE Rows(task[t])' /\ Newer(task[t])'
      BY <1>4 DEF vars, Open
    <3>1. task'[t] = task[t] /\ Rows(task[t]) /\ Newer(task[t]) /\ db' = db /\ next' = next
      BY <1>4 DEF vars, IngestInv
    <3> QED
      BY <3>1 DEF Rows, Newer, BundlesForChallenge, VerdictsForChallenge
  <2>4. AnswersOK' /\ IdsOK'
    BY <1>4 DEF vars, IngestInv, AnswersOK, Truthful, IdsOK, Mentioned, Busy, Open
  <2>5. \A c \in Challenges : Latest(c)'
    BY <1>4 DEF vars, IngestInv, Latest, First, BundlesForChallenge, VerdictsForChallenge
  <2> QED
    BY <2>1, <2>2, <2>3, <2>4, <2>5 DEF IngestInv
<1> QED
  BY <1>1, <1>2, <1>3, <1>4 DEF Next

\* The invariant all the theorems below follow from.
THEOREM IngestInvariant == Spec => []IngestInv
BY InitInv, NextInv, PTL DEF Spec

(***************************************************************************)
(* What follows for the console                                            *)
(***************************************************************************)
\* Every table, task and answer stays of its type.
THEOREM TypeCorrect == Spec => []TypeOK
BY IngestInvariant, PTL DEF IngestInv

\* What the console is told of an ingest or a release is so, and stays so: a result is
\* formed before COMMIT or after a lone statement, and told by a task that may die in
\* between, while other tasks go on writing.
THEOREM Truth == Spec => []AnswersAreTrue
<1>1. IngestInv => AnswersAreTrue
  BY DEF IngestInv, AnswersOK, AnswersAreTrue, Truthful
<1> QED
  BY <1>1, IngestInvariant, PTL

\* A list has one first row.
LEMMA NewestIsFirst ==
    ASSUME NEW rows, NEW r \in rows, First(r, rows), \A q \in rows : q.at \in Nat /\ q.id \in Nat
    PROVE  Newest(rows) = r
<1>1. ASSUME NEW q \in rows, First(q, rows) PROVE q = r
  BY <1>1 DEF First
<1>2. Newest(rows) = CHOOSE q \in rows : First(q, rows)
  BY DEF Newest, First
<1> QED
  BY <1>1, <1>2

\* The challenge list and the inspector agree: rows are ordered by the time their
\* transactions began, which need not be the order they committed in, and ids and the
\* lock on the challenge row are what keeps a bundle and its verdict together.
THEOREM SameBundleShown == Spec => []VerdictOfNewestBundle
<1>1. IngestInv => VerdictOfNewestBundle
  <2> SUFFICES ASSUME IngestInv, NEW c \in Challenges, BundlesForChallenge(c) # {}
               PROVE  Newest(VerdictsForChallenge(c)).bundle = Newest(BundlesForChallenge(c)).id
    BY DEF VerdictOfNewestBundle
  <2>1. PICK b \in BundlesForChallenge(c), v \in VerdictsForChallenge(c) :
           /\ v.bundle = b.id
           /\ First(b, BundlesForChallenge(c)) /\ First(v, VerdictsForChallenge(c))
    BY DEF IngestInv, Latest
  <2>2. /\ \A q \in BundlesForChallenge(c) : q.at \in Nat /\ q.id \in Nat
        /\ \A q \in VerdictsForChallenge(c) : q.at \in Nat /\ q.id \in Nat
    BY DEF IngestInv, TypeOK, Tables, BundleRows, VerificationRows, BundlesForChallenge,
           VerdictsForChallenge
  <2>3. Newest(BundlesForChallenge(c)) = b /\ Newest(VerdictsForChallenge(c)) = v
    BY <2>1, <2>2, NewestIsFirst
  <2> QED
    BY <2>1, <2>3
<1> QED
  BY <1>1, IngestInvariant, PTL

(***************************************************************************)
(* The store implements the promise of module Archive                      *)
(***************************************************************************)
Dossiers == {DossierOf(id) : id \in Mentioned}

LEMMA DossiersStay ==
    ASSUME db'.bundles = db.bundles, db'.sections = db.sections, db'.verification = db.verification
    PROVE  Dossiers' = Dossiers
BY DEF Dossiers, DossierOf, Mentioned

Noted(a) == [action |-> a.action, bundles |-> a.bundles, verdicts |-> a.verdicts]

LEMMA JournalGrows ==
    ASSUME NEW row, db'.audit_log = db.audit_log \cup {row}
    PROVE  Journal' = Journal \cup {Noted(row)}
BY DEF Journal, Noted

\* A committed transaction stores one whole dossier.
LEMMA CommitStores ==
    ASSUME IngestInv, NEW t \in Tasks, Commit(t)
    PROVE  Promise!Next
<1>1. PICK c \in Challenges, v \in Verdicts, b \in BundleRows, x \in VerificationRows :
         Adds(t, c, v, b, x)
  BY AtCommit
<1> DEFINE id == task[t].bundle
<1>2. id \notin Mentioned /\ t \in Open
  BY DEF IngestInv, IdsOK, Commit, Open, Writing
<1>3. id \in 1..MaxRuns
  <2>1. id > 0 /\ id < next.bundle /\ id \in Nat /\ next.bundle \in Nat /\ runs \in 0..MaxRuns
    BY <1>2 DEF IngestInv, IdsOK, Rows, TypeOK
  <2>2. IsFiniteSet(Waiting) /\ next.bundle + Cardinality(Waiting) <= runs + 1
    BY DEF IngestInv, BudgetOK
  <2>3. Cardinality(Waiting) \in Nat
    BY <2>2, FS_CardinalityType
  <2> QED
    BY <2>1, <2>2, <2>3, IngestAssumption
<1>4. Mentioned' = Mentioned \cup {id}
  BY <1>1 DEF Adds, Mentioned
<1>5. ASSUME NEW i \in Mentioned PROVE DossierOf(i)' = DossierOf(i)
  <2>1. i # id
    BY <1>2
  <2>2. /\ {y \in db'.bundles : y.id = i} = {y \in db.bundles : y.id = i}
        /\ {s \in db'.sections : s.bundle = i} = {s \in db.sections : s.bundle = i}
        /\ {y \in db'.verification : y.bundle = i} = {y \in db.verification : y.bundle = i}
    BY <1>1, <2>1 DEF Adds
  <2> QED
    BY <2>2 DEF DossierOf
<1>6. ASSUME NEW i, i = id
      PROVE  DossierOf(i)' = Promise!Dossier(i, {c}, SectionNames, {v})
  <2>1. /\ \A y \in db.bundles : y.id # i
        /\ \A s \in db.sections : s.bundle # i
        /\ \A y \in db.verification : y.bundle # i
    BY <1>2, <1>6 DEF Mentioned
  <2>2. /\ {y \in db'.bundles : y.id = i} = {b}
        /\ {s \in db'.sections : s.bundle = i} = task[t].tx.sections
        /\ {y \in db'.verification : y.bundle = i} = {x}
    BY <1>1, <1>6, <2>1 DEF Adds
  <2>3. /\ b.challenge = c /\ x.status = v
        /\ {s.name_id : s \in task[t].tx.sections} = SectionNames
    BY <1>1 DEF Adds
  <2> QED
    BY <2>2, <2>3 DEF DossierOf, Promise!Dossier
<1>7. PICK i : i = id
  OBVIOUS
<1>8. Dossiers' = Dossiers \cup {Promise!Dossier(i, {c}, SectionNames, {v})}
  BY <1>4, <1>5, <1>6, <1>7 DEF Dossiers
<1>9. Journal' = Journal \cup {Promise!Entry("ingest.stored", {i}, {v})}
  <2>1. PICK row : row = AuditRow("ingest.stored", {i}, {v}, task[t].run)
    OBVIOUS
  <2>2. db'.audit_log = db.audit_log \cup {row}
    BY <1>1, <1>7, <2>1 DEF Adds
  <2>3. Noted(row) = Promise!Entry("ingest.stored", {i}, {v})
    BY <2>1 DEF Noted, AuditRow, Promise!Entry
  <2> QED
    BY <2>2, <2>3, JournalGrows
<1>10. \A d \in Dossiers : d.bundle # i
  BY <1>2, <1>7 DEF Dossiers, DossierOf
<1>11. Promise!Store(i, c, v)
  BY <1>8, <1>9, <1>10 DEF Promise!Store, Dossiers
<1> QED
  BY <1>3, <1>7, <1>11 DEF Promise!Next

\* A rejection or a release adds its entry to the journal, a release of what is stored.
LEMMA RecordingNotes ==
    ASSUME IngestInv, NEW t \in Tasks, RecordRejection(t) \/ RecordRelease(t)
    PROVE  Promise!Next
<1>1. db \in Tables /\ Role(task[t])
  BY DEF IngestInv, TypeOK
<1>2. CASE RecordRejection(t)
  <2>1. PICK row : row = AuditRow("ingest.rejected", {}, {"rejected"}, task[t].run)
    OBVIOUS
  <2>2. /\ db'.audit_log = db.audit_log \cup {row} /\ db'.bundles = db.bundles
        /\ db'.sections = db.sections /\ db'.verification = db.verification
    BY <1>1, <1>2, <2>1 DEF RecordRejection, Tables
  <2>3. Noted(row) = Promise!Entry("ingest.rejected", {}, {"rejected"})
    BY <2>1 DEF Noted, AuditRow, Promise!Entry
  <2>4. Promise!Reject
    BY <2>2, <2>3, DossiersStay, JournalGrows DEF Promise!Reject, Dossiers
  <2> QED
    BY <2>4 DEF Promise!Next
<1>3. CASE RecordRelease(t)
  <2>1. PICK row : row = AuditRow("release.event_end", {task[t].bundle}, {}, task[t].run)
    OBVIOUS
  <2>2. /\ db'.audit_log = db.audit_log \cup {row} /\ db'.bundles = db.bundles
        /\ db'.sections = db.sections /\ db'.verification = db.verification
    BY <1>1, <1>3, <2>1 DEF RecordRelease, Tables
  <2>3. PICK d \in Dossiers : d.bundle = task[t].bundle
    <3>1. PICK b \in db.bundles : b.id = task[t].bundle
      BY <1>1, <1>3 DEF RecordRelease, Role
    <3>2. DossierOf(b.id) \in Dossiers /\ DossierOf(b.id).bundle = b.id
      BY DEF Dossiers, Mentioned, DossierOf
    <3> QED
      BY <3>1, <3>2
  <2>4. Noted(row) = Promise!Entry("release.event_end", {d.bundle}, {})
    BY <2>1, <2>3 DEF Noted, AuditRow, Promise!Entry
  <2>5. Promise!Release(d)
    BY <2>2, <2>4, DossiersStay, JournalGrows DEF Promise!Release, Dossiers
  <2> QED
    BY <2>3, <2>5 DEF Promise!Next, Dossiers
<1> QED
  BY <1>2, <1>3

\* The store implements the promise: a bundle is stored whole, with one verdict and the
\* entry that says so, or leaves nothing, whichever statements fail and whoever dies; a
\* rejection leaves its entry alone, and only what is stored is released.
THEOREM ImplementsArchive == Spec => ArchiveSpec
<1>1. Init => Promise!Init
  BY DEF Init, Empty, Promise!Init, Mentioned, Journal
<1>2. IngestInv /\ [Next]_vars => [Promise!Next]_<<Dossiers, Journal>>
  <2> SUFFICES ASSUME IngestInv, [Next]_vars, db' # db
               PROVE  Promise!Next
    BY DossiersStay DEF Journal
  <2>1. ASSUME NEW t \in Tasks, Commit(t) PROVE Promise!Next
    BY <2>1, CommitStores
  <2>2. ASSUME NEW t \in Tasks, RecordRejection(t) \/ RecordRelease(t) PROVE Promise!Next
    BY <2>2, RecordingNotes
  <2> QED
    BY <2>1, <2>2
       DEF Next, Start, StartIngest, StartBadIngest, StartRelease, Step, Begin, UpsertChallenge,
           InsertBundle, InsertSection, InsertVerification, RecordAuditInTx, Reply, Fail, Crash,
           End, vars
<1>3. <<Dossiers, Journal>> = <<{DossierOf(id) : id \in Mentioned}, Journal>>
  BY DEF Dossiers
<1> QED
  BY <1>1, <1>2, <1>3, IngestInvariant, PTL DEF Spec, ArchiveSpec, Promise!Spec, Dossiers
=============================================================================
