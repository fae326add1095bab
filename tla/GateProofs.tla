----------------------------- MODULE GateProofs -----------------------------
(***************************************************************************)
(* The gate's verdict is the one spec/SPEC.md section 25.6 gives, for any  *)
(* set of output names and contents and any set of flags; and the four     *)
(* front ends give that verdict, tell it with their exit codes, and agree  *)
(* with the console, for any shelves.                                      *)
(*                                                                         *)
(* The inductive invariant says what has been established when a stage     *)
(* begins: the gate may run and both modules are there, then the two runs  *)
(* agree, then the whole determinism stage is through.                     *)
(***************************************************************************)
EXTENDS FrontEnds, SequenceTheorems, TLAPS

MayRun == ~(Forbidden \/ Unrunnable)

Untouched == second = {} /\ answer = {} /\ record = {}

Stages ==
    /\ pc = "prepare" => Untouched /\ runs = <<>>
    /\ pc = "generate" => MayRun /\ Untouched /\ (runs # <<>> => Len(runs) = 1 /\ runs[1] # Failed)
    /\ pc = "cross" => MayRun /\ Untouched /\ Len(runs) = 2 /\ runs[1] = runs[2] /\ runs[1] # Failed
    /\ pc = "solve" => MayRun /\ Deterministic /\ answer = {} /\ record = {}
    /\ pc = "done" => VerdictOfSection25 /\ SummaryTellsHowFar

GInv == TypeOK /\ Stages

\* The code's questions come out as the specification's conditions.
LEMMA StartsWhenAllowed ==
    ASSUME TypeOK, Starts
    PROVE  MayRun
<1>1. inputs # {}
  <2>1. inputs = {} => Questions[5] = "not requested" /\ 5 \in 1..Len(Questions)
    BY DEF Questions, WithoutInputs
  <2>2. Asks("not requested")
    BY DEF Asks
  <2> QED BY <2>1, <2>2 DEF Starts
<1>2. Questions = WithInputs /\ Len(WithInputs) = 9
  BY <1>1 DEF Questions, WithInputs
<1>3. /\ ~Asks("unusable inputs") /\ ~Asks("version") /\ ~Asks("determinism") /\ ~Asks("runtime")
      /\ ~Asks("no generator") /\ ~Asks("no solver") /\ ~Asks("not offline")
  <2>1. \A n \in 1..9 : ~Asks(WithInputs[n])
    BY <1>2 DEF Starts
  <2>2. /\ 1 \in 1..9 /\ 2 \in 1..9 /\ 5 \in 1..9 /\ 6 \in 1..9 /\ 7 \in 1..9 /\ 8 \in 1..9
        /\ 9 \in 1..9
    OBVIOUS
  <2>3. /\ WithInputs[1] = "unusable inputs" /\ WithInputs[2] = "version"
        /\ WithInputs[5] = "determinism" /\ WithInputs[6] = "runtime"
        /\ WithInputs[7] = "no generator" /\ WithInputs[8] = "no solver"
        /\ WithInputs[9] = "not offline"
    BY DEF WithInputs
  <2> QED BY <2>1, <2>2, <2>3, Zenon
<1>4. \A j \in inputs : j.usable
  BY <1>3 DEF Asks
<1>5. bundle.version # "other" /\ bundle.determinism \in {"absent", "strict"}
  BY <1>3 DEF Asks
<1>6. ~bundle.runtime /\ bundle.offline
  BY <1>3 DEF Asks
<1>7. Resolved("generator") /\ Resolved("solver")
  BY <1>1, <1>3 DEF Asks, Lacks
<1>8. \A m \in Modules : Resolved(m) /\ bundle.module[m] # "undeclared"
  BY <1>7 DEF Modules, Resolved
<1> QED BY <1>1, <1>4, <1>5, <1>6, <1>8 DEF MayRun, Forbidden, Unrunnable

LEMMA ObstacleForbids ==
    ASSUME TypeOK, NEW n \in 1..Len(Questions), Asks(Questions[n])
    PROVE  Forbidden \/ Unrunnable
<1>1. CASE inputs = {}
  BY <1>1 DEF Unrunnable
<1>2. CASE inputs # {}
  <2>1. Questions[n] \in {"unusable inputs", "version", "unreadable generator",
                          "unreadable solver", "determinism", "runtime", "no generator",
                          "no solver", "not offline"}
    <3>1. Questions = WithInputs /\ Len(WithInputs) = 9
      BY <1>2 DEF Questions, WithInputs
    <3>2. n \in 1..9
      BY <3>1
    <3>3. \/ n = 1 \/ n = 2 \/ n = 3 \/ n = 4 \/ n = 5 \/ n = 6 \/ n = 7 \/ n = 8 \/ n = 9
      BY <3>2
    <3>4. /\ WithInputs[1] = "unusable inputs" /\ WithInputs[2] = "version"
          /\ WithInputs[3] = "unreadable generator" /\ WithInputs[4] = "unreadable solver"
          /\ WithInputs[5] = "determinism" /\ WithInputs[6] = "runtime"
          /\ WithInputs[7] = "no generator" /\ WithInputs[8] = "no solver"
          /\ WithInputs[9] = "not offline"
      BY DEF WithInputs
    <3> QED BY <3>1, <3>3, <3>4, Zenon
  <2>2. Asks("unusable inputs") => Unrunnable
    BY DEF Asks, Unrunnable
  <2>3. Asks("version") => Unrunnable
    BY DEF Asks, Unrunnable
  <2>4. Asks("unreadable generator") => Unrunnable
    BY DEF Asks, Unrunnable, Resolved, Modules
  <2>5. Asks("unreadable solver") => Unrunnable
    BY DEF Asks, Unrunnable, Resolved, Modules
  <2>6. Asks("determinism") => Forbidden
    BY DEF Asks, Forbidden
  <2>7. Asks("runtime") => Forbidden
    BY DEF Asks, Forbidden
  <2>8. Asks("no generator") => Unrunnable
    BY <1>2 DEF Asks, Lacks, Unrunnable, Modules
  <2>9. Asks("no solver") => Unrunnable
    BY <1>2 DEF Asks, Lacks, Unrunnable, Modules
  <2>10. Asks("not offline") => Forbidden
    BY DEF Asks, Forbidden
  <2> QED BY <2>1, <2>2, <2>3, <2>4, <2>5, <2>6, <2>7, <2>8, <2>9, <2>10
<1> QED BY <1>1, <1>2

(***************************************************************************)
(* Each step keeps the invariant                                           *)
(***************************************************************************)
\* What a record reads of the bundle and the inputs never changes.
LEMMA SameQuestion ==
    ASSUME UNCHANGED <<bundle, inputs>>
    PROVE  MayRun' <=> MayRun
BY DEF MayRun, Forbidden, Unrunnable, Resolved

LEMMA ConcludeType ==
    ASSUME NEW status \in Statuses, NEW reason \in Reasons, NEW root \in SUBSET Outputs,
           NEW cross \in SUBSET BOOLEAN, NEW count \in SUBSET {2},
           Conclude(status, reason, root, cross, count)
    PROVE  record' \in SUBSET Records /\ pc' = "done"
BY DEF Conclude, Records

LEMMA ConcludeFields ==
    ASSUME NEW status, NEW reason, NEW root, NEW cross, NEW count,
           Conclude(status, reason, root, cross, count)
    PROVE  \A r \in record' : /\ r.status = status /\ r.reason = reason
                             /\ r.root = root /\ r.cross_engine = cross /\ r.runs = count
<1>1. TAKE r \in record'
<1>2. r = [status |-> status, reason |-> reason, root |-> root, cross_engine |-> cross,
           runs |-> count]
  BY Zenon DEF Conclude
<1> QED BY <1>2

\* The state after a stage that failed outright before the solver: nothing is recorded
\* but that it failed, which is right unless the determinism stage was through.
LEMMA FailedEarly ==
    ASSUME MayRun', ~Deterministic', runs' # <<>>, StageFailed("determinism stage")
    PROVE  VerdictOfSection25' /\ SummaryTellsHowFar' /\ record' \in SUBSET Records /\ pc' = "done"
<1>1. Conclude("failed", "determinism stage", {}, {}, {})
  BY DEF StageFailed
<1>2. record' \in SUBSET Records /\ pc' = "done"
  BY <1>1, ConcludeType DEF Statuses, Reasons
<1>3. \A r \in record' : r.status = "failed" /\ r.root = {} /\ r.cross_engine = {} /\ r.runs = {}
  <2>1. TAKE r \in record'
  <2>2. r = [status |-> "failed", reason |-> "determinism stage", root |-> {},
             cross_engine |-> {}, runs |-> {}]
    BY <1>1, Zenon DEF Conclude
  <2> QED BY <2>2
<1>4. VerdictOfSection25'
  BY <1>3 DEF VerdictOfSection25, MayRun
<1>5. SummaryTellsHowFar'
  BY <1>3 DEF SummaryTellsHowFar
<1> QED BY <1>2, <1>4, <1>5

LEMMA PrepareKeeps == GInv /\ Prepare => GInv'
<1> SUFFICES ASSUME GInv, Prepare PROVE GInv'
  OBVIOUS
<1> USE DEF GInv
<1>1. /\ UNCHANGED <<bundle, inputs, runs, second, answer>> /\ runs = <<>> /\ second = {}
      /\ answer = {} /\ record = {}
  BY DEF Prepare, Stages, Untouched
<1>2. CASE Starts /\ pc' = "generate" /\ UNCHANGED record
  <2>1. MayRun'
    BY <1>1, <1>2, StartsWhenAllowed, SameQuestion
  <2>2. TypeOK'
    BY <1>1, <1>2 DEF TypeOK
  <2>3. Stages'
    BY <1>1, <1>2, <2>1 DEF Stages, Untouched
  <2> QED BY <2>2, <2>3
<1>3. ASSUME NEW n \in 1..Len(Questions), Is(n), Conclude("unverified", Questions[n], {}, {}, {})
      PROVE  GInv'
  <2>1. (Forbidden \/ Unrunnable)'
    BY <1>1, <1>3, ObstacleForbids, SameQuestion DEF Is, MayRun
  <2>2. Questions[n] \in Reasons
    <3>1. CASE inputs = {}
      <4>1. n \in 1..5 /\ Questions[n] = WithoutInputs[n]
        BY <3>1 DEF Questions, WithoutInputs
      <4> QED BY <4>1 DEF Reasons, Obstacles
    <3>2. CASE inputs # {}
      <4>1. n \in 1..9 /\ Questions[n] = WithInputs[n]
        BY <3>2 DEF Questions, WithInputs
      <4> QED BY <4>1 DEF Reasons, Obstacles
    <3> QED BY <3>1, <3>2
  <2>3. record' \in SUBSET Records /\ pc' = "done"
    BY <1>3, <2>2, ConcludeType DEF Statuses
  <2>4. \A r \in record' :
           r.status = "unverified" /\ r.root = {} /\ r.cross_engine = {} /\ r.runs = {}
    BY <1>3, ConcludeFields
  <2>5. VerdictOfSection25'
    BY <1>1, <2>1, <2>4 DEF VerdictOfSection25
  <2>6. SummaryTellsHowFar'
    BY <1>1, <2>4 DEF SummaryTellsHowFar
  <2>7. TypeOK'
    BY <1>1, <2>3 DEF TypeOK
  <2> QED BY <2>3, <2>5, <2>6, <2>7 DEF Stages
<1> QED BY <1>2, <1>3 DEF Prepare

LEMMA RunGeneratorKeeps == GInv /\ RunGenerator => GInv'
<1> SUFFICES ASSUME GInv, RunGenerator PROVE GInv'
  OBVIOUS
<1> USE DEF GInv
<1>1. PICK output \in Outputs \cup {Failed} :
        /\ runs' = Append(runs, output)
        /\ CASE output = Failed -> StageFailed("determinism stage")
             [] output # Failed /\ runs = <<>> -> UNCHANGED <<pc, record>>
             [] output # Failed /\ runs # <<>> /\ output = runs[1] ->
                    pc' = "cross" /\ UNCHANGED record
             [] output # Failed /\ runs # <<>> /\ output # runs[1] ->
                    StageFailed("determinism stage")
  BY DEF RunGenerator
<1>2. /\ pc = "generate" /\ UNCHANGED <<bundle, inputs, second, answer>>
      /\ second = {} /\ answer = {} /\ record = {}
      /\ runs # <<>> => Len(runs) = 1 /\ runs[1] # Failed
  BY DEF RunGenerator, Stages, Untouched
<1>3. MayRun'
  BY <1>2, SameQuestion DEF Stages
<1>4. /\ runs' \in Seq(Outputs \cup {Failed}) /\ runs' # <<>>
      /\ Len(runs') = Len(runs) + 1 /\ Len(runs') <= 2
      /\ runs = <<>> => runs'[1] = output
      /\ runs # <<>> => runs'[1] = runs[1] /\ runs'[2] = output
  <2>1. runs \in Seq(Outputs \cup {Failed}) /\ runs' = Append(runs, output)
    BY <1>1 DEF TypeOK
  <2>2. /\ runs' \in Seq(Outputs \cup {Failed}) /\ runs' # <<>> /\ Len(runs') = Len(runs) + 1
        /\ \A i \in 1..Len(runs) : runs'[i] = runs[i]
        /\ runs'[Len(runs) + 1] = output
    BY <2>1, AppendProperties
  <2>3. CASE runs = <<>>
    <3>1. Len(runs) = 0
      BY <2>3
    <3> QED BY <2>2, <2>3, <3>1
  <2>4. CASE runs # <<>>
    <3>1. Len(runs) = 1
      BY <1>2, <2>4
    <3>2. runs'[1] = runs[1] /\ runs'[2] = output /\ Len(runs') <= 2
      BY <2>2, <3>1
    <3> QED BY <2>2, <2>4, <3>2, Zenon
  <2> QED BY <2>3, <2>4
<1>5. ~Deterministic'
  BY <1>2 DEF Deterministic
<1>6. CASE StageFailed("determinism stage")
  BY <1>2, <1>3, <1>4, <1>5, <1>6, FailedEarly DEF Stages, TypeOK
<1>7. CASE output # Failed /\ runs = <<>> /\ UNCHANGED <<pc, record>>
  BY <1>2, <1>3, <1>4, <1>7 DEF Stages, TypeOK, Untouched
<1>8. CASE output # Failed /\ runs # <<>> /\ output = runs[1] /\ pc' = "cross" /\ UNCHANGED record
  BY <1>2, <1>3, <1>4, <1>8 DEF Stages, TypeOK, Untouched
<1> QED BY <1>1, <1>6, <1>7, <1>8

LEMMA CrossCheckKeeps == GInv /\ CrossCheck => GInv'
<1> SUFFICES ASSUME GInv, CrossCheck PROVE GInv'
  OBVIOUS
<1> USE DEF GInv
<1>1. PICK outcome \in Outputs \cup {Failed, Unsupported} :
        /\ second' = {outcome}
        /\ IF outcome \in {runs[1], Unsupported} /\ Declared
           THEN pc' = "solve" /\ UNCHANGED record
           ELSE StageFailed("determinism stage")
  BY DEF CrossCheck
<1>2. /\ pc = "cross" /\ UNCHANGED <<bundle, inputs, runs, answer>>
      /\ answer = {} /\ record = {} /\ Len(runs) = 2 /\ runs[1] = runs[2] /\ runs[1] # Failed
  BY DEF CrossCheck, Stages, Untouched
<1>3. MayRun' /\ runs' # <<>>
  BY <1>2, SameQuestion DEF Stages
<1>4. second' \in SUBSET (Outputs \cup {Failed, Unsupported})
  BY <1>1
<1>5. CASE outcome \in {runs[1], Unsupported} /\ Declared
  <2>1. pc' = "solve" /\ record' = {}
    BY <1>1, <1>2, <1>5
  <2>2. Deterministic'
    BY <1>1, <1>2, <1>5 DEF Deterministic, Declared
  <2> QED BY <1>2, <1>3, <1>4, <2>1, <2>2 DEF Stages, TypeOK
<1>6. CASE ~(outcome \in {runs[1], Unsupported} /\ Declared)
  <2>1. ~Deterministic'
    BY <1>1, <1>2, <1>6 DEF Deterministic, Declared
  <2>2. StageFailed("determinism stage")
    BY <1>1, <1>6
  <2>3. VerdictOfSection25' /\ SummaryTellsHowFar' /\ record' \in SUBSET Records /\ pc' = "done"
    BY <1>3, <2>1, <2>2, FailedEarly
  <2> QED BY <1>2, <1>4, <2>3 DEF Stages, TypeOK
<1> QED BY <1>5, <1>6

LEMMA SolveKeeps == GInv /\ Solve => GInv'
<1> SUFFICES ASSUME GInv, Solve PROVE GInv'
  OBVIOUS
<1> USE DEF GInv
<1>1. PICK outcome \in Flags \cup {Failed} :
        /\ answer' = {outcome}
        /\ CASE outcome = Failed ->
                    Conclude("failed", "solver stage", {runs[1]}, {Crossed}, {2})
             [] outcome = ExpectedFlag ->
                    Conclude("passed", "recovered", {runs[1]}, {Crossed}, {2})
             [] outcome \notin {Failed, ExpectedFlag} ->
                    Conclude("failed", "other flag", {runs[1]}, {Crossed}, {2})
  BY DEF Solve
<1>2. /\ pc = "solve" /\ UNCHANGED <<bundle, inputs, runs, second>>
      /\ Deterministic /\ MayRun
  BY DEF Solve, Stages
<1>3. MayRun' /\ Deterministic' /\ runs' # <<>>
  BY <1>2, SameQuestion DEF Deterministic, Declared
<1>4. Crossed = (runs[1] \in second) /\ Crossed \in BOOLEAN /\ runs[1] \in Outputs
  <2>1. runs[1] \in Outputs
    BY <1>2 DEF Deterministic, TypeOK
  <2>2. Crossed <=> runs[1] \in second
    BY <1>2, <2>1, GateAssumption DEF Crossed, Deterministic
  <2> QED BY <2>1, <2>2 DEF Crossed
<1>5. PICK status \in Statuses, reason \in Reasons :
        /\ Conclude(status, reason, {runs[1]}, {Crossed}, {2})
        /\ status = IF outcome = ExpectedFlag THEN "passed" ELSE "failed"
  <2>1. CASE outcome = Failed
    BY <1>1, <2>1, GateAssumption DEF Statuses, Reasons
  <2>2. CASE outcome = ExpectedFlag
    BY <1>1, <2>2, GateAssumption DEF Statuses, Reasons
  <2>3. CASE outcome \notin {Failed, ExpectedFlag}
    BY <1>1, <2>3 DEF Statuses, Reasons
  <2> QED BY <2>1, <2>2, <2>3
<1>6. record' \in SUBSET Records /\ pc' = "done"
  BY <1>4, <1>5, ConcludeType
<1>7. \A r \in record' :
         r.status = status /\ r.root = {runs[1]} /\ r.cross_engine = {Crossed} /\ r.runs = {2}
  BY <1>5, ConcludeFields
<1>8. VerdictOfSection25'
  <2>1. (answer' = {ExpectedFlag}) <=> (outcome = ExpectedFlag)
    BY <1>1
  <2> QED BY <1>3, <1>5, <1>7, <2>1 DEF VerdictOfSection25, MayRun
<1>9. SummaryTellsHowFar'
  BY <1>2, <1>3, <1>4, <1>7 DEF SummaryTellsHowFar
<1>10. TypeOK'
  BY <1>1, <1>2, <1>6 DEF TypeOK
<1> QED BY <1>6, <1>8, <1>9, <1>10 DEF Stages

(***************************************************************************)
(* Theorems                                                                *)
(***************************************************************************)
\* The stages of the gate establish what the next one relies on.
THEOREM GateInvariant == Spec => []GInv
<1>1. Init => GInv
  BY DEF Init, GInv, TypeOK, Stages, Untouched
<1>2. GInv /\ [Next]_vars => GInv'
  <2> SUFFICES ASSUME GInv, [Next]_vars PROVE GInv'
    OBVIOUS
  <2>1. CASE Prepare
    BY <2>1, PrepareKeeps
  <2>2. CASE RunGenerator
    BY <2>2, RunGeneratorKeeps
  <2>3. CASE CrossCheck
    BY <2>3, CrossCheckKeeps
  <2>4. CASE Solve
    BY <2>4, SolveKeeps
  <2>5. CASE UNCHANGED vars
    BY <2>5 DEF GInv, TypeOK, Stages, Untouched, vars, MayRun, Forbidden, Unrunnable, Resolved,
                Deterministic, Declared, VerdictOfSection25, SummaryTellsHowFar
  <2> QED BY <2>1, <2>2, <2>3, <2>4, <2>5 DEF Next
<1> QED BY <1>1, <1>2, PTL DEF Spec

\* A record there is was concluded, so the verdict is right in every state.
LEMMA GInvImplies == GInv => VerdictOfSection25 /\ SummaryTellsHowFar
<1> SUFFICES ASSUME GInv PROVE VerdictOfSection25 /\ SummaryTellsHowFar
  OBVIOUS
<1>1. CASE pc = "done"
  BY <1>1 DEF GInv, Stages
<1>2. CASE pc # "done"
  BY <1>2 DEF GInv, Stages, TypeOK, Untouched, VerdictOfSection25, SummaryTellsHowFar
<1> QED BY <1>1, <1>2

\* "No gate, no pass" (crates/ctf-tui/README.md): gate_record and offline_gate give the
\* verdict of spec/SPEC.md 25.6, whatever the challenge author's modules do.
THEOREM GateVerdict == Spec => []VerdictOfSection25
BY GateInvariant, GInvImplies, PTL

\* The determinism fields of the record are null exactly when that stage did not complete.
THEOREM GateSummary == Spec => []SummaryTellsHowFar
BY GateInvariant, GInvImplies, PTL

\* The gate's variables keep their types.
THEOREM GateTypeCorrect == Spec => []TypeOK
<1>1. GInv => TypeOK
  BY DEF GInv
<1> QED BY <1>1, GateInvariant, PTL

(***************************************************************************)
(* The front ends                                                          *)
(*                                                                         *)
(* Their invariant adds to the one of the gate what the commands checked   *)
(* before it began: a gate that ran, or left a record, was not turned      *)
(* away, and it ran exactly when section 25.6 allows.                      *)
(***************************************************************************)
FrontTypes ==
    /\ front \in {"console", "verify", "run", "document"}
    /\ copy \in {"intact", "mismatch", "unparsable"}
    /\ shelf \in [Modules -> ShelfTypes]
    /\ said \in SUBSET Says

Given ==
    /\ front \in {"run", "document"} => inputs # {}
    /\ \A i \in inputs : i.files = Finds(front, shelf)

Busy == pc \notin {"prepare", "done"} \/ runs # <<>> \/ record # {}

Admitted ==
    /\ front = "verify" => copy = "intact" /\ inputs # {}
    /\ front = "run" => copy # "unparsable"

RanAsAllowed ==
    pc # "prepare" /\ front \in {"verify", "run"} /\ copy = "intact" /\ inputs # {} =>
        ((pc = "generate" \/ runs # <<>>) <=> MayRun)

Alone == \A r, q \in record : r = q

FrontInv ==
    /\ GInv /\ FrontTypes /\ Given
    /\ Busy => Admitted
    /\ RanAsAllowed /\ Alone
    /\ said # {} => pc = "done"
    /\ ExitTellsTheVerdict

(***************************************************************************)
(* The command line's questions                                            *)
(***************************************************************************)
LEMMA CliQuestionList ==
    /\ Len(CliQuestions) = 10
    /\ CliQuestions[1] = "version" /\ CliQuestions[2] = "unreadable generator"
    /\ CliQuestions[3] = "missing generator" /\ CliQuestions[4] = "unreadable solver"
    /\ CliQuestions[5] = "missing solver" /\ CliQuestions[6] = "determinism"
    /\ CliQuestions[7] = "runtime" /\ CliQuestions[8] = "no generator"
    /\ CliQuestions[9] = "no solver" /\ CliQuestions[10] = "not offline"
BY DEF CliQuestions

\* No question stands in the way: the gate may run.
LEMMA CliStartsWhenAllowed ==
    ASSUME TypeOK, inputs # {}, \A i \in inputs : i.usable,
           \A n \in 1..Len(CliQuestions) : ~CliAsks(CliQuestions[n])
    PROVE  MayRun
<1>1. \A n \in 1..10 : ~CliAsks(CliQuestions[n])
  BY CliQuestionList
<1>2. /\ 1 \in 1..10 /\ 6 \in 1..10 /\ 7 \in 1..10 /\ 8 \in 1..10 /\ 9 \in 1..10
      /\ 10 \in 1..10
  OBVIOUS
<1>3. /\ ~CliAsks("version") /\ ~CliAsks("determinism") /\ ~CliAsks("runtime")
      /\ ~CliAsks("no generator") /\ ~CliAsks("no solver") /\ ~CliAsks("not offline")
  BY <1>1, <1>2, CliQuestionList, Zenon
<1>4. /\ ~Asks("version") /\ ~Asks("determinism") /\ ~Asks("runtime")
      /\ ~Asks("no generator") /\ ~Asks("no solver") /\ ~Asks("not offline")
  BY <1>3 DEF CliAsks
<1>5. bundle.version # "other" /\ bundle.determinism \in {"absent", "strict"}
  BY <1>4 DEF Asks
<1>6. ~bundle.runtime /\ bundle.offline
  BY <1>4 DEF Asks
<1>7. Resolved("generator") /\ Resolved("solver")
  BY <1>4 DEF Asks, Lacks
<1>8. \A m \in Modules : Resolved(m) /\ bundle.module[m] # "undeclared"
  BY <1>7 DEF Modules, Resolved
<1> QED BY <1>5, <1>6, <1>8 DEF MayRun, Forbidden, Unrunnable

\* Every question that is answered is a reason not to run.
LEMMA CliObstacleForbids ==
    ASSUME TypeOK, inputs # {}, NEW n \in 1..Len(CliQuestions), CliAsks(CliQuestions[n])
    PROVE  ~MayRun /\ CliQuestions[n] \in Reasons
<1>1. \/ n = 1 \/ n = 2 \/ n = 3 \/ n = 4 \/ n = 5 \/ n = 6 \/ n = 7 \/ n = 8 \/ n = 9 \/ n = 10
  <2>1. n \in 1..10
    BY CliQuestionList
  <2> QED BY <2>1
<1>2. CliQuestions[n] \in {"version", "unreadable generator", "missing generator",
                           "unreadable solver", "missing solver", "determinism", "runtime",
                           "no generator", "no solver", "not offline"}
  BY <1>1, CliQuestionList, Zenon
<1>3. /\ CliAsks("missing generator") => Unrunnable
      /\ CliAsks("missing solver") => Unrunnable
  BY DEF CliAsks, Missing, Unrunnable, Resolved, Modules
<1>4. /\ CliAsks("version") => Unrunnable
      /\ CliAsks("unreadable generator") => Unrunnable
      /\ CliAsks("unreadable solver") => Unrunnable
  BY DEF CliAsks, Asks, Unrunnable, Resolved, Modules
<1>5. /\ CliAsks("determinism") => Forbidden
      /\ CliAsks("runtime") => Forbidden
      /\ CliAsks("not offline") => Forbidden
  BY DEF CliAsks, Asks, Forbidden
<1>6. /\ CliAsks("no generator") => Unrunnable
      /\ CliAsks("no solver") => Unrunnable
  BY DEF CliAsks, Asks, Lacks, Unrunnable, Modules
<1>7. ~MayRun
  BY <1>2, <1>3, <1>4, <1>5, <1>6 DEF MayRun
<1>8. /\ WithInputs[2] = "version" /\ WithInputs[3] = "unreadable generator"
      /\ WithInputs[4] = "unreadable solver" /\ WithInputs[5] = "determinism"
      /\ WithInputs[6] = "runtime" /\ WithInputs[7] = "no generator"
      /\ WithInputs[8] = "no solver" /\ WithInputs[9] = "not offline"
  BY DEF WithInputs
<1>9. \A k \in 1..9 : WithInputs[k] \in Reasons
  BY DEF Reasons, Obstacles
<1>12. /\ 2 \in 1..9 /\ 3 \in 1..9 /\ 4 \in 1..9 /\ 5 \in 1..9 /\ 6 \in 1..9 /\ 7 \in 1..9
       /\ 8 \in 1..9 /\ 9 \in 1..9
  OBVIOUS
<1>10. "missing generator" \in Reasons /\ "missing solver" \in Reasons
  BY DEF Reasons
<1>11. CliQuestions[n] \in Reasons
  BY <1>2, <1>8, <1>9, <1>10, <1>12, Zenon
<1> QED BY <1>7, <1>11

(***************************************************************************)
(* Each step keeps the invariant                                           *)
(***************************************************************************)
\* A gate that is not run: nothing has been recorded, or "unverified" has.
LEMMA NotRun ==
    ASSUME GInv, pc = "prepare", UNCHANGED <<bundle, inputs, runs, second, answer>>,
           ~MayRun, NEW reason \in Reasons, Conclude("unverified", reason, {}, {}, {})
    PROVE  GInv' /\ Alone' /\ pc' = "done" /\ runs' = <<>>
<1>1. runs = <<>> /\ second = {} /\ answer = {} /\ record = {}
  BY DEF GInv, Stages, Untouched
<1>2. record' \in SUBSET Records /\ pc' = "done"
  BY ConcludeType DEF Statuses
<1>3. \A r \in record' :
         r.status = "unverified" /\ r.root = {} /\ r.cross_engine = {} /\ r.runs = {}
  BY ConcludeFields
<1>4. (Forbidden \/ Unrunnable)'
  BY SameQuestion DEF MayRun
<1>5. VerdictOfSection25' /\ SummaryTellsHowFar'
  BY <1>1, <1>3, <1>4 DEF VerdictOfSection25, SummaryTellsHowFar
<1>6. TypeOK'
  BY <1>1, <1>2 DEF GInv, TypeOK
<1>7. Alone'
  BY Zenon DEF Alone, Conclude
<1> QED BY <1>1, <1>2, <1>5, <1>6, <1>7 DEF GInv, Stages

\* The end of a command that has nothing to record.
LEMMA StopKeeps ==
    ASSUME GInv, pc = "prepare", UNCHANGED <<bundle, inputs, runs, second, answer>>, Stop
    PROVE  GInv' /\ Alone' /\ pc' = "done" /\ runs' = <<>> /\ record' = {}
<1>1. runs = <<>> /\ second = {} /\ answer = {} /\ record = {} /\ record' = {} /\ pc' = "done"
  BY DEF GInv, Stages, Untouched, Stop
<1>2. TypeOK'
  BY <1>1 DEF GInv, TypeOK
<1>3. VerdictOfSection25' /\ SummaryTellsHowFar' /\ Alone'
  BY <1>1 DEF VerdictOfSection25, SummaryTellsHowFar, Alone
<1> QED BY <1>1, <1>2, <1>3 DEF GInv, Stages

\* A gate that starts.
LEMMA StartKeeps ==
    ASSUME GInv, pc = "prepare", UNCHANGED <<bundle, inputs, runs, second, answer, record>>,
           MayRun, pc' = "generate"
    PROVE  GInv' /\ Alone' /\ runs' = <<>>
<1>1. runs = <<>> /\ second = {} /\ answer = {} /\ record = {}
  BY DEF GInv, Stages, Untouched
<1>2. MayRun'
  BY SameQuestion
<1>3. TypeOK'
  BY <1>1 DEF GInv, TypeOK
<1>4. Stages'
  BY <1>1, <1>2 DEF Stages, Untouched
<1> QED BY <1>1, <1>3, <1>4 DEF GInv, Alone

\* What a step leaves that does not touch the front end.
LEMMA FrontUnchanged ==
    ASSUME FrontInv, UNCHANGED <<bundle, inputs>>, UNCHANGED frontVars
    PROVE  /\ FrontTypes' /\ Given' /\ (Admitted' <=> Admitted) /\ (MayRun' <=> MayRun)
           /\ (said' # {} => said # {})
<1>1. FrontTypes'
  BY DEF FrontInv, FrontTypes, frontVars
<1>2. Given'
  BY DEF FrontInv, Given, Finds, frontVars
<1>3. Admitted' <=> Admitted
  BY DEF Admitted, frontVars
<1> QED BY <1>1, <1>2, <1>3, SameQuestion DEF frontVars

LEMMA PrepareConsoleKeeps == FrontInv /\ PrepareConsole => FrontInv'
<1> SUFFICES ASSUME FrontInv, PrepareConsole PROVE FrontInv'
  OBVIOUS
<1>1. /\ front = "console" /\ Prepare /\ UNCHANGED frontVars /\ UNCHANGED <<bundle, inputs>>
      /\ pc = "prepare"
  BY DEF PrepareConsole, Prepare
<1>2. GInv'
  BY <1>1, PrepareKeeps DEF FrontInv
<1>3. said' = {} /\ front' = "console"
  BY <1>1 DEF FrontInv, frontVars
<1>4. Alone'
  <2>1. record = {}
    BY <1>1 DEF FrontInv, GInv, Stages, Untouched
  <2> QED BY <1>1, <2>1, Zenon DEF Prepare, Conclude, Alone
<1>5. ExitTellsTheVerdict' /\ RanAsAllowed' /\ Admitted'
  BY <1>3 DEF ExitTellsTheVerdict, RanAsAllowed, Admitted
<1> QED BY <1>1, <1>2, <1>3, <1>4, <1>5, FrontUnchanged DEF FrontInv

LEMMA PrepareCliKeeps == FrontInv /\ PrepareCli => FrontInv'
<1> SUFFICES ASSUME FrontInv, PrepareCli PROVE FrontInv'
  OBVIOUS
<1>1. /\ pc = "prepare" /\ front # "console" /\ UNCHANGED frontVars
      /\ UNCHANGED <<bundle, inputs, runs, second, answer>>
  BY DEF PrepareCli, frontVars
<1>2. GInv /\ TypeOK /\ said' = {}
  BY <1>1 DEF FrontInv, GInv, frontVars
<1>3. ExitTellsTheVerdict'
  BY <1>2 DEF ExitTellsTheVerdict
<1>4. front \in {"verify", "run", "document"}
  BY <1>1 DEF FrontInv, FrontTypes
<1>5. CASE Stop /\ (Turned \/ front = "document")
  <2>1. GInv' /\ Alone' /\ pc' = "done" /\ runs' = <<>> /\ record' = {}
    BY <1>1, <1>2, <1>5, StopKeeps
  <2>2. ~Busy'
    BY <2>1 DEF Busy
  <2>3. RanAsAllowed'
    <3>1. CASE front = "run"
      <4>1. copy = "unparsable" \/ \E i \in inputs : ~i.usable
        BY <1>5, <3>1 DEF Turned
      <4>2. copy = "intact" => ~MayRun
        BY <4>1 DEF MayRun, Unrunnable
      <4> QED BY <1>1, <2>1, <4>2, FrontUnchanged DEF RanAsAllowed, frontVars
    <3>2. CASE front = "verify"
      <4>1. copy # "intact" \/ inputs = {}
        BY <1>5, <3>2 DEF Turned
      <4> QED BY <1>1, <4>1 DEF RanAsAllowed, frontVars
    <3>3. CASE front = "document"
      BY <1>1, <3>3 DEF RanAsAllowed, frontVars
    <3> QED BY <1>4, <3>1, <3>2, <3>3
  <2> QED BY <1>1, <1>2, <1>3, <2>1, <2>2, <2>3, FrontUnchanged DEF FrontInv
<1>6. ASSUME ~Turned PROVE inputs # {} /\ Admitted /\ Admitted'
  <2>1. CASE front = "verify"
    BY <1>1, <1>6, <2>1 DEF Turned, Admitted, frontVars
  <2>2. CASE front = "run"
    BY <1>1, <1>6, <2>2 DEF Turned, Admitted, frontVars, FrontInv, Given
  <2>3. CASE front = "document"
    BY <1>1, <1>6, <2>3 DEF Turned, Admitted, frontVars, FrontInv, Given
  <2> QED BY <1>4, <2>1, <2>2, <2>3
<1>7. ASSUME ~Turned, ~MayRun, NEW reason \in Reasons, Conclude("unverified", reason, {}, {}, {})
      PROVE  FrontInv'
  <2>1. GInv' /\ Alone' /\ pc' = "done" /\ runs' = <<>>
    BY <1>1, <1>2, <1>7, NotRun
  <2>2. RanAsAllowed'
    BY <1>1, <1>7, <2>1, FrontUnchanged DEF RanAsAllowed
  <2> QED BY <1>1, <1>2, <1>3, <1>6, <1>7, <2>1, <2>2, FrontUnchanged DEF FrontInv
<1>8. CASE /\ ~Turned /\ \E i \in inputs : ~i.usable
           /\ Conclude("unverified", "unusable inputs", {}, {}, {})
  <2>1. ~MayRun
    BY <1>8 DEF MayRun, Unrunnable
  <2>2. "unusable inputs" \in Reasons
    <3>1. WithInputs[1] = "unusable inputs" /\ 1 \in 1..9
      BY DEF WithInputs
    <3> QED BY <3>1, Zenon DEF Reasons, Obstacles
  <2> QED BY <1>7, <1>8, <2>1, <2>2
<1>9. CASE ~Turned /\ (\A i \in inputs : i.usable) /\ AskDeclarations
  <2>1. CASE /\ \A n \in 1..Len(CliQuestions) : ~CliAsks(CliQuestions[n])
             /\ pc' = "generate" /\ UNCHANGED record
    <3>1. MayRun
      BY <1>2, <1>6, <1>9, <2>1, CliStartsWhenAllowed
    <3>2. GInv' /\ Alone' /\ runs' = <<>>
      BY <1>1, <1>2, <2>1, <3>1, StartKeeps
    <3>3. RanAsAllowed'
      BY <1>1, <2>1, <3>1, FrontUnchanged DEF RanAsAllowed
    <3> QED BY <1>1, <1>2, <1>3, <1>6, <1>9, <2>1, <3>2, <3>3, FrontUnchanged DEF FrontInv
  <2>2. ASSUME NEW n \in 1..Len(CliQuestions), CliIs(n),
               IF front = "document" /\ CliQuestions[n] \in Refused THEN Stop
               ELSE Conclude("unverified", CliQuestions[n], {}, {}, {})
        PROVE  FrontInv'
    <3>1. ~MayRun /\ CliQuestions[n] \in Reasons
      BY <1>2, <1>6, <1>9, <2>2, CliObstacleForbids DEF CliIs
    <3> QED BY <1>5, <1>7, <1>9, <2>2, <3>1
  <2> QED BY <1>9, <2>1, <2>2 DEF AskDeclarations
<1>10. Turned => Stop
  BY DEF PrepareCli
<1>11. ~Turned => \/ /\ \E i \in inputs : ~i.usable
                     /\ Conclude("unverified", "unusable inputs", {}, {}, {})
                  \/ (\A i \in inputs : i.usable) /\ AskDeclarations
  BY DEF PrepareCli
<1> QED BY <1>5, <1>8, <1>9, <1>10, <1>11

\* A record is concluded alone.
LEMMA StageRecord ==
    ASSUME FrontInv, RunGenerator \/ CrossCheck \/ Solve
    PROVE  /\ pc \in {"generate", "cross", "solve"} /\ UNCHANGED <<bundle, inputs>>
           /\ runs' # <<>> /\ Alone'
<1>1. pc \in {"generate", "cross", "solve"} /\ UNCHANGED <<bundle, inputs>>
  BY DEF RunGenerator, CrossCheck, Solve
<1>2. runs' # <<>>
  <2>1. CASE RunGenerator
    <3>1. PICK output \in Outputs \cup {Failed} : runs' = Append(runs, output)
      BY <2>1 DEF RunGenerator
    <3> QED BY <3>1 DEF FrontInv, GInv, TypeOK
  <2>2. CASE CrossCheck
    <3>1. Len(runs) = 2 /\ UNCHANGED runs
      BY <2>2 DEF CrossCheck, FrontInv, GInv, Stages
    <3> QED BY <3>1
  <2>3. CASE Solve
    <3>1. Len(runs) = 2 /\ UNCHANGED runs
      BY <2>3 DEF Solve, FrontInv, GInv, Stages, Deterministic
    <3> QED BY <3>1
  <2> QED BY <2>1, <2>2, <2>3
<1>3. record = {}
  BY <1>1 DEF FrontInv, GInv, Stages, Untouched
<1>4. record' = record \/ \E r : record' = {r}
  <2>1. CASE RunGenerator
    <3>1. PICK output \in Outputs \cup {Failed} :
             CASE output = Failed -> StageFailed("determinism stage")
               [] output # Failed /\ runs = <<>> -> UNCHANGED <<pc, record>>
               [] output # Failed /\ runs # <<>> /\ output = runs[1] ->
                      pc' = "cross" /\ UNCHANGED record
               [] output # Failed /\ runs # <<>> /\ output # runs[1] ->
                      StageFailed("determinism stage")
      BY <2>1 DEF RunGenerator
    <3>2. StageFailed("determinism stage") \/ UNCHANGED record
      BY <3>1
    <3> QED BY <3>2, Zenon DEF StageFailed, Conclude
  <2>2. CASE CrossCheck
    BY <2>2, Zenon DEF CrossCheck, StageFailed, Conclude
  <2>3. CASE Solve
    <3>1. PICK outcome \in Flags \cup {Failed} :
             CASE outcome = Failed ->
                      Conclude("failed", "solver stage", {runs[1]}, {Crossed}, {2})
               [] outcome = ExpectedFlag ->
                      Conclude("passed", "recovered", {runs[1]}, {Crossed}, {2})
               [] outcome \notin {Failed, ExpectedFlag} ->
                      Conclude("failed", "other flag", {runs[1]}, {Crossed}, {2})
      BY <2>3 DEF Solve
    <3>2. \/ Conclude("failed", "solver stage", {runs[1]}, {Crossed}, {2})
          \/ Conclude("passed", "recovered", {runs[1]}, {Crossed}, {2})
          \/ Conclude("failed", "other flag", {runs[1]}, {Crossed}, {2})
      BY <3>1
    <3> QED BY <3>2, Zenon DEF Conclude
  <2> QED BY <2>1, <2>2, <2>3
<1>5. Alone'
  BY <1>3, <1>4 DEF Alone
<1> QED BY <1>1, <1>2, <1>5

LEMMA RunStageKeeps == FrontInv /\ RunStage => FrontInv'
<1> SUFFICES ASSUME FrontInv, RunStage PROVE FrontInv'
  OBVIOUS
<1>1. (RunGenerator \/ CrossCheck \/ Solve) /\ UNCHANGED frontVars
  BY DEF RunStage
<1>2. /\ pc \in {"generate", "cross", "solve"} /\ UNCHANGED <<bundle, inputs>>
      /\ runs' # <<>> /\ Alone'
  BY <1>1, StageRecord
<1>3. GInv'
  BY <1>1, RunGeneratorKeeps, CrossCheckKeeps, SolveKeeps DEF FrontInv
<1>4. MayRun /\ Admitted /\ said' = {}
  BY <1>1, <1>2 DEF FrontInv, Busy, GInv, Stages, Deterministic, frontVars
<1>5. ExitTellsTheVerdict'
  BY <1>4 DEF ExitTellsTheVerdict
<1>6. RanAsAllowed'
  BY <1>1, <1>2, <1>4, FrontUnchanged DEF RanAsAllowed
<1> QED BY <1>1, <1>2, <1>3, <1>4, <1>5, <1>6, FrontUnchanged DEF FrontInv

\* What a command tells of a record is what the record says.
LEMMA ReportTells ==
    ASSUME FrontInv, pc = "done", front \in {"verify", "run", "document"},
           IF front = "verify" THEN VerifySays ELSE RunSays
    PROVE  said' \in SUBSET Says /\
           \A s \in said' :
             /\ front = "verify" =>
                  /\ s.code = 0 <=> s.kept /\ copy = "intact" /\ \E r \in record : r.status = "passed"
                  /\ s.code = 2 <=> s.kept /\ copy = "intact" /\ \A r \in record : r.status = "unverified"
                  /\ copy # "intact" => record = {} /\ runs = <<>>
             /\ front = "run" /\ s.code = 0 =>
                  s.kept /\ copy # "unparsable" /\ \E r \in record : r.status # "failed"
             /\ s.status = "passed" => \E r \in record : r.status = "passed"
<1>1. /\ record = {} \/ \E r \in Records : record = {r}
      /\ record \in SUBSET Records
  BY DEF FrontInv, GInv, TypeOK, Alone
<1>2. \A r \in record : r.status \in Statuses
  BY <1>1 DEF Records
<1>3. CASE front = "verify"
  <2> DEFINE status == IF copy # "intact" THEN "rejected"
                       ELSE IF record = {} THEN "unverified" ELSE (CHOOSE r \in record : TRUE).status
             code == CASE status = "passed" -> 0 [] status \in {"failed", "rejected"} -> 1
                       [] status = "unverified" -> 2
  <2>1. PICK written \in BOOLEAN : Leave(status, IF written THEN code ELSE 1, written)
    BY <1>3 DEF VerifySays
  <2>2. copy # "intact" => record = {} /\ runs = <<>>
    BY <1>3 DEF FrontInv, Busy, Admitted
  <2>3. /\ status \in Statuses \cup {"rejected"}
        /\ status = "passed" <=> copy = "intact" /\ \E r \in record : r.status = "passed"
        /\ status = "unverified" <=> copy = "intact" /\ \A r \in record : r.status = "unverified"
    <3>1. CASE record = {} \/ copy # "intact"
      BY <2>2, <3>1 DEF Statuses
    <3>2. ASSUME NEW r \in Records, record = {r}, copy = "intact" PROVE <2>3!:
      <4>1. (CHOOSE q \in record : TRUE) = r
        BY <3>2
      <4>2. status = r.status
        BY <3>2, <4>1
      <4> QED BY <1>2, <3>2, <4>2
    <3> QED BY <1>1, <3>1, <3>2
  <2>4. /\ code = 0 <=> status = "passed"
        /\ code = 2 <=> status = "unverified"
        /\ code \in 0..2
    <3> HIDE DEF status
    <3>1. status \in {"passed", "failed", "unverified", "rejected"}
      BY <2>3 DEF Statuses
    <3>2. CASE status = "passed"
      BY <3>2
    <3>3. CASE status \in {"failed", "rejected"}
      BY <3>3
    <3>4. CASE status = "unverified"
      BY <3>4
    <3> QED BY <3>1, <3>2, <3>3, <3>4
  <2> HIDE DEF status, code
  <2>5. said' = {[status |-> status, code |-> IF written THEN code ELSE 1, kept |-> written]}
    BY <2>1, Zenon DEF Leave
  <2>6. said' \in SUBSET Says
    BY <2>3, <2>4, <2>5 DEF Says
  <2>7. ASSUME NEW s \in said'
        PROVE  /\ s.status = status /\ s.kept = written
               /\ s.code = IF written THEN code ELSE 1
    BY <2>5
  <2> QED BY <1>3, <2>2, <2>3, <2>4, <2>6, <2>7
<1>4. CASE front # "verify"
  <2>1. CASE record = {}
    <3>1. said' = {[status |-> "none", code |-> 1, kept |-> FALSE]}
      BY <1>4, <2>1, Zenon DEF RunSays, Leave
    <3> QED BY <1>4, <2>1, <3>1 DEF Says
  <2>2. CASE record # {}
    <3>1. PICK r \in record, asked \in IF front = "run" THEN {TRUE} ELSE BOOLEAN,
               written \in BOOLEAN :
             Leave(r.status, IF r.status = "failed" \/ (asked /\ ~written) THEN 1 ELSE 0,
                   asked /\ written)
      BY <1>4, <2>2 DEF RunSays
    <3> DEFINE code == IF r.status = "failed" \/ (asked /\ ~written) THEN 1 ELSE 0
    <3>2. said' = {[status |-> r.status, code |-> code, kept |-> asked /\ written]}
      BY <3>1, Zenon DEF Leave
    <3>8. asked \in BOOLEAN /\ (front = "run" => asked)
      <4>1. CASE front = "run"
        <5>1. asked \in {TRUE}
          BY <3>1, <4>1, Zenon
        <5> QED BY <5>1, Zenon
      <4>2. CASE front # "run"
        BY <3>1, <4>2, Zenon
      <4> QED BY <4>1, <4>2
    <3>3. code \in 0..2 /\ (asked /\ written) \in BOOLEAN
      <4>1. code = 0 \/ code = 1
        BY Zenon
      <4>2. code \in 0..2
        <5> HIDE DEF code
        <5> QED BY <4>1
      <4> QED BY <4>2, Zenon
    <3>4. code = 0 => r.status # "failed" /\ (front = "run" => asked /\ written)
      <4>1. r.status = "failed" \/ (asked /\ ~written) => code = 1
        BY Zenon
      <4>2. ~(code = 0 /\ code = 1)
        <5> HIDE DEF code
        <5> QED OBVIOUS
      <4> QED BY <3>1, <3>8, <4>1, <4>2, Zenon
    <3> HIDE DEF code
    <3>5. said' \in SUBSET Says
      BY <1>2, <3>2, <3>3 DEF Says
    <3>6. front = "run" => copy # "unparsable"
      BY <2>2 DEF FrontInv, Busy, Admitted
    <3>7. ASSUME NEW s \in said'
          PROVE  s.status = r.status /\ s.code = code /\ s.kept = (asked /\ written)
      BY <3>2
    <3> QED BY <1>4, <3>4, <3>5, <3>6, <3>7
  <2> QED BY <2>1, <2>2
<1> QED BY <1>3, <1>4

LEMMA ReportKeeps == FrontInv /\ Report => FrontInv'
<1> SUFFICES ASSUME FrontInv, Report PROVE FrontInv'
  OBVIOUS
<1>1. /\ pc = "done" /\ front # "console"
      /\ IF front = "verify" THEN VerifySays ELSE RunSays
      /\ UNCHANGED vars /\ UNCHANGED <<front, copy, shelf>>
  BY DEF Report
<1>2. front \in {"verify", "run", "document"}
  BY <1>1 DEF FrontInv, FrontTypes
<1>3. GInv' /\ pc' = "done" /\ (MayRun' <=> MayRun)
  BY <1>1 DEF FrontInv, GInv, TypeOK, Stages, Untouched, vars, MayRun, Forbidden, Unrunnable, Resolved,
              Deterministic, Declared, VerdictOfSection25, SummaryTellsHowFar
<1>4. FrontTypes'
  BY <1>1, <1>2, ReportTells DEF FrontInv, FrontTypes
<1>5. Given' /\ (Busy' <=> Busy) /\ (Admitted' <=> Admitted) /\ Alone'
  BY <1>1 DEF FrontInv, Given, Finds, Busy, Admitted, Alone, vars
<1>6. RanAsAllowed'
  BY <1>1, <1>3 DEF FrontInv, RanAsAllowed, vars
<1>7. ExitTellsTheVerdict'
  <2>1. \A r \in record : r.status = "passed" => Deterministic /\ answer = {ExpectedFlag}
    BY <1>1 DEF FrontInv, GInv, Stages, VerdictOfSection25
  <2>2. (Deterministic' <=> Deterministic) /\ UNCHANGED <<answer, record, runs, front, copy>>
    BY <1>1 DEF Deterministic, Declared, vars
  <2> QED BY <1>1, <1>2, <2>1, <2>2, ReportTells DEF ExitTellsTheVerdict
<1> QED BY <1>3, <1>4, <1>5, <1>6, <1>7 DEF FrontInv

(***************************************************************************)
(* The theorems                                                            *)
(***************************************************************************)
\* What each front end established before it began a gate holds in every state.
THEOREM FrontInvariant == FrontSpec => []FrontInv
<1>1. FrontInit => FrontInv
  <2> SUFFICES ASSUME FrontInit PROVE FrontInv
    OBVIOUS
  <2>6. /\ \/ inputs = {}
           \/ \E u \in BOOLEAN : inputs = {[usable |-> u, files |-> Finds(front, shelf)]}
        /\ front \in {"run", "document"} => inputs # {}
    BY DEF FrontInit
  <2>7. /\ bundle \in Bundles /\ pc = "prepare" /\ said = {}
        /\ runs = <<>> /\ second = {} /\ answer = {} /\ record = {}
    BY DEF FrontInit
  <2>1. inputs \in {{}} \cup {{i} : i \in Inputs}
    <3>1. Finds(front, shelf) \in SUBSET Modules
      BY DEF Finds
    <3>2. \A u \in BOOLEAN : [usable |-> u, files |-> Finds(front, shelf)] \in Inputs
      BY <3>1 DEF Inputs
    <3> QED BY <2>6, <3>2
  <2>2. GInv
    <3>1. TypeOK
      BY <2>1, <2>7 DEF TypeOK
    <3> QED BY <2>7, <3>1 DEF GInv, Stages, Untouched
  <2>3. FrontTypes
    BY ShelfAssumption DEF FrontInit, FrontTypes
  <2>4. Given
    <3>1. \A i \in inputs : i.files = Finds(front, shelf)
      BY <2>6
    <3> QED BY <2>6, <3>1 DEF Given
  <2>5. ~Busy /\ RanAsAllowed /\ Alone /\ ExitTellsTheVerdict /\ said = {}
    BY DEF FrontInit, Busy, RanAsAllowed, Alone, ExitTellsTheVerdict
  <2> QED BY <2>2, <2>3, <2>4, <2>5 DEF FrontInv
<1>2. FrontInv /\ [FrontNext]_<<vars, frontVars>> => FrontInv'
  <2> SUFFICES ASSUME FrontInv, [FrontNext]_<<vars, frontVars>> PROVE FrontInv'
    OBVIOUS
  <2>1. CASE FrontNext
    BY <2>1, PrepareConsoleKeeps, PrepareCliKeeps, RunStageKeeps, ReportKeeps DEF FrontNext
  <2>2. CASE UNCHANGED <<vars, frontVars>>
    <3>1. GInv'
      BY <2>2 DEF FrontInv, GInv, TypeOK, Stages, Untouched, vars, MayRun, Forbidden, Unrunnable,
                  Resolved, Deterministic, Declared, VerdictOfSection25, SummaryTellsHowFar
    <3>2. ExitTellsTheVerdict' /\ RanAsAllowed' /\ Alone' /\ (Busy' <=> Busy)
      BY <2>2, FrontUnchanged DEF FrontInv, ExitTellsTheVerdict, RanAsAllowed, Alone, Busy, vars,
                  frontVars, Deterministic, Declared
    <3> QED BY <2>2, <3>1, <3>2, FrontUnchanged DEF FrontInv, vars, frontVars
  <2> QED BY <2>1, <2>2
<1> QED BY <1>1, <1>2, PTL DEF FrontSpec

\* The types of the gate, of the front end and of what it leaves.
THEOREM FrontTypeCorrect == FrontSpec => []FrontTypeOK
<1>1. FrontInv => FrontTypeOK
  BY DEF FrontInv, FrontTypes, GInv, FrontTypeOK
<1> QED BY <1>1, FrontInvariant, PTL

\* "No gate, no pass" at every front end: the verdict is the one of spec/SPEC.md 25.6.
THEOREM FrontVerdict == FrontSpec => []VerdictOfSection25
<1>1. FrontInv => VerdictOfSection25
  BY GInvImplies DEF FrontInv
<1> QED BY <1>1, FrontInvariant, PTL

\* The determinism fields of every front end's record are null exactly when that stage
\* did not complete.
THEOREM FrontSummary == FrontSpec => []SummaryTellsHowFar
<1>1. FrontInv => SummaryTellsHowFar
  BY GInvImplies DEF FrontInv
<1> QED BY <1>1, FrontInvariant, PTL

\* `ctf verify` exits with 0 exactly for an intact bundle whose gate passed (S11), and no
\* command succeeds on a gate that failed.
THEOREM ExitsTell == FrontSpec => []ExitTellsTheVerdict
<1>1. FrontInv => ExitTellsTheVerdict
  BY DEF FrontInv
<1> QED BY <1>1, FrontInvariant, PTL

LEMMA NineCases ==
    \A n \in 1..9 : n = 1 \/ n = 2 \/ n = 3 \/ n = 4 \/ n = 5 \/ n = 6 \/ n = 7 \/ n = 8 \/ n = 9
OBVIOUS

\* The console's questions, put to the same bundle with the files it finds, come out as
\* the specification's conditions too.
LEMMA ConsoleAgrees ==
    ASSUME FrontInv, inputs # {}, front # "console",
           \A m \in Modules : bundle.module[m] = "named only" => shelf[m].doc = {"the bundle's"}
    PROVE  AtConsole!Starts <=> Starts
<1> DEFINE there == {[i EXCEPT !.files = Finds("console", shelf)] : i \in inputs}
<1>1. PICK i \in Inputs : inputs = {i}
  BY DEF FrontInv, GInv, TypeOK
<1>2. there = {[i EXCEPT !.files = Finds("console", shelf)]}
  BY <1>1
<1>3. there # {} /\ \A j \in there : j.usable = i.usable /\ j.files = Finds("console", shelf)
  BY <1>1, <1>2 DEF Inputs
<1>4. i.files = Finds(front, shelf)
  BY <1>1 DEF FrontInv, Given
<1>5. \A m \in Modules : bundle.module[m] = "named only" =>
          (m \in Finds("console", shelf) <=> m \in Finds(front, shelf))
  BY DEF Finds, LooksFor
<1>6. \A m \in Modules : AtConsole!Resolved(m) <=> Resolved(m)
  BY <1>1, <1>3, <1>4, <1>5 DEF AtConsole!Resolved, Resolved
<1>7. "generator" \in Modules /\ "solver" \in Modules
  BY DEF Modules
<1> HIDE DEF there
<1>8. \A m \in Modules : AtConsole!Lacks(m) <=> Lacks(m)
  BY <1>3, <1>6 DEF AtConsole!Lacks, Lacks, there
<1>9. /\ AtConsole!Asks("unusable inputs") <=> Asks("unusable inputs")
      /\ AtConsole!Asks("version") <=> Asks("version")
      /\ AtConsole!Asks("unreadable generator") <=> Asks("unreadable generator")
      /\ AtConsole!Asks("unreadable solver") <=> Asks("unreadable solver")
      /\ AtConsole!Asks("determinism") <=> Asks("determinism")
      /\ AtConsole!Asks("runtime") <=> Asks("runtime")
      /\ AtConsole!Asks("no generator") <=> Asks("no generator")
      /\ AtConsole!Asks("no solver") <=> Asks("no solver")
      /\ AtConsole!Asks("not offline") <=> Asks("not offline")
  <2>1. AtConsole!Asks("unusable inputs") <=> Asks("unusable inputs")
    BY <1>1, <1>3 DEF AtConsole!Asks, Asks, there
  <2>2. /\ AtConsole!Asks("no generator") <=> Asks("no generator")
        /\ AtConsole!Asks("no solver") <=> Asks("no solver")
    BY <1>7, <1>8 DEF AtConsole!Asks, Asks
  <2>3. /\ AtConsole!Asks("version") <=> Asks("version")
        /\ AtConsole!Asks("unreadable generator") <=> Asks("unreadable generator")
        /\ AtConsole!Asks("unreadable solver") <=> Asks("unreadable solver")
        /\ AtConsole!Asks("determinism") <=> Asks("determinism")
        /\ AtConsole!Asks("runtime") <=> Asks("runtime")
        /\ AtConsole!Asks("not offline") <=> Asks("not offline")
    BY DEF AtConsole!Asks, Asks
  <2> QED BY <2>1, <2>2, <2>3
<1>10. AtConsole!Questions = WithInputs /\ Questions = WithInputs
  BY <1>3 DEF AtConsole!Questions, Questions, AtConsole!WithInputs, AtConsole!WithoutInputs,
              WithInputs, WithoutInputs, there
<1>11. \A n \in 1..Len(WithInputs) : AtConsole!Asks(WithInputs[n]) <=> Asks(WithInputs[n])
  <2>1. TAKE n \in 1..Len(WithInputs)
  <2>2. Len(WithInputs) = 9
    BY DEF WithInputs
  <2>3. \/ n = 1 \/ n = 2 \/ n = 3 \/ n = 4 \/ n = 5 \/ n = 6 \/ n = 7 \/ n = 8 \/ n = 9
    BY <2>2, NineCases, Zenon
  <2>4. /\ WithInputs[1] = "unusable inputs" /\ WithInputs[2] = "version"
        /\ WithInputs[3] = "unreadable generator" /\ WithInputs[4] = "unreadable solver"
        /\ WithInputs[5] = "determinism" /\ WithInputs[6] = "runtime"
        /\ WithInputs[7] = "no generator" /\ WithInputs[8] = "no solver"
        /\ WithInputs[9] = "not offline"
    BY DEF WithInputs
  <2> QED BY <1>9, <2>3, <2>4, Zenon
<1> QED BY <1>10, <1>11 DEF AtConsole!Starts, Starts

\* The command line starts a gate exactly when the console would, for any bundle and any
\* document that names the modules as the bundle does.
THEOREM CommandsAgreeWithConsole == FrontSpec => []FrontEndsAgree
<1>1. FrontInv => FrontEndsAgree
  <2> SUFFICES ASSUME FrontInv, pc # "prepare", front \in {"verify", "run"}, copy = "intact",
                      inputs # {},
                      \A m \in Modules : bundle.module[m] = "named only" =>
                                             shelf[m].doc = {"the bundle's"}
               PROVE  (pc = "generate" \/ runs # <<>>) <=> AtConsole!Starts
    BY DEF FrontEndsAgree
  <2>1. (pc = "generate" \/ runs # <<>>) <=> MayRun
    BY DEF FrontInv, RanAsAllowed
  <2>2. MayRun <=> Starts
    <3>1. Starts => MayRun
      BY StartsWhenAllowed DEF FrontInv, GInv
    <3>2. ~Starts => ~MayRun
      BY ObstacleForbids DEF FrontInv, GInv, Starts, MayRun
    <3> QED BY <3>1, <3>2
  <2>3. AtConsole!Starts <=> Starts
    BY ConsoleAgrees
  <2> QED BY <2>1, <2>2, <2>3
<1> QED BY <1>1, FrontInvariant, PTL
=============================================================================
