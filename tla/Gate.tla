-------------------------------- MODULE Gate --------------------------------
(***************************************************************************)
(* The offline solvability gate as the admin console runs it: from a       *)
(* bundle's declarations and the operator's inputs to the verification     *)
(* record.  Two runs of the generator in one instance, a run on a second   *)
(* engine and a run of the solver, each of which can fail or, being a      *)
(* challenge author's module, answer anything.                             *)
(*                                                                         *)
(* An output root hashes a canonical block, so the output stands for its   *)
(* root.  generate.interface and generate.profile are one "version"; an    *)
(* authoring document that is unreadable, invalid or about another         *)
(* challenge and an event secret that is not 32 bytes of hex are all an    *)
(* "unusable" input.  An Option is a set with at most one element.         *)
(***************************************************************************)
EXTENDS Naturals, Sequences

CONSTANTS
    Names,          \* names an output may have
    Data,           \* what a block holds besides names
    Flags,          \* what a solver may answer
    ExpectedFlag,   \* derived for the reference subject
    Failed,         \* a module that does not compile, traps, or breaks the ABI
    Unsupported     \* a module the second engine cannot load

VARIABLES
    bundle,     \* what the bundle declares and carries
    inputs,     \* Option<GateInputs>, and what is at the paths they name
    pc,         \* the stage that comes next
    runs,       \* what each primary-engine run came to
    second,     \* Option: what the second engine came to
    answer,     \* Option: what the solver came to
    record      \* Option: the verification record

vars == <<bundle, inputs, pc, runs, second, answer, record>>

(***************************************************************************)
(* Data                                                                    *)
(***************************************************************************)
Modules == {"generator", "solver"}

\* Whether the manifest names a module, and whether a section with that name is
\* there and can be read back (a sealed or encrypted one cannot).
Carriage == {"undeclared", "named only", "carried", "unreadable"}

Determinism == {"absent", "strict", "flag_only", "none", "unrecognized"}

Bundles == [runtime: BOOLEAN, offline: BOOLEAN, determinism: Determinism,
            version: {"implemented", "other"}, module: [Modules -> Carriage],
            outputs: SUBSET Names]

\* files: the modules found beside the authoring document.
Inputs == [usable: BOOLEAN, files: SUBSET Modules]

Outputs == [names: SUBSET Names, data: Data]

ASSUME GateAssumption ==
    /\ ExpectedFlag \in Flags
    /\ Failed \notin Flags \cup Outputs \cup {Unsupported}
    /\ Unsupported \notin Outputs

Statuses == {"passed", "failed", "unverified"}

\* Why a gate does not start, in the order the code asks.
WithoutInputs == <<"runtime", "no generator", "no solver", "not offline", "not requested">>

WithInputs == <<"unusable inputs", "version", "unreadable generator", "unreadable solver",
                "determinism", "runtime", "no generator", "no solver", "not offline">>

Obstacles == {WithoutInputs[n] : n \in 1..5} \cup {WithInputs[n] : n \in 1..9}

\* The last two are the command line's, for a file the document names.
Reasons == Obstacles \cup {"determinism stage", "solver stage", "other flag", "recovered",
                          "missing generator", "missing solver"}

Records == [status: Statuses, reason: Reasons, root: SUBSET Outputs,
            cross_engine: SUBSET BOOLEAN, runs: SUBSET {2}]

TypeOK ==
    /\ bundle \in Bundles
    /\ inputs \in {{}} \cup {{i} : i \in Inputs}
    /\ pc \in {"prepare", "generate", "cross", "solve", "done"}
    /\ runs \in Seq(Outputs \cup {Failed}) /\ Len(runs) <= 2
    /\ second \in SUBSET (Outputs \cup {Failed, Unsupported})
    /\ answer \in SUBSET (Flags \cup {Failed})
    /\ record \in SUBSET Records

Init ==
    /\ bundle \in Bundles
    /\ inputs \in {{}} \cup {{i} : i \in Inputs}
    /\ pc = "prepare"
    /\ runs = <<>> /\ second = {} /\ answer = {} /\ record = {}

(***************************************************************************)
(* Whether the gate starts                                                 *)
(***************************************************************************)
\* bundle_module, then the file beside the document for a module that is only named.
Resolved(m) ==
    \/ bundle.module[m] = "carried"
    \/ bundle.module[m] = "named only" /\ \E i \in inputs : m \in i.files

Lacks(m) == IF inputs = {} THEN bundle.module[m] = "undeclared" ELSE ~Resolved(m)

Asks(obstacle) ==
    CASE obstacle = "not requested" -> TRUE
      [] obstacle = "unusable inputs" -> \E i \in inputs : ~i.usable
      [] obstacle = "version" -> bundle.version = "other"
      [] obstacle = "unreadable generator" -> bundle.module["generator"] = "unreadable"
      [] obstacle = "unreadable solver" -> bundle.module["solver"] = "unreadable"
      [] obstacle = "determinism" -> bundle.determinism \notin {"absent", "strict"}
      [] obstacle = "runtime" -> bundle.runtime
      [] obstacle = "no generator" -> Lacks("generator")
      [] obstacle = "no solver" -> Lacks("solver")
      [] obstacle = "not offline" -> ~bundle.offline

Questions == IF inputs = {} THEN WithoutInputs ELSE WithInputs

Starts == \A n \in 1..Len(Questions) : ~Asks(Questions[n])

\* The first obstacle there is.
Is(n) == Asks(Questions[n]) /\ \A m \in 1..n-1 : ~Asks(Questions[m])

Conclude(status, reason, root, cross, count) ==
    /\ pc' = "done"
    /\ record' = {[status |-> status, reason |-> reason, root |-> root,
                   cross_engine |-> cross, runs |-> count]}

\* unverified_without_inputs, or gate_record up to and with the checks of offline_gate.
Prepare ==
    /\ pc = "prepare"
    /\ \/ Starts /\ pc' = "generate" /\ UNCHANGED record
       \/ \E n \in 1..Len(Questions) :
             Is(n) /\ Conclude("unverified", Questions[n], {}, {}, {})
    /\ UNCHANGED <<bundle, inputs, runs, second, answer>>

(***************************************************************************)
(* The determinism stage                                                   *)
(***************************************************************************)
StageFailed(stage) == Conclude("failed", stage, {}, {}, {})

\* A disagreement settled by running once more.
RunGeneratorUntilAgreed ==
    /\ pc = "generate"
    /\ \E output \in Outputs \cup {Failed} :
          /\ runs' = Append(runs, output)
          /\ CASE output = Failed -> StageFailed("determinism stage")
               [] output # Failed /\ (runs = <<>> \/ output # runs[1]) -> UNCHANGED <<pc, record>>
               [] output # Failed /\ runs # <<>> /\ output = runs[1] ->
                      pc' = "cross" /\ UNCHANGED record
    /\ UNCHANGED <<bundle, inputs, second, answer>>

\* One call of run_repeated: an error ends the gate, a second output is compared.
RunGenerator ==
    /\ pc = "generate"
    /\ \E output \in Outputs \cup {Failed} :
          /\ runs' = Append(runs, output)
          /\ CASE output = Failed -> StageFailed("determinism stage")
               [] output # Failed /\ runs = <<>> -> UNCHANGED <<pc, record>>
               [] output # Failed /\ runs # <<>> /\ output = runs[1] ->
                      pc' = "cross" /\ UNCHANGED record
               [] output # Failed /\ runs # <<>> /\ output # runs[1] ->
                      StageFailed("determinism stage")
    /\ UNCHANGED <<bundle, inputs, second, answer>>

Declared == runs[1].names \subseteq bundle.outputs

\* Output names checked against nothing.
CrossCheckAnyName ==
    /\ pc = "cross"
    /\ \E outcome \in Outputs \cup {Failed, Unsupported} :
          /\ second' = {outcome}
          /\ IF outcome \in {runs[1], Unsupported}
             THEN pc' = "solve" /\ UNCHANGED record
             ELSE StageFailed("determinism stage")
    /\ UNCHANGED <<bundle, inputs, runs, answer>>

\* The second engine, when it can load the module, and the names of the outputs.
CrossCheck ==
    /\ pc = "cross"
    /\ \E outcome \in Outputs \cup {Failed, Unsupported} :
          /\ second' = {outcome}
          /\ IF outcome \in {runs[1], Unsupported} /\ Declared
             THEN pc' = "solve" /\ UNCHANGED record
             ELSE StageFailed("determinism stage")
    /\ UNCHANGED <<bundle, inputs, runs, answer>>

(***************************************************************************)
(* The solver stage and the comparison                                     *)
(***************************************************************************)
Crossed == second # {Unsupported}

\* A solver that breaks takes the determinism summary with it.
SolveForgetting ==
    /\ pc = "solve"
    /\ \E outcome \in Flags \cup {Failed} :
          /\ answer' = {outcome}
          /\ CASE outcome = Failed -> StageFailed("solver stage")
               [] outcome = ExpectedFlag ->
                      Conclude("passed", "recovered", {runs[1]}, {Crossed}, {2})
               [] outcome \notin {Failed, ExpectedFlag} ->
                      Conclude("failed", "other flag", {runs[1]}, {Crossed}, {2})
    /\ UNCHANGED <<bundle, inputs, runs, second>>

Solve ==
    /\ pc = "solve"
    /\ \E outcome \in Flags \cup {Failed} :
          /\ answer' = {outcome}
          /\ CASE outcome = Failed ->
                      Conclude("failed", "solver stage", {runs[1]}, {Crossed}, {2})
               [] outcome = ExpectedFlag ->
                      Conclude("passed", "recovered", {runs[1]}, {Crossed}, {2})
               [] outcome \notin {Failed, ExpectedFlag} ->
                      Conclude("failed", "other flag", {runs[1]}, {Crossed}, {2})
    /\ UNCHANGED <<bundle, inputs, runs, second>>

Next == Prepare \/ RunGenerator \/ CrossCheck \/ Solve

Spec == Init /\ [][Next]_vars

(***************************************************************************)
(* Properties                                                              *)
(***************************************************************************)
\* spec/SPEC.md 25.6: what keeps a gate from being run.
Forbidden ==
    \/ bundle.runtime \/ ~bundle.offline
    \/ \E m \in Modules : bundle.module[m] = "undeclared"
    \/ bundle.determinism \notin {"absent", "strict"}

Unrunnable ==
    \/ inputs = {} \/ \E i \in inputs : ~i.usable
    \/ bundle.version = "other"
    \/ \E m \in Modules : ~Resolved(m)

\* spec/SPEC.md 23.8, G8 to G10: the generator is deterministic as far as can be told.
Deterministic ==
    /\ Len(runs) = 2 /\ runs[1] = runs[2] /\ runs[1] # Failed
    /\ second \subseteq {runs[1], Unsupported} /\ second # {}
    /\ Declared

\* No gate, no pass (and no false alarm): the verdict is the one spec/SPEC.md 25.6 gives
\* for what the bundle declares, what the operator supplied and what the modules did.
\* "unverified" is for a gate that ran nothing.
VerdictOfSection25 ==
    \A r \in record :
        IF Forbidden \/ Unrunnable
        THEN r.status = "unverified" /\ runs = <<>>
        ELSE r.status = IF Deterministic /\ answer = {ExpectedFlag} THEN "passed" ELSE "failed"

\* spec/SPEC.md 25.6: root, run count and cross-engine result are null unless the
\* determinism stage completed, whatever became of the solver, and no cross-check is
\* claimed that was not run.
SummaryTellsHowFar ==
    \A r \in record :
        IF runs # <<>> /\ Deterministic
        THEN r.root = {runs[1]} /\ r.runs = {2} /\ r.cross_engine = {runs[1] \in second}
        ELSE r.root = {} /\ r.runs = {} /\ r.cross_engine = {}

\* spec/SPEC.md 25.7, S9: a record names the condition behind it, so that of a bundle
\* that declares a module does not say that it declares none.
ReasonIsTrue ==
    \A r \in record :
        /\ r.reason = "no generator" => bundle.module["generator"] = "undeclared"
        /\ r.reason = "no solver" => bundle.module["solver"] = "undeclared"
=============================================================================
