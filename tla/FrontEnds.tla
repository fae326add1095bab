------------------------------ MODULE FrontEnds ------------------------------
(***************************************************************************)
(* The four ways into the offline gate: the admin console (module Gate),   *)
(* `ctf verify`, `ctf run --bundle` and a bare `ctf run` on an authoring   *)
(* document.  They differ in what they check of the bundle's file, in the  *)
(* name under which they look for a module the bundle does not carry, in   *)
(* the order of their questions, and in what a caller learns: a record, an *)
(* artifact, an exit code.                                                 *)
(***************************************************************************)
EXTENDS Gate

CONSTANT Shelves    \* what there may be beside a document, for one module

VARIABLES
    front,      \* the front end
    copy,       \* what the bundle's file is when it is read
    shelf,      \* per module: the name in the document, the files under either name
    said        \* Option: what the command left, [status, code, kept]

frontVars == <<front, copy, shelf, said>>

FileNames == {"the bundle's", "another"}
ShelfTypes == [doc: SUBSET FileNames, disk: SUBSET FileNames]

ASSUME ShelfAssumption == Shelves \subseteq ShelfTypes

Says == [status: Statuses \cup {"rejected", "none"}, code: 0..2, kept: BOOLEAN]

(***************************************************************************)
(* Where a front end finds a module                                        *)
(***************************************************************************)
\* The console looks under the bundle's name, the command line under the document's.
LooksFor(f, s) == IF f = "console" THEN {"the bundle's"} ELSE s.doc

Finds(f, shelves) == {m \in Modules : LooksFor(f, shelves[m]) \cap shelves[m].disk # {}}

\* A document that passes its own validation: a generator exactly when the mode
\* wants one, under the document's one name for it.
DocumentDeclares(b) ==
    /\ \A m \in Modules : b.module[m] \in {"undeclared", "named only"}
    /\ b.determinism # "unrecognized"
    /\ b.module["generator"] = "named only" <=> b.determinism \in {"strict", "none"}
    /\ b.determinism = "absent" => b.version = "implemented"
    /\ b.module["generator"] = "undeclared" => b.outputs = {}
    /\ b.module["solver"] = "undeclared" => ~b.offline

FrontInit ==
    /\ bundle \in Bundles
    /\ front \in {"console", "verify", "run", "document"}
    /\ shelf \in [Modules -> Shelves]
    /\ copy \in IF front \in {"verify", "run"} THEN {"intact", "mismatch", "unparsable"}
                ELSE {"intact"}
    /\ inputs \in {{[usable |-> u, files |-> Finds(front, shelf)]} : u \in BOOLEAN}
                  \cup (IF front \in {"console", "verify"} THEN {{}} ELSE {})
    /\ front = "document" =>
          /\ DocumentDeclares(bundle)
          /\ \A m \in Modules :
                shelf[m].doc = IF bundle.module[m] = "named only" THEN {"the bundle's"} ELSE {}
    /\ pc = "prepare" /\ said = {}
    /\ runs = <<>> /\ second = {} /\ answer = {} /\ record = {}

(***************************************************************************)
(* Before the gate                                                         *)
(***************************************************************************)
\* The versions are left to whoever runs the modules.
CliQuestionsAnyVersion ==
    <<"unreadable generator", "missing generator", "unreadable solver",
      "missing solver", "determinism", "runtime", "no generator", "no solver", "not offline">>

\* apply_bundle_declarations and then offline_gate.  A bare run has no bundle to
\* read a module from, and stops at a file it cannot read.
CliQuestions ==
    <<"version", "unreadable generator", "missing generator", "unreadable solver",
      "missing solver", "determinism", "runtime", "no generator", "no solver", "not offline">>

Missing(m) ==
    /\ bundle.module[m] = "named only" /\ shelf[m].doc # {}
    /\ \A i \in inputs : m \notin i.files

CliAsks(question) ==
    CASE question = "missing generator" -> Missing("generator")
      [] question = "missing solver" -> Missing("solver")
      [] question \notin {"missing generator", "missing solver"} -> Asks(question)

CliIs(n) == CliAsks(CliQuestions[n]) /\ \A k \in 1..n-1 : ~CliAsks(CliQuestions[k])

\* Questions a bare run answers with an exit instead of a record.
Refused == {"version", "missing generator", "missing solver"}

\* The command ends before there is anything to record.
Stop == pc' = "done" /\ UNCHANGED record

\* `ctf run` looks at the document and the secret before the bundle's file, and asks
\* of the file only that it parses.
Turned ==
    CASE front = "verify" -> copy # "intact" \/ inputs = {}
      [] front = "run" -> copy = "unparsable" \/ \E i \in inputs : ~i.usable
      [] front = "document" -> \E i \in inputs : ~i.usable

\* The questions of a bundle's declarations.
AskDeclarations ==
    \/ /\ \A n \in 1..Len(CliQuestions) : ~CliAsks(CliQuestions[n])
       /\ pc' = "generate" /\ UNCHANGED record
    \/ \E n \in 1..Len(CliQuestions) :
          /\ CliIs(n)
          /\ IF front = "document" /\ CliQuestions[n] \in Refused THEN Stop
             ELSE Conclude("unverified", CliQuestions[n], {}, {}, {})

\* The section pass's verdict does not keep the gate from running.
PrepareCliAnyCopy ==
    /\ pc = "prepare" /\ front # "console"
    /\ IF copy = "unparsable" \/ (front = "verify" /\ inputs = {}) THEN Stop
       ELSE \/ /\ \E i \in inputs : ~i.usable
               /\ IF front = "verify" THEN Conclude("unverified", "unusable inputs", {}, {}, {})
                  ELSE Stop
            \/ (\A i \in inputs : i.usable) /\ AskDeclarations
    /\ UNCHANGED <<bundle, inputs, runs, second, answer, front, copy, shelf, said>>

PrepareCli ==
    /\ pc = "prepare" /\ front # "console"
    /\ IF Turned THEN Stop
       ELSE \/ /\ \E i \in inputs : ~i.usable
               /\ Conclude("unverified", "unusable inputs", {}, {}, {})
            \/ (\A i \in inputs : i.usable) /\ AskDeclarations
    /\ UNCHANGED <<bundle, inputs, runs, second, answer, front, copy, shelf, said>>

(***************************************************************************)
(* What the caller learns                                                  *)
(***************************************************************************)
Leave(status, code, kept) == said' = {[status |-> status, code |-> code, kept |-> kept]}

\* Artifact and Status::exit_code of `ctf verify`; the artifact may fail to be written.
VerifySays ==
    LET status == IF copy # "intact" THEN "rejected"
                  ELSE IF record = {} THEN "unverified" ELSE (CHOOSE r \in record : TRUE).status
        code == CASE status = "passed" -> 0 [] status \in {"failed", "rejected"} -> 1
                  [] status = "unverified" -> 2
    IN \E written \in BOOLEAN : Leave(status, IF written THEN code ELSE 1, written)

\* `ctf run` writes its record, where one is asked for, and fails with the gate or
\* with the write.
RunSays ==
    IF record = {} THEN Leave("none", 1, FALSE)
    ELSE \E r \in record, asked \in IF front = "run" THEN {TRUE} ELSE BOOLEAN, written \in BOOLEAN :
            Leave(r.status,
                  IF r.status = "failed" \/ (asked /\ ~written) THEN 1 ELSE 0,
                  asked /\ written)

Report ==
    /\ pc = "done" /\ front # "console" /\ said = {}
    /\ IF front = "verify" THEN VerifySays ELSE RunSays
    /\ UNCHANGED <<vars, front, copy, shelf>>

PrepareConsole == front = "console" /\ Prepare /\ UNCHANGED frontVars

RunStage == (RunGenerator \/ CrossCheck \/ Solve) /\ UNCHANGED frontVars

FrontNext == PrepareConsole \/ PrepareCli \/ RunStage \/ Report

FrontSpec == FrontInit /\ [][FrontNext]_<<vars, frontVars>>

(***************************************************************************)
(* Properties                                                              *)
(***************************************************************************)
\* Gate and front end keep their types; the generator runs at most twice, whoever
\* asked for it.
FrontTypeOK ==
    /\ TypeOK
    /\ front \in {"console", "verify", "run", "document"}
    /\ copy \in {"intact", "mismatch", "unparsable"}
    /\ shelf \in [Modules -> ShelfTypes]
    /\ said \in SUBSET Says

\* The same bundle, document and secret, at the console.
AtConsole == INSTANCE Gate WITH
    inputs <- {[i EXCEPT !.files = Finds("console", shelf)] : i \in inputs}

\* One bundle, one document and one secret have one verdict, whoever asks: when the
\* document names the modules the bundle only names as the bundle does, a command
\* starts the gate exactly when the console would, and so does not turn a bundle away
\* that the store takes for solvable, or the other way round.
FrontEndsAgree ==
    LET sameNames == \A m \in Modules : bundle.module[m] = "named only" =>
                                           shelf[m].doc = {"the bundle's"}
    IN pc # "prepare" /\ front \in {"verify", "run"} /\ copy = "intact" /\ inputs # {} /\ sameNames =>
          ((pc = "generate" \/ runs # <<>>) <=> AtConsole!Starts)

\* spec/SPEC.md 25.6.1 and S11: `ctf verify` exits with 0 exactly for an intact file
\* whose gate passed, with 2 exactly for an intact one without a verdict, and leaves
\* no gate record of a file it rejects.  `ctf run` exits with 0 only if nothing failed
\* and a record that belongs beside a bundle is there; whoever sees one of the two
\* commands succeed on a passed gate has seen both modules run.
ExitTellsTheVerdict ==
    \A s \in said :
        /\ front = "verify" =>
             /\ s.code = 0 <=> s.kept /\ copy = "intact" /\ \E r \in record : r.status = "passed"
             /\ s.code = 2 <=> s.kept /\ copy = "intact" /\ \A r \in record : r.status = "unverified"
             /\ copy # "intact" => record = {} /\ runs = <<>>
        /\ front = "run" /\ s.code = 0 =>
             s.kept /\ copy # "unparsable" /\ \E r \in record : r.status # "failed"
        /\ s.status = "passed" => Deterministic /\ answer = {ExpectedFlag}
=============================================================================
