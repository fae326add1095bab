------------------------------ MODULE Console ------------------------------
(***************************************************************************)
(* The admin console: one loop that applies what background tasks sent,    *)
(* draws a frame and handles at most one key, while the tasks query a      *)
(* store that other consoles write to as well.  A key may spawn a task and *)
(* nothing keeps a second one from being spawned, so answers come back in  *)
(* any order and possibly older than what is on the screen.                *)
(*                                                                         *)
(* The store is what modules Archive and Ingest make of it: bundles appear *)
(* whole and stay.  Text typed into a field decides only whether a submit  *)
(* is refused, so a submit may be refused and typing changes nothing.      *)
(* What is shown and read by no key (a bundle's detail, the audit,         *)
(* entitlement and verification tables, the progress bar, the error and    *)
(* the notice) is left out, and so is a message that only changes that: a  *)
(* job that reads such "rows" matters when it fails.                       *)
(***************************************************************************)
EXTENDS Integers, SequencesExt, Ordering

CONSTANTS
    NumChallenges,  \* challenges 1..NumChallenges, in the order the list shows them
    MaxBundles,     \* bound: bundles ever ingested
    Tasks           \* bound: background tasks in flight

ASSUME ConsoleAssumption ==
    NumChallenges \in Nat \ {0} /\ MaxBundles \in Nat

VARIABLES
    store,      \* store[c]: the bundles of challenge c, a larger one listed first
    app,        \* struct App
    queue,      \* the unbounded channel to the loop
    task,       \* task[t]: what a spawned task has still to do
    loop,       \* where the loop is
    drawn       \* what the last frame showed

vars == <<store, app, queue, task, loop, drawn>>

(***************************************************************************)
(* Data                                                                    *)
(***************************************************************************)
Challenges == 1..NumChallenges

Bundles == 1..MaxBundles

Screens == <<"challenges", "ingest", "inspector", "release", "verification", "audit">>

IngestFields == <<"path", "document", "secret">>

Fields == Range(IngestFields) \cup {"none", "release key"}

\* What a task asks of the store; arg is a challenge, a bundle, or 0.
Job(kind, arg) == [kind |-> kind, arg |-> arg]

Jobs ==
    [kind: {"challenges", "rows", "ingest"}, arg: Bundles \cup {0}]
        \cup [kind: {"bundles"}, arg: Challenges]
        \cup [kind: {"release"}, arg: Bundles]

\* A message carries a list of ids; the kind says of what.
Msg(kind, rows) == [kind |-> kind, rows |-> rows]

Msgs ==
    [kind: {"challenges"}, rows: Seq(Challenges)]
        \cup [kind: {"bundles"}, rows: Seq(Bundles)]
        \cup [kind: {"done", "error"}, rows: {<<>>}]

TypeOK ==
    /\ store \in [Challenges -> SUBSET Bundles]
    /\ app \in [running: BOOLEAN, screen: Range(Screens), focus: Fields, busy: BOOLEAN,
                challenges: Seq(Challenges), challenge_index: Nat,
                bundles: Seq(Bundles), bundle_index: Nat]
    /\ queue \in Seq(Msgs)
    /\ task \in [Tasks -> [todo: Seq(Jobs), msg: Seq(Msgs)]]
    /\ loop \in {"frame", "key"}
    /\ drawn \in [screen: Range(Screens), bundle: SUBSET Bundles, busy: BOOLEAN]

\* Option: the row under a cursor (selected_challenge, selected_bundle).
Selected(list, index) == IF index < Len(list) THEN {list[index + 1]} ELSE {}

NoTask == [todo |-> <<>>, msg |-> <<>>]

Init ==
    /\ store = [c \in Challenges |-> {}]
    /\ app = [running |-> TRUE, screen |-> "challenges", focus |-> "none", busy |-> FALSE,
              challenges |-> <<>>, challenge_index |-> 0, bundles |-> <<>>,
              bundle_index |-> 0]
    /\ queue \in {<<Msg("challenges", <<>>)>>, <<Msg("error", <<>>)>>}
    /\ task = [t \in Tasks |-> NoTask]
    /\ loop = "frame"
    /\ drawn = [screen |-> "challenges", bundle |-> {}, busy |-> FALSE]

(***************************************************************************)
(* The store                                                               *)
(***************************************************************************)
Stored == UNION Range(store)

\* A committed ingest.  The list goes by the time the transaction began, so a bundle
\* committed later may be listed before or after the others.
Commit(c) == \E b \in Bundles \ Stored : store' = [store EXCEPT ![c] = @ \cup {b}]

\* Another console's ingest.
Elsewhere ==
    /\ \E c \in Challenges : Commit(c)
    /\ UNCHANGED <<app, queue, task, loop, drawn>>

ChallengeList == Ascending({c \in Challenges : store[c] # {}})

BundleList(c) == Descending(store[c])

(***************************************************************************)
(* Background tasks                                                        *)
(***************************************************************************)
\* A task holds one message at most: what it has read or done and not yet sent.
Got(t, msg) == task' = [task EXCEPT ![t].msg = <<msg>>]

Read(t) ==
    LET job == Head(task[t].todo) IN
    /\ task[t].todo # <<>> /\ task[t].msg = <<>>
    /\ \/ job.kind = "challenges" /\ Got(t, Msg("challenges", ChallengeList))
       \/ job.kind = "bundles" /\ Got(t, Msg("bundles", BundleList(job.arg)))
       \/ job.kind = "rows" /\ task' = [task EXCEPT ![t].todo = Tail(@)]
       \/ job.kind \in {"ingest", "release"} /\ Got(t, Msg("done", <<>>))
       \/ Got(t, Msg("error", <<>>))
    /\ UNCHANGED <<store, app, queue, loop, drawn>>

\* An ingest that stores its file, and is told so or not.
Ingest(t) ==
    /\ task[t].todo # <<>> /\ task[t].msg = <<>>
    /\ Head(task[t].todo).kind = "ingest"
    /\ \E c \in Challenges : Commit(c)
    /\ \E kind \in {"done", "error"} : Got(t, Msg(kind, <<>>))
    /\ UNCHANGED <<app, queue, loop, drawn>>

\* A list that cannot be read does not keep the next one from being read; an ingest or
\* a release that fails ends its task.
Rest(t) ==
    IF task[t].msg[1].kind = "error" /\ Head(task[t].todo).kind \in {"ingest", "release"}
    THEN <<>>
    ELSE Tail(task[t].todo)

Send(t) ==
    /\ task[t].msg # <<>>
    /\ queue' = queue \o task[t].msg
    /\ task' = [task EXCEPT ![t] = [todo |-> Rest(t), msg |-> <<>>]]
    /\ UNCHANGED <<store, app, loop, drawn>>

(***************************************************************************)
(* The loop: apply everything that has arrived, draw, handle one key       *)
(***************************************************************************)
Clamp(index, list) == IF list = <<>> THEN 0 ELSE Min({index, Len(list) - 1})

\* An answer that leaves the busy flag up.
AnsweredStillBusy(a) == a

\* An ingest or a release came back.
Answered(a) == [a EXCEPT !.busy = FALSE]

\* Lists replaced under a cursor that stays where it is.
ApplyKeepingCursor(a, msg) ==
    CASE msg.kind = "challenges" -> [a EXCEPT !.challenges = msg.rows]
      [] msg.kind = "bundles" -> [a EXCEPT !.bundles = msg.rows]
      [] msg.kind \in {"done", "error"} -> Answered(a)

Apply(a, msg) ==
    CASE msg.kind = "challenges" ->
            [a EXCEPT !.challenges = msg.rows, !.challenge_index = Clamp(@, msg.rows)]
      [] msg.kind = "bundles" ->
            [a EXCEPT !.bundles = msg.rows, !.bundle_index = Clamp(@, msg.rows)]
      [] msg.kind \in {"done", "error"} -> Answered(a)

Shows(a) == [screen |-> a.screen, bundle |-> Selected(a.bundles, a.bundle_index),
             busy |-> a.busy]

\* A message that is applied whenever it arrives.
ReceiveAnyTime ==
    /\ app.running /\ queue # <<>>
    /\ app' = Apply(app, Head(queue))
    /\ queue' = Tail(queue)
    /\ UNCHANGED <<store, task, loop, drawn>>

\* while let Ok(message) = rx.try_recv()
Receive ==
    /\ app.running /\ loop = "frame" /\ queue # <<>>
    /\ app' = Apply(app, Head(queue))
    /\ queue' = Tail(queue)
    /\ UNCHANGED <<store, task, loop, drawn>>

\* A message that arrives from here on waits for the next round of the loop.
Frame ==
    /\ app.running /\ loop = "frame" /\ queue = <<>>
    /\ drawn' = Shows(app)
    /\ loop' = "key"
    /\ UNCHANGED <<store, app, queue, task>>

\* The poll times out, or the key changes nothing that is modelled.
NoKey ==
    /\ loop = "key"
    /\ loop' = "frame"
    /\ UNCHANGED <<store, app, queue, task, drawn>>

(***************************************************************************)
(* Keys                                                                    *)
(***************************************************************************)
\* A key that leaves the console in state a, and spawns a task that does the jobs.
Press(a, jobs) ==
    /\ loop = "key"
    /\ loop' = "frame"
    /\ app' = a
    /\ IF jobs = <<>>
       THEN UNCHANGED task
       ELSE \E t \in Tasks :
               /\ task[t] = NoTask
               /\ task' = [task EXCEPT ![t].todo = jobs]
    /\ UNCHANGED <<store, queue, drawn>>

Quit == Press([app EXCEPT !.running = FALSE], <<>>)

\* refresh_action, for the screen of state a.
RefreshAction(a) ==
    CASE a.screen = "challenges" -> <<Job("challenges", 0)>>
      [] a.screen \in {"inspector", "release"} ->
            SetToSeq({Job("bundles", c) : c \in Selected(a.challenges, a.challenge_index)})
      [] a.screen \in {"verification", "audit"} -> <<Job("rows", 0)>>
      [] a.screen = "ingest" -> <<>>

DefaultFocus(screen) ==
    CASE screen = "ingest" -> "path"
      [] screen = "release" -> "release key"
      [] screen \notin {"ingest", "release"} -> "none"

\* One place on in a list that wraps; delta is 1 or -1.
Neighbour(list, x, delta) ==
    LET n == CHOOSE k \in 1..Len(list) : list[k] = x IN
    list[((n - 1 + delta) % Len(list)) + 1]

\* A screen change that leaves the focus where it was.
TabKeepingFocus(delta) ==
    LET a == [app EXCEPT !.screen = Neighbour(Screens, @, delta)] IN
    Press(a, RefreshAction(a))

Tab(delta) ==
    LET screen == Neighbour(Screens, app.screen, delta)
        a == [app EXCEPT !.screen = screen, !.focus = DefaultFocus(screen)] IN
    Press(a, RefreshAction(a))

\* The key r; in a field it is typed, and with Ctrl or Alt held it refreshes there too.
Refresh == Press(app, RefreshAction(app))

\* A cursor that stops at neither end.
MoveCursorUnbounded(index, delta, list) == index + delta

MoveCursor(index, delta, list) ==
    IF list = <<>> THEN 0 ELSE (Clamp(index, list) + delta) % Len(list)

\* Up from no field is the last one, and down the first.
MoveFocus(delta) ==
    CASE app.focus \in Range(IngestFields) -> Neighbour(IngestFields, app.focus, delta)
      [] app.focus = "none" -> IF delta < 0 THEN "secret" ELSE "path"
      [] app.focus = "release key" -> "path"

MoveSelection(delta) ==
    CASE app.screen = "challenges" ->
            Press([app EXCEPT !.challenge_index = MoveCursor(@, delta, app.challenges)], <<>>)
      [] app.screen = "inspector" ->
            Press([app EXCEPT !.bundle_index = MoveCursor(@, delta, app.bundles)], <<>>)
      [] app.screen = "ingest" -> Press([app EXCEPT !.focus = MoveFocus(delta)], <<>>)
      [] app.screen \in {"release", "verification", "audit"} -> Press(app, <<>>)

Esc ==
    IF app.focus # "none"
    THEN Press([app EXCEPT !.focus = "none"], <<>>)
    ELSE app.screen = "inspector" /\ Press([app EXCEPT !.screen = "challenges"], <<>>)

\* A submit that lacks a path, a key, one of document and secret, or a bundle.
Refused == Press([app EXCEPT !.focus = "none"], <<>>)

Busy == [app EXCEPT !.focus = "none", !.busy = TRUE]

Enter ==
    LET a == [app EXCEPT !.focus = "none"] IN
    CASE app.screen = "challenges" ->
            \E c \in Selected(app.challenges, app.challenge_index) :
                Press([a EXCEPT !.screen = "inspector"], <<Job("bundles", c)>>)
      [] app.screen = "inspector" ->
            \E b \in Selected(app.bundles, app.bundle_index) : Press(a, <<Job("rows", b)>>)
      [] app.screen = "ingest" ->
            \/ Refused
            \/ Press(Busy, <<Job("ingest", 0), Job("challenges", 0), Job("rows", 0)>>)
      [] app.screen = "release" ->
            \/ Refused
            \/ \E b \in Selected(app.bundles, app.bundle_index) :
                   Press(Busy, <<Job("release", b), Job("rows", 0)>>)
      [] app.screen \in {"verification", "audit"} -> Press(a, RefreshAction(a))

(***************************************************************************)
(* Specification                                                           *)
(***************************************************************************)
Key ==
    \/ Quit
    \/ Refresh
    \/ Esc
    \/ Enter
    \/ \E delta \in {1, -1} : Tab(delta) \/ MoveSelection(delta)

Loop == Receive \/ Frame \/ NoKey \/ Key

Background(t) == app.running /\ (Read(t) \/ Ingest(t) \/ Send(t))

Next ==
    \/ Loop
    \/ \E t \in Tasks : Background(t)
    \/ app.running /\ Elsewhere

Spec == Init /\ [][Next]_vars

\* The poll of the keyboard times out, and the runtime and the store serve every task.
Fairness == WF_vars(Loop) /\ \A t \in Tasks : WF_vars(Background(t))

FairSpec == Spec /\ Fairness

(***************************************************************************)
(* Properties                                                              *)
(***************************************************************************)
\* A cursor names a row of a list that has any, whatever list replaced another one.
CursorsNameRows ==
    /\ app.challenges # <<>> => app.challenge_index < Len(app.challenges)
    /\ app.bundles # <<>> => app.bundle_index < Len(app.bundles)

\* What is typed (a secret, a key path) goes into a field of the screen that is shown.
FocusIsOnScreen ==
    /\ app.focus \in Range(IngestFields) => app.screen = "ingest"
    /\ app.focus = "release key" => app.screen = "release"

\* A release is of the bundle the operator saw on the release screen when the key was
\* read, even if a late answer replaces the list.
ReleasesWhatWasDrawn ==
    [][\A t \in Tasks, b \in Bundles :
          (task[t] = NoTask /\ task'[t].todo # <<>> /\ Head(task'[t].todo) = Job("release", b))
              => drawn.screen = "release" /\ drawn.bundle = {b}]_vars

\* An operator who submits sees it come back: a frame without "busy" is drawn in the end.
EverySubmitIsAnswered == app.busy ~> ~drawn.busy \/ ~app.running
=============================================================================
