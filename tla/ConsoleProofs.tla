---------------------------- MODULE ConsoleProofs ----------------------------
(***************************************************************************)
(* Proofs about Console, for any number of challenges, of bundles and of   *)
(* background tasks: whatever order their answers come back in, a cursor   *)
(* names a row, the focus is on the screen that is shown, and a release is *)
(* of the bundle that was drawn.                                           *)
(***************************************************************************)
EXTENDS Console, OrderingProofs, SequenceTheorems

(***************************************************************************)
(* The inductive invariant                                                 *)
(***************************************************************************)
\* A task that has an answer still has the job it is of.
AnswersHaveJobs == \A t \in Tasks : task[t].msg # <<>> => task[t].todo # <<>>

\* A key is handled on the state the last frame was drawn from.
KeyFollowsFrame == loop = "key" => drawn = Shows(app)

IInv ==
    /\ TypeOK /\ CursorsNameRows /\ FocusIsOnScreen
    /\ AnswersHaveJobs
    /\ KeyFollowsFrame

\* The states of the application that satisfy the parts of the invariant about it.
AppOK(a) ==
    /\ a \in [running: BOOLEAN, screen: Range(Screens), focus: Fields, busy: BOOLEAN,
              challenges: Seq(Challenges), challenge_index: Nat,
              bundles: Seq(Bundles), bundle_index: Nat]
    /\ a.challenges # <<>> => a.challenge_index < Len(a.challenges)
    /\ a.bundles # <<>> => a.bundle_index < Len(a.bundles)
    /\ a.focus \in Range(IngestFields) => a.screen = "ingest"
    /\ a.focus = "release key" => a.screen = "release"

(***************************************************************************)
(* Data                                                                    *)
(***************************************************************************)
ScreenNames == {"challenges", "ingest", "inspector", "release", "verification", "audit"}

LEMMA Names ==
    /\ Range(Screens) = ScreenNames
    /\ Screens \in Seq(ScreenNames) /\ Len(Screens) = 6
    /\ Range(IngestFields) = {"path", "document", "secret"}
    /\ IngestFields \in Seq({"path", "document", "secret"}) /\ Len(IngestFields) = 3
    /\ Fields = {"path", "document", "secret", "none", "release key"}
<1>1. Range(Screens) = ScreenNames
  <2>1. DOMAIN Screens = 1 .. 6
    BY DEF Screens
  <2>2. 1 .. 6 = {1, 2, 3, 4, 5, 6}
    OBVIOUS
  <2> QED
    BY <2>1, <2>2 DEF Range, Screens, ScreenNames
<1>2. Range(IngestFields) = {"path", "document", "secret"}
  <2>1. DOMAIN IngestFields = 1 .. 3
    BY DEF IngestFields
  <2>2. 1 .. 3 = {1, 2, 3}
    OBVIOUS
  <2> QED
    BY <2>1, <2>2 DEF Range, IngestFields
<1>3. Screens \in Seq(ScreenNames) /\ Len(Screens) = 6
  BY DEF Screens, ScreenNames
<1>4. IngestFields \in Seq({"path", "document", "secret"}) /\ Len(IngestFields) = 3
  BY DEF IngestFields
<1>5. Fields = {"path", "document", "secret", "none", "release key"}
  BY <1>2 DEF Fields
<1> QED
  BY <1>1, <1>2, <1>3, <1>4, <1>5

\* A cursor put back onto a list, or moved along it, names a row of it.
LEMMA ClampNamesRow ==
    ASSUME NEW S, NEW list \in Seq(S), NEW index \in Nat
    PROVE  /\ Clamp(index, list) \in Nat
           /\ list # <<>> => Clamp(index, list) < Len(list)
<1>1. CASE list = <<>>
  BY <1>1 DEF Clamp
<1>2. CASE list # <<>>
  <2>1. Len(list) \in Nat /\ Len(list) # 0
    BY <1>2, EmptySeq
  <2> DEFINE pair == {index, Len(list) - 1}
  <2>2. \E x \in pair : \A y \in pair : x <= y
    <3>1. CASE index <= Len(list) - 1
      BY <3>1, <2>1
    <3>2. CASE ~(index <= Len(list) - 1)
      BY <3>2, <2>1
    <3> QED
      BY <3>1, <3>2
  <2>3. Min(pair) \in pair /\ \A y \in pair : Min(pair) <= y
    BY <2>2 DEF Min
  <2>4. Min(pair) \in Nat /\ Min(pair) < Len(list)
    BY <2>1, <2>3
  <2> QED
    BY <1>2, <2>4 DEF Clamp
<1> QED
  BY <1>1, <1>2

LEMMA MoveNamesRow ==
    ASSUME NEW S, NEW list \in Seq(S), NEW index \in Nat, NEW delta \in {1, -1}
    PROVE  /\ MoveCursor(index, delta, list) \in Nat
           /\ list # <<>> => MoveCursor(index, delta, list) < Len(list)
<1>1. CASE list = <<>>
  BY <1>1 DEF MoveCursor
<1>2. CASE list # <<>>
  <2>1. Len(list) \in Nat /\ Len(list) > 0
    BY <1>2, EmptySeq
  <2>2. Clamp(index, list) + delta \in Int
    BY ClampNamesRow
  <2>3. (Clamp(index, list) + delta) % Len(list) \in 0 .. Len(list) - 1
    BY <2>1, <2>2
  <2> QED
    BY <1>2, <2>1, <2>3 DEF MoveCursor
<1> QED
  BY <1>1, <1>2

\* A neighbour in a list that wraps is in the list.
LEMMA NeighbourIsListed ==
    ASSUME NEW S, NEW list \in Seq(S), NEW x \in Range(list), NEW delta \in {1, -1}
    PROVE  Neighbour(list, x, delta) \in Range(list)
<1>1. Len(list) \in Nat /\ DOMAIN list = 1 .. Len(list)
  OBVIOUS
<1>2. PICK k \in 1 .. Len(list) : list[k] = x
  BY <1>1 DEF Range
<1> DEFINE n == CHOOSE j \in 1 .. Len(list) : list[j] = x
<1>3. n \in 1 .. Len(list)
  BY <1>2
<1> HIDE DEF n
<1>4. (n - 1 + delta) % Len(list) \in 0 .. Len(list) - 1
  BY <1>1, <1>3
<1>5. ((n - 1 + delta) % Len(list)) + 1 \in DOMAIN list
  BY <1>1, <1>4
<1>6. Neighbour(list, x, delta) = list[((n - 1 + delta) % Len(list)) + 1]
  BY DEF Neighbour, n
<1> QED
  BY <1>5, <1>6 DEF Range

\* SetToSeq lists the members of a finite set.
LEMMA SetToSeqType ==
    ASSUME NEW S, IsFiniteSet(S)
    PROVE  SetToSeq(S) \in Seq(S)
<1>1. Cardinality(S) \in Nat /\ ExistsBijection(1 .. Cardinality(S), S)
  BY FS_CardinalityType
<1>2. \E f \in [1 .. Cardinality(S) -> S] : IsInjective(f)
  BY <1>1 DEF ExistsBijection, Bijection, Injection
<1>3. SetToSeq(S) \in [1 .. Cardinality(S) -> S]
  BY <1>2 DEF SetToSeq
<1> QED
  BY <1>1, <1>3

(***************************************************************************)
(* The steps of the loop                                                   *)
(***************************************************************************)
\* A message of either kind of list, or an answer, leaves the application well.
LEMMA ApplyKeepsApp ==
    ASSUME NEW a, AppOK(a), NEW msg \in Msgs
    PROVE  AppOK(Apply(a, msg))
<1>1. CASE msg.kind = "challenges"
  <2>1. msg.rows \in Seq(Challenges)
    BY <1>1 DEF Msgs
  <2>2. /\ Clamp(a.challenge_index, msg.rows) \in Nat
        /\ msg.rows # <<>> => Clamp(a.challenge_index, msg.rows) < Len(msg.rows)
    BY <2>1, ClampNamesRow DEF AppOK
  <2>3. Apply(a, msg) = [a EXCEPT !.challenges = msg.rows,
                                  !.challenge_index = Clamp(a.challenge_index, msg.rows)]
    BY <1>1 DEF Apply
  <2> QED
    BY <2>1, <2>2, <2>3 DEF AppOK
<1>2. CASE msg.kind = "bundles"
  <2>1. msg.rows \in Seq(Bundles)
    BY <1>2 DEF Msgs
  <2>2. /\ Clamp(a.bundle_index, msg.rows) \in Nat
        /\ msg.rows # <<>> => Clamp(a.bundle_index, msg.rows) < Len(msg.rows)
    BY <2>1, ClampNamesRow DEF AppOK
  <2>3. Apply(a, msg) = [a EXCEPT !.bundles = msg.rows,
                                  !.bundle_index = Clamp(a.bundle_index, msg.rows)]
    BY <1>2 DEF Apply
  <2> QED
    BY <2>1, <2>2, <2>3 DEF AppOK
<1>3. CASE msg.kind \in {"done", "error"}
  <2>1. Apply(a, msg) = [a EXCEPT !.busy = FALSE]
    BY <1>3 DEF Apply, Answered
  <2> QED
    BY <2>1 DEF AppOK
<1> QED
  BY <1>1, <1>2, <1>3 DEF Msgs

\* The row under a cursor is one of the list's.
LEMMA SelectedIsListed ==
    ASSUME NEW S, NEW list \in Seq(S), NEW index \in Nat
    PROVE  Selected(list, index) \in SUBSET S
<1>1. CASE index < Len(list)
  <2>1. index + 1 \in 1 .. Len(list)
    BY <1>1
  <2> QED
    BY <1>1, <2>1 DEF Selected
<1> QED
  BY <1>1 DEF Selected

LEMMA ShowsType ==
    ASSUME NEW a, AppOK(a)
    PROVE  Shows(a) \in [screen: Range(Screens), bundle: SUBSET Bundles, busy: BOOLEAN]
<1>1. Selected(a.bundles, a.bundle_index) \in SUBSET Bundles
  BY SelectedIsListed DEF AppOK
<1> QED
  BY <1>1 DEF AppOK, Shows

LEMMA AppOKInv == TypeOK /\ CursorsNameRows /\ FocusIsOnScreen => AppOK(app)
  BY DEF TypeOK, CursorsNameRows, FocusIsOnScreen, AppOK

LEMMA InvAppOK ==
    ASSUME IInv
    PROVE  AppOK(app)
  BY AppOKInv DEF IInv

LEMMA InitInv ==
    ASSUME Init
    PROVE  IInv
<1>1. AppOK(app)
  <2>1. "challenges" \in Range(Screens) /\ "none" \in Fields \ Range(IngestFields)
    BY Names DEF ScreenNames
  <2>2. <<>> \in Seq(Challenges) /\ <<>> \in Seq(Bundles)
    OBVIOUS
  <2> QED
    BY <2>1, <2>2 DEF Init, AppOK
<1>2. TypeOK
  <2>1. queue \in Seq(Msgs)
    <3>1. <<>> \in Seq(Challenges)
      OBVIOUS
    <3>2. Msg("challenges", <<>>) \in Msgs /\ Msg("error", <<>>) \in Msgs
      BY <3>1 DEF Msg, Msgs
    <3>3. \A msg \in Msgs : <<msg>> \in Seq(Msgs)
      OBVIOUS
    <3> QED
      BY <3>2, <3>3 DEF Init
  <2>2. drawn \in [screen: Range(Screens), bundle: SUBSET Bundles, busy: BOOLEAN]
    BY Names DEF Init, ScreenNames
  <2>3. task \in [Tasks -> [todo: Seq(Jobs), msg: Seq(Msgs)]]
    BY DEF Init, NoTask
  <2> QED
    BY <1>1, <2>1, <2>2, <2>3 DEF Init, TypeOK, AppOK
<1> QED
  BY <1>1, <1>2 DEF Init, IInv, AppOK, CursorsNameRows, FocusIsOnScreen, AnswersHaveJobs, NoTask,
                    KeyFollowsFrame

LEMMA ReceiveInv ==
    ASSUME IInv, Receive
    PROVE  IInv'
<1>1. Head(queue) \in Msgs /\ Tail(queue) \in Seq(Msgs)
  BY DEF IInv, TypeOK, Receive
<1>2. AppOK(app')
  BY <1>1, InvAppOK, ApplyKeepsApp DEF Receive
<1> QED
  BY <1>1, <1>2 DEF IInv, TypeOK, CursorsNameRows, FocusIsOnScreen, AnswersHaveJobs,
                    KeyFollowsFrame, Receive, AppOK

LEMMA FrameInv ==
    ASSUME IInv, Frame
    PROVE  IInv'
<1>1. drawn' \in [screen: Range(Screens), bundle: SUBSET Bundles, busy: BOOLEAN]
  BY InvAppOK, ShowsType DEF Frame
<1>2. KeyFollowsFrame'
  <2>1. Shows(app)' = Shows(app)
    BY DEF Frame, Shows, Selected
  <2> QED
    BY <2>1 DEF Frame, KeyFollowsFrame
<1> QED
  BY <1>1, <1>2 DEF IInv, TypeOK, CursorsNameRows, FocusIsOnScreen, AnswersHaveJobs, Frame

(***************************************************************************)
(* The steps of a background task and of the store                         *)
(***************************************************************************)
LEMMA GotInv ==
    ASSUME IInv, NEW t \in Tasks, NEW msg \in Msgs, task[t].todo # <<>>, Got(t, msg)
    PROVE  /\ task' \in [Tasks -> [todo: Seq(Jobs), msg: Seq(Msgs)]]
           /\ AnswersHaveJobs'
<1>1. <<msg>> \in Seq(Msgs)
  OBVIOUS
<1> QED
  BY <1>1 DEF IInv, TypeOK, AnswersHaveJobs, Got

LEMMA ChallengeListType ==
    ASSUME TypeOK
    PROVE  ChallengeList \in Seq(Challenges)
<1> DEFINE S == {c \in Challenges : store[c] # {}}
<1>1. Challenges \subseteq Nat /\ IsFiniteSet(Challenges)
  BY ConsoleAssumption, FS_Interval DEF Challenges
<1>2. S \in SUBSET Nat /\ IsFiniteSet(S)
  BY <1>1, FS_Subset
<1>3. Ascending(S) \in Seq(S)
  BY <1>2, AscendingList
<1> QED
  BY <1>3, SeqMonotonic DEF ChallengeList

LEMMA BundleListType ==
    ASSUME TypeOK, NEW c \in Challenges
    PROVE  BundleList(c) \in Seq(Bundles)
<1>1. Bundles \subseteq Nat /\ IsFiniteSet(Bundles)
  BY ConsoleAssumption, FS_Interval DEF Bundles
<1>2. store[c] \in SUBSET Bundles
  BY DEF TypeOK
<1>3. store[c] \in SUBSET Nat /\ IsFiniteSet(store[c])
  BY <1>1, <1>2, FS_Subset
<1>4. Descending(store[c]) \in Seq(store[c])
  BY <1>3, DescendingList
<1> QED
  BY <1>2, <1>4, SeqMonotonic DEF BundleList

LEMMA ReadInv ==
    ASSUME IInv, NEW t \in Tasks, Read(t)
    PROVE  IInv'
<1> DEFINE job == Head(task[t].todo)
<1>1. /\ TypeOK /\ task[t].todo # <<>>
      /\ task[t] \in [todo: Seq(Jobs), msg: Seq(Msgs)]
  BY DEF IInv, TypeOK, Read
<1>2. job \in Jobs
  BY <1>1
<1>3. /\ task' \in [Tasks -> [todo: Seq(Jobs), msg: Seq(Msgs)]]
      /\ AnswersHaveJobs'
  <2>1. CASE job.kind = "challenges" /\ Got(t, Msg("challenges", ChallengeList))
    <3>1. Msg("challenges", ChallengeList) \in Msgs
      BY <1>1, ChallengeListType DEF Msg, Msgs
    <3> QED
      BY <1>1, <2>1, <3>1, GotInv
  <2>2. CASE job.kind = "bundles" /\ Got(t, Msg("bundles", BundleList(job.arg)))
    <3>1. job.arg \in Challenges
      BY <1>2, <2>2 DEF Jobs
    <3>2. Msg("bundles", BundleList(job.arg)) \in Msgs
      BY <1>1, <3>1, BundleListType DEF Msg, Msgs
    <3> QED
      BY <1>1, <2>2, <3>2, GotInv
  <2>3. CASE job.kind = "rows" /\ task' = [task EXCEPT ![t].todo = Tail(@)]
    <3>1. Tail(task[t].todo) \in Seq(Jobs) /\ task[t].msg = <<>>
      BY <1>1 DEF Read
    <3> QED
      BY <1>1, <2>3, <3>1 DEF IInv, TypeOK, AnswersHaveJobs
  <2>4. CASE Got(t, Msg("done", <<>>)) \/ Got(t, Msg("error", <<>>))
    <3>1. Msg("done", <<>>) \in Msgs /\ Msg("error", <<>>) \in Msgs
      BY DEF Msg, Msgs
    <3> QED
      BY <1>1, <2>4, <3>1, GotInv
  <2> QED
    BY <2>1, <2>2, <2>3, <2>4 DEF Read
<1> QED
  BY <1>3 DEF IInv, TypeOK, CursorsNameRows, FocusIsOnScreen, KeyFollowsFrame, Read, Shows,
              Selected

LEMMA CommitType ==
    ASSUME TypeOK, NEW c \in Challenges, Commit(c)
    PROVE  store' \in [Challenges -> SUBSET Bundles]
  BY DEF TypeOK, Commit

LEMMA IngestInv ==
    ASSUME IInv, NEW t \in Tasks, Ingest(t)
    PROVE  IInv'
<1>1. store' \in [Challenges -> SUBSET Bundles]
  BY CommitType DEF IInv, Ingest
<1>2. /\ task' \in [Tasks -> [todo: Seq(Jobs), msg: Seq(Msgs)]]
      /\ AnswersHaveJobs'
  <2>1. PICK kind \in {"done", "error"} : Got(t, Msg(kind, <<>>))
    BY DEF Ingest
  <2>2. Msg(kind, <<>>) \in Msgs
    BY DEF Msg, Msgs
  <2> QED
    BY <2>1, <2>2, GotInv DEF Ingest
<1> QED
  BY <1>1, <1>2 DEF IInv, TypeOK, CursorsNameRows, FocusIsOnScreen, KeyFollowsFrame, Ingest,
                    Shows, Selected

LEMMA SendInv ==
    ASSUME IInv, NEW t \in Tasks, Send(t)
    PROVE  IInv'
<1>1. task[t] \in [todo: Seq(Jobs), msg: Seq(Msgs)] /\ queue \in Seq(Msgs)
  BY DEF IInv, TypeOK
<1>2. queue' \in Seq(Msgs)
  BY <1>1 DEF Send
<1>3. Rest(t) \in Seq(Jobs)
  <2>1. task[t].todo # <<>>
    BY DEF IInv, AnswersHaveJobs, Send
  <2>2. Tail(task[t].todo) \in Seq(Jobs) /\ <<>> \in Seq(Jobs)
    BY <1>1, <2>1
  <2> QED
    BY <2>2 DEF Rest
<1>4. /\ task' \in [Tasks -> [todo: Seq(Jobs), msg: Seq(Msgs)]]
      /\ AnswersHaveJobs'
  <2>1. <<>> \in Seq(Msgs)
    OBVIOUS
  <2> QED
    BY <1>3, <2>1 DEF IInv, TypeOK, AnswersHaveJobs, Send
<1> QED
  BY <1>2, <1>4 DEF IInv, TypeOK, CursorsNameRows, FocusIsOnScreen, KeyFollowsFrame, Send, Shows,
                    Selected

LEMMA ElsewhereInv ==
    ASSUME IInv, Elsewhere
    PROVE  IInv'
<1>1. store' \in [Challenges -> SUBSET Bundles]
  BY CommitType DEF IInv, Elsewhere
<1> QED
  BY <1>1 DEF IInv, TypeOK, CursorsNameRows, FocusIsOnScreen, AnswersHaveJobs, KeyFollowsFrame,
              Elsewhere, Shows, Selected

(***************************************************************************)
(* Keys                                                                    *)
(***************************************************************************)
\* The jobs a key may hand to a task: none of a list's is a release.
Lists == {jobs \in Seq(Jobs) : jobs # <<>> => Head(jobs).kind # "release"}

\* A key that leaves the application well and spawns a task for well-formed jobs.
LEMMA PressInv ==
    ASSUME IInv, NEW a, AppOK(a), NEW jobs \in Seq(Jobs), Press(a, jobs)
    PROVE  IInv'
<1>1. /\ task' \in [Tasks -> [todo: Seq(Jobs), msg: Seq(Msgs)]]
      /\ AnswersHaveJobs'
  <2>1. CASE jobs = <<>>
    BY <2>1 DEF IInv, TypeOK, AnswersHaveJobs, Press
  <2>2. CASE jobs # <<>>
    <3>1. PICK t \in Tasks : task[t] = NoTask /\ task' = [task EXCEPT ![t].todo = jobs]
      BY <2>2 DEF Press
    <3> QED
      BY <3>1, <2>2 DEF IInv, TypeOK, AnswersHaveJobs, NoTask
  <2> QED
    BY <2>1, <2>2
<1>2. app' = a /\ loop' = "frame" /\ UNCHANGED <<store, queue, drawn>>
  BY DEF Press
<1> QED
  BY <1>1, <1>2 DEF IInv, TypeOK, CursorsNameRows, FocusIsOnScreen, KeyFollowsFrame, AppOK

\* The jobs of a refresh are well formed, and none is a release.
LEMMA RefreshActionType ==
    ASSUME NEW a, AppOK(a)
    PROVE  RefreshAction(a) \in Lists
<1>1. \A c \in Challenges : Job("bundles", c) \in Jobs
  BY DEF Job, Jobs
<1>2. Job("challenges", 0) \in Jobs /\ Job("rows", 0) \in Jobs
  BY DEF Job, Jobs
<1>3. a.screen \in ScreenNames
  BY Names DEF AppOK
<1>4. CASE a.screen \in {"inspector", "release"}
  <2>1. Selected(a.challenges, a.challenge_index) \in SUBSET Challenges
    <3>1. a.challenges \in Seq(Challenges) /\ a.challenge_index \in Nat
      BY DEF AppOK
    <3> QED
      BY <3>1, SelectedIsListed
  <2>2. PICK S : S = {Job("bundles", c) : c \in Selected(a.challenges, a.challenge_index)}
    OBVIOUS
  <2>3. S \in SUBSET Jobs /\ (\A job \in S : job.kind = "bundles")
    BY <1>1, <2>1, <2>2 DEF Job
  <2>4. IsFiniteSet(S)
    <3>1. CASE a.challenge_index < Len(a.challenges)
      <4>1. S = {Job("bundles", a.challenges[a.challenge_index + 1])}
        BY <3>1, <2>2 DEF Selected
      <4> QED
        BY <4>1, FS_Singleton
    <3>2. CASE ~(a.challenge_index < Len(a.challenges))
      <4>1. S = {}
        BY <3>2, <2>2 DEF Selected
      <4> QED
        BY <4>1, FS_EmptySet
    <3> QED
      BY <3>1, <3>2
  <2>5. SetToSeq(S) \in Seq(S)
    BY <2>4, SetToSeqType
  <2>6. SetToSeq(S) \in Seq(Jobs) /\ (SetToSeq(S) # <<>> => Head(SetToSeq(S)) \in S)
    BY <2>3, <2>5, SeqMonotonic
  <2>7. RefreshAction(a) = SetToSeq(S)
    BY <1>4, <2>2 DEF RefreshAction
  <2> QED
    BY <2>3, <2>6, <2>7 DEF Lists
<1>5. CASE a.screen = "challenges"
  <2>1. RefreshAction(a) = <<Job("challenges", 0)>>
    BY <1>5 DEF RefreshAction
  <2> QED
    BY <1>2, <2>1 DEF Lists, Job
<1>6. CASE a.screen \in {"verification", "audit"}
  <2>1. RefreshAction(a) = <<Job("rows", 0)>>
    BY <1>6 DEF RefreshAction
  <2> QED
    BY <1>2, <2>1 DEF Lists, Job
<1>7. CASE a.screen = "ingest"
  <2>1. RefreshAction(a) = <<>>
    BY <1>7 DEF RefreshAction
  <2> QED
    BY <2>1 DEF Lists
<1> QED
  BY <1>3, <1>4, <1>5, <1>6, <1>7 DEF ScreenNames

\* What a key may do, whichever it is: it leaves the application well, and a release it
\* spawns is of the bundle under the cursor of the release screen.
KeyDoes(a, jobs) ==
    /\ AppOK(a) /\ jobs \in Seq(Jobs)
    /\ \/ jobs \in Lists
       \/ /\ app.screen = "release"
          /\ \E b \in Selected(app.bundles, app.bundle_index) : Head(jobs) = Job("release", b)

LEMMA TabDoes ==
    ASSUME IInv, NEW delta \in {1, -1}, Tab(delta)
    PROVE  \E a, jobs : KeyDoes(a, jobs) /\ Press(a, jobs)
<1>1. AppOK(app)
  BY InvAppOK
<1>2. PICK screen : screen = Neighbour(Screens, app.screen, delta)
  OBVIOUS
<1>3. screen \in ScreenNames
  BY <1>1, <1>2, Names, NeighbourIsListed DEF AppOK
<1>4. PICK a : a = [app EXCEPT !.screen = screen, !.focus = DefaultFocus(screen)]
  OBVIOUS
<1>5. AppOK(a)
  BY <1>1, <1>3, <1>4, Names DEF AppOK, DefaultFocus, ScreenNames
<1>6. Press(a, RefreshAction(a))
  BY <1>2, <1>4 DEF Tab
<1> QED
  BY <1>5, <1>6, RefreshActionType DEF KeyDoes, Lists

LEMMA MoveSelectionDoes ==
    ASSUME IInv, NEW delta \in {1, -1}, MoveSelection(delta)
    PROVE  \E a, jobs : KeyDoes(a, jobs) /\ Press(a, jobs)
<1>1. AppOK(app) /\ app.screen \in ScreenNames
  BY InvAppOK, Names DEF AppOK
<1>2. <<>> \in Lists
  BY DEF Lists
<1>3. SUFFICES \E a : AppOK(a) /\ Press(a, <<>>)
  BY <1>2 DEF KeyDoes, Lists
<1>4. CASE app.screen = "challenges"
  <2>1. PICK index : index = MoveCursor(app.challenge_index, delta, app.challenges)
    OBVIOUS
  <2>2. index \in Nat /\ (app.challenges # <<>> => index < Len(app.challenges))
    BY <1>1, <2>1, MoveNamesRow DEF AppOK
  <2>3. AppOK([app EXCEPT !.challenge_index = index])
    BY <1>1, <2>2 DEF AppOK
  <2> QED
    BY <1>4, <2>1, <2>3 DEF MoveSelection
<1>5. CASE app.screen = "inspector"
  <2>1. PICK index : index = MoveCursor(app.bundle_index, delta, app.bundles)
    OBVIOUS
  <2>2. index \in Nat /\ (app.bundles # <<>> => index < Len(app.bundles))
    BY <1>1, <2>1, MoveNamesRow DEF AppOK
  <2>3. AppOK([app EXCEPT !.bundle_index = index])
    BY <1>1, <2>2 DEF AppOK
  <2> QED
    BY <1>5, <2>1, <2>3 DEF MoveSelection
<1>6. CASE app.screen = "ingest"
  <2>1. MoveFocus(delta) \in Range(IngestFields)
    <3>1. CASE app.focus \in Range(IngestFields)
      BY <3>1, Names, NeighbourIsListed DEF MoveFocus
    <3>2. CASE app.focus = "none"
      BY <3>2, Names DEF MoveFocus
    <3>3. app.focus # "release key"
      BY <1>1, <1>6 DEF AppOK
    <3> QED
      BY <1>1, <3>1, <3>2, <3>3, Names DEF AppOK
  <2>2. PICK focus : focus = MoveFocus(delta)
    OBVIOUS
  <2>3. AppOK([app EXCEPT !.focus = focus])
    BY <1>1, <1>6, <2>1, <2>2, Names DEF AppOK
  <2> QED
    BY <1>6, <2>2, <2>3 DEF MoveSelection
<1>7. CASE app.screen \in {"release", "verification", "audit"}
  BY <1>1, <1>7 DEF MoveSelection
<1> QED
  BY <1>1, <1>4, <1>5, <1>6, <1>7 DEF ScreenNames

LEMMA EscDoes ==
    ASSUME IInv, Esc
    PROVE  \E a, jobs : KeyDoes(a, jobs) /\ Press(a, jobs)
<1>1. AppOK(app) /\ <<>> \in Lists
  BY InvAppOK DEF Lists
<1>2. SUFFICES \E a : AppOK(a) /\ Press(a, <<>>)
  BY <1>1 DEF KeyDoes, Lists
<1>3. CASE app.focus # "none"
  <2>1. AppOK([app EXCEPT !.focus = "none"])
    BY <1>1, Names DEF AppOK
  <2> QED
    BY <1>3, <2>1 DEF Esc
<1>4. CASE app.focus = "none"
  <2>1. AppOK([app EXCEPT !.screen = "challenges"])
    BY <1>1, <1>4, Names DEF AppOK, ScreenNames
  <2> QED
    BY <1>4, <2>1 DEF Esc
<1> QED
  BY <1>3, <1>4

LEMMA EnterDoes ==
    ASSUME IInv, Enter
    PROVE  \E a, jobs : KeyDoes(a, jobs) /\ Press(a, jobs)
<1>1. AppOK(app) /\ app.screen \in ScreenNames
  BY InvAppOK, Names DEF AppOK
<1>2. PICK a : a = [app EXCEPT !.focus = "none"]
  OBVIOUS
<1>3. AppOK(a) /\ AppOK(Busy)
  BY <1>1, <1>2, Names DEF AppOK, Busy
<1>4. Job("challenges", 0) \in Jobs /\ Job("rows", 0) \in Jobs /\ Job("ingest", 0) \in Jobs
  BY DEF Job, Jobs
<1>5. CASE app.screen = "challenges"
  <2>1. PICK c \in Selected(app.challenges, app.challenge_index) :
            Press([a EXCEPT !.screen = "inspector"], <<Job("bundles", c)>>)
    BY <1>2, <1>5 DEF Enter
  <2>2. c \in Challenges
    <3>1. app.challenges \in Seq(Challenges) /\ app.challenge_index \in Nat
      BY <1>1 DEF AppOK
    <3> QED
      BY <3>1, SelectedIsListed
  <2>3. AppOK([a EXCEPT !.screen = "inspector"])
    BY <1>2, <1>3, Names DEF AppOK, ScreenNames
  <2>4. Job("bundles", c) \in Jobs /\ Job("bundles", c).kind # "release"
    BY <2>2 DEF Job, Jobs
  <2>5. <<Job("bundles", c)>> \in Lists
    BY <2>4 DEF Lists
  <2> QED
    BY <2>1, <2>3, <2>5 DEF KeyDoes, Lists
<1>6. CASE app.screen = "inspector"
  <2>1. PICK b \in Selected(app.bundles, app.bundle_index) : Press(a, <<Job("rows", b)>>)
    BY <1>2, <1>6 DEF Enter
  <2>2. b \in Bundles
    <3>1. app.bundles \in Seq(Bundles) /\ app.bundle_index \in Nat
      BY <1>1 DEF AppOK
    <3> QED
      BY <3>1, SelectedIsListed
  <2>3. Job("rows", b) \in Jobs /\ Job("rows", b).kind # "release"
    BY <2>2 DEF Job, Jobs
  <2>4. <<Job("rows", b)>> \in Lists
    BY <2>3 DEF Lists
  <2> QED
    BY <1>3, <2>1, <2>4 DEF KeyDoes, Lists
<1>7. CASE Refused
  <2>1. <<>> \in Lists
    BY DEF Lists
  <2> QED
    BY <1>2, <1>3, <1>7, <2>1 DEF KeyDoes, Lists, Refused
<1>8. CASE app.screen = "ingest" /\ ~Refused
  <2>1. PICK jobs : jobs = <<Job("ingest", 0), Job("challenges", 0), Job("rows", 0)>>
    OBVIOUS
  <2>2. jobs \in Seq(Jobs) /\ Head(jobs) = Job("ingest", 0)
    BY <1>4, <2>1
  <2>3. jobs \in Lists
    BY <2>2 DEF Lists, Job
  <2>4. Press(Busy, jobs)
    BY <1>8, <2>1 DEF Enter
  <2> QED
    BY <1>3, <2>2, <2>3, <2>4 DEF KeyDoes
<1>9. CASE app.screen = "release" /\ ~Refused
  <2>1. PICK b \in Selected(app.bundles, app.bundle_index) :
            Press(Busy, <<Job("release", b), Job("rows", 0)>>)
    BY <1>9 DEF Enter
  <2>2. b \in Bundles
    <3>1. app.bundles \in Seq(Bundles) /\ app.bundle_index \in Nat
      BY <1>1 DEF AppOK
    <3> QED
      BY <3>1, SelectedIsListed
  <2>3. Job("release", b) \in Jobs
    BY <2>2 DEF Job, Jobs
  <2>4. PICK jobs : jobs = <<Job("release", b), Job("rows", 0)>>
    OBVIOUS
  <2>5. jobs \in Seq(Jobs) /\ Head(jobs) = Job("release", b)
    BY <1>4, <2>3, <2>4
  <2> QED
    BY <1>3, <1>9, <2>1, <2>4, <2>5 DEF KeyDoes
<1>10. CASE app.screen \in {"verification", "audit"}
  <2>1. Press(a, RefreshAction(a))
    BY <1>2, <1>10 DEF Enter
  <2> QED
    BY <1>3, <2>1, RefreshActionType DEF KeyDoes, Lists
<1> QED
  BY <1>1, <1>5, <1>6, <1>7, <1>8, <1>9, <1>10 DEF ScreenNames

LEMMA OtherKeyDoes ==
    ASSUME IInv, Quit \/ Refresh
    PROVE  \E a, jobs : KeyDoes(a, jobs) /\ Press(a, jobs)
<1>1. AppOK(app) /\ <<>> \in Lists
  BY InvAppOK DEF Lists
<1>2. CASE Quit
  <2>1. AppOK([app EXCEPT !.running = FALSE])
    BY <1>1 DEF AppOK
  <2> QED
    BY <1>1, <1>2, <2>1 DEF KeyDoes, Lists, Quit
<1>3. CASE Refresh
  BY <1>1, <1>3, RefreshActionType DEF KeyDoes, Lists, Refresh
<1> QED
  BY <1>2, <1>3

LEMMA KeyPresses ==
    ASSUME IInv, Key
    PROVE  \E a, jobs : KeyDoes(a, jobs) /\ Press(a, jobs)
  BY OtherKeyDoes, EscDoes, EnterDoes, TabDoes, MoveSelectionDoes DEF Key

(***************************************************************************)
(* The theorems                                                            *)
(***************************************************************************)
LEMMA NextInv ==
    ASSUME IInv, [Next]_vars
    PROVE  IInv'
<1>1. CASE Receive
  BY <1>1, ReceiveInv
<1>2. CASE Frame
  BY <1>2, FrameInv
<1>3. CASE NoKey
  BY <1>3 DEF IInv, TypeOK, CursorsNameRows, FocusIsOnScreen, AnswersHaveJobs, KeyFollowsFrame,
              NoKey
<1>4. CASE Key
  BY <1>4, KeyPresses, PressInv DEF KeyDoes
<1>5. CASE \E t \in Tasks : Background(t)
  BY <1>5, ReadInv, IngestInv, SendInv DEF Background
<1>6. CASE Elsewhere
  BY <1>6, ElsewhereInv
<1>7. CASE UNCHANGED vars
  BY <1>7 DEF IInv, TypeOK, CursorsNameRows, FocusIsOnScreen, AnswersHaveJobs, KeyFollowsFrame,
              vars, Shows, Selected
<1> QED
  BY <1>1, <1>2, <1>3, <1>4, <1>5, <1>6, <1>7 DEF Next, Loop

\* The invariant the others follow from (App::apply, App::on_key, the loop of `run`).
THEOREM ConsoleInvariant == Spec => []IInv
<1>1. Init => IInv
  BY InitInv
<1>2. IInv /\ [Next]_vars => IInv'
  BY NextInv
<1> QED
  BY <1>1, <1>2, PTL DEF Spec

\* The state the loop, the tasks and the channel share has its type, however many
\* tasks answer and in whatever order.
THEOREM TypeCorrect == Spec => []TypeOK
<1>1. IInv => TypeOK
  BY DEF IInv
<1> QED
  BY <1>1, ConsoleInvariant, PTL

\* Whatever list replaces another under a cursor (App::apply) and wherever the keys
\* move it (move_cursor), a cursor names a row of a list that has any.
THEOREM CursorsStayOnRows == Spec => []CursorsNameRows
<1>1. IInv => CursorsNameRows
  BY DEF IInv
<1> QED
  BY <1>1, ConsoleInvariant, PTL

\* No order of Tab, Enter, Esc and the arrows leaves the focus in a field of a screen
\* that is not shown (default_focus, move_focus, App::on_key).
THEOREM FocusStaysOnScreen == Spec => []FocusIsOnScreen
<1>1. IInv => FocusIsOnScreen
  BY DEF IInv
<1> QED
  BY <1>1, ConsoleInvariant, PTL

\* A release goes to the bundle of the frame the operator pressed the key on: an answer
\* that arrives after that frame is applied after the key (the loop of `run`).
THEOREM ReleaseGoesToWhatWasDrawn == Spec => ReleasesWhatWasDrawn
<1> DEFINE Released(t, b) == /\ task[t] = NoTask /\ task'[t].todo # <<>>
                             /\ Head(task'[t].todo) = Job("release", b)
           Drawn(b) == drawn.screen = "release" /\ drawn.bundle = {b}
<1>1. ASSUME IInv, [Next]_vars, NEW t \in Tasks, NEW b \in Bundles, Released(t, b)
      PROVE  Drawn(b)
  <2>1. task \in [Tasks -> [todo: Seq(Jobs), msg: Seq(Msgs)]] /\ task' # task
    BY <1>1 DEF IInv, TypeOK, NoTask
  <2>2. ASSUME NEW u \in Tasks, Read(u) \/ Ingest(u) \/ Send(u)
        PROVE  FALSE
    <3>1. u # t
      BY <1>1, <2>2 DEF NoTask, Read, Ingest, Send
    <3>2. task'[t] = task[t]
      BY <2>1, <2>2, <3>1 DEF Read, Ingest, Send, Got
    <3> QED
      BY <1>1, <3>2 DEF NoTask
  <2>3. Key
    BY <1>1, <2>1, <2>2 DEF Next, Loop, Background, Receive, Frame, NoKey, Elsewhere, vars
  <2>4. PICK a, jobs : KeyDoes(a, jobs) /\ Press(a, jobs)
    BY <1>1, <2>3, KeyPresses
  <2>5. jobs = task'[t].todo
    <3>1. PICK u \in Tasks : task' = [task EXCEPT ![u].todo = jobs]
      BY <2>1, <2>4 DEF Press
    <3>2. u = t
      BY <1>1, <2>1, <3>1 DEF NoTask
    <3> QED
      BY <2>1, <3>1, <3>2
  <2>6. jobs \notin Lists
    BY <1>1, <2>5 DEF Lists, Job
  <2>7. /\ app.screen = "release"
        /\ b \in Selected(app.bundles, app.bundle_index)
    <3>1. PICK c \in Selected(app.bundles, app.bundle_index) : Head(jobs) = Job("release", c)
      BY <2>4, <2>6 DEF KeyDoes
    <3>2. Job("release", c) = Job("release", b)
      BY <1>1, <2>5, <3>1
    <3>3. Job("release", c).arg = c /\ Job("release", b).arg = b
      BY DEF Job
    <3>4. c = b
      BY <3>2, <3>3
    <3> QED
      BY <2>4, <2>6, <3>1, <3>4 DEF KeyDoes
  <2>8. drawn = Shows(app)
    BY <1>1, <2>4 DEF IInv, KeyFollowsFrame, Press
  <2> QED
    BY <2>7, <2>8 DEF Shows, Selected
<1>2. IInv /\ [Next]_vars =>
        [\A t \in Tasks, b \in Bundles :
            (task[t] = NoTask /\ task'[t].todo # <<>> /\ Head(task'[t].todo) = Job("release", b))
                => drawn.screen = "release" /\ drawn.bundle = {b}]_vars
  BY <1>1
<1> QED
  BY <1>2, ConsoleInvariant, PTL DEF Spec, ReleasesWhatWasDrawn
=============================================================================
