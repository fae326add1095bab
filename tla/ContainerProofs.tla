--------------------------- MODULE ContainerProofs ---------------------------
(***************************************************************************)
(* Proofs about one file: the invariant of the file's life (IInv) with who *)
(* owns each byte and what a signature fixes, the invariant of the answers *)
(* (JInv) with what a reader can be handed, that of the verify pass        *)
(* (ReportInv) with what its report means, that of the keys (SInv) with    *)
(* what it takes to read a sealed section, and that of what is read back   *)
(* (ReadBackInv), with the serving manifest.                               *)
(***************************************************************************)
EXTENDS Container, FormatProofs

(***************************************************************************)
(* The reader                                                              *)
(***************************************************************************)
NotOpened == {"closed", "refused"}
Opened == {"open", "verifying", "aborted", "reported", "streaming", "streamed"}

\* A reader holds the bundle of the file as it is, and nothing before it opened one.
ReaderInv ==
    /\ DOMAIN reader = DOMAIN Closed
    /\ reader.pc \in {"closed", "refused", "open", "verifying", "aborted", "reported",
                      "streaming", "streamed"}
    /\ reader.pc \in NotOpened => bundle = <<>> /\ ~reader.authentic
    /\ reader.pc \notin NotOpened => Parse(file).ok /\ bundle = Parse(file).value
    /\ file = <<>> => reader.pc = "closed"
    /\ reader.authentic => VerifySignatures(file, bundle, Trusted)

\* The steps of a reader that has opened a file change only what it knows.
Asking ==
    \/ Authenticate \/ AskBytes \/ AskServed \/ AskChunk \/ AskDecrypted \/ AskStage
    \/ StartVerify \/ VerifySection \/ EndVerify
    \/ StartStream \/ (\E n \in 1 .. MaxChunk : StreamRead(n)) \/ StreamEnd

LEMMA AskingKeepsTheFile ==
    ASSUME ReaderInv, Asking
    PROVE  /\ UNCHANGED <<file, made, edits, bundle>>
           /\ reader.pc \notin NotOpened /\ reader'.pc \in Opened
           /\ DOMAIN reader' = DOMAIN reader
           /\ reader'.authentic => reader.authentic \/ VerifySignatures(file, bundle, Trusted)
<1>1. {"pc", "answer", "authentic", "at", "report", "mirror"} \subseteq DOMAIN reader
  BY DEF ReaderInv, Closed
<1>2. CASE Authenticate
  BY <1>1, <1>2 DEF Authenticate, Ready, NotOpened, Opened
<1>3. ASSUME NEW asked, NEW result, Ready, Reply(asked, result)
      PROVE  /\ UNCHANGED <<file, made, edits, bundle>>
             /\ reader.pc \notin NotOpened /\ reader'.pc \in Opened
             /\ DOMAIN reader' = DOMAIN reader
             /\ reader'.authentic => reader.authentic
  BY <1>1, <1>3 DEF Reply, Ready, NotOpened, Opened
<1>4. CASE AskBytes
  BY <1>3, <1>4 DEF AskBytes
<1>5. CASE AskServed
  BY <1>3, <1>5 DEF AskServed
<1>6. CASE AskChunk
  BY <1>3, <1>6 DEF AskChunk
<1>7. CASE AskDecrypted
  BY <1>3, <1>7 DEF AskDecrypted
<1>8. CASE AskStage
  BY <1>3, <1>8 DEF AskStage
<1>9. CASE StartVerify
  BY <1>1, <1>9 DEF StartVerify, Ready, NotOpened, Opened
<1>10. CASE VerifySection
  BY <1>1, <1>10 DEF VerifySection, NotOpened, Opened
<1>11. CASE EndVerify
  BY <1>1, <1>11 DEF EndVerify, NotOpened, Opened
<1>12. CASE StartStream
  BY <1>1, <1>12 DEF StartStream, Ready, NotOpened, Opened
<1>13. CASE \E n \in 1 .. MaxChunk : StreamRead(n)
  BY <1>1, <1>13 DEF StreamRead, Settle, NotOpened, Opened
<1>14. CASE StreamEnd
  BY <1>1, <1>14 DEF StreamEnd, Settle, NotOpened, Opened
<1> QED
  BY <1>2, <1>4, <1>5, <1>6, <1>7, <1>8, <1>9, <1>10, <1>11, <1>12, <1>13, <1>14 DEF Asking

(***************************************************************************)
(* The invariant                                                           *)
(***************************************************************************)
CellsInv == file \in Seq(ToSet(file)) /\ \A c \in ToSet(file) : WellFormed(c)

\* A signature of the trusted key in the file is one the author made, of the file it
\* wrote, and that file is one a reader accepts.
SignedInv ==
    /\ edits = 0 => file = made.file
    /\ DOMAIN made = {"order", "file", "signed"} /\ made.signed \in BOOLEAN
    /\ ~made.signed => \A c \in ToSet(file) : ~ByTrusted(c)
    /\ made.signed =>
         LET b == Parse(made.file).value IN
         /\ Parse(made.file).ok /\ VerifySignatures(made.file, b, Trusted)
         /\ made.file \in Seq(ToSet(made.file)) /\ \A c \in ToSet(made.file) : WellFormed(c)
         /\ \A c \in ToSet(file) :
              ByTrusted(c) => c[2].over = SigInput(b.h.suite, b.foot, Len(made.file))

IInv == ReaderInv /\ CellsInv /\ SignedInv /\ edits \in 0 .. MaxEdits

LEMMA InitInv == Init => IInv
<1> SUFFICES ASSUME Init PROVE IInv
  OBVIOUS
<1>1. ToSet(file) = {} /\ file \in Seq(ToSet(file))
  BY DEF Init, ToSet
<1>2. MaxEdits \in Nat
  BY EditsAssumption
<1> QED
  BY <1>1, <1>2 DEF Init, IInv, ReaderInv, CellsInv, SignedInv, Closed, NotOpened

(***************************************************************************)
(* Steps                                                                   *)
(***************************************************************************)
\* What an order may hold, and where the cells of its file come from.
LEMMA OrdersAreOk ==
    ASSUME NEW order \in Orders
    PROVE  OrderOk(order) /\ \A c : FileCell(order, c) => WellFormed(c) /\ ~ByTrusted(c)
<1>1. OrderOk(order)
  BY OrdersAssumption DEF OrderOk, PayloadCells, PayloadCell, Cells
<1>2. ASSUME NEW c \in Units(order)
      PROVE  ~ByTrusted(c)
  <2>1. PICK s \in ToSet(order.specs) : c \in Supplied(order, s)
    BY DEF Units
  <2>2. CASE c \in ToSet(s.plain) \cup ToSet(s.index)
    BY <2>2, OrdersAssumption DEF PayloadCells, PayloadCell
  <2>3. CASE c \in ToSet(EnvelopesOf(order.suite, s))
    <3>1. PICK i \in DOMAIN EnvelopesOf(order.suite, s) : c = EnvelopesOf(order.suite, s)[i]
      BY <2>3 DEF ToSet
    <3>2. c[1] = "env"
      BY <3>1 DEF EnvelopesOf
    <3> QED
      BY <3>2 DEF ByTrusted
  <2> QED
    BY <2>1, <2>2, <2>3 DEF Supplied
<1> QED
  BY <1>1, <1>2 DEF FileCell, OrderCell, ByTrusted

LEMMA WriteBundleInv ==
    ASSUME IInv, NEW order \in Orders, WriteBundle(order)
    PROVE  IInv'
<1>1. OrderOk(order)
  BY OrdersAreOk
<1>2. PayloadCells(Laid(order))
  <2>1. FileCells(order, Laid(order))
    BY <1>1, LaidCells DEF Laid
  <2> QED
    BY <2>1, OrdersAreOk DEF PayloadCells, PayloadCell, FileCells
<1>3. file' = Laid(order) /\ made'.file = Laid(order) /\ made'.signed = FALSE
      /\ DOMAIN made' = {"order", "file", "signed"} /\ UNCHANGED <<edits, bundle, reader>>
  BY DEF WriteBundle
<1>4. reader.pc = "closed"
  BY DEF IInv, ReaderInv, WriteBundle
<1>5. ReaderInv'
  BY <1>3, <1>4 DEF IInv, ReaderInv, NotOpened
<1>6. CellsInv'
  BY <1>2, <1>3 DEF CellsInv, PayloadCells, PayloadCell
<1>7. SignedInv'
  BY <1>2, <1>3 DEF SignedInv, PayloadCells, PayloadCell
<1> QED
  BY <1>3, <1>5, <1>6, <1>7 DEF IInv

\* What an edit may write without copying it: nothing signed, wrapped, packed or sealed.
Stray(c) == WellFormed(c) /\ c[1] \in {"hdr", "rec", "foot", "zero", "data"}

\* Every cell of g is well formed, and is one of f if it took a key or a packer to make.
Derived(f, g) ==
    /\ g \in Seq(ToSet(g))
    /\ \A c \in ToSet(g) : /\ WellFormed(c)
                           /\ c[1] \in {"sig", "env", "zstd", "aead"} => c \in ToSet(f)

LEMMA OverwrittenDerived ==
    ASSUME NEW f, f \in Seq(ToSet(f)), \A c \in ToSet(f) : WellFormed(c),
           NEW p \in DOMAIN f, NEW c, Stray(c) \/ c \in ToSet(f),
           NEW g, g = [f EXCEPT ![p] = c]
    PROVE  Derived(f, g)
<1> DEFINE e == [f EXCEPT ![p] = c]
           C == ToSet(f) \cup {c}
<1>1. \A i \in DOMAIN f : f[i] \in ToSet(f)
  BY DEF ToSet
<1>2. e = [i \in DOMAIN f |-> e[i]] /\ \A i \in DOMAIN f : e[i] \in C
  BY <1>1
<1> HIDE DEF e, C
<1>3. e \in Seq(ToSet(e)) /\ ToSet(e) \subseteq C
  BY <1>2, SameLength
<1>4. Derived(f, e)
  BY <1>3 DEF Derived, Stray, C
<1> QED
  BY <1>4 DEF e

LEMMA EditedCells ==
    ASSUME NEW f, f # <<>>, f \in Seq(ToSet(f)), \A c \in ToSet(f) : WellFormed(c),
           NEW g \in CellEdits(f) \cup LengthEdits(f) \cup HeaderEdits(f)
                     \cup RecordEdits(f) \cup FooterEdits(f)
    PROVE  Derived(f, g)
<1>0. /\ Len(f) \in Nat \ {0} /\ DOMAIN f = 1 .. Len(f)
      /\ \A i \in DOMAIN f : f[i] \in ToSet(f)
  BY DEF ToSet
<1>1. Stray(<<"zero", 0>>) /\ Stray(<<"data", 9>>)
  BY DEF Stray, WellFormed, Unpacks, Tags
<1>2. CASE g \in CellEdits(f)
  <2>1. PICK p \in DOMAIN f, q \in DOMAIN f :
            \/ g \in {[f EXCEPT ![p] = <<"zero", 0>>], [f EXCEPT ![p] = <<"data", 9>>]}
            \/ g = [f EXCEPT ![p] = f[q]]
            \/ g = [f EXCEPT ![p] = f[q], ![q] = f[p]]
    BY <1>2 DEF CellEdits
  <2>2. CASE g \in {[f EXCEPT ![p] = <<"zero", 0>>], [f EXCEPT ![p] = <<"data", 9>>]}
    <3>1. g = [f EXCEPT ![p] = <<"zero", 0>>] \/ g = [f EXCEPT ![p] = <<"data", 9>>]
      BY <2>2
    <3> QED
      BY <1>1, <3>1, OverwrittenDerived
  <2>3. CASE g = [f EXCEPT ![p] = f[q]]
    BY <1>0, <2>3, OverwrittenDerived
  <2>4. CASE g = [f EXCEPT ![p] = f[q], ![q] = f[p]]
    <3> DEFINE e == [f EXCEPT ![p] = f[q], ![q] = f[p]]
    <3>1. e = [i \in DOMAIN f |-> e[i]] /\ \A i \in DOMAIN f : e[i] \in ToSet(f)
      BY <1>0
    <3> HIDE DEF e
    <3>2. e \in Seq(ToSet(e)) /\ ToSet(e) \subseteq ToSet(f)
      <4> DEFINE C == ToSet(f)
      <4> HIDE DEF C
      <4>1. e = [i \in DOMAIN f |-> e[i]] /\ \A i \in DOMAIN f : e[i] \in C
        BY <3>1 DEF C
      <4>2. e \in Seq(ToSet(e)) /\ ToSet(e) \subseteq C
        BY <4>1, SameLength
      <4> QED
        BY <4>2 DEF C
    <3>3. Derived(f, e)
      BY <3>2 DEF Derived
    <3> QED
      BY <2>4, <3>3 DEF e
  <2> QED
    BY <2>1, <2>2, <2>3, <2>4
<1>3. CASE g \in LengthEdits(f)
  <2>1. \/ \E n \in Int : n <= Len(f) /\ g = SubSeq(f, 1, n)
        \/ \E c : (Stray(c) \/ c \in ToSet(f)) /\ g = Append(f, c)
    <3>1. \/ g = Append(f, <<"zero", 0>>) \/ g = Append(f, f[Len(f)])
          \/ g = SubSeq(f, 1, Len(f) - 1) \/ g = SubSeq(f, 1, Len(f) - 2)
      BY <1>3 DEF LengthEdits
    <3>2. /\ Len(f) - 1 \in Int /\ Len(f) - 1 <= Len(f)
          /\ Len(f) - 2 \in Int /\ Len(f) - 2 <= Len(f)
          /\ f[Len(f)] \in ToSet(f)
      BY <1>0
    <3> QED
      BY <1>1, <3>1, <3>2
  <2>2. ASSUME NEW n \in Int, n <= Len(f), g = SubSeq(f, 1, n)
        PROVE  Derived(f, g)
    BY <2>2, CutCells DEF Derived
  <2>3. ASSUME NEW c, Stray(c) \/ c \in ToSet(f), g = Append(f, c)
        PROVE  Derived(f, g)
    <3> DEFINE C == ToSet(f) \cup {c}
    <3>1. f \in Seq(C) /\ c \in C
      <4> DEFINE S == ToSet(f)
      <4>1. f \in Seq(S)
        OBVIOUS
      <4> HIDE DEF S
      <4> QED
        BY <4>1 DEF C, S
    <3> HIDE DEF C
    <3>2. g \in Seq(C)
      BY <2>3, <3>1
    <3>3. g \in Seq(ToSet(g)) /\ ToSet(g) \subseteq C
      BY <3>2, OneSequence
    <3> QED
      BY <2>3, <3>3 DEF C, Derived, Stray
  <2> QED
    BY <2>1, <2>2, <2>3
<1>4. CASE g \in HeaderEdits(f)
  <2>0. PICK p \in DOMAIN f :
            \E v \in Variants(f[p][2], HeaderValues(f[p][2])) : g = [f EXCEPT ![p] = <<"hdr", v>>]
    BY <1>4 DEF HeaderEdits
  <2>1. PICK v : g = [f EXCEPT ![p] = <<"hdr", v>>]
    BY <2>0
  <2>2. Stray(<<"hdr", v>>)
    BY DEF Stray, WellFormed, Unpacks, Tags
  <2> QED
    BY <2>1, <2>2, OverwrittenDerived
<1>5. CASE g \in RecordEdits(f)
  <2>0. PICK p \in DOMAIN f :
            \E v \in Variants(f[p][2], RecordValues(f, f[p][2])) : g = [f EXCEPT ![p] = <<"rec", v>>]
    BY <1>5 DEF RecordEdits
  <2>1. PICK v : g = [f EXCEPT ![p] = <<"rec", v>>]
    BY <2>0
  <2>2. Stray(<<"rec", v>>)
    BY DEF Stray, WellFormed, Unpacks, Tags
  <2> QED
    BY <2>1, <2>2, OverwrittenDerived
<1>6. CASE g \in FooterEdits(f)
  <2>0. PICK p \in DOMAIN f :
            /\ f[p][1] = "foot"
            /\ \E v \in Variants(f[p][2], [cls |-> 0 .. 2, pq |-> 0 .. 2]) :
                  g = [f EXCEPT ![p] = <<"foot", v>>]
    BY <1>6 DEF FooterEdits
  <2>1. PICK v \in Variants(f[p][2], [cls |-> 0 .. 2, pq |-> 0 .. 2]) :
            f[p][1] = "foot" /\ g = [f EXCEPT ![p] = <<"foot", v>>]
    BY <2>0
  <2>2. \E k \in {"cls", "pq"} : \E x : v = [f[p][2] EXCEPT ![k] = x]
    BY DEF Variants
  <2>3. f[p][2] = [root |-> f[p][2].root, cls |-> f[p][2].cls, pq |-> f[p][2].pq]
    BY <1>0, <2>1 DEF WellFormed
  <2>4. v = [root |-> v.root, cls |-> v.cls, pq |-> v.pq]
    BY <2>2, <2>3
  <2>5. Stray(<<"foot", v>>)
    BY <2>4 DEF Stray, WellFormed, Unpacks, Tags
  <2> QED
    BY <2>1, <2>5, OverwrittenDerived
<1> QED
  BY <1>2, <1>3, <1>4, <1>5, <1>6

LEMMA DerivedCells ==
    ASSUME NEW f, NEW g, Derived(f, g)
    PROVE  /\ g \in Seq(ToSet(g)) /\ \A c \in ToSet(g) : WellFormed(c)
           /\ \A c \in ToSet(g) : ByTrusted(c) => c \in ToSet(f)
           /\ \A c \in ToSet(g) : c[1] \in {"env", "zstd", "aead"} => c \in ToSet(f)
<1>1. /\ g \in Seq(ToSet(g)) /\ \A c \in ToSet(g) : WellFormed(c)
      /\ \A c \in ToSet(g) : c[1] \in {"sig", "env", "zstd", "aead"} => c \in ToSet(f)
  BY DEF Derived
<1>2. \A c \in ToSet(g) : ByTrusted(c) => c \in ToSet(f)
  BY <1>1 DEF ByTrusted
<1>3. \A c \in ToSet(g) : c[1] \in {"env", "zstd", "aead"} => c \in ToSet(f)
  BY <1>1
<1> QED
  BY <1>1, <1>2, <1>3

\* A change of a stored file that signs nothing.
LEMMA ChangedInv ==
    ASSUME IInv, file # <<>>, reader.pc = "closed", edits' > 0, edits' \in 0 .. MaxEdits,
           Derived(file, file'), UNCHANGED <<made, bundle, reader>>
    PROVE  IInv'
<1>1. ReaderInv'
  BY DEF IInv, ReaderInv, NotOpened
<1>2. CellsInv'
  BY DerivedCells DEF CellsInv
<1>3. SignedInv'
  <2>1. \A c \in ToSet(file') : ByTrusted(c) => c \in ToSet(file)
    BY DerivedCells
  <2> QED
    BY <2>1 DEF IInv, SignedInv
<1> QED
  BY <1>1, <1>2, <1>3 DEF IInv

LEMMA EditDerived ==
    ASSUME IInv, Edit
    PROVE  Derived(file, file')
BY EditedCells DEF Edit, IInv, CellsInv

LEMMA EditInv ==
    ASSUME IInv, Edit
    PROVE  IInv'
<1>1. edits' > 0 /\ edits' \in 0 .. MaxEdits
  BY EditsAssumption DEF Edit, IInv
<1> QED
  BY <1>1, EditDerived, ChangedInv DEF Edit

LEMMA RecommitDerived ==
    ASSUME IInv, Recommit
    PROVE  Derived(file, file')
<1> DEFINE h == file[1][2]
           k == h.footerOff + 1
           root == CommitmentRoot(file[1], Slice(file, h.tableOff, TableEnd(h)))
           v == [file[k][2] EXCEPT !.root = root]
<1>1. /\ file' = [file EXCEPT ![k][2].root = root] /\ file' # file
      /\ file[k][1] = "foot"
  BY DEF Recommit
<1> HIDE DEF k, root
<1>2. k \in DOMAIN file
  <2>1. file = [i \in DOMAIN file |-> file[i]]
    BY DEF IInv, CellsInv
  <2> QED
    BY <1>1, <2>1
<1>3. WellFormed(file[k])
  BY <1>2 DEF IInv, CellsInv, ToSet
<1>4. file[k] = <<"foot", file[k][2]>>
      /\ file[k][2] = [root |-> file[k][2].root, cls |-> file[k][2].cls, pq |-> file[k][2].pq]
  BY <1>1, <1>3 DEF WellFormed
<1>5. [file[k] EXCEPT ![2].root = root] = <<"foot", v>>
  BY <1>4
<1>6. file' = [file EXCEPT ![k] = <<"foot", v>>]
  BY <1>1, <1>5
<1>7. v = [root |-> v.root, cls |-> v.cls, pq |-> v.pq]
  BY <1>4
<1>8. Stray(<<"foot", v>>)
  BY <1>7 DEF Stray, WellFormed, Unpacks, Tags
<1> QED
  BY <1>2, <1>6, <1>8, OverwrittenDerived DEF IInv, CellsInv

LEMMA RecommitInv ==
    ASSUME IInv, Recommit
    PROVE  IInv'
<1>1. edits' > 0 /\ edits' \in 0 .. MaxEdits
  BY EditsAssumption DEF Recommit, IInv
<1> QED
  BY <1>1, RecommitDerived, ChangedInv DEF Recommit

LEMMA SignBundleInv ==
    ASSUME IInv, NEW key \in Signers, NEW public \in Signers, SignBundle(key, public)
    PROVE  IInv'
<1> DEFINE b == Parse(file).value
           h == file[1][2]
           k == h.footerOff
           g == Signed(file, h, key)
           foot == [root |-> FootAt(file, h).root, cls |-> SlotLen, pq |-> SlotLen]
           over == SigInput(h.suite, foot, k + 4)
<1>1. file \in Seq(ToSet(file)) /\ \A i \in DOMAIN file : WellFormed(file[i]) /\ file[i] \in ToSet(file)
  BY DEF IInv, CellsInv, ToSet
<1>2. Parse(file).ok /\ b.foot.cls = 0 /\ file # <<>> /\ reader.pc = "closed"
      /\ (key = Trusted => edits = 0)
  BY DEF SignBundle
<1>3. /\ b.h = h /\ 1 \in DOMAIN file /\ k \in Nat /\ k >= 1 /\ k + 2 <= Len(file)
      /\ file[k + 1][1] = "foot"
  <2>1. /\ h = b.h /\ 1 \in DOMAIN file /\ k \in Nat /\ h.tableOff \in Nat /\ h.count \in Nat
        /\ TableEnd(h) <= k /\ h.tableOff >= 1
        /\ k + 2 <= Len(file) /\ file[k + 1][1] = "foot"
    BY <1>1, <1>2, FooterFacts
  <2> QED
    BY <2>1 DEF TableEnd
<1>4. /\ Parse(g).ok /\ VerifySignatures(g, Parse(g).value, public)
      /\ file' = g /\ UNCHANGED <<edits, bundle, reader>>
      /\ made' = IF edits = 0 THEN [made EXCEPT !.file = g, !.signed = key = Trusted] ELSE made
  BY <1>3 DEF SignBundle
<1>5. Len(file) \in Nat /\ DOMAIN file = 1 .. Len(file) /\ k < Len(file) /\ k + 1 \in DOMAIN file
  <2> HIDE DEF k
  <2>1. Len(file) \in Nat /\ DOMAIN file = 1 .. Len(file)
    BY <1>1
  <2> QED
    BY <1>3, <2>1
<1>6. /\ g \in Seq(ToSet(g)) /\ Len(g) = k + 4
      /\ \A i \in 1 .. k : g[i] = file[i]
      /\ g[k + 1] = <<"foot", foot>>
      /\ g[k + 2] = <<"sig", [key |-> key, part |-> "cls", over |-> over]>>
      /\ g[k + 3] = <<"sig", [key |-> key, part |-> "pq", over |-> over]>>
      /\ g[k + 4] = <<"tail", k + 4>>
  <2>1. WellFormed(file[k + 1])
    BY <1>1, <1>5
  <2>2. /\ file \in Seq(ToSet(file)) /\ h.footerOff \in Nat /\ h.footerOff < Len(file)
        /\ WellFormed(file[h.footerOff + 1]) /\ file[h.footerOff + 1][1] = "foot"
    BY <1>1, <1>3, <1>5, <2>1
  <2> HIDE DEF h
  <2> QED
    BY <2>2, SignedCells
<1>7. g[1] = file[1] /\ Parse(g).value.h = h /\ Parse(g).value.foot = foot
  <2>1. g[1] = file[1]
    BY <1>3, <1>6
  <2>2. Parse(g).value.h = g[1][2] /\ Parse(g).value.foot = g[g[1][2].footerOff + 1][2]
    BY <1>4, <1>6, FooterFacts
  <2> QED
    BY <1>6, <2>1, <2>2
<1>8. key = public
  <2> DEFINE sigs == Slice(g, k + 1, Len(g) - 1)
             good == <<"sig", [key |-> public, part |-> "cls",
                               over |-> SigInput(h.suite, foot, Len(g))]>>
  <2>1. sigs[1] = good
    BY <1>4, <1>7 DEF VerifySignatures
  <2>2. sigs[1] = g[k + 2]
    <3> HIDE DEF g, k
    <3>1. k + 2 \in Int /\ k + 3 \in Int /\ k + 2 >= 1 /\ k + 3 <= Len(g)
      BY <1>3, <1>6
    <3>2. \A i \in 1 .. (k + 3) - (k + 2) + 1 : SubSeq(g, k + 2, k + 3)[i] = g[(k + 2) + i - 1]
      BY <1>6, <3>1, CutCells
    <3>3. sigs = SubSeq(g, k + 2, k + 3)
      <4>1. (k + 1) + 1 = k + 2 /\ Len(g) - 1 = k + 3
        BY <1>3, <1>6
      <4> QED
        BY <4>1 DEF Slice
    <3>4. 1 \in 1 .. (k + 3) - (k + 2) + 1 /\ (k + 2) + 1 - 1 = k + 2
      BY <1>3
    <3> QED
      BY <3>2, <3>3, <3>4
  <2>3. good[2].key = public /\ g[k + 2][2].key = key
    BY <1>6
  <2> HIDE DEF sigs, good
  <2> QED
    BY <2>1, <2>2, <2>3
<1>9. made.signed = FALSE \/ edits # 0
  BY <1>2 DEF IInv, SignedInv, VerifySignatures
<1> HIDE DEF b, h, g, foot, over
<1>10. \A c \in ToSet(g) :
          \/ c \in ToSet(file) \/ c = <<"foot", foot>> \/ c = <<"tail", k + 4>>
          \/ c = <<"sig", [key |-> key, part |-> "cls", over |-> over]>>
          \/ c = <<"sig", [key |-> key, part |-> "pq", over |-> over]>>
  <2> SUFFICES ASSUME NEW i \in DOMAIN g
               PROVE  \/ g[i] \in ToSet(file) \/ g[i] = <<"foot", foot>> \/ g[i] = <<"tail", k + 4>>
                      \/ g[i] = <<"sig", [key |-> key, part |-> "cls", over |-> over]>>
                      \/ g[i] = <<"sig", [key |-> key, part |-> "pq", over |-> over]>>
    BY DEF ToSet
  <2> HIDE DEF k
  <2>1. i \in 1 .. k + 4 /\ k \in Nat
    BY <1>3, <1>6
  <2>2. i \in 1 .. k \/ i = k + 1 \/ i = k + 2 \/ i = k + 3 \/ i = k + 4
    BY <2>1
  <2>3. i \in 1 .. k => g[i] \in ToSet(file)
    <3>1. i \in 1 .. k => i \in DOMAIN file
      BY <1>5, <2>1
    <3> QED
      BY <1>1, <1>6, <3>1
  <2> QED
    BY <1>6, <2>2, <2>3
<1>11. \A c \in ToSet(g) : WellFormed(c)
  <2>1. WellFormed(<<"foot", foot>>)
    BY DEF WellFormed, Unpacks, Tags, foot
  <2>2. \A n : WellFormed(<<"tail", n>>) /\ WellFormed(<<"sig", n>>)
    BY DEF WellFormed, Unpacks, Tags
  <2> QED
    BY <1>10, <2>1, <2>2 DEF IInv, CellsInv
<1>12. \A c \in ToSet(g) : ByTrusted(c) => c \in ToSet(file) \/ (key = Trusted /\ c[2].over = over)
  BY <1>10 DEF ByTrusted
<1>13. ReaderInv'
  BY <1>2, <1>4, <1>3 DEF IInv, ReaderInv, NotOpened
<1>14. CellsInv'
  BY <1>4, <1>6, <1>11 DEF CellsInv
<1>15. SignedInv'
  <2>1. CASE edits # 0
    BY <1>2, <1>4, <1>12, <2>1 DEF IInv, SignedInv
  <2>2. CASE edits = 0
    <3>1. made'.file = g /\ made'.signed = (key = Trusted) /\ DOMAIN made' = DOMAIN made
      BY <1>4, <2>2 DEF IInv, SignedInv
    <3>2. \A c \in ToSet(file) : ~ByTrusted(c)
      BY <1>9, <2>2 DEF IInv, SignedInv
    <3>3. \A c \in ToSet(g) : ByTrusted(c) => key = Trusted /\ c[2].over = over
      BY <1>12, <3>2
    <3>4. over = SigInput(Parse(g).value.h.suite, Parse(g).value.foot, Len(g))
      BY <1>6, <1>7 DEF over
    <3>5. made' = [made EXCEPT !.file = g, !.signed = key = Trusted]
      BY <1>4, <2>2
    <3> QED
      BY <1>4, <1>6, <1>8, <1>11, <3>1, <3>3, <3>4 DEF IInv, SignedInv
  <2> QED
    BY <2>1, <2>2
<1> QED
  BY <1>4, <1>13, <1>14, <1>15 DEF IInv

LEMMA OpenInv ==
    ASSUME IInv, Open
    PROVE  IInv'
<1>1. /\ file # <<>> /\ reader.pc = "closed" /\ ~reader.authentic /\ UNCHANGED <<file, made, edits>>
      /\ reader'.authentic = FALSE /\ DOMAIN reader' = DOMAIN Closed
      /\ \/ Parse(file).ok /\ bundle' = Parse(file).value /\ reader'.pc = "open"
         \/ bundle' = <<>> /\ reader'.pc = "refused"
  BY DEF Open, Closed, IInv, ReaderInv, NotOpened
<1>2. ReaderInv'
  BY <1>1 DEF ReaderInv, NotOpened
<1> QED
  BY <1>1, <1>2 DEF IInv, CellsInv, SignedInv

LEMMA AskingInv ==
    ASSUME IInv, Asking
    PROVE  IInv'
<1>1. /\ UNCHANGED <<file, made, edits, bundle>>
      /\ reader.pc \notin NotOpened /\ reader'.pc \in Opened
      /\ DOMAIN reader' = DOMAIN reader
      /\ reader'.authentic => reader.authentic \/ VerifySignatures(file, bundle, Trusted)
  BY AskingKeepsTheFile DEF IInv
<1>2. ReaderInv'
  BY <1>1 DEF IInv, ReaderInv, NotOpened, Opened
<1> QED
  BY <1>1, <1>2 DEF IInv, CellsInv, SignedInv

LEMMA NextInv ==
    ASSUME IInv, [Next]_vars
    PROVE  IInv'
<1>1. CASE \E order \in Orders : WriteBundle(order)
  BY <1>1, WriteBundleInv
<1>2. CASE \E key, public \in Signers : SignBundle(key, public)
  BY <1>2, SignBundleInv
<1>3. CASE Edit
  BY <1>3, EditInv
<1>4. CASE Recommit
  BY <1>4, RecommitInv
<1>5. CASE Open
  BY <1>5, OpenInv
<1>6. CASE Asking
  BY <1>6, AskingInv
<1>7. CASE UNCHANGED vars
  BY <1>7 DEF vars, IInv, ReaderInv, CellsInv, SignedInv, NotOpened
<1> QED
  BY <1>1, <1>2, <1>3, <1>4, <1>5, <1>6, <1>7 DEF Next, Asking

\* The invariant of the whole life of a file: a reader holds the bundle of the file as it
\* is, every cell of the file is one some operation can have written, and a signature of
\* the trusted key is over the file its holder wrote (write_bundle, sign_bundle,
\* Bundle::parse, verify_signatures).
THEOREM ContainerInvariant == Spec => []IInv
<1>1. Init => IInv
  BY InitInv
<1>2. IInv /\ [Next]_vars => IInv'
  BY NextInv
<1> QED
  BY <1>1, <1>2, PTL DEF Spec

(***************************************************************************)
(* What a reader holds                                                     *)
(***************************************************************************)
\* An opened bundle is one that parsed.
LEMMA OpenedBundle ==
    ASSUME IInv
    PROVE  /\ bundle # <<>> <=> reader.pc \notin NotOpened
           /\ reader.authentic => bundle # <<>>
           /\ bundle # <<>> => Parse(file).ok /\ bundle = Parse(file).value
BY SomeBundle DEF IInv, ReaderInv

LEMMA OneOwnerOfEach ==
    ASSUME IInv
    PROVE  EveryByteHasOneOwner
<1> SUFFICES ASSUME bundle # <<>>, NEW o \in 0 .. bundle.h.footerOff - 1
             PROVE  /\ Cardinality(Owners(bundle.h, ToSet(bundle.secs), o)) <= 1
                    /\ Owners(bundle.h, ToSet(bundle.secs), o) = {} => file[o + 1] = <<"zero", 0>>
  BY DEF EveryByteHasOneOwner, Owners, Within
<1>1. Tabled(file, bundle.h, bundle.secs, bundle.h.count)
  BY OpenedBundle, TableFacts DEF IInv, CellsInv
<1> QED
  BY <1>1, OneOwner

\* Whoever wrote the table of a file that a reader opened, no byte before the footer belongs
\* to two of header, table, payloads and indices, and one that belongs to none is zero: the
\* sorted walk of validate_layout and the cursor of check_padding miss nothing.
THEOREM BytesHaveOneOwner == Spec => []EveryByteHasOneOwner
<1>1. IInv => EveryByteHasOneOwner
  BY OneOwnerOfEach
<1> QED
  BY <1>1, ContainerInvariant, PTL

LEMMA InvTypes ==
    ASSUME IInv
    PROVE  TypeOK
<1>1. \A p \in DOMAIN file : file[p][1] \in Tags
  BY DEF IInv, CellsInv, WellFormed, ToSet
<1>2. bundle # <<>> <=> reader.pc \notin {"closed", "refused"}
  BY OpenedBundle DEF NotOpened
<1>3. ASSUME reader.authentic
      PROVE  bundle.foot.cls = SlotLen /\ bundle.foot.pq = SlotLen
  <2>1. Parse(file).ok /\ bundle = Parse(file).value
    BY <1>3, OpenedBundle
  <2>2. SlotsOk(bundle.h, bundle.foot) /\ bundle.h.suite \in KnownSuites
    BY <2>1, ParseFacts
  <2>3. bundle.foot.cls # 0
    BY <1>3 DEF IInv, ReaderInv, VerifySignatures
  <2> QED
    BY <2>2, <2>3 DEF SlotsOk
<1> QED
  BY <1>1, <1>2, <1>3 DEF TypeOK, IInv, ReaderInv

\* The variables have their types; only an opened file has a bundle, and one whose
\* signatures verified has a footer with both slots filled (F10).
THEOREM ContainerTypes == Spec => []TypeOK
<1>1. IInv => TypeOK
  BY InvTypes
<1> QED
  BY <1>1, ContainerInvariant, PTL

(***************************************************************************)
(* What a signature fixes                                                  *)
(***************************************************************************)
\* Under a verified signature, a reader's records are those of the file the author signed.
LEMMA SignedBundle ==
    ASSUME IInv, reader.authentic
    PROVE  /\ made.signed /\ Parse(made.file).ok /\ Cells(made.file)
           /\ Agree(file, made.file) /\ bundle.secs = Parse(made.file).value.secs
<1> DEFINE g == made.file
<1>1. Parse(file).ok /\ bundle = Parse(file).value /\ VerifySignatures(file, bundle, Trusted)
  BY OpenedBundle DEF IInv, ReaderInv
<1>2. Cells(file) /\ file \in Seq(ToSet(file))
  BY DEF IInv, CellsInv, Cells
<1>3. PICK k : k = bundle.h.footerOff
  OBVIOUS
<1>4. /\ k \in Nat /\ Len(file) = k + 4
      /\ file[k + 2] = <<"sig", [key |-> Trusted, part |-> "cls",
                                 over |-> SigInput(bundle.h.suite, bundle.foot, Len(file))]>>
  BY <1>1, <1>2, <1>3, SignedFooter
<1>5. ByTrusted(file[k + 2]) /\ file[k + 2] \in ToSet(file)
  <2>1. k + 2 \in DOMAIN file
    BY <1>2, <1>4
  <2>2. file[k + 2][1] = "sig" /\ file[k + 2][2].key = Trusted
    BY <1>4
  <2> QED
    BY <2>1, <2>2 DEF ByTrusted, ToSet
<1>6. /\ Parse(g).ok /\ VerifySignatures(g, Parse(g).value, Trusted) /\ Cells(g)
      /\ file[k + 2][2].over = SigInput(Parse(g).value.h.suite, Parse(g).value.foot, Len(g))
  BY <1>5 DEF IInv, SignedInv, Cells
<1>7. /\ VerifySignatures(file, Parse(file).value, Trusted)
      /\ SigInput(Parse(file).value.h.suite, Parse(file).value.foot, Len(file))
           = SigInput(Parse(g).value.h.suite, Parse(g).value.foot, Len(g))
  BY <1>1, <1>4, <1>6
<1>8. Agree(file, g)
  <2> HIDE DEF g
  <2> QED
    BY <1>1, <1>2, <1>6, <1>7, SameTranscript
<1> QED
  BY <1>1, <1>5, <1>6, <1>8 DEF Agree, IInv, SignedInv

LEMMA FixedBySignature ==
    ASSUME IInv
    PROVE  SignatureFixesTheFile
<1> DEFINE outside(o) == \A r \in ToSet(bundle.secs) :
                /\ "EXTERNAL" \in r.flags \/ o \notin r.offset .. StoredEnd(r) - 1
                /\ r.indexOff = 0 \/ o \notin r.indexOff .. IndexEnd(r) - 1
           g == made.file
           h == bundle.h
           k == h.footerOff
<1> SUFFICES ASSUME reader.authentic
             PROVE  /\ made.signed /\ Len(file) = Len(g)
                    /\ \A p \in DOMAIN file : outside(p - 1) => file[p] = g[p]
  BY DEF SignatureFixesTheFile
<1>1. Parse(file).ok /\ bundle = Parse(file).value /\ VerifySignatures(file, bundle, Trusted)
  BY OpenedBundle DEF IInv, ReaderInv
<1>2. Cells(file) /\ file \in Seq(ToSet(file))
  BY DEF IInv, CellsInv, Cells
<1>3. /\ k \in Nat /\ Len(file) = k + 4
      /\ file[k + 2] = <<"sig", [key |-> Trusted, part |-> "cls",
                                 over |-> SigInput(h.suite, bundle.foot, Len(file))]>>
  BY <1>1, <1>2, SignedFooter
<1>4. made.signed /\ Parse(g).ok /\ Cells(g) /\ g \in Seq(ToSet(g)) /\ Agree(file, g)
  BY SignedBundle DEF Cells
<1>5. /\ Len(file) = Len(g) /\ file[1] = g[1]
      /\ h = Parse(g).value.h /\ bundle.secs = Parse(g).value.secs
      /\ Slice(file, h.tableOff, TableEnd(h)) = Slice(g, h.tableOff, TableEnd(h))
      /\ \A p \in k + 1 .. Len(file) : file[p] = g[p]
  BY <1>1, <1>4 DEF Agree
<1>6. /\ Tabled(file, h, bundle.secs, h.count) /\ Tabled(g, h, bundle.secs, h.count)
      /\ \A i \in 1 .. h.count : file[h.tableOff + i] = g[h.tableOff + i]
  <2> DEFINE b == Parse(file).value
             m == Parse(g).value
  <2>1. /\ Tabled(file, b.h, b.secs, b.h.count)
        /\ \A i \in 1 .. b.h.count :
              file[b.h.tableOff + i] = Slice(file, b.h.tableOff, TableEnd(b.h))[i]
    BY <1>1, <1>2, TableFacts
  <2>2. /\ Tabled(g, m.h, m.secs, m.h.count)
        /\ \A i \in 1 .. m.h.count :
              g[m.h.tableOff + i] = Slice(g, m.h.tableOff, TableEnd(m.h))[i]
    BY <1>4, TableFacts
  <2>3. b.h = h /\ m.h = h /\ b.secs = bundle.secs /\ m.secs = bundle.secs
    BY <1>1, <1>5
  <2> HIDE DEF b, m
  <2> QED
    BY <1>5, <2>1, <2>2, <2>3
<1>7. ASSUME NEW p \in DOMAIN file, outside(p - 1)
       PROVE  file[p] = g[p]
  <2> DEFINE o == p - 1
  <2>1. p \in 1 .. k + 4
    BY <1>2, <1>3
  <2>2. CASE p > k
    BY <1>3, <1>5, <2>1, <2>2
  <2>3. CASE p = 1
    BY <1>5, <2>3
  <2>4. CASE p # 1 /\ p <= k /\ h.tableOff <= o /\ o < TableEnd(h)
    <3>1. h.tableOff \in Nat /\ h.count \in Nat
      BY <1>6 DEF Tabled, HeaderOk
    <3>2. p - h.tableOff \in 1 .. h.count /\ h.tableOff + (p - h.tableOff) = p
      BY <2>1, <2>4, <3>1 DEF TableEnd
    <3> QED
      BY <1>6, <3>2
  <2>5. CASE p # 1 /\ p <= k /\ ~(h.tableOff <= o /\ o < TableEnd(h))
    <3>1. o \in 0 .. k - 1 /\ o >= HeaderLen /\ o + 1 = p
      BY <1>3, <2>1, <2>5 DEF HeaderLen
    <3>2. \A a \in Regions(h, bundle.secs) : ~(a[1] <= o /\ o < a[2])
      <4>1. \A i \in DOMAIN bundle.secs :
              /\ "EXTERNAL" \notin bundle.secs[i].flags =>
                    ~(bundle.secs[i].offset <= o /\ o < StoredEnd(bundle.secs[i]))
              /\ bundle.secs[i].indexOff # 0 =>
                    ~(bundle.secs[i].indexOff <= o /\ o < IndexEnd(bundle.secs[i]))
        <5> SUFFICES ASSUME NEW i \in DOMAIN bundle.secs
                     PROVE  /\ "EXTERNAL" \notin bundle.secs[i].flags =>
                                  ~(bundle.secs[i].offset <= o /\ o < StoredEnd(bundle.secs[i]))
                            /\ bundle.secs[i].indexOff # 0 =>
                                  ~(bundle.secs[i].indexOff <= o /\ o < IndexEnd(bundle.secs[i]))
          OBVIOUS
        <5> DEFINE r == bundle.secs[i]
        <5>1. r \in ToSet(bundle.secs)
          BY DEF ToSet
        <5>2. RecordOk(r)
          BY <1>6 DEF Tabled
        <5> HIDE DEF r
        <5>3. /\ "EXTERNAL" \in r.flags \/ o \notin r.offset .. StoredEnd(r) - 1
              /\ r.indexOff = 0 \/ o \notin r.indexOff .. IndexEnd(r) - 1
          BY <1>7, <5>1
        <5>4. r.offset \in Nat /\ r.lenStored \in Nat /\ StoredEnd(r) \in Nat
          BY <5>2 DEF RecordOk, StoredEnd
        <5>5. r.indexOff \in Nat /\ (r.indexOff # 0 => IndexEnd(r) \in Nat)
          BY <5>2, CountIsNat DEF RecordOk, ChunkingOk, IndexEnd
        <5> QED
          BY <3>1, <5>3, <5>4, <5>5 DEF r
      <4> HIDE DEF o
      <4> QED
        BY <2>5, <4>1 DEF Regions
    <3>3. file[o + 1] = <<"zero", 0>> /\ g[o + 1] = <<"zero", 0>>
      BY <1>6, <3>1, <3>2, PaddingIsZero
    <3> QED
      BY <3>1, <3>3
  <2> QED
    BY <1>3, <2>1, <2>2, <2>3, <2>4, <2>5
<1> QED
  BY <1>4, <1>5, <1>7

\* Once a reader has verified the signatures, nothing of the file but stored payloads and
\* chunk indices can differ from what the holder of the key wrote, whatever was done to the
\* file in between (sig_input, commitment_root, T8, verify_signatures).
THEOREM SignatureFixes == Spec => []SignatureFixesTheFile
<1>1. IInv => SignatureFixesTheFile
  BY FixedBySignature
<1> QED
  BY <1>1, ContainerInvariant, PTL

(***************************************************************************)
(* What the author signed                                                  *)
(***************************************************************************)
WrittenInv ==
    /\ OrderOk(made.order)
    /\ made.file # <<>> => CanLay(made.order) /\ LaidAs(made.order, made.file)

LEMMA WrittenInit ==
    ASSUME Init
    PROVE  WrittenInv
<1>1. made.order.specs = <<>> /\ made.file = <<>>
  BY DEF Init
<1>2. ToSet(<<>>) = {} /\ <<>> \in Seq({})
  BY DEF ToSet
<1> QED
  BY <1>1, <1>2 DEF WrittenInv, OrderOk

LEMMA WrittenWrite ==
    ASSUME NEW order \in Orders, WriteBundle(order)
    PROVE  WrittenInv'
<1>1. OrderOk(order)
  BY OrdersAreOk
<1>2. made'.order = order /\ made'.file = Laid(order) /\ CanLay(order)
  BY DEF WriteBundle
<1> QED
  BY <1>1, <1>2, LaidAsOrdered DEF WrittenInv, Laid

LEMMA WrittenSign ==
    ASSUME IInv, WrittenInv, NEW key \in Signers, NEW public \in Signers, SignBundle(key, public)
    PROVE  WrittenInv'
<1> DEFINE b == Parse(file).value
           h == file[1][2]
           k == h.footerOff
           g == Signed(file, h, key)
<1>1. file \in Seq(ToSet(file)) /\ \A i \in DOMAIN file : WellFormed(file[i]) /\ file[i] \in ToSet(file)
  BY DEF IInv, CellsInv, ToSet
<1>2. Parse(file).ok /\ file # <<>>
  BY DEF SignBundle
<1>3. /\ b.h = h /\ k \in Nat /\ h.tableOff \in Nat /\ h.count \in Nat
      /\ h.tableOff + h.count <= k /\ h.tableOff >= 1
      /\ k + 2 <= Len(file) /\ file[k + 1][1] = "foot"
  BY <1>1, <1>2, FooterFacts DEF TableEnd
<1>4. made' = IF edits = 0 THEN [made EXCEPT !.file = g, !.signed = key = Trusted] ELSE made
  BY <1>3 DEF SignBundle
<1>5. CASE edits # 0
  BY <1>4, <1>5 DEF WrittenInv
<1>6. CASE edits = 0
  <2>1. DOMAIN made = {"order", "file", "signed"} /\ file = made.file
    BY <1>6 DEF IInv, SignedInv
  <2>2. made'.order = made.order /\ made'.file = g
    BY <1>4, <1>6, <2>1
  <2>3. CanLay(made.order) /\ LaidAs(made.order, file) /\ OrderOk(made.order)
    BY <1>2, <2>1 DEF WrittenInv
  <2>4. \A i \in 1 .. k : g[i] = file[i]
    <3>1. h.footerOff < Len(file) /\ h.footerOff + 1 \in DOMAIN file
      <4> HIDE DEF h
      <4>1. Len(file) \in Nat /\ DOMAIN file = 1 .. Len(file)
        BY <1>1
      <4> QED
        BY <1>3, <4>1
    <3>2. /\ file \in Seq(ToSet(file)) /\ h.footerOff \in Nat /\ h.footerOff < Len(file)
          /\ WellFormed(file[h.footerOff + 1]) /\ file[h.footerOff + 1][1] = "foot"
      BY <1>1, <1>3, <3>1
    <3> DEFINE foot == [root |-> FootAt(file, h).root, cls |-> SlotLen, pq |-> SlotLen]
               over == SigInput(h.suite, foot, k + 4)
    <3> HIDE DEF h
    <3>3. /\ g \in Seq(ToSet(g)) /\ Len(g) = k + 4
          /\ \A i \in 1 .. k : g[i] = file[i]
          /\ g[k + 1] = <<"foot", foot>>
          /\ g[k + 2] = <<"sig", [key |-> key, part |-> "cls", over |-> over]>>
          /\ g[k + 3] = <<"sig", [key |-> key, part |-> "pq", over |-> over]>>
          /\ g[k + 4] = <<"tail", k + 4>>
      BY <3>2, SignedCells
    <3> HIDE DEF g, k, foot, over
    <3> QED
      BY <3>3
  <2> HIDE DEF g, h
  <2>5. g[1] = file[1] /\ \A i \in 1 .. h.count : g[h.tableOff + i] = file[h.tableOff + i]
    <3>1. 1 \in 1 .. k /\ \A i \in 1 .. h.count : h.tableOff + i \in 1 .. k
      BY <1>3
    <3> QED
      BY <2>4, <3>1
  <2>6. ASSUME NEW off, NEW cells, Len(cells) \in Nat, HoldsAt(file, off, cells)
        PROVE  HoldsAt(g, off, cells)
    <3>1. off \in Nat /\ off + Len(cells) <= h.tableOff
      BY <2>6 DEF HoldsAt, h
    <3>2. \A j \in 1 .. Len(cells) : off + j \in 1 .. k
      <4>1. k \in Nat /\ h.tableOff \in Nat /\ h.tableOff <= k
        BY <1>3
      <4> HIDE DEF k
      <4> QED
        BY <2>6, <3>1, <4>1
    <3> QED
      BY <2>4, <2>5, <2>6, <3>1, <3>2 DEF HoldsAt, h
  <2>7. ASSUME NEW i \in 1 .. Len(made.order.specs), NEW off,
               PayloadAt(made.order, made.order.specs[i], off, file)
        PROVE  PayloadAt(made.order, made.order.specs[i], off, g)
    <3>1. Len(Stored(made.order, made.order.specs[i]).value) \in Nat
      <4>1. made.order.specs[i] \in ToSet(made.order.specs)
        BY <2>3 DEF OrderOk, ToSet
      <4>2. Stored(made.order, made.order.specs[i]).value \in Seq(CellsOf(made.order))
        BY <2>3, <4>1, CellsOfOrder
      <4> QED
        BY <4>2
    <3> QED
      BY <2>6, <2>7, <3>1 DEF PayloadAt
  <2>8. LaidAs(made.order, g)
    BY <2>3, <2>5, <2>7 DEF LaidAs, h
  <2> QED
    BY <2>2, <2>3, <2>8 DEF WrittenInv
<1> QED
  BY <1>5, <1>6

LEMMA SignedRecords ==
    ASSUME IInv, WrittenInv, reader.authentic, NEW r \in ToSet(bundle.secs)
    PROVE  \E s \in ToSet(made.order.specs) :
              Describes(made.order, s, r) /\ PayloadAt(made.order, s, r.offset, made.file)
<1>1. PICK g : g = made.file
  OBVIOUS
<1>2. /\ Parse(g).ok /\ Cells(g) /\ r \in ToSet(Parse(g).value.secs)
  BY <1>1, SignedBundle
<1>3. CanLay(made.order) /\ LaidAs(made.order, g) /\ OrderOk(made.order)
  BY <1>1, <1>2, ParseFacts DEF WrittenInv
<1>4. \E s \in ToSet(made.order.specs) :
         Describes(made.order, s, r) /\ PayloadAt(made.order, s, r.offset, g)
  BY <1>2, <1>3, WrittenRecords
<1> QED
  BY <1>1, <1>4

(***************************************************************************)
(* What a reader is handed                                                 *)
(***************************************************************************)
LEMMA SentList ==
    ASSUME NEW plain, List(plain), NEW sent \in MirrorSends(plain)
    PROVE  List(sent)
<1>1. Len(plain) \in Nat /\ DOMAIN plain = 1 .. Len(plain) /\ plain \in Seq(ToSet(plain))
  BY ListMembers DEF List
<1>2. CASE \E n \in 0 .. Len(plain) : sent = SubSeq(plain, 1, n)
  <2>1. PICK n \in 0 .. Len(plain) : sent = SubSeq(plain, 1, n)
    BY <1>2
  <2>2. n \in Int /\ 1 \in Int /\ n <= Len(plain)
    BY <1>1
  <2> QED
    BY <1>1, <2>1, <2>2, CutCells DEF List
<1>3. CASE sent = Append(plain, <<"data", 9>>)
  <2>1. PICK c : c = <<"data", 9>>
    OBVIOUS
  <2>2. PICK C : C = ToSet(plain)
    OBVIOUS
  <2>3. plain \in Seq(C \cup {c})
    BY <1>1, <2>2
  <2>4. Append(plain, c) \in Seq(C \cup {c})
    BY <2>3
  <2>5. sent \in Seq(C \cup {c})
    BY <1>3, <2>1, <2>4
  <2> QED
    BY <2>5, OneSequence DEF List
<1>4. CASE \E i \in DOMAIN plain : sent = [plain EXCEPT ![i] = <<"data", 9>>]
  <2>1. PICK i \in DOMAIN plain : sent = [plain EXCEPT ![i] = <<"data", 9>>]
    BY <1>4
  <2>2. plain = [j \in 1 .. Len(plain) |-> plain[j]]
    BY ListMembers
  <2>3. DOMAIN sent = 1 .. Len(plain) /\ sent = [j \in 1 .. Len(plain) |-> sent[j]]
    BY <1>1, <2>1, <2>2
  <2> QED
    BY <1>1, <2>3, MadeList
<1> QED
  BY <1>2, <1>3, <1>4 DEF MirrorSends

(***************************************************************************)
(* Answers                                                                 *)
(***************************************************************************)
WholeJobs == {"bytes", "serve", "decrypt", "stage"}

\* A chunk that was compared with an index that was verified.
OfVerifiedIndex(r, at, bytes) ==
    /\ at \in Nat /\ List(bytes)
    /\ \E cvs : Reduces(cvs, r.lenPlain, r.chunkSize, r.root)
                /\ VerifyChunk(cvs, r.chunkSize, at, bytes)

\* What was given out for a record has its root, or a chunk of its verified index.
Vouched(r, answer) ==
    /\ r.name = answer.name
    /\ answer.job \in WholeJobs => List(answer.bytes) /\ Hash(answer.bytes) = r.root
    /\ answer.job = "serve" => "PLAYER_VISIBLE" \in r.flags
    /\ answer.job = "chunk" => OfVerifiedIndex(r, answer.at, answer.bytes)

AnswerInv ==
    /\ reader.answer.ok =>
         /\ reader.answer.job \in WholeJobs \cup {"chunk", "stream"}
         /\ \E r \in ToSet(bundle.secs) : Vouched(r, reader.answer)
    /\ reader.answer.job = "stream" => reader.pc = "streamed"

\* A stream is of a record of the table; it is never read past the length the record
\* gives, and accepted if it has that length and the record's root.
StreamInv ==
    /\ reader.pc \in {"streaming", "streamed"} =>
         /\ \E r \in ToSet(bundle.secs) : r.name = reader.answer.name
         /\ DOMAIN reader.answer = DOMAIN NoAnswer
         /\ List(reader.mirror) /\ reader.at \in Nat /\ reader.at <= Streamed.lenPlain
    /\ reader.pc = "streaming" =>
         ~reader.answer.ok /\ reader.at <= Len(reader.mirror) /\ reader.answer.job = "none"
    /\ reader.pc = "streamed" =>
         /\ reader.answer.job = "stream"
         /\ reader.answer.ok <=>
              Len(reader.mirror) = Streamed.lenPlain /\ Hash(reader.mirror) = Streamed.root

JInv == WrittenInv /\ AnswerInv /\ StreamInv

\* An answer to a reader that is ready for it.
LEMMA ReplyFacts ==
    ASSUME IInv, NEW asked, NEW result, Ready, Reply(asked, result)
    PROVE  /\ reader'.answer = [asked EXCEPT !.ok = result.ok, !.bytes = result.value]
           /\ reader'.pc = "open" /\ UNCHANGED <<file, made, edits, bundle>>
           /\ Parse(file).ok /\ bundle = Parse(file).value /\ Cells(file)
<1>1. {"pc", "answer"} \subseteq DOMAIN reader
  BY DEF IInv, ReaderInv, Closed
<1>2. reader.pc \notin NotOpened
  BY DEF Ready, NotOpened
<1> QED
  BY <1>1, <1>2 DEF Reply, Ready, IInv, ReaderInv, CellsInv, Cells

LEMMA RepliedInv ==
    ASSUME IInv, NEW asked, NEW result, Ready, Reply(asked, result),
           DOMAIN asked = DOMAIN NoAnswer, asked.job \in WholeJobs \cup {"chunk"},
           result.ok => \E r \in ToSet(bundle.secs) :
                            Vouched(r, [asked EXCEPT !.ok = result.ok, !.bytes = result.value])
    PROVE  AnswerInv' /\ StreamInv'
<1>1. /\ reader'.answer = [asked EXCEPT !.ok = result.ok, !.bytes = result.value]
      /\ reader'.pc = "open" /\ UNCHANGED bundle
  BY ReplyFacts
<1>2. reader'.answer.ok = result.ok /\ reader'.answer.job = asked.job
  BY <1>1 DEF NoAnswer
<1> QED
  BY <1>1, <1>2 DEF AnswerInv, StreamInv, WholeJobs

LEMMA AskedFields ==
    ASSUME NEW job, NEW r
    PROVE  /\ DOMAIN Asked(job, r) = DOMAIN NoAnswer
           /\ Asked(job, r).job = job /\ Asked(job, r).name = r.name
BY DEF Asked, NoAnswer

\* What an answer says once its result is filled in.
LEMMA FilledIn ==
    ASSUME NEW asked, DOMAIN asked = DOMAIN NoAnswer, NEW result
    PROVE  LET answer == [asked EXCEPT !.ok = result.ok, !.bytes = result.value] IN
           /\ answer.job = asked.job /\ answer.name = asked.name /\ answer.at = asked.at
           /\ answer.bytes = result.value
BY DEF NoAnswer

\* A whole payload with the root of its record.
LEMMA WholeInv ==
    ASSUME IInv, NEW asked, NEW result, Ready, Reply(asked, result),
           DOMAIN asked = DOMAIN NoAnswer, asked.job \in WholeJobs, NEW r, asked.name = r.name,
           result.ok => /\ r \in ToSet(bundle.secs)
                        /\ List(result.value) /\ Hash(result.value) = r.root
                        /\ asked.job = "serve" => "PLAYER_VISIBLE" \in r.flags
    PROVE  AnswerInv' /\ StreamInv'
<1>1. PICK answer : answer = [asked EXCEPT !.ok = result.ok, !.bytes = result.value]
  OBVIOUS
<1>2. /\ answer.job = asked.job /\ answer.name = asked.name /\ answer.at = asked.at
      /\ answer.bytes = result.value
  BY <1>1, FilledIn
<1>3. result.ok => r \in ToSet(bundle.secs) /\ Vouched(r, answer)
  BY <1>2 DEF Vouched, WholeJobs
<1>4. result.ok => \E x \in ToSet(bundle.secs) : 
                            Vouched(x, [asked EXCEPT !.ok = result.ok, !.bytes = result.value])
  BY <1>1, <1>3
<1>5. asked.job \in WholeJobs \cup {"chunk"}
  OBVIOUS
<1> QED
  BY <1>4, <1>5, RepliedInv

LEMMA AskBytesInv ==
    ASSUME IInv, AskBytes
    PROVE  AnswerInv' /\ StreamInv'
<1>1. PICK r : Ready /\ Reply(Asked("bytes", r), SectionBytes(file, bundle, r))
  BY DEF AskBytes
<1>2. Parse(file).ok /\ bundle = Parse(file).value /\ Cells(file)
  BY <1>1, ReplyFacts
<1>3. PICK result : result = SectionBytes(file, bundle, r)
  OBVIOUS
<1>4. result.ok => r \in ToSet(bundle.secs) /\ List(result.value) /\ Hash(result.value) = r.root
  BY <1>2, <1>3, ReadBytes
<1>5. PICK asked : asked = Asked("bytes", r)
  OBVIOUS
<1>6. DOMAIN asked = DOMAIN NoAnswer /\ asked.job = "bytes" /\ asked.name = r.name
  BY <1>5, AskedFields
<1>7. Ready /\ Reply(asked, result)
  BY <1>1, <1>3, <1>5
<1> QED
  BY <1>4, <1>6, <1>7, WholeInv DEF WholeJobs

LEMMA AskServedInv ==
    ASSUME IInv, AskServed
    PROVE  AnswerInv' /\ StreamInv'
<1>1. PICK r : Ready /\ Reply(Asked("serve", r), Serve(file, bundle, r))
  BY DEF AskServed
<1>2. Parse(file).ok /\ bundle = Parse(file).value /\ Cells(file)
  BY <1>1, ReplyFacts
<1>3. PICK result : result = Serve(file, bundle, r)
  OBVIOUS
<1>4. ASSUME result.ok
      PROVE  /\ r \in ToSet(bundle.secs) /\ List(result.value) /\ Hash(result.value) = r.root
             /\ "PLAYER_VISIBLE" \in r.flags
  <2>1. "PLAYER_VISIBLE" \in r.flags /\ result = SectionBytes(file, bundle, r)
    BY <1>3, <1>4 DEF Serve, Failed
  <2> QED
    BY <1>2, <1>4, <2>1, ReadBytes
<1>5. PICK asked : asked = Asked("serve", r)
  OBVIOUS
<1>6. DOMAIN asked = DOMAIN NoAnswer /\ asked.job = "serve" /\ asked.name = r.name
  BY <1>5, AskedFields
<1>7. Ready /\ Reply(asked, result)
  BY <1>1, <1>3, <1>5
<1> QED
  BY <1>4, <1>6, <1>7, WholeInv DEF WholeJobs

LEMMA AskDecryptedInv ==
    ASSUME IInv, AskDecrypted
    PROVE  AnswerInv' /\ StreamInv'
<1>1. PICK r, holder, ctx, key, asked, result :
         /\ asked = [Asked("decrypt", r) EXCEPT !.by = holder, !.ctx = ctx]
         /\ result = IF key.ok THEN DecryptSection(file, bundle, r, key.value) ELSE Failed
         /\ Ready /\ Reply(asked, result)
  BY DEF AskDecrypted
<1>2. Parse(file).ok /\ bundle = Parse(file).value /\ Cells(file)
  BY <1>1, ReplyFacts
<1>4. result.ok => r \in ToSet(bundle.secs) /\ List(result.value) /\ Hash(result.value) = r.root
  <2>1. result.ok => result = DecryptSection(file, bundle, r, key.value)
    BY <1>1 DEF Failed
  <2> QED
    BY <1>2, <2>1, DecryptedList
<1>6. DOMAIN asked = DOMAIN NoAnswer /\ asked.job = "decrypt" /\ asked.name = r.name
  BY <1>1 DEF Asked, NoAnswer
<1>7. Ready /\ Reply(asked, result)
  BY <1>1
<1> QED
  BY <1>4, <1>6, <1>7, WholeInv DEF WholeJobs

LEMMA AskStageInv ==
    ASSUME IInv, AskStage
    PROVE  AnswerInv' /\ StreamInv'
<1>1. PICK r, key : Ready /\ Reply(Asked("stage", r), DecryptSection(file, bundle, r, key))
  BY DEF AskStage
<1>2. Parse(file).ok /\ bundle = Parse(file).value /\ Cells(file)
  BY <1>1, ReplyFacts
<1>3. PICK result : result = DecryptSection(file, bundle, r, key)
  OBVIOUS
<1>4. result.ok => r \in ToSet(bundle.secs) /\ List(result.value) /\ Hash(result.value) = r.root
  <2>1. result.ok => result = DecryptSection(file, bundle, r, key)
    BY <1>3
  <2> QED
    BY <1>2, <2>1, DecryptedList
<1>5. PICK asked : asked = Asked("stage", r)
  OBVIOUS
<1>6. DOMAIN asked = DOMAIN NoAnswer /\ asked.job = "stage" /\ asked.name = r.name
  BY <1>5, AskedFields
<1>7. Ready /\ Reply(asked, result)
  BY <1>1, <1>3, <1>5
<1> QED
  BY <1>4, <1>6, <1>7, WholeInv DEF WholeJobs

\* The payloads that mirrors know.
LEMMA OriginalList ==
    ASSUME WrittenInv, NEW name, NEW plain \in Original(name)
    PROVE  List(plain)
BY PlainCells DEF WrittenInv, Original, Written

LEMMA AskChunkInv ==
    ASSUME IInv, WrittenInv, AskChunk
    PROVE  AnswerInv' /\ StreamInv'
<1>1. PICK r, plain, sent, index, data, asked, result, i, j :
         /\ plain \in Original(r.name) /\ sent \in MirrorSends(plain)
         /\ i \in 0 .. ChunkCount(Len(plain), MinChunk)
         /\ j \in 0 .. ChunkCount(Len(plain), MinChunk)
         /\ index = IndexFor(file, bundle, r) /\ data = Chunk(sent, j, r.chunkSize)
         /\ index.ok /\ index.value # <<>>
         /\ asked = [Asked("chunk", r) EXCEPT !.at = i]
         /\ result = IF VerifyChunk(index.value, r.chunkSize, i, data) THEN Ok(data) ELSE Failed
         /\ Ready /\ Reply(asked, result)
  BY DEF AskChunk
<1>2. Parse(file).ok /\ bundle = Parse(file).value /\ Cells(file)
  BY <1>1, ReplyFacts
<1>3. List(plain) /\ List(sent)
  BY <1>1, OriginalList, SentList
<1>4. r \in ToSet(bundle.secs) /\ Reduces(index.value, r.lenPlain, r.chunkSize, r.root)
  BY <1>1, <1>2, ReadIndex
<1>5. i \in Nat /\ j \in Nat
  <2>1. ChunkCount(Len(plain), MinChunk) \in Nat
    BY <1>3, CountIsNat, ListMembers, ChunkTreeAssumption
  <2> QED
    BY <1>1, <2>1
<1>6. List(data)
  BY <1>1, <1>3, <1>4, <1>5, ChunkIsList, ValidSize DEF Reduces
<1>7. DOMAIN asked = DOMAIN NoAnswer /\ asked.job = "chunk" /\ asked.name = r.name /\ asked.at = i
  BY <1>1 DEF Asked, NoAnswer
<1>8. PICK answer : answer = [asked EXCEPT !.ok = result.ok, !.bytes = result.value]
  OBVIOUS
<1>9. ASSUME result.ok
      PROVE  Vouched(r, answer)
  <2>1. VerifyChunk(index.value, r.chunkSize, i, data) /\ result.value = data
    BY <1>1, <1>9 DEF Ok, Failed
  <2>2. OfVerifiedIndex(r, i, data)
    BY <1>4, <1>5, <1>6, <2>1 DEF OfVerifiedIndex
  <2>3. /\ answer.job = "chunk" /\ answer.name = r.name /\ answer.at = i
        /\ answer.bytes = data
    BY <1>7, <1>8, <2>1, FilledIn
  <2> QED
    BY <2>2, <2>3 DEF Vouched, WholeJobs
<1>10. /\ asked.job \in WholeJobs \cup {"chunk"} /\ Ready /\ Reply(asked, result)
       /\ result.ok => \E x \in ToSet(bundle.secs) :
                            Vouched(x, [asked EXCEPT !.ok = result.ok, !.bytes = result.value])
  BY <1>1, <1>4, <1>7, <1>8, <1>9
<1> QED
  BY <1>7, <1>10, RepliedInv

LEMMA StreamedRecord ==
    ASSUME \E r \in ToSet(bundle.secs) : r.name = reader.answer.name
    PROVE  Streamed \in ToSet(bundle.secs) /\ Streamed.name = reader.answer.name
BY DEF Streamed

LEMMA RecordNumbers ==
    ASSUME IInv, reader.pc \notin NotOpened, NEW r \in ToSet(bundle.secs)
    PROVE  r.lenPlain \in Nat /\ RecordOk(r)
<1>1. file \in Seq(ToSet(file)) /\ Parse(file).ok /\ bundle = Parse(file).value
  BY DEF IInv, CellsInv, ReaderInv
<1>2. RecordOk(r)
  BY <1>1, TableFacts DEF Tabled, ToSet
<1> QED
  BY <1>2 DEF RecordOk

LEMMA StartStreamInv ==
    ASSUME IInv, WrittenInv, StartStream
    PROVE  AnswerInv' /\ StreamInv'
<1>1. PICK i, plain, sent :
         /\ i \in Outside(bundle) /\ plain \in Original(bundle.secs[i].name)
         /\ sent \in MirrorSends(plain)
         /\ reader' = [reader EXCEPT !.pc = "streaming", !.at = 0, !.mirror = sent,
                                     !.answer.name = bundle.secs[i].name]
  BY DEF StartStream
<1>2. /\ reader.pc = "open" /\ reader.answer = NoAnswer /\ UNCHANGED bundle
      /\ {"pc", "at", "mirror", "answer"} \subseteq DOMAIN reader
  BY DEF StartStream, Ready, IInv, ReaderInv, Closed
<1>3. /\ reader'.pc = "streaming" /\ reader'.at = 0 /\ reader'.mirror = sent
      /\ reader'.answer = [NoAnswer EXCEPT !.name = bundle.secs[i].name]
  BY <1>1, <1>2
<1>4. /\ reader'.answer.name = bundle.secs[i].name /\ DOMAIN reader'.answer = DOMAIN NoAnswer
      /\ reader'.answer.ok = FALSE /\ reader'.answer.job = "none"
  BY <1>3 DEF NoAnswer
<1>5. bundle.secs[i] \in ToSet(bundle.secs)
  BY <1>1 DEF Outside, ToSet
<1>6. List(sent)
  BY <1>1, OriginalList, SentList
<1>7. Streamed' \in ToSet(bundle.secs)
  BY <1>2, <1>4, <1>5 DEF Streamed
<1>8. Streamed'.lenPlain \in Nat
  BY <1>2, <1>7, RecordNumbers DEF NotOpened
<1>9. 0 <= Len(sent) /\ 0 <= Streamed'.lenPlain
  BY <1>6, <1>8, ListMembers
<1> QED
  BY <1>2, <1>3, <1>4, <1>5, <1>6, <1>9 DEF AnswerInv, StreamInv

\* Settle changes where the reader is and whether it accepts.
LEMMA SettledReader ==
    ASSUME DOMAIN reader = DOMAIN Closed, DOMAIN reader.answer = DOMAIN NoAnswer, NEW ok,
           reader' = Settle(ok)
    PROVE  /\ reader'.pc = "streamed" /\ reader'.at = reader.at /\ reader'.mirror = reader.mirror
           /\ DOMAIN reader'.answer = DOMAIN NoAnswer
           /\ reader'.answer.job = "stream" /\ reader'.answer.ok = ok
           /\ reader'.answer.name = reader.answer.name
<1>1. /\ {"pc", "at", "mirror", "answer"} \subseteq DOMAIN reader
      /\ {"job", "ok", "name"} \subseteq DOMAIN reader.answer
  BY DEF Closed, NoAnswer
<1> QED
  BY <1>1 DEF Settle

\* A stream that ends is judged by its length and root.
LEMMA SettledInv ==
    ASSUME IInv, StreamInv, reader.pc = "streaming", NEW ok \in BOOLEAN,
           reader' = Settle(ok), UNCHANGED bundle,
           ok <=> Len(reader.mirror) = Streamed.lenPlain /\ Hash(reader.mirror) = Streamed.root
    PROVE  AnswerInv' /\ StreamInv'
<1>1. /\ reader'.pc = "streamed" /\ reader'.at = reader.at /\ reader'.mirror = reader.mirror
      /\ DOMAIN reader'.answer = DOMAIN NoAnswer
      /\ reader'.answer.job = "stream" /\ reader'.answer.ok = ok
      /\ reader'.answer.name = reader.answer.name
  BY SettledReader DEF IInv, ReaderInv, StreamInv
<1>2. Streamed' = Streamed
  BY <1>1 DEF Streamed
<1>3. PICK r \in ToSet(bundle.secs) : r.name = reader.answer.name
  BY DEF StreamInv
<1>4. Vouched(r, reader'.answer)
  BY <1>1, <1>3 DEF Vouched, WholeJobs
<1> QED
  BY <1>1, <1>2, <1>3, <1>4 DEF AnswerInv, StreamInv

LEMMA StreamReadInv ==
    ASSUME IInv, StreamInv, AnswerInv, NEW n \in 1 .. MaxChunk, StreamRead(n)
    PROVE  AnswerInv' /\ StreamInv'
<1>1. /\ reader.pc = "streaming" /\ n >= 1 /\ reader.at + n <= Len(reader.mirror)
      /\ UNCHANGED bundle
  BY DEF StreamRead
<1>2. n \in Nat /\ reader.at \in Nat /\ List(reader.mirror) /\ Len(reader.mirror) \in Nat
  BY <1>1, ListMembers, ChunkTreeAssumption DEF StreamInv
<1>3. Streamed.lenPlain \in Nat
  BY <1>1, StreamedRecord, RecordNumbers DEF StreamInv, NotOpened
<1>4. CASE reader.at + n > Streamed.lenPlain
  <2>1. reader' = Settle(FALSE)
    BY <1>4 DEF StreamRead
  <2>2. Len(reader.mirror) # Streamed.lenPlain
    BY <1>1, <1>2, <1>3, <1>4
  <2> QED
    BY <1>1, <2>1, <2>2, SettledInv
<1>5. CASE ~(reader.at + n > Streamed.lenPlain)
  <2>1. reader' = [reader EXCEPT !.at = @ + n]
    BY <1>5 DEF StreamRead
  <2>2. /\ reader'.pc = reader.pc /\ reader'.at = reader.at + n /\ reader'.mirror = reader.mirror
        /\ reader'.answer = reader.answer
    BY <2>1 DEF IInv, ReaderInv, Closed
  <2>3. Streamed' = Streamed
    BY <1>1, <2>2 DEF Streamed
  <2> QED
    BY <1>1, <1>2, <1>3, <1>5, <2>2, <2>3 DEF AnswerInv, StreamInv
<1> QED
  BY <1>4, <1>5

LEMMA StreamEndInv ==
    ASSUME IInv, StreamInv, StreamEnd
    PROVE  AnswerInv' /\ StreamInv'
<1>1. /\ reader.pc = "streaming" /\ reader.at = Len(reader.mirror) /\ UNCHANGED bundle
      /\ reader' = Settle(/\ reader.at = Streamed.lenPlain
                          /\ Hash(SubSeq(reader.mirror, 1, reader.at)) = Streamed.root)
  BY DEF StreamEnd
<1>2. List(reader.mirror)
  BY <1>1 DEF StreamInv
<1>3. PICK part : part = SubSeq(reader.mirror, 1, Len(reader.mirror))
  OBVIOUS
<1>4. part = reader.mirror
  <2>1. PICK n \in Nat : n = Len(reader.mirror)
    BY <1>2, ListMembers
  <2>2. /\ reader.mirror \in Seq(ToSet(reader.mirror)) /\ 1 \in Int /\ n \in Int
        /\ n <= Len(reader.mirror)
    BY <1>2, <2>1 DEF List
  <2>3. /\ part \in Seq(ToSet(part)) /\ Len(part) = (IF 1 <= n THEN n - 1 + 1 ELSE 0)
        /\ \A i \in 1 .. n - 1 + 1 : part[i] = reader.mirror[1 + i - 1]
    BY <1>3, <2>1, <2>2, CutCells
  <2>4. Len(part) = n /\ \A i \in 1 .. n : part[i] = reader.mirror[i]
    BY <2>3
  <2> QED
    BY <1>2, <2>1, <2>3, <2>4, SameList DEF List
<1>5. PICK ok \in BOOLEAN :
         ok = (Len(reader.mirror) = Streamed.lenPlain /\ Hash(reader.mirror) = Streamed.root)
  OBVIOUS
<1>6. reader' = Settle(ok)
  BY <1>1, <1>3, <1>4, <1>5
<1> QED
  BY <1>1, <1>5, <1>6, SettledInv

\* Steps that answer nothing.
LEMMA SameAnswer ==
    ASSUME AnswerInv, UNCHANGED bundle, reader'.answer = reader.answer,
           reader.pc # "streamed", reader'.pc \notin {"streaming", "streamed"}
    PROVE  AnswerInv' /\ StreamInv'
BY DEF AnswerInv, StreamInv

LEMMA NoAnswerYet ==
    ASSUME reader'.answer = NoAnswer, reader'.pc \notin {"streaming", "streamed"}
    PROVE  AnswerInv' /\ StreamInv'
BY DEF AnswerInv, StreamInv, NoAnswer

LEMMA WithoutReader ==
    ASSUME AnswerInv, StreamInv, UNCHANGED <<bundle, reader>>
    PROVE  AnswerInv' /\ StreamInv'
<1>1. Streamed' = Streamed
  BY DEF Streamed
<1> QED
  BY <1>1 DEF AnswerInv, StreamInv

LEMMA AskingAnswers ==
    ASSUME IInv, JInv, Asking
    PROVE  JInv'
<1>1. UNCHANGED <<made, bundle>>
  BY AskingKeepsTheFile DEF IInv
<1>2. WrittenInv'
  BY <1>1 DEF JInv, WrittenInv
<1>3. {"pc", "answer", "at", "authentic", "report"} \subseteq DOMAIN reader
  BY DEF IInv, ReaderInv, Closed
<1>4. CASE Authenticate \/ StartVerify \/ VerifySection \/ EndVerify
  <2>1. ASSUME Authenticate
        PROVE  /\ reader'.answer = reader.answer /\ reader.pc # "streamed"
               /\ reader'.pc \notin {"streaming", "streamed"}
    BY <1>3, <2>1 DEF Authenticate, Ready
  <2>2. ASSUME StartVerify
        PROVE  /\ reader'.answer = reader.answer /\ reader.pc # "streamed"
               /\ reader'.pc \notin {"streaming", "streamed"}
    BY <1>3, <2>2 DEF StartVerify, Ready
  <2>3. ASSUME VerifySection
        PROVE  /\ reader'.answer = reader.answer /\ reader.pc # "streamed"
               /\ reader'.pc \notin {"streaming", "streamed"}
    BY <1>3, <2>3 DEF VerifySection
  <2>4. ASSUME EndVerify
        PROVE  /\ reader'.answer = reader.answer /\ reader.pc # "streamed"
               /\ reader'.pc \notin {"streaming", "streamed"}
    BY <1>3, <2>4 DEF EndVerify
  <2>5. /\ reader'.answer = reader.answer /\ reader.pc # "streamed"
        /\ reader'.pc \notin {"streaming", "streamed"}
    BY <1>4, <2>1, <2>2, <2>3, <2>4
  <2> QED
    BY <1>1, <1>2, <2>5, SameAnswer DEF JInv
<1>5. CASE AskBytes \/ AskServed \/ AskDecrypted \/ AskStage
  BY <1>2, <1>5, AskBytesInv, AskServedInv, AskDecryptedInv, AskStageInv DEF JInv
<1>6. CASE AskChunk
  BY <1>2, <1>6, AskChunkInv DEF JInv
<1>7. CASE StartStream
  BY <1>2, <1>7, StartStreamInv DEF JInv
<1>8. CASE \E n \in 1 .. MaxChunk : StreamRead(n)
  BY <1>2, <1>8, StreamReadInv DEF JInv
<1>9. CASE StreamEnd
  BY <1>2, <1>9, StreamEndInv DEF JInv
<1> QED
  BY <1>4, <1>5, <1>6, <1>7, <1>8, <1>9 DEF Asking

LEMMA JInit ==
    ASSUME Init
    PROVE  JInv
<1>1. reader.answer = NoAnswer /\ reader.pc = "closed"
  BY DEF Init, Closed
<1>2. WrittenInv
  BY WrittenInit
<1> QED
  BY <1>1, <1>2 DEF JInv, AnswerInv, StreamInv, NoAnswer

LEMMA JNext ==
    ASSUME IInv, JInv, [Next]_vars
    PROVE  JInv'
<1>1. CASE \E order \in Orders : WriteBundle(order)
  <2>1. UNCHANGED <<bundle, reader>> /\ WrittenInv'
    BY <1>1, WrittenWrite DEF WriteBundle
  <2> QED
    BY <2>1, WithoutReader DEF JInv
<1>2. CASE \E key, public \in Signers : SignBundle(key, public)
  <2>1. UNCHANGED <<bundle, reader>> /\ WrittenInv'
    BY <1>2, WrittenSign DEF SignBundle, JInv
  <2> QED
    BY <2>1, WithoutReader DEF JInv
<1>3. CASE Edit \/ Recommit
  <2>1. UNCHANGED <<made, bundle, reader>>
    BY <1>3 DEF Edit, Recommit
  <2>2. WrittenInv'
    BY <2>1 DEF JInv, WrittenInv
  <2> QED
    BY <2>1, <2>2, WithoutReader DEF JInv
<1>4. CASE Open
  <2>1. /\ reader'.answer = NoAnswer /\ reader'.pc \in {"open", "refused"}
        /\ UNCHANGED made
    BY <1>4 DEF Open, Closed
  <2>2. WrittenInv'
    BY <2>1 DEF JInv, WrittenInv
  <2> QED
    BY <2>1, <2>2, NoAnswerYet DEF JInv
<1>5. CASE Asking
  BY <1>5, AskingAnswers
<1>6. CASE UNCHANGED vars
  <2>1. UNCHANGED <<made, bundle, reader>>
    BY <1>6 DEF vars
  <2>2. WrittenInv'
    BY <2>1 DEF JInv, WrittenInv
  <2> QED
    BY <2>1, <2>2, WithoutReader DEF JInv
<1> QED
  BY <1>1, <1>2, <1>3, <1>4, <1>5, <1>6 DEF Next, Asking

\* What a reader was handed has the root its record gives, or is a chunk of an index that
\* reduces to that root, and the records of a signed file say what the author was asked to
\* write (write_bundle, section_bytes, decrypt_section, verify_chunk, verify_stream).
THEOREM AnswersInvariant == Spec => []JInv
<1>1. Init => JInv
  BY JInit
<1>2. IInv /\ JInv /\ [Next]_vars => JInv'
  BY JNext
<1>3. Spec => []IInv
  BY ContainerInvariant
<1> QED
  BY <1>1, <1>2, <1>3, PTL DEF Spec

LEMMA OnlyWhatWasSigned ==
    ASSUME IInv, JInv
    PROVE  NothingButWhatWasSigned
<1> SUFFICES ASSUME reader.authentic, reader.answer.ok
             PROVE  \E s \in Written(reader.answer.name) :
                      LET plain == PlainOf(made.order, s) IN
                      CASE reader.answer.job = "chunk" ->
                              reader.answer.bytes = Chunk(plain, reader.answer.at, s.cs)
                        [] reader.answer.job = "stream" -> reader.mirror = plain
                        [] reader.answer.job = "serve" ->
                              reader.answer.bytes = plain /\ "PLAYER_VISIBLE" \in s.flags
                        [] OTHER -> reader.answer.bytes = plain
  BY DEF NothingButWhatWasSigned
<1>1. WrittenInv /\ OrderOk(made.order)
  BY DEF JInv, WrittenInv
<1>2. ASSUME NEW r \in ToSet(bundle.secs), r.name = reader.answer.name
      PROVE  \E s \in Written(reader.answer.name) :
                /\ Describes(made.order, s, r) /\ List(PlainOf(made.order, s))
  <2>1. PICK s \in ToSet(made.order.specs) : Describes(made.order, s, r)
    BY <1>1, SignedRecords
  <2>2. List(PlainOf(made.order, s))
    BY <1>1, PlainCells
  <2>3. s \in Written(reader.answer.name)
    BY <1>2, <2>1 DEF Describes, Written
  <2> QED
    BY <2>1, <2>2, <2>3
<1>3. reader.answer.job \in WholeJobs \cup {"chunk", "stream"}
  BY DEF JInv, AnswerInv
<1>4. CASE reader.answer.job = "stream"
  <2>1. /\ reader.pc = "streamed" /\ Streamed \in ToSet(bundle.secs)
        /\ Streamed.name = reader.answer.name
        /\ List(reader.mirror) /\ Hash(reader.mirror) = Streamed.root
    BY <1>4, StreamedRecord DEF JInv, AnswerInv, StreamInv
  <2>2. PICK s \in Written(reader.answer.name) :
           Describes(made.order, s, Streamed) /\ List(PlainOf(made.order, s))
    BY <1>2, <2>1
  <2>3. reader.mirror = PlainOf(made.order, s)
    BY <2>1, <2>2, HashTellsCells DEF Describes
  <2> QED
    BY <1>4, <2>3
<1>5. CASE reader.answer.job # "stream"
  <2>1. PICK r \in ToSet(bundle.secs) : Vouched(r, reader.answer)
    BY DEF JInv, AnswerInv
  <2>2. r.name = reader.answer.name
    BY <2>1 DEF Vouched
  <2>3. PICK s \in Written(reader.answer.name) :
           Describes(made.order, s, r) /\ List(PlainOf(made.order, s))
    BY <1>2, <2>2
  <2>4. CASE reader.answer.job = "chunk"
    <3>1. OfVerifiedIndex(r, reader.answer.at, reader.answer.bytes)
      BY <2>1, <2>4 DEF Vouched
    <3>2. PICK cvs : /\ Reduces(cvs, r.lenPlain, r.chunkSize, r.root)
                     /\ VerifyChunk(cvs, r.chunkSize, reader.answer.at, reader.answer.bytes)
      BY <3>1 DEF OfVerifiedIndex
    <3>3. PICK plain : plain = PlainOf(made.order, s)
      OBVIOUS
    <3>4. /\ Reduces(cvs, Len(plain), s.cs, Hash(plain))
          /\ VerifyChunk(cvs, s.cs, reader.answer.at, reader.answer.bytes)
      BY <2>3, <3>2, <3>3 DEF Describes
    <3>5. reader.answer.bytes = Chunk(plain, reader.answer.at, s.cs)
      BY <2>3, <3>1, <3>3, <3>4, VerifiedChunk DEF OfVerifiedIndex
    <3> QED
      BY <2>4, <3>3, <3>5
  <2>5. CASE reader.answer.job # "chunk"
    <3>1. reader.answer.job \in WholeJobs
      BY <1>3, <1>5, <2>5
    <3>2. List(reader.answer.bytes) /\ Hash(reader.answer.bytes) = r.root
      BY <2>1, <3>1 DEF Vouched
    <3>3. reader.answer.bytes = PlainOf(made.order, s)
      BY <2>3, <3>2, HashTellsCells DEF Describes
    <3>4. reader.answer.job = "serve" => "PLAYER_VISIBLE" \in s.flags
      BY <2>1, <2>3 DEF Vouched, Describes
    <3> QED
      BY <1>5, <2>5, <3>3, <3>4
  <2> QED
    BY <2>4, <2>5
<1> QED
  BY <1>4, <1>5

\* Whoever changed the file since, a reader that has verified the signatures is handed the
\* plaintext that the author gave to write_bundle and nothing else: read whole, served,
\* decrypted, chunk by chunk (VerifiedChunk: the chunk for that place), or streamed.
THEOREM NothingElseIsHandedOut == Spec => []NothingButWhatWasSigned
<1>1. IInv /\ JInv => NothingButWhatWasSigned
  BY OnlyWhatWasSigned
<1> QED
  BY <1>1, ContainerInvariant, AnswersInvariant, PTL

LEMMA StreamIsItsChunks ==
    ASSUME IInv, JInv
    PROVE  StreamAgreesWithChunks
<1>1. reader.pc \in {"streaming", "streamed"} => reader.at <= Streamed.lenPlain
  BY DEF JInv, StreamInv
<1>2. ASSUME reader.pc = "streamed", NEW index, index = IndexFor(file, bundle, Streamed),
             NEW cs, cs = Streamed.chunkSize, index.ok, index.value # <<>>
      PROVE  reader.answer.ok <=>
                /\ Len(reader.mirror) = Streamed.lenPlain
                /\ \A i \in 0 .. ChunkCount(Len(reader.mirror), cs) - 1 :
                    VerifyChunk(index.value, cs, i, Chunk(reader.mirror, i, cs))
  <2>1. Parse(file).ok /\ bundle = Parse(file).value /\ Cells(file)
    BY <1>2 DEF IInv, ReaderInv, CellsInv, Cells, NotOpened
  <2>2. Reduces(index.value, Streamed.lenPlain, cs, Streamed.root)
    BY <1>2, <2>1, ReadIndex
  <2>3. List(reader.mirror) /\ (reader.answer.ok <=>
              Len(reader.mirror) = Streamed.lenPlain /\ Hash(reader.mirror) = Streamed.root)
    BY <1>2 DEF JInv, StreamInv
  <2>4. ASSUME Len(reader.mirror) = Streamed.lenPlain
        PROVE  Hash(reader.mirror) = Streamed.root <=>
                 \A i \in 0 .. ChunkCount(Len(reader.mirror), cs) - 1 :
                    VerifyChunk(index.value, cs, i, Chunk(reader.mirror, i, cs))
    <3>1. Reduces(index.value, Len(reader.mirror), cs, Streamed.root)
      BY <2>2, <2>4
    <3> QED
      BY <2>3, <3>1, WholeIsItsChunks
  <2> QED
    BY <2>3, <2>4
<1> QED
  BY <1>1, <1>2 DEF StreamAgreesWithChunks

\* verify_stream over the whole and verify_chunk over each chunk accept the same streams,
\* whatever the size of a read and whichever chunk size and length the record gives.
THEOREM StreamsAndChunksAgree == Spec => []StreamAgreesWithChunks
<1>1. IInv /\ JInv => StreamAgreesWithChunks
  BY StreamIsItsChunks
<1> QED
  BY <1>1, ContainerInvariant, AnswersInvariant, PTL

(***************************************************************************)
(* What the verify pass reports                                            *)
(***************************************************************************)
Lists == {"verified", "external", "unverifiable", "mismatches"}

\* Each list names the sections behind the pass whose finding it is.
ReportInv ==
    reader.pc \in {"verifying", "reported"} =>
        /\ DOMAIN reader.report = Lists /\ reader.at \in 1 .. bundle.h.count + 1
        /\ reader.pc = "reported" => \A i \in DOMAIN bundle.secs : i < reader.at
        /\ \A i \in DOMAIN bundle.secs : i < reader.at => Finding(file, bundle.secs[i]) \in Lists
        /\ \A l \in Lists :
              reader.report[l] = {bundle.secs[i].name :
                 i \in {i \in DOMAIN bundle.secs :
                          i < reader.at /\ Finding(file, bundle.secs[i]) = l}}

LEMMA FindingIsAList ==
    ASSUME NEW f, NEW r
    PROVE  Finding(f, r) \in Lists \cup {"abort"}
BY DEF Finding, Lists

LEMMA SectionsInTable ==
    ASSUME IInv, reader.pc \notin NotOpened
    PROVE  bundle.h.count \in Nat /\ DOMAIN bundle.secs = 1 .. bundle.h.count
<1>1. Tabled(file, bundle.h, bundle.secs, bundle.h.count)
  BY TableFacts DEF IInv, CellsInv, ReaderInv
<1> QED
  BY <1>1 DEF Tabled

LEMMA VerifySectionInv ==
    ASSUME IInv, ReportInv, VerifySection
    PROVE  ReportInv'
<1>1. /\ DOMAIN reader.report = Lists /\ reader.at \in DOMAIN bundle.secs
      /\ reader.pc = "verifying" /\ UNCHANGED <<file, bundle>>
      /\ {"pc", "at", "report"} \subseteq DOMAIN reader
  BY DEF VerifySection, ReportInv, IInv, ReaderInv, Closed
<1>2. /\ DOMAIN bundle.secs = 1 .. bundle.h.count /\ bundle.h.count \in Nat
      /\ reader.at \in Nat
  <2>1. DOMAIN bundle.secs = 1 .. bundle.h.count /\ bundle.h.count \in Nat
    BY <1>1, SectionsInTable DEF NotOpened
  <2> QED
    BY <1>1, <2>1
<1>3. PICK r : r = bundle.secs[reader.at]
  OBVIOUS
<1>4. PICK l : l = Finding(file, r)
  OBVIOUS
<1>5. CASE l = "abort"
  <2>1. reader'.pc = "aborted"
    BY <1>1, <1>3, <1>4, <1>5 DEF VerifySection
  <2> QED
    BY <2>1 DEF ReportInv
<1>6. CASE l # "abort"
  <2>1. l \in Lists
    BY <1>4, <1>6, FindingIsAList
  <2>2. reader' = [reader EXCEPT !.at = @ + 1, !.report[l] = @ \cup {r.name}]
    BY <1>3, <1>4, <1>6 DEF VerifySection
  <2>3. /\ reader'.pc = "verifying" /\ reader'.at = reader.at + 1
        /\ reader'.report = [reader.report EXCEPT ![l] = @ \cup {r.name}]
    BY <1>1, <2>2
  <2>4. /\ DOMAIN reader'.report = Lists
        /\ \A m \in Lists : reader'.report[m] =
              IF m = l THEN reader.report[m] \cup {r.name} ELSE reader.report[m]
    BY <1>1, <2>1, <2>3
  <2>5. ASSUME NEW i \in DOMAIN bundle.secs
        PROVE  i < reader.at + 1 <=> i < reader.at \/ i = reader.at
    <3>1. i \in Nat
      BY <1>2
    <3> QED
      BY <1>2, <3>1
  <2>6. ASSUME NEW i \in DOMAIN bundle.secs, i < reader.at + 1
        PROVE  Finding(file, bundle.secs[i]) \in Lists
    <3>1. CASE i = reader.at
      BY <1>3, <1>4, <2>1, <3>1
    <3>2. CASE i < reader.at
      BY <1>1, <3>2 DEF ReportInv
    <3> QED
      BY <2>5, <2>6, <3>1, <3>2
  <2>7. ASSUME NEW m \in Lists
        PROVE  reader'.report[m] = {bundle.secs[i].name :
                  i \in {i \in DOMAIN bundle.secs :
                           i < reader.at + 1 /\ Finding(file, bundle.secs[i]) = m}}
    <3> DEFINE name(i) == bundle.secs[i].name
               found(i) == Finding(file, bundle.secs[i])
               old == {i \in DOMAIN bundle.secs : i < reader.at /\ found(i) = m}
               new == {i \in DOMAIN bundle.secs : i < reader.at + 1 /\ found(i) = m}
    <3>1. reader.report[m] = {name(i) : i \in old}
      BY <1>1 DEF ReportInv
    <3>2. found(reader.at) = l /\ name(reader.at) = r.name
      BY <1>3, <1>4
    <3> HIDE DEF name, found
    <3>3. new = IF m = l THEN old \cup {reader.at} ELSE old
      BY <1>1, <2>5, <3>2
    <3> HIDE DEF new, old
    <3>4. reader'.report[m] = {name(i) : i \in new}
      BY <2>4, <3>1, <3>2, <3>3
    <3> QED
      BY <3>4 DEF name, new, found
  <2>8. reader.at + 1 \in 1 .. bundle.h.count + 1
    BY <1>2, <1>1
  <2>9. \A m \in Lists :
           reader'.report[m] = {bundle'.secs[i].name :
              i \in {i \in DOMAIN bundle'.secs :
                       i < reader'.at /\ Finding(file', bundle'.secs[i]) = m}}
    BY <1>1, <2>3, <2>7
  <2>10. \A i \in DOMAIN bundle'.secs : i < reader'.at => Finding(file', bundle'.secs[i]) \in Lists
    BY <1>1, <2>3, <2>6
  <2>11. DOMAIN reader'.report = Lists /\ reader'.at \in 1 .. bundle'.h.count + 1
    BY <1>1, <2>3, <2>4, <2>8
  <2> QED
    BY <2>3, <2>9, <2>10, <2>11 DEF ReportInv
<1> QED
  BY <1>5, <1>6

LEMMA EndVerifyInv ==
    ASSUME IInv, ReportInv, EndVerify
    PROVE  ReportInv'
<1>1. /\ reader.at \notin DOMAIN bundle.secs /\ reader.pc = "verifying"
      /\ UNCHANGED <<file, bundle>> /\ reader' = [reader EXCEPT !.pc = "reported"]
      /\ {"pc", "at", "report"} \subseteq DOMAIN reader
  BY DEF EndVerify, IInv, ReaderInv, Closed
<1>2. /\ reader'.pc = "reported" /\ reader'.at = reader.at /\ reader'.report = reader.report
  BY <1>1
<1>3. \A i \in DOMAIN bundle.secs : i < reader.at
  <2>1. DOMAIN bundle.secs = 1 .. bundle.h.count /\ bundle.h.count \in Nat
    BY <1>1, SectionsInTable DEF NotOpened
  <2>2. reader.at \in 1 .. bundle.h.count + 1
    BY <1>1 DEF ReportInv
  <2> QED
    BY <1>1, <2>1, <2>2
<1> QED
  BY <1>1, <1>2, <1>3 DEF ReportInv

LEMMA ReportNext ==
    ASSUME IInv, ReportInv, [Next]_vars
    PROVE  ReportInv'
<1>1. {"pc", "answer", "authentic", "at", "report", "mirror"} \subseteq DOMAIN reader
  BY DEF IInv, ReaderInv, Closed
<1>2. ASSUME reader'.pc \notin {"verifying", "reported"}
      PROVE  ReportInv'
  BY <1>2 DEF ReportInv
<1>3. CASE (\E order \in Orders : WriteBundle(order)) \/ Edit \/ Recommit
           \/ \E key, public \in Signers : SignBundle(key, public)
  <2>1. reader' = reader /\ reader.pc = "closed"
    BY <1>3 DEF WriteBundle, Edit, Recommit, SignBundle, IInv, ReaderInv
  <2> QED
    BY <1>2, <2>1
<1>4. CASE Open
  BY <1>2, <1>4 DEF Open, Closed
<1>5. CASE Authenticate
  BY <1>1, <1>2, <1>5 DEF Authenticate, Ready
<1>6. ASSUME NEW asked, NEW result, Ready, Reply(asked, result)
      PROVE  reader'.pc = "open"
  BY <1>1, <1>6 DEF Reply, Ready
<1>7. CASE AskBytes \/ AskServed \/ AskChunk \/ AskDecrypted \/ AskStage
  <2>1. CASE AskBytes
    BY <1>2, <1>6, <2>1 DEF AskBytes
  <2>2. CASE AskServed
    BY <1>2, <1>6, <2>2 DEF AskServed
  <2>3. CASE AskChunk
    BY <1>2, <1>6, <2>3 DEF AskChunk
  <2>4. CASE AskDecrypted
    BY <1>2, <1>6, <2>4 DEF AskDecrypted
  <2>5. CASE AskStage
    BY <1>2, <1>6, <2>5 DEF AskStage
  <2> QED
    BY <1>7, <2>1, <2>2, <2>3, <2>4, <2>5
<1>8. CASE StartVerify
  <2>1. /\ reader'.pc = "verifying" /\ reader'.at = 1 /\ reader'.report = NoReport
        /\ UNCHANGED <<file, bundle>> /\ reader.pc = "open"
    BY <1>1, <1>8 DEF StartVerify, Ready
  <2>2. DOMAIN bundle.secs = 1 .. bundle.h.count /\ bundle.h.count \in Nat
    BY <2>1, SectionsInTable DEF NotOpened
  <2>3. \A i \in DOMAIN bundle.secs : ~(i < 1)
    BY <2>2
  <2>4. DOMAIN NoReport = Lists /\ \A l \in Lists : NoReport[l] = {}
    BY DEF NoReport, Lists
  <2>5. 1 \in 1 .. bundle.h.count + 1
    BY <2>2
  <2> QED
    BY <2>1, <2>3, <2>4, <2>5 DEF ReportInv
<1>9. CASE VerifySection
  BY <1>9, VerifySectionInv
<1>10. CASE EndVerify
  BY <1>10, EndVerifyInv
<1>11. CASE StartStream
  BY <1>1, <1>2, <1>11 DEF StartStream
<1>12. CASE (\E n \in 1 .. MaxChunk : StreamRead(n)) \/ StreamEnd
  BY <1>1, <1>2, <1>12 DEF StreamRead, StreamEnd, Settle
<1>13. CASE UNCHANGED vars
  BY <1>13 DEF vars, ReportInv
<1> QED
  BY <1>3, <1>4, <1>5, <1>7, <1>8, <1>9, <1>10, <1>11, <1>12, <1>13 DEF Next

\* The pass finds verified what SectionBytes hands out, of a kind this build knows.
LEMMA SectionRead ==
    ASSUME IInv, reader.pc \notin NotOpened, NEW r \in ToSet(bundle.secs)
    PROVE  /\ SectionBytes(file, bundle, r).ok => Finding(file, r) = "verified"
           /\ Finding(file, r) = "verified" /\ r.kind \in KnownKinds =>
                 SectionBytes(file, bundle, r).ok
<1>1. Cells(file) /\ Parse(file).ok /\ bundle = Parse(file).value
  BY DEF IInv, CellsInv, Cells, ReaderInv
<1>2. RecordOk(r)
  BY RecordNumbers
<1>3. ASSUME SectionBytes(file, bundle, r).ok
      PROVE  Finding(file, r) = "verified"
  <2>1. r.kind \in KnownKinds /\ VerifiedBytes(file, r).ok
    BY <1>3 DEF SectionBytes, Failed
  <2>2. ReadPlain(file, r).ok
    BY <2>1 DEF VerifiedBytes, AndThen, Failed
  <2>3. PICK stored : stored = Slice(file, r.offset, StoredEnd(r))
    OBVIOUS
  <2>4. /\ "EXTERNAL" \notin r.flags /\ r.enc = "none"
        /\ ReadPlain(file, r) = IF r.comp = "zstd" THEN Decompress(stored, r.lenPlain)
                                ELSE Ok(stored)
    BY <2>2, <2>3 DEF ReadPlain, Failed
  <2>5. Len(stored) = r.lenStored
    BY <1>1, <2>3, <2>4, StoredCut
  <2>6. r.comp # "none" => WithinCaps(r.lenPlain, r.lenStored)
    <3>1. SUFFICES ASSUME r.comp # "none"
                   PROVE  WithinCaps(r.lenPlain, r.lenStored)
      OBVIOUS
    <3>2. r.comp = "zstd"
      BY <1>2, <3>1 DEF RecordOk
    <3>3. Decompress(stored, r.lenPlain).ok
      BY <2>2, <2>4, <3>2
    <3>4. WithinCaps(r.lenPlain, Len(stored))
      BY <3>3 DEF Decompress, Failed
    <3> QED
      BY <2>5, <3>4
  <2> QED
    BY <2>1, <2>2, <2>4, <2>6 DEF Finding
<1>4. ASSUME Finding(file, r) = "verified", r.kind \in KnownKinds
      PROVE  SectionBytes(file, bundle, r).ok
  <2>1. r.enc = "none" /\ VerifiedBytes(file, r).ok
    BY <1>4 DEF Finding
  <2>2. "SEALED" \notin r.flags
    BY <1>2, <2>1 DEF RecordOk, SealedOk
  <2>3. Owned(bundle, r)
    BY DEF Owned, ToSet
  <2> QED
    BY <1>4, <2>1, <2>2, <2>3 DEF SectionBytes
<1> QED
  BY <1>3, <1>4

\* A root that does not match, of a section as it was signed, is a payload that was changed.
LEMMA MismatchIsAChange ==
    ASSUME IInv, WrittenInv, reader.authentic, reader.pc \notin NotOpened,
           NEW r \in ToSet(bundle.secs), Finding(file, r) = "mismatches"
    PROVE  \E o \in r.offset .. StoredEnd(r) - 1 : file[o + 1] # made.file[o + 1]
<1> SUFFICES ASSUME \A o \in r.offset .. StoredEnd(r) - 1 : file[o + 1] = made.file[o + 1]
             PROVE  FALSE
  OBVIOUS
<1>1. Cells(file) /\ Parse(file).ok /\ bundle = Parse(file).value
  BY DEF IInv, CellsInv, Cells, ReaderInv
<1>2. /\ "EXTERNAL" \notin r.flags /\ r.enc = "none" /\ ReadPlain(file, r).ok
      /\ ~VerifiedBytes(file, r).ok
  BY DEF Finding
<1>3. PICK s \in ToSet(made.order.specs) :
         Describes(made.order, s, r) /\ PayloadAt(made.order, s, r.offset, made.file)
  BY SignedRecords
<1>4. OrderOk(made.order)
  BY DEF WrittenInv
<1>5. PICK stored : stored = Slice(file, r.offset, StoredEnd(r))
  OBVIOUS
<1>6. PICK off \in Nat, n \in Nat : off = r.offset /\ n = r.lenStored
  BY <1>1, <1>2, StoredCut
<1>7. /\ List(stored) /\ Len(stored) = n /\ off >= 1 /\ StoredEnd(r) = off + n
      /\ \A j \in 1 .. n : stored[j] = file[off + j]
  BY <1>1, <1>2, <1>5, <1>6, StoredCut DEF StoredEnd
<1>8. ~s.encrypt /\ s.from # "external"
  BY <1>2, <1>3, <1>6, <1>7 DEF Describes, PayloadAt
<1>9. PICK cells : cells = Stored(made.order, s).value
  OBVIOUS
<1>10. List(cells) /\ Len(cells) = n
  <2>1. cells \in Seq(CellsOf(made.order))
    BY <1>3, <1>4, <1>9, CellsOfOrder
  <2>2. n = Len(cells)
    BY <1>3, <1>6, <1>9 DEF Describes
  <2> QED
    BY <2>1, <2>2, OneSequence DEF List
<1>11. \A j \in 1 .. n : made.file[off + j] = cells[j]
  BY <1>3, <1>6, <1>8, <1>9, <1>10 DEF PayloadAt, HoldsAt
<1>12. ASSUME NEW j \in 1 .. n
       PROVE  stored[j] = cells[j]
  <2>1. PICK o : o = off + j - 1
    OBVIOUS
  <2>2. o \in off .. off + n - 1 /\ o + 1 = off + j
    BY <2>1
  <2>3. file[o + 1] = made.file[o + 1]
    BY <1>6, <1>7, <2>2
  <2> QED
    BY <1>7, <1>11, <2>2, <2>3
<1>13. stored = cells
  BY <1>7, <1>10, <1>12, SameList
<1>14. PICK read : read = ReadPlain(file, r)
  OBVIOUS
<1>15. ReadPlain(file, r).value = PlainOf(made.order, s)
  <2>1. read.ok /\ read = IF s.comp = "zstd" THEN Decompress(stored, r.lenPlain) ELSE Ok(stored)
    BY <1>2, <1>3, <1>5, <1>14 DEF Describes, ReadPlain, Failed
  <2>2. stored = Stored(made.order, s).value
    BY <1>9, <1>13
  <2>3. read.value = PlainOf(made.order, s)
    BY <1>3, <1>4, <1>8, <2>1, <2>2, WrittenReads
  <2> QED
    BY <1>14, <2>3
<1>16. Hash(ReadPlain(file, r).value) = r.root
  BY <1>3, <1>15 DEF Describes
<1> QED
  BY <1>2, <1>16 DEF VerifiedBytes, AndThen, Ok

\* What matches its root in an authentic bundle is what was signed.
LEMMA VerifiedIsWritten ==
    ASSUME IInv, WrittenInv, reader.authentic, reader.pc \notin NotOpened,
           NEW r \in ToSet(bundle.secs), Finding(file, r) = "verified"
    PROVE  ReadPlain(file, r).value \in Original(r.name)
<1>1. Cells(file) /\ Parse(file).ok /\ bundle = Parse(file).value
  BY DEF IInv, CellsInv, Cells, ReaderInv
<1>2. VerifiedBytes(file, r).ok
  BY DEF Finding
<1>3. PICK plain : plain = VerifiedBytes(file, r).value
  OBVIOUS
<1>4. List(plain) /\ Hash(plain) = r.root
  BY <1>1, <1>2, <1>3, ReadList
<1>5. plain = ReadPlain(file, r).value
  BY <1>2, <1>3 DEF VerifiedBytes, AndThen, Ok, Failed
<1>6. PICK s \in ToSet(made.order.specs) :
         Describes(made.order, s, r) /\ PayloadAt(made.order, s, r.offset, made.file)
  BY SignedRecords
<1>7. List(PlainOf(made.order, s))
  BY <1>6, PlainCells DEF WrittenInv
<1>8. plain = PlainOf(made.order, s)
  BY <1>4, <1>6, <1>7, HashTellsCells DEF Describes
<1>9. s \in Written(r.name)
  BY <1>6 DEF Written, Describes
<1> QED
  BY <1>5, <1>8, <1>9 DEF Original

LEMMA ReportMeansWhatItSays ==
    ASSUME IInv, WrittenInv, ReportInv
    PROVE  ReportIsTrue
<1> SUFFICES ASSUME reader.pc = "reported", NEW r \in ToSet(bundle.secs)
             PROVE  LET lists == [l \in DOMAIN NoReport |-> reader.report[l]]
                        plain == SectionBytes(file, bundle, r)
                    IN /\ Cardinality({l \in DOMAIN lists : r.name \in lists[l]}) = 1
                       /\ plain.ok => r.name \in lists["verified"]
                       /\ r.name \in lists["verified"] /\ r.kind \in KnownKinds => plain.ok
                       /\ reader.authentic /\ r.name \in lists["mismatches"] =>
                            \E o \in r.offset .. StoredEnd(r) - 1 :
                                file[o + 1] # made.file[o + 1]
                       /\ reader.authentic /\ r.name \in lists["verified"] =>
                            ReadPlain(file, r).value \in Original(r.name)
  BY DEF ReportIsTrue
<1> DEFINE lists == [l \in DOMAIN NoReport |-> reader.report[l]]
<1>1. reader.pc \notin NotOpened
  BY DEF NotOpened
<1>2. PICK i \in DOMAIN bundle.secs : r = bundle.secs[i]
  BY DEF ToSet
<1>3. Finding(file, r) \in Lists
  BY <1>2 DEF ReportInv
<1>4. \A j \in DOMAIN bundle.secs : bundle.secs[j].name = r.name => j = i
  <2>1. Tabled(file, bundle.h, bundle.secs, bundle.h.count)
    BY <1>1, TableFacts DEF IInv, CellsInv, ReaderInv
  <2> QED
    BY <1>2, <2>1 DEF Tabled, LayoutOk
<1>5. ASSUME NEW l \in Lists
      PROVE  r.name \in reader.report[l] <=> Finding(file, r) = l
  <2>1. reader.report[l] = {bundle.secs[j].name :
           j \in {j \in DOMAIN bundle.secs :
                    j < reader.at /\ Finding(file, bundle.secs[j]) = l}}
    BY DEF ReportInv
  <2>2. i < reader.at
    BY DEF ReportInv
  <2> QED
    BY <1>2, <1>4, <2>1, <2>2
<1>6. DOMAIN lists = Lists /\ \A l \in Lists : lists[l] = reader.report[l]
  BY DEF NoReport, Lists
<1> HIDE DEF lists
<1>7. Cardinality({l \in DOMAIN lists : r.name \in lists[l]}) = 1
  <2>1. {l \in DOMAIN lists : r.name \in lists[l]} = {Finding(file, r)}
    BY <1>3, <1>5, <1>6
  <2> QED
    BY <2>1, FS_Singleton
<1>8. "verified" \in Lists /\ "mismatches" \in Lists
  BY DEF Lists
<1>9. r.name \in lists["verified"] <=> Finding(file, r) = "verified"
  BY <1>5, <1>6, <1>8
<1>10. r.name \in lists["mismatches"] <=> Finding(file, r) = "mismatches"
  BY <1>5, <1>6, <1>8
<1> QED
  BY <1>1, <1>7, <1>9, <1>10, SectionRead, MismatchIsAChange, VerifiedIsWritten DEF lists

\* The verify pass puts every section on one list and the lists are true: verified is what
\* section_bytes would hand out, in an authentic bundle what was signed, and a mismatch there
\* is a stored payload that somebody changed (verify_inline_sections).
THEOREM ReportsAreTrue == Spec => []ReportIsTrue
<1>1. Init => ReportInv
  BY DEF Init, Closed, ReportInv
<1>2. IInv /\ ReportInv /\ [Next]_vars => ReportInv'
  BY ReportNext
<1>3. IInv /\ JInv /\ ReportInv => ReportIsTrue
  BY ReportMeansWhatItSays DEF JInv
<1> QED
  BY <1>1, <1>2, <1>3, ContainerInvariant, AnswersInvariant, PTL DEF Spec


(***************************************************************************)
(* What is sealed                                                          *)
(***************************************************************************)
EnvelopeFor(order, c) ==
    c[1] = "env" => \E s \in ToSet(order.specs) :
                        c[2].name = s.name /\ To(c[2].ctx, c[2].to) \in ToSet(s.to)

StagedFor(order, c) ==
    \A n : c[1] = "aead" /\ c[2].key = <<"stage", n>> =>
               \E s \in ToSet(order.specs) : s.name = n /\ s.stage

\* An envelope was made for a recipient the author named, and what is sealed under the
\* key of a stage belongs to that stage.
KeyKept(order, c) ==
    /\ EnvelopeFor(order, c) /\ StagedFor(order, c)
    /\ c[1] = "zstd" => \A d \in ToSet(c[2]) : EnvelopeFor(order, d)

KeysInv == \A c \in ToSet(file) : KeyKept(made.order, c)

\* An answer without a job has no bytes, and there is none before a file was opened.
QuietInv ==
    /\ reader.pc \in NotOpened => ~reader.answer.ok
    /\ reader.answer.job \in {"none", "stream"} => reader.answer.bytes = <<>>

SInv == KeysInv /\ QuietInv /\ SealedTakesItsKey

LEMMA UnitsKeepKeys ==
    ASSUME NEW order \in Orders, NEW c \in Units(order)
    PROVE  KeyKept(order, c)
<1>1. PICK s \in ToSet(order.specs) : c \in Supplied(order, s)
  BY DEF Units
<1>2. CASE c \in ToSet(s.plain) \cup ToSet(s.index)
  <2>1. KeepsKeys(c)
    BY <1>2, SecretsAssumption
  <2>2. c[1] # "env"
    BY <2>1 DEF KeepsKeys, MadeWithKeys
  <2>3. ~(c[1] = "aead" /\ c[2].key[1] = "stage")
    BY <2>1 DEF KeepsKeys, MadeWithKeys
  <2>4. c[1] = "zstd" => \A d \in ToSet(c[2]) : d[1] # "env"
    BY <2>1 DEF KeepsKeys, MadeWithKeys
  <2>5. StagedFor(order, c)
    <3> SUFFICES ASSUME NEW n, c[1] = "aead", c[2].key = <<"stage", n>>
                 PROVE  FALSE
      BY DEF StagedFor
    <3>1. c[2].key[1] = "stage"
      OBVIOUS
    <3> QED
      BY <2>3, <3>1
  <2> QED
    BY <2>2, <2>4, <2>5 DEF KeyKept, EnvelopeFor
<1>3. CASE c \in ToSet(EnvelopesOf(order.suite, s))
  <2>1. PICK i \in DOMAIN EnvelopesOf(order.suite, s) : c = EnvelopesOf(order.suite, s)[i]
    BY <1>3 DEF ToSet
  <2>2. i \in DOMAIN s.to /\ c = <<"env", [name |-> s.name, ctx |-> s.to[i].ctx,
                                           to |-> s.to[i].holder, suite |-> order.suite,
                                           key |-> ContentKey(s)]>>
    BY <2>1 DEF EnvelopesOf
  <2>3. c[1] = "env" /\ c[2].name = s.name /\ c[2].ctx = s.to[i].ctx /\ c[2].to = s.to[i].holder
    BY <2>2
  <2>4. s.to[i] \in ToSet(s.to)
    BY <2>2 DEF ToSet
  <2>5. s.to[i] = To(s.to[i].ctx, s.to[i].holder)
    BY <2>4, OrdersAssumption
  <2> QED
    BY <2>3, <2>4, <2>5 DEF KeyKept, EnvelopeFor, StagedFor
<1> QED
  BY <1>1, <1>2, <1>3 DEF Supplied

\* The writer uses no key but the sections' own.
LEMMA OrdersKeepKeys ==
    ASSUME NEW order \in Orders, NEW c, FileCell(order, c)
    PROVE  KeyKept(order, c)
<1>1. CASE c \in Units(order)
  BY <1>1, UnitsKeepKeys
<1>2. CASE c[1] \in {"hdr", "rec", "foot", "tail", "cv", "zero"}
  BY <1>2 DEF KeyKept, EnvelopeFor, StagedFor
<1>3. CASE c[1] = "zstd" /\ ToSet(c[2]) \subseteq Units(order)
  <2>1. \A d \in ToSet(c[2]) : EnvelopeFor(order, d)
    BY <1>3, UnitsKeepKeys DEF KeyKept
  <2> QED
    BY <1>3, <2>1 DEF KeyKept, EnvelopeFor, StagedFor
<1>4. CASE c[1] = "aead" /\ \E s \in ToSet(order.specs) : c[2].key = ContentKey(s)
  <2>1. PICK s \in ToSet(order.specs) : c[2].key = ContentKey(s)
    BY <1>4
  <2>2. ASSUME NEW n, c[2].key = <<"stage", n>>
        PROVE  s.name = n /\ s.stage
    BY <2>1, <2>2 DEF ContentKey
  <2>3. StagedFor(order, c)
    BY <2>2 DEF StagedFor
  <2> QED
    BY <1>4, <2>3 DEF KeyKept, EnvelopeFor
<1> QED
  BY <1>1, <1>2, <1>3, <1>4 DEF FileCell, OrderCell

LEMMA KeysWritten ==
    ASSUME NEW order \in Orders, WriteBundle(order)
    PROVE  KeysInv'
<1>1. file' = Laid(order) /\ made'.order = order
  BY DEF WriteBundle
<1>2. \A c \in ToSet(Laid(order)) : KeyKept(order, c)
  <2>1. FileCells(order, Laid(order))
    BY OrdersAreOk, LaidCells DEF Laid
  <2> QED
    BY <2>1, OrdersKeepKeys DEF FileCells
<1> QED
  BY <1>1, <1>2 DEF KeysInv

\* No step of anybody else makes a cell that takes a key.
LEMMA KeysCopied ==
    ASSUME KeysInv, made'.order = made.order,
           \A c \in ToSet(file') : c[1] \in {"env", "zstd", "aead"} => c \in ToSet(file)
    PROVE  KeysInv'
<1> SUFFICES ASSUME NEW c \in ToSet(file')
             PROVE  KeyKept(made.order, c)
  BY DEF KeysInv
<1>1. CASE c[1] \in {"env", "zstd", "aead"}
  BY <1>1 DEF KeysInv
<1>2. CASE c[1] \notin {"env", "zstd", "aead"}
  BY <1>2 DEF KeyKept, EnvelopeFor, StagedFor
<1> QED
  BY <1>1, <1>2

LEMMA SignBundleCells ==
    ASSUME IInv, NEW key \in Signers, NEW public \in Signers, SignBundle(key, public)
    PROVE  \A c \in ToSet(file') : c[1] \in {"env", "zstd", "aead"} => c \in ToSet(file)
<1> DEFINE h == file[1][2]
           k == h.footerOff
           g == Signed(file, h, key)
           foot == [root |-> FootAt(file, h).root, cls |-> SlotLen, pq |-> SlotLen]
           over == SigInput(h.suite, foot, k + 4)
<1>1. /\ file \in Seq(ToSet(file)) /\ Parse(file).ok
      /\ \A i \in DOMAIN file : WellFormed(file[i]) /\ file[i] \in ToSet(file)
  BY DEF IInv, CellsInv, ToSet, SignBundle
<1>2. h = Parse(file).value.h /\ k \in Nat /\ k + 2 <= Len(file) /\ file[k + 1][1] = "foot"
  BY <1>1, FooterFacts
<1>3. file' = g
  BY <1>2 DEF SignBundle
<1> HIDE DEF h
<1>4. k + 1 \in DOMAIN file /\ k < Len(file) /\ 1 .. k \subseteq DOMAIN file
  <2>1. Len(file) \in Nat /\ DOMAIN file = 1 .. Len(file)
    BY <1>1
  <2> HIDE DEF k
  <2> QED
    BY <1>2, <2>1
<1>5. /\ g \in Seq(ToSet(g)) /\ Len(g) = k + 4
      /\ \A i \in 1 .. k : g[i] = file[i]
      /\ g[k + 1] = <<"foot", foot>>
      /\ g[k + 2] = <<"sig", [key |-> key, part |-> "cls", over |-> over]>>
      /\ g[k + 3] = <<"sig", [key |-> key, part |-> "pq", over |-> over]>>
      /\ g[k + 4] = <<"tail", k + 4>>
  <2>1. WellFormed(file[k + 1])
    BY <1>1, <1>4
  <2>2. /\ file \in Seq(ToSet(file)) /\ h.footerOff \in Nat /\ h.footerOff < Len(file)
        /\ WellFormed(file[h.footerOff + 1]) /\ file[h.footerOff + 1][1] = "foot"
    BY <1>1, <1>2, <1>4, <2>1
  <2> QED
    BY <2>2, SignedCells
<1>6. /\ g[k + 1][1] = "foot" /\ g[k + 2][1] = "sig" /\ g[k + 3][1] = "sig"
      /\ g[k + 4][1] = "tail"
  <2> HIDE DEF g, k, foot, over
  <2> QED
    BY <1>5
<1> SUFFICES ASSUME NEW i \in DOMAIN g, g[i][1] \in {"env", "zstd", "aead"}
             PROVE  g[i] \in ToSet(file)
  BY <1>3 DEF ToSet
<1> HIDE DEF k, g, foot, over
<1>7. i \in 1 .. k + 4
  BY <1>5
<1>8. i \in 1 .. k \/ i = k + 1 \/ i = k + 2 \/ i = k + 3 \/ i = k + 4
  BY <1>2, <1>7
<1>9. i \in 1 .. k
  BY <1>6, <1>8
<1> QED
  BY <1>1, <1>4, <1>5, <1>9

\* What a reader needs to be told of a section that is SEALED.
Keyed(name, job, ctx, by) ==
    \E s \in Written(name) :
        \/ job = "decrypt" /\ To(ctx, by) \in ToSet(s.to)
        \/ job = "stage" /\ s.stage

LEMMA SealedReply ==
    ASSUME IInv, NEW asked, NEW result, Ready, Reply(asked, result),
           DOMAIN asked = DOMAIN NoAnswer, asked.job \in WholeJobs \cup {"chunk"},
           NEW r, asked.name = r.name,
           result.ok => /\ r \in ToSet(bundle.secs)
                        /\ "SEALED" \in r.flags /\ result.value # <<>> =>
                              Keyed(r.name, asked.job, asked.ctx, asked.by)
    PROVE  QuietInv' /\ SealedTakesItsKey'
<1>1. /\ reader'.answer = [asked EXCEPT !.ok = result.ok, !.bytes = result.value]
      /\ reader'.pc = "open" /\ UNCHANGED <<file, made, edits, bundle>>
      /\ Parse(file).ok /\ bundle = Parse(file).value
  BY ReplyFacts
<1>2. PICK answer : answer = reader'.answer
  OBVIOUS
<1>3. /\ answer.job = asked.job /\ answer.name = asked.name /\ answer.ctx = asked.ctx
      /\ answer.by = asked.by /\ answer.ok = result.ok /\ answer.bytes = result.value
  BY <1>1, <1>2 DEF NoAnswer
<1>4. QuietInv'
  BY <1>1, <1>2, <1>3 DEF QuietInv, NotOpened, WholeJobs
<1>5. ASSUME answer.ok, answer.bytes # <<>>, NEW x \in ToSet(bundle.secs), x.name = answer.name,
             "SEALED" \in x.flags
      PROVE  Keyed(x.name, answer.job, answer.ctx, answer.by)
  <2>1. x = r
    BY <1>1, <1>3, <1>5, OneRecordPerName
  <2> QED
    BY <1>3, <1>5, <2>1
<1>6. \A x \in ToSet(bundle.secs) :
         answer.ok /\ answer.bytes # <<>> /\ x.name = answer.name /\ "SEALED" \in x.flags =>
            \E s \in Written(x.name) :
                \/ answer.job = "decrypt" /\ To(answer.ctx, answer.by) \in ToSet(s.to)
                \/ answer.job = "stage" /\ s.stage
  BY <1>5 DEF Keyed
<1>7. SealedTakesItsKey'
  BY <1>1, <1>2, <1>6 DEF SealedTakesItsKey, Written
<1> QED
  BY <1>4, <1>7

\* No plain read, no serving and no chunk check touches a sealed section.
LEMMA PlainAnswersSealed ==
    ASSUME IInv, AskBytes \/ AskServed \/ AskChunk
    PROVE  QuietInv' /\ SealedTakesItsKey'
<1>1. PICK r, asked, result :
         /\ Ready /\ Reply(asked, result)
         /\ DOMAIN asked = DOMAIN NoAnswer /\ asked.job \in WholeJobs \cup {"chunk"}
         /\ asked.name = r.name
         /\ result.ok => Owned(bundle, r) /\ "SEALED" \notin r.flags
  <2>1. CASE AskBytes
    <3>1. PICK r : Ready /\ Reply(Asked("bytes", r), SectionBytes(file, bundle, r))
      BY <2>1 DEF AskBytes
    <3>2. PICK result : result = SectionBytes(file, bundle, r)
      OBVIOUS
    <3>3. result.ok => Owned(bundle, r) /\ "SEALED" \notin r.flags
      BY <3>2 DEF SectionBytes, Failed
    <3> QED
      BY <3>1, <3>2, <3>3, AskedFields DEF WholeJobs
  <2>2. CASE AskServed
    <3>1. PICK r : Ready /\ Reply(Asked("serve", r), Serve(file, bundle, r))
      BY <2>2 DEF AskServed
    <3>2. PICK result : result = Serve(file, bundle, r)
      OBVIOUS
    <3>3. result.ok => Owned(bundle, r) /\ "SEALED" \notin r.flags
      BY <3>2 DEF Serve, SectionBytes, Failed
    <3> QED
      BY <3>1, <3>2, <3>3, AskedFields DEF WholeJobs
  <2>3. CASE AskChunk
    <3>1. PICK r, index, asked, result, i :
             /\ index = IndexFor(file, bundle, r) /\ index.ok
             /\ asked = [Asked("chunk", r) EXCEPT !.at = i]
             /\ Ready /\ Reply(asked, result)
      BY <2>3 DEF AskChunk
    <3>2. DOMAIN asked = DOMAIN NoAnswer /\ asked.job = "chunk" /\ asked.name = r.name
      BY <3>1 DEF Asked, NoAnswer
    <3>3. Owned(bundle, r) /\ "SEALED" \notin r.flags
      BY <3>1 DEF IndexFor, Failed
    <3> QED
      BY <3>1, <3>2, <3>3
  <2> QED
    BY <2>1, <2>2, <2>3
<1>2. result.ok => r \in ToSet(bundle.secs)
  BY <1>1 DEF Owned, ToSet
<1> QED
  BY <1>1, <1>2, SealedReply

\* Who unwraps a key is one it was wrapped to, under the context it was wrapped for.
LEMMA DecryptedSealed ==
    ASSUME IInv, KeysInv, AskDecrypted
    PROVE  QuietInv' /\ SealedTakesItsKey'
<1>1. PICK r, holder, ctx, key, asked, result :
         /\ key = SectionContentKey(file, bundle, r, holder, ctx)
         /\ asked = [Asked("decrypt", r) EXCEPT !.by = holder, !.ctx = ctx]
         /\ result = IF key.ok THEN DecryptSection(file, bundle, r, key.value) ELSE Failed
         /\ Ready /\ Reply(asked, result)
  BY DEF AskDecrypted
<1>2. Parse(file).ok /\ bundle = Parse(file).value /\ Cells(file)
  BY <1>1, ReplyFacts
<1>3. /\ DOMAIN asked = DOMAIN NoAnswer /\ asked.job = "decrypt" /\ asked.name = r.name
      /\ asked.ctx = ctx /\ asked.by = holder
  BY <1>1 DEF Asked, NoAnswer
<1>4. ASSUME result.ok
      PROVE  r \in ToSet(bundle.secs) /\ Keyed(r.name, "decrypt", ctx, holder)
  <2>1. key.ok /\ result = DecryptSection(file, bundle, r, key.value)
    BY <1>1, <1>4 DEF Failed
  <2>2. r \in ToSet(bundle.secs)
    BY <1>2, <1>4, <2>1, DecryptedList
  <2>3. SectionContentKey(file, Parse(file).value, r, holder, ctx).ok
    BY <1>1, <1>2, <2>1
  <2>4. PICK e \in ToSet(file) \cup Packed(file) :
           e[1] = "env" /\ e[2].name = r.name /\ e[2].ctx = ctx /\ e[2].to = holder
    <3>1. EnvelopeIn(file, r.name, holder, ctx)
      BY <1>2, <2>3, KeyHasEnvelope
    <3> QED
      BY <3>1 DEF EnvelopeIn
  <2>5. EnvelopeFor(made.order, e)
    <3>1. CASE e \in ToSet(file)
      BY <3>1 DEF KeysInv, KeyKept
    <3>2. CASE e \in Packed(file)
      BY <3>2 DEF KeysInv, KeyKept, Packed
    <3> QED
      BY <3>1, <3>2
  <2> QED
    BY <2>2, <2>4, <2>5 DEF EnvelopeFor, Keyed, Written
<1>5. asked.job \in WholeJobs \cup {"chunk"}
  BY <1>3 DEF WholeJobs
<1> QED
  BY <1>1, <1>3, <1>4, <1>5, SealedReply

\* What opens under the key of a stage was sealed under it, by the author.
LEMMA StageSealed ==
    ASSUME IInv, KeysInv, AskStage
    PROVE  QuietInv' /\ SealedTakesItsKey'
<1>1. PICK r : Ready /\ Reply(Asked("stage", r),
                              DecryptSection(file, bundle, r, <<"stage", r.name>>))
  BY DEF AskStage
<1>2. Parse(file).ok /\ bundle = Parse(file).value /\ Cells(file)
  BY <1>1, ReplyFacts
<1>3. PICK key, asked, result : /\ key = <<"stage", r.name>>
                                /\ asked = Asked("stage", r)
                                /\ result = DecryptSection(file, bundle, r, key)
  OBVIOUS
<1>4. /\ DOMAIN asked = DOMAIN NoAnswer /\ asked.job = "stage" /\ asked.name = r.name
      /\ Ready /\ Reply(asked, result)
  BY <1>1, <1>3, AskedFields
<1>5. result.ok => r \in ToSet(bundle.secs)
  BY <1>2, <1>3, DecryptedList
<1>6. ASSUME result.ok, result.value # <<>>
      PROVE  Keyed(r.name, asked.job, asked.ctx, asked.by)
  <2>1. SealedUnder(file, key)
    BY <1>2, <1>3, <1>6, DecryptedList
  <2>2. PICK c \in ToSet(file) : c[1] = "aead" /\ c[2].key = <<"stage", r.name>>
    BY <1>3, <2>1 DEF SealedUnder
  <2>3. PICK s \in ToSet(made.order.specs) : s.name = r.name /\ s.stage
    BY <2>2 DEF KeysInv, KeyKept, StagedFor
  <2> QED
    BY <1>4, <2>3 DEF Keyed, Written
<1>7. asked.job \in WholeJobs \cup {"chunk"}
  BY <1>4 DEF WholeJobs
<1> QED
  BY <1>4, <1>5, <1>6, <1>7, SealedReply

LEMMA KeptSealed ==
    ASSUME QuietInv, SealedTakesItsKey, UNCHANGED bundle, made'.order = made.order,
           reader'.answer = reader.answer, reader'.pc \in NotOpened => reader.pc \in NotOpened
    PROVE  QuietInv' /\ SealedTakesItsKey'
BY DEF QuietInv, SealedTakesItsKey, Written

\* A stream is judged and not handed out.
LEMMA StreamSealed ==
    ASSUME reader'.answer.bytes = <<>>, reader'.pc \notin NotOpened
    PROVE  QuietInv' /\ SealedTakesItsKey'
BY DEF QuietInv, SealedTakesItsKey

LEMMA StreamingSealed ==
    ASSUME IInv, StreamInv, QuietInv, SealedTakesItsKey,
           StartStream \/ (\E n \in 1 .. MaxChunk : StreamRead(n)) \/ StreamEnd
    PROVE  QuietInv' /\ SealedTakesItsKey'
<1>1. DOMAIN reader = DOMAIN Closed /\ {"pc", "at", "mirror", "answer"} \subseteq DOMAIN reader
  BY DEF IInv, ReaderInv, Closed
<1>2. CASE StartStream
  <2>1. PICK i, sent :
           reader' = [reader EXCEPT !.pc = "streaming", !.at = 0, !.mirror = sent,
                                    !.answer.name = bundle.secs[i].name]
    BY <1>2 DEF StartStream
  <2>2. reader.answer = NoAnswer
    BY <1>2 DEF StartStream, Ready
  <2>3. reader'.pc = "streaming" /\ reader'.answer = [NoAnswer EXCEPT !.name = bundle.secs[i].name]
    BY <1>1, <2>1, <2>2
  <2>4. reader'.answer.bytes = <<>>
    BY <2>3 DEF NoAnswer
  <2> QED
    BY <2>3, <2>4, StreamSealed DEF NotOpened
<1>3. CASE reader.pc = "streaming" /\ \E ok \in BOOLEAN : reader' = Settle(ok)
  <2>1. DOMAIN reader.answer = DOMAIN NoAnswer /\ reader.answer.bytes = <<>>
    BY <1>3 DEF StreamInv, QuietInv
  <2>2. {"job", "ok", "bytes"} \subseteq DOMAIN reader.answer
    BY <2>1 DEF NoAnswer
  <2>3. PICK ok \in BOOLEAN : reader' = Settle(ok)
    BY <1>3
  <2>4. reader'.pc = "streamed" /\ reader'.answer.bytes = <<>>
    BY <1>1, <2>1, <2>2, <2>3 DEF Settle
  <2> QED
    BY <2>4, StreamSealed DEF NotOpened
<1>4. ASSUME NEW n \in 1 .. MaxChunk, StreamRead(n)
      PROVE  QuietInv' /\ SealedTakesItsKey'
  <2>1. CASE reader.at + n > Streamed.lenPlain
    BY <1>3, <1>4, <2>1 DEF StreamRead
  <2>2. CASE ~(reader.at + n > Streamed.lenPlain)
    <3>1. reader' = [reader EXCEPT !.at = @ + n] /\ UNCHANGED <<made, bundle>>
      BY <1>4, <2>2 DEF StreamRead
    <3>2. reader'.answer = reader.answer /\ reader'.pc = reader.pc
      BY <1>1, <3>1
    <3> QED
      BY <3>1, <3>2, KeptSealed
  <2> QED
    BY <2>1, <2>2
<1>5. CASE StreamEnd
  <2>1. PICK ok \in BOOLEAN : ok = (/\ reader.at = Streamed.lenPlain
                                    /\ Hash(SubSeq(reader.mirror, 1, reader.at)) = Streamed.root)
    OBVIOUS
  <2>2. reader.pc = "streaming" /\ reader' = Settle(ok)
    BY <1>5, <2>1 DEF StreamEnd
  <2> QED
    BY <1>3, <2>2
<1> QED
  BY <1>2, <1>4, <1>5

LEMMA AskingSealed ==
    ASSUME IInv, StreamInv, SInv, Asking
    PROVE  SInv'
<1>1. UNCHANGED <<file, made, bundle>> /\ reader.pc \notin NotOpened /\ reader'.pc \notin NotOpened
  BY AskingKeepsTheFile DEF IInv, NotOpened, Opened
<1>2. KeysInv'
  BY <1>1 DEF SInv, KeysInv
<1>3. {"pc", "answer", "at", "authentic", "report"} \subseteq DOMAIN reader
  BY DEF IInv, ReaderInv, Closed
<1>4. CASE Authenticate \/ StartVerify \/ VerifySection \/ EndVerify
  <2>1. ASSUME Authenticate PROVE reader'.answer = reader.answer
    BY <1>3, <2>1 DEF Authenticate
  <2>2. ASSUME StartVerify PROVE reader'.answer = reader.answer
    BY <1>3, <2>2 DEF StartVerify
  <2>3. ASSUME VerifySection PROVE reader'.answer = reader.answer
    BY <1>3, <2>3 DEF VerifySection
  <2>4. ASSUME EndVerify PROVE reader'.answer = reader.answer
    BY <1>3, <2>4 DEF EndVerify
  <2>5. reader'.answer = reader.answer
    BY <1>4, <2>1, <2>2, <2>3, <2>4
  <2> QED
    BY <1>1, <1>2, <2>5, KeptSealed DEF SInv
<1>5. CASE AskBytes \/ AskServed \/ AskChunk
  BY <1>2, <1>5, PlainAnswersSealed DEF SInv
<1>6. CASE AskDecrypted
  BY <1>2, <1>6, DecryptedSealed DEF SInv
<1>7. CASE AskStage
  BY <1>2, <1>7, StageSealed DEF SInv
<1>8. CASE StartStream \/ (\E n \in 1 .. MaxChunk : StreamRead(n)) \/ StreamEnd
  BY <1>2, <1>8, StreamingSealed DEF SInv
<1> QED
  BY <1>4, <1>5, <1>6, <1>7, <1>8 DEF Asking

LEMMA SealedInit ==
    ASSUME Init
    PROVE  SInv
<1>1. file = <<>> /\ reader = Closed
  BY DEF Init
<1>2. KeysInv
  BY <1>1 DEF KeysInv, ToSet
<1> QED
  BY <1>1, <1>2 DEF SInv, QuietInv, SealedTakesItsKey, Closed, NoAnswer

LEMMA SealedNext ==
    ASSUME IInv, JInv, SInv, [Next]_vars
    PROVE  SInv'
<1>1. CASE \E order \in Orders : WriteBundle(order)
  <2>1. PICK order \in Orders : WriteBundle(order)
    BY <1>1
  <2>2. UNCHANGED <<bundle, reader>> /\ reader.pc = "closed"
    BY <2>1 DEF WriteBundle, IInv, ReaderInv
  <2>3. ~reader.answer.ok
    BY <2>2 DEF SInv, QuietInv, NotOpened
  <2> QED
    BY <2>1, <2>2, <2>3, KeysWritten DEF SInv, QuietInv, SealedTakesItsKey
<1>2. CASE \E key, public \in Signers : SignBundle(key, public)
  <2>1. PICK key, public \in Signers : SignBundle(key, public)
    BY <1>2
  <2>2. UNCHANGED <<edits, bundle, reader>> /\ made'.order = made.order
    BY <2>1 DEF SignBundle, IInv, SignedInv
  <2>3. KeysInv'
    BY <2>1, <2>2, SignBundleCells, KeysCopied DEF SInv
  <2> QED
    BY <2>2, <2>3, KeptSealed DEF SInv
<1>3. CASE Edit \/ Recommit
  <2>1. UNCHANGED <<made, bundle, reader>>
    BY <1>3 DEF Edit, Recommit
  <2>2. \A c \in ToSet(file') : c[1] \in {"env", "zstd", "aead"} => c \in ToSet(file)
    BY <1>3, EditDerived, RecommitDerived, DerivedCells
  <2>3. KeysInv'
    BY <2>1, <2>2, KeysCopied DEF SInv
  <2> QED
    BY <2>1, <2>3, KeptSealed DEF SInv
<1>4. CASE Open
  <2>1. reader'.answer = NoAnswer /\ UNCHANGED <<file, made>>
    BY <1>4 DEF Open, Closed
  <2>2. KeysInv'
    BY <2>1 DEF SInv, KeysInv
  <2> QED
    BY <2>1, <2>2 DEF SInv, QuietInv, SealedTakesItsKey, NoAnswer
<1>5. CASE Asking
  BY <1>5, AskingSealed DEF JInv
<1>6. CASE UNCHANGED vars
  <2>1. UNCHANGED <<file, made, bundle, reader>>
    BY <1>6 DEF vars
  <2>2. KeysInv'
    BY <2>1 DEF SInv, KeysInv
  <2> QED
    BY <2>1, <2>2, KeptSealed DEF SInv
<1> QED
  BY <1>1, <1>2, <1>3, <1>4, <1>5, <1>6 DEF Next, Asking

\* What the table of any file marks SEALED, edited and re-committed tables included, comes
\* out of it only to a recipient the author wrapped its key to, under the context it was
\* wrapped for, or with the key of its stage (section_bytes, serve, verified_index,
\* section_content_key, decrypt_section).
THEOREM SealedSectionsTakeTheirKey == Spec => []SealedTakesItsKey
<1>1. Init => SInv
  BY SealedInit
<1>2. IInv /\ JInv /\ SInv /\ [Next]_vars => SInv'
  BY SealedNext
<1>3. SInv => SealedTakesItsKey
  BY DEF SInv
<1> QED
  BY <1>1, <1>2, <1>3, ContainerInvariant, AnswersInvariant, PTL DEF Spec

(***************************************************************************)
(* What is listed                                                          *)
(***************************************************************************)
\* A written file has records of what its author asked for.
LEMMA WrittenBundle ==
    ASSUME IInv, WrittenInv, bundle # <<>>
    PROVE  /\ Parse(file).ok /\ bundle = Parse(file).value /\ Cells(file)
           /\ OrderOk(made.order)
           /\ file = made.file => CanLay(made.order) /\ LaidAs(made.order, file)
<1>1. Parse(file).ok /\ bundle = Parse(file).value /\ Cells(file)
  BY OpenedBundle DEF IInv, CellsInv, Cells
<1>2. file # <<>>
  BY <1>1, ParseFacts
<1> QED
  BY <1>1, <1>2 DEF WrittenInv

LEMMA ListingAgrees ==
    ASSUME IInv, WrittenInv
    PROVE  ListingAndServingAgree
<1> SUFFICES ASSUME bundle # <<>>
             PROVE  LET listed == ServingManifest(bundle)
                        record(a) == CHOOSE r \in ToSet(bundle.secs) : r.name = a.id
                        served(r) == Serve(file, bundle, r)
                    IN /\ \A i, j \in DOMAIN listed :
                            \/ i = j
                            \/ /\ listed[i].name # listed[j].name
                               /\ listed[i].path \cap listed[j].path = {}
                       /\ \A a \in ToSet(listed) :
                            IF a.external THEN a.mirrors # {} /\ a.size = bundle.man.external[a.id].size
                            ELSE /\ served(record(a)).ok => Accepts(a, served(record(a)).value)
                                 /\ file = made.file => (served(record(a)).ok <=>
                                        record(a).enc = "none" /\ Unpackable(record(a)))
                       /\ \A r \in ToSet(bundle.secs) :
                            served(r).ok => \E a \in ToSet(listed) : a.id = r.name /\ ~a.external
                       /\ {a.id : a \in ToSet(listed)} \subseteq StoreLists(bundle)
                       /\ \A r \in ToSet(bundle.secs) : r.name \in StoreLists(bundle) =>
                            r.kind = "future" \/ \E a \in ToSet(listed) : a.id = r.name
  BY DEF ListingAndServingAgree
<1> DEFINE record(a) == CHOOSE r \in ToSet(bundle.secs) : r.name = a.id
<1>1. /\ Parse(file).ok /\ bundle = Parse(file).value /\ Cells(file)
      /\ OrderOk(made.order)
      /\ file = made.file => CanLay(made.order) /\ LaidAs(made.order, file)
  BY WrittenBundle
<1>2. PICK at : ListedAt(bundle, at)
  BY <1>1, ListingFacts
<1>3. PICK listed : listed = ServingManifest(bundle)
  OBVIOUS
<1>4. /\ at \in Seq(Listable(bundle)) /\ DOMAIN listed = 1 .. Len(at)
      /\ \A k \in 1 .. Len(at) : listed[k] = Listing(bundle, bundle.secs[at[k]])
      /\ \A x \in Listable(bundle) : \E k \in 1 .. Len(at) : at[k] = x
      /\ \A j, k \in 1 .. Len(at) : at[j] = at[k] => j = k
  BY <1>2, <1>3 DEF ListedAt
<1>5. \A k \in 1 .. Len(at) : at[k] \in Listable(bundle) /\ at[k] \in DOMAIN bundle.secs
                              /\ bundle.secs[at[k]] \in ToSet(bundle.secs)
  BY <1>4 DEF Listable, ToSet
<1>6. ASSUME NEW i \in DOMAIN listed, NEW j \in DOMAIN listed, i # j
      PROVE  listed[i].name # listed[j].name /\ listed[i].path \cap listed[j].path = {}
  <2>1. at[i] # at[j] /\ i \in 1 .. Len(at) /\ j \in 1 .. Len(at)
    BY <1>4, <1>6
  <2>2. PICK r, x : r = bundle.secs[at[i]] /\ x = bundle.secs[at[j]]
    OBVIOUS
  <2>3. r \in ToSet(bundle.secs) /\ x \in ToSet(bundle.secs)
    BY <1>5, <2>1, <2>2
  <2>4. r # x
    <3>1. \A k, m \in DOMAIN bundle.secs : bundle.secs[k].name = bundle.secs[m].name => k = m
      BY <1>1, ParseFacts DEF LayoutOk
    <3> QED
      BY <1>5, <2>1, <2>2, <3>1
  <2> QED
    <3>1. /\ Listing(bundle, r).name # Listing(bundle, x).name
          /\ Listing(bundle, r).path \cap Listing(bundle, x).path = {}
      BY <1>1, <2>3, <2>4, ListedOnce
    <3> QED
      BY <1>4, <2>1, <2>2, <3>1
<1>7. ASSUME NEW a \in ToSet(listed)
      PROVE  \E i \in Listable(bundle) : /\ a = Listing(bundle, bundle.secs[i])
                                         /\ record(a) = bundle.secs[i]
                                         /\ bundle.secs[i] \in ToSet(bundle.secs)
  <2>1. PICK k \in 1 .. Len(at) : a = listed[k]
    BY <1>4 DEF ToSet
  <2>2. PICK i, r : i = at[k] /\ r = bundle.secs[i]
    OBVIOUS
  <2>3. i \in Listable(bundle) /\ r \in ToSet(bundle.secs) /\ a = Listing(bundle, r)
    BY <1>4, <1>5, <2>1, <2>2
  <2>4. a.id = r.name
    BY <2>3 DEF Listing
  <2>5. record(a) \in ToSet(bundle.secs) /\ record(a).name = r.name
    BY <2>3, <2>4
  <2>6. record(a) = r
    <3>1. PICK x : x = record(a)
      OBVIOUS
    <3> HIDE DEF record
    <3>2. x \in ToSet(bundle.secs) /\ x.name = r.name
      BY <2>5, <3>1
    <3>3. x = r
      BY <1>1, <2>3, <3>2, OneRecordPerName
    <3> QED
      BY <3>1, <3>3
  <2> QED
    BY <2>2, <2>3, <2>6
<1> HIDE DEF record
<1>8. ASSUME NEW a \in ToSet(listed)
      PROVE  IF a.external THEN a.mirrors # {} /\ a.size = bundle.man.external[a.id].size
             ELSE /\ Serve(file, bundle, record(a)).ok =>
                        Accepts(a, Serve(file, bundle, record(a)).value)
                  /\ file = made.file => (Serve(file, bundle, record(a)).ok <=>
                                            record(a).enc = "none" /\ Unpackable(record(a)))
  <2>1. PICK i \in Listable(bundle) : /\ a = Listing(bundle, bundle.secs[i])
                                      /\ record(a) = bundle.secs[i]
                                      /\ bundle.secs[i] \in ToSet(bundle.secs)
    BY <1>7
  <2>2. PICK r : r = record(a)
    OBVIOUS
  <2>3. r = bundle.secs[i] /\ r \in ToSet(bundle.secs) /\ a = Listing(bundle, r)
    BY <2>1, <2>2
  <2>4. CASE "EXTERNAL" \in r.flags
    <3>1. /\ a.external /\ a.mirrors = bundle.man.external[r.name].mirrors
          /\ a.id = r.name /\ a.size = r.lenPlain
      BY <2>3, <2>4 DEF Listing
    <3>2. /\ bundle.man.external[r.name].size = r.lenPlain
          /\ bundle.man.external[r.name].mirrors # {}
      BY <1>1, <2>3, <2>4, RecordFacts
    <3> QED
      BY <3>1, <3>2
  <2>5. CASE "EXTERNAL" \notin r.flags
    <3>1. ~a.external
      BY <2>3, <2>5 DEF Listing
    <3>2. Serve(file, bundle, r).ok => Accepts(a, Serve(file, bundle, r).value)
      BY <1>1, <2>3, ServedIsAccepted
    <3>3. ASSUME file = made.file
          PROVE  Serve(file, bundle, r).ok <=> r.enc = "none" /\ Unpackable(r)
      <4>1. CanLay(made.order) /\ LaidAs(made.order, file)
        BY <1>1, <3>3
      <4>2. i \in Listable(Parse(file).value) /\ r = Parse(file).value.secs[i]
        BY <1>1, <2>3
      <4>3. Serve(file, Parse(file).value, r).ok <=>
              /\ r.enc = "none"
              /\ r.comp = "zstd" => WithinCaps(r.lenPlain, r.lenStored)
        BY <1>1, <2>5, <4>1, <4>2, WrittenIsServed
      <4> QED
        BY <1>1, <4>3 DEF Unpackable
    <3> QED
      BY <2>2, <3>1, <3>2, <3>3
  <2> QED
    BY <2>4, <2>5
<1>9. ASSUME NEW i \in Listable(bundle)
      PROVE  \E a \in ToSet(listed) : a = Listing(bundle, bundle.secs[i])
  <2>1. PICK k \in 1 .. Len(at) : at[k] = i
    BY <1>4
  <2> QED
    BY <1>4, <2>1 DEF ToSet
<1>10. ASSUME NEW r \in ToSet(bundle.secs), Serve(file, bundle, r).ok
       PROVE  \E a \in ToSet(listed) : a.id = r.name /\ ~a.external
  <2>1. /\ r.kind \in KnownKinds /\ "PLAYER_VISIBLE" \in r.flags
        /\ "SEALED" \notin r.flags /\ "EXTERNAL" \notin r.flags
    BY <1>10, ServedFacts
  <2>2. PICK i \in DOMAIN bundle.secs : r = bundle.secs[i]
    BY DEF ToSet
  <2>3. i \in Listable(bundle)
    BY <2>1, <2>2 DEF Listable
  <2>4. PICK a \in ToSet(listed) : a = Listing(bundle, r)
    BY <1>9, <2>2, <2>3
  <2>5. a.id = r.name /\ ~a.external
    BY <2>1, <2>4 DEF Listing
  <2> QED
    BY <2>4, <2>5
<1>11. ASSUME NEW a \in ToSet(listed)
       PROVE  a.id \in StoreLists(bundle)
  <2>1. PICK i \in Listable(bundle) : /\ a = Listing(bundle, bundle.secs[i])
                                      /\ bundle.secs[i] \in ToSet(bundle.secs)
    BY <1>7
  <2> QED
    BY <2>1 DEF Listing, Listable, StoreLists
<1>12. ASSUME NEW r \in ToSet(bundle.secs), r.name \in StoreLists(bundle), r.kind # "future"
       PROVE  \E a \in ToSet(listed) : a.id = r.name
  <2>1. PICK x \in ToSet(bundle.secs) :
           /\ "PLAYER_VISIBLE" \in x.flags /\ "SEALED" \notin x.flags /\ x.name = r.name
    BY <1>12 DEF StoreLists
  <2>2. x = r
    BY <1>1, <2>1, OneRecordPerName
  <2>3. r.kind \in KnownKinds
    BY <1>1, <1>12, RecordFacts DEF RecordOk, KindOk
  <2>4. PICK i \in DOMAIN bundle.secs : r = bundle.secs[i]
    BY DEF ToSet
  <2>5. i \in Listable(bundle)
    BY <2>1, <2>2, <2>3, <2>4 DEF Listable
  <2>6. PICK a \in ToSet(listed) : a = Listing(bundle, r)
    BY <1>9, <2>4, <2>5
  <2>7. a.id = r.name
    BY <2>6 DEF Listing
  <2> QED
    BY <2>6, <2>7
<1> QED
  <2>1. \A i, j \in DOMAIN listed :
           i = j \/ (listed[i].name # listed[j].name /\ listed[i].path \cap listed[j].path = {})
    BY <1>6
  <2>2. \A a \in ToSet(listed) :
           IF a.external THEN a.mirrors # {} /\ a.size = bundle.man.external[a.id].size
           ELSE /\ Serve(file, bundle, record(a)).ok =>
                        Accepts(a, Serve(file, bundle, record(a)).value)
                /\ file = made.file => (Serve(file, bundle, record(a)).ok <=>
                                           record(a).enc = "none" /\ Unpackable(record(a)))
    BY <1>8
  <2>3. \A r \in ToSet(bundle.secs) :
           Serve(file, bundle, r).ok => \E a \in ToSet(listed) : a.id = r.name /\ ~a.external
    BY <1>10
  <2>4. {a.id : a \in ToSet(listed)} \subseteq StoreLists(bundle)
    BY <1>11
  <2>5. \A r \in ToSet(bundle.secs) : r.name \in StoreLists(bundle) =>
           r.kind = "future" \/ \E a \in ToSet(listed) : a.id = r.name
    BY <1>12
  <2> QED
    BY <1>3, <2>1, <2>2, <2>3, <2>4, <2>5, Zenon DEF record

\* What a platform lists of any bundle it opened is what it can serve: no two listed
\* artifacts share a name or a path, a listed one that is served passes its own listing,
\* in a file that stands as it was written every one is served that is neither encrypted
\* nor compressed beyond the caps, and nothing unlisted is served (from_bundle, serve,
\* ServedArtifact::verify, served_artifacts).
THEOREM ListedIsServed == Spec => []ListingAndServingAgree
<1>1. IInv /\ JInv => ListingAndServingAgree
  BY ListingAgrees DEF JInv
<1> QED
  BY <1>1, ContainerInvariant, AnswersInvariant, PTL

(***************************************************************************)
(* What is read back                                                       *)
(***************************************************************************)
Given(name, result) ==
    /\ reader.answer.name = name
    /\ reader.answer.ok = result.ok /\ reader.answer.bytes = result.value

Decrypted(r, holder, ctx) ==
    LET key == SectionContentKey(file, bundle, r, holder, ctx) IN
    IF key.ok THEN DecryptSection(file, bundle, r, key.value) ELSE Failed

\* What a reader reported and was told is what the file says, and what the author
\* stored is a file its own reader opens.
ReadBackInv ==
    /\ made.file # <<>> => Parse(made.file).ok
    /\ reader.pc = "closed" => reader = Closed
    /\ reader.pc = "refused" => ~Parse(file).ok /\ reader = [Closed EXCEPT !.pc = "refused"]
    /\ reader.pc = "aborted" => \E r \in ToSet(bundle.secs) : Finding(file, r) = "abort"
    /\ reader.report.mismatches # {} =>
          \E r \in ToSet(bundle.secs) : Finding(file, r) = "mismatches"
    /\ reader.answer.job = "bytes" =>
          \E r \in Askable : Given(r.name, SectionBytes(file, bundle, r))
    /\ reader.answer.job = "decrypt" =>
          \E r \in Askable : Given(r.name, Decrypted(r, reader.answer.by, reader.answer.ctx))

LEMMA ReadBackInit ==
    ASSUME Init
    PROVE  ReadBackInv
BY DEF Init, ReadBackInv, Closed, NoReport, NoAnswer

\* Before the reader opens the file.
LEMMA BeforeOpening ==
    ASSUME ReadBackInv, reader.pc = "closed", reader' = reader,
           made'.file # <<>> => Parse(made'.file).ok
    PROVE  ReadBackInv'
<1>1. reader = Closed /\ reader' = Closed
  BY DEF ReadBackInv
<1>2. /\ Closed.pc = "closed" /\ Closed.report.mismatches = {}
      /\ Closed.answer.job = "none"
  BY DEF Closed, NoReport, NoAnswer
<1> QED
  BY <1>1, <1>2 DEF ReadBackInv

LEMMA OpenReadBack ==
    ASSUME ReadBackInv, Open
    PROVE  ReadBackInv'
<1>1. /\ UNCHANGED <<file, made>>
      /\ \/ Parse(file).ok /\ reader' = [Closed EXCEPT !.pc = "open"]
         \/ ~Parse(file).ok /\ reader' = [Closed EXCEPT !.pc = "refused"]
  BY DEF Open
<1>2. /\ reader'.report.mismatches = {} /\ reader'.answer.job = "none"
      /\ reader'.pc \in {"open", "refused"} /\ (reader'.pc = "refused" => ~Parse(file).ok)
      /\ reader'.pc = "refused" => reader' = [Closed EXCEPT !.pc = "refused"]
  BY <1>1 DEF Closed, NoReport, NoAnswer
<1> QED
  BY <1>1, <1>2 DEF ReadBackInv

\* While it reads, the file and the bundle stay.
Told ==
    /\ reader.answer.job = "bytes" =>
          \E r \in Askable : Given(r.name, SectionBytes(file, bundle, r))
    /\ reader.answer.job = "decrypt" =>
          \E r \in Askable : Given(r.name, Decrypted(r, reader.answer.by, reader.answer.ctx))

LEMMA WhileReading ==
    ASSUME ReadBackInv, UNCHANGED <<file, made, bundle>>, reader'.pc \in Opened,
           Told', reader'.pc = "aborted" =>
                     \/ reader.pc = "aborted"
                     \/ \E r \in ToSet(bundle.secs) : Finding(file, r) = "abort",
           reader'.report.mismatches # {} =>
                     \/ reader.report.mismatches # {}
                     \/ \E r \in ToSet(bundle.secs) : Finding(file, r) = "mismatches"
    PROVE  ReadBackInv'
<1>1. reader'.pc \notin {"closed", "refused"}
  BY DEF Opened
<1>2. made'.file # <<>> => Parse(made'.file).ok
  BY DEF ReadBackInv
<1>3. reader'.pc = "aborted" => \E r \in ToSet(bundle'.secs) : Finding(file', r) = "abort"
  BY DEF ReadBackInv
<1>4. reader'.report.mismatches # {} => \E r \in ToSet(bundle'.secs) : Finding(file', r) = "mismatches"
  BY DEF ReadBackInv
<1> QED
  BY <1>1, <1>2, <1>3, <1>4 DEF ReadBackInv, Told

\* An answer that was asked for with a record.
LEMMA RepliedReadBack ==
    ASSUME IInv, ReadBackInv, NEW asked, NEW result, Ready, Reply(asked, result),
           DOMAIN asked = DOMAIN NoAnswer, NEW r \in Askable, asked.name = r.name,
           asked.job = "bytes" => result = SectionBytes(file, bundle, r),
           asked.job = "decrypt" => result = Decrypted(r, asked.by, asked.ctx)
    PROVE  ReadBackInv'
<1>1. {"pc", "answer", "authentic", "at", "report", "mirror"} \subseteq DOMAIN reader
  BY DEF IInv, ReaderInv, Closed
<1>2. /\ reader'.answer = [asked EXCEPT !.ok = result.ok, !.bytes = result.value]
      /\ reader'.pc = "open" /\ reader'.report = reader.report
      /\ UNCHANGED <<file, made, edits, bundle>>
  BY <1>1 DEF Ready, Reply
<1>3. {"job", "name", "by", "ctx", "at", "ok", "bytes"} \subseteq DOMAIN asked
  BY DEF NoAnswer
<1>4. /\ reader'.answer.job = asked.job /\ reader'.answer.name = asked.name
      /\ reader'.answer.by = asked.by /\ reader'.answer.ctx = asked.ctx
      /\ reader'.answer.ok = result.ok /\ reader'.answer.bytes = result.value
  BY <1>2, <1>3
<1>5. Askable' = Askable /\ SectionBytes(file, bundle, r)' = SectionBytes(file, bundle, r)
  BY <1>2 DEF Askable
<1>6. \A h, c : Decrypted(r, h, c)' = Decrypted(r, h, c)
  BY <1>2 DEF Decrypted
<1>7. Told'
  <2>1. ASSUME reader'.answer.job = "bytes"
        PROVE  Given(r.name, SectionBytes(file, bundle, r))'
    BY <1>2, <1>4, <2>1 DEF Given
  <2>2. ASSUME reader'.answer.job = "decrypt"
        PROVE  Given(r.name, Decrypted(r, reader.answer.by, reader.answer.ctx))'
    <3>1. PICK d : d = Decrypted(r, asked.by, asked.ctx)
      OBVIOUS
    <3>2. result = d
      BY <1>4, <2>2, <3>1
    <3>3. Decrypted(r, reader.answer.by, reader.answer.ctx)' = d
      BY <1>2, <1>4, <3>1 DEF Decrypted
    <3> QED
      BY <1>4, <3>2, <3>3 DEF Given
  <2> QED
    BY <1>5, <2>1, <2>2 DEF Told
<1> QED
  BY <1>2, <1>7, WhileReading DEF Opened

LEMMA AskedReadBack ==
    ASSUME IInv, ReadBackInv, AskBytes \/ AskServed \/ AskChunk \/ AskDecrypted \/ AskStage
    PROVE  ReadBackInv'
<1>0. ToSet(bundle.secs) \subseteq Askable
  BY DEF Askable
<1>1. CASE AskBytes
  <2>1. PICK r \in Askable : Ready /\ Reply(Asked("bytes", r), SectionBytes(file, bundle, r))
    BY <1>1 DEF AskBytes
  <2>2. PICK asked : asked = Asked("bytes", r)
    OBVIOUS
  <2>3. DOMAIN asked = DOMAIN NoAnswer /\ asked.job = "bytes" /\ asked.name = r.name
    BY <2>2, AskedFields
  <2>4. PICK result : result = SectionBytes(file, bundle, r)
    OBVIOUS
  <2> QED
    BY <2>1, <2>2, <2>3, <2>4, RepliedReadBack
<1>2. CASE AskServed
  <2>1. PICK r \in ToSet(bundle.secs) : Ready /\ Reply(Asked("serve", r), Serve(file, bundle, r))
    BY <1>2 DEF AskServed
  <2>2. PICK asked : asked = Asked("serve", r)
    OBVIOUS
  <2>3. DOMAIN asked = DOMAIN NoAnswer /\ asked.job = "serve" /\ asked.name = r.name
    BY <2>2, AskedFields
  <2>4. PICK result : result = Serve(file, bundle, r)
    OBVIOUS
  <2>5. r \in Askable
    BY <1>0
  <2> QED
    BY <2>1, <2>2, <2>3, <2>4, <2>5, RepliedReadBack
<1>3. CASE AskStage
  <2>1. PICK r \in Askable : Ready /\ Reply(Asked("stage", r), DecryptSection(file, bundle, r, <<"stage", r.name>>))
    BY <1>3 DEF AskStage
  <2>2. PICK asked : asked = Asked("stage", r)
    OBVIOUS
  <2>3. DOMAIN asked = DOMAIN NoAnswer /\ asked.job = "stage" /\ asked.name = r.name
    BY <2>2, AskedFields
  <2>4. PICK result : result = DecryptSection(file, bundle, r, <<"stage", r.name>>)
    OBVIOUS
  <2> QED
    BY <2>1, <2>2, <2>3, <2>4, RepliedReadBack
<1>4. CASE AskDecrypted
  <2>1. PICK r \in Askable, holder \in Holders, ctx \in Contexts :
          Ready /\ Reply([Asked("decrypt", r) EXCEPT !.by = holder, !.ctx = ctx], Decrypted(r, holder, ctx))
    BY <1>4 DEF AskDecrypted, Decrypted
  <2>2. PICK first : first = Asked("decrypt", r)
    OBVIOUS
  <2>3. DOMAIN first = DOMAIN NoAnswer /\ first.job = "decrypt" /\ first.name = r.name
    BY <2>2, AskedFields
  <2>4. PICK asked : asked = [first EXCEPT !.by = holder, !.ctx = ctx]
    OBVIOUS
  <2>5. {"job", "name", "by", "ctx", "at", "ok", "bytes"} \subseteq DOMAIN first
    BY <2>3 DEF NoAnswer
  <2>6. /\ DOMAIN asked = DOMAIN NoAnswer /\ asked.job = "decrypt" /\ asked.name = r.name
        /\ asked.by = holder /\ asked.ctx = ctx
    BY <2>3, <2>4, <2>5
  <2>7. PICK result : result = Decrypted(r, holder, ctx)
    OBVIOUS
  <2> QED
    BY <2>1, <2>2, <2>4, <2>6, <2>7, RepliedReadBack
<1>5. CASE AskChunk
  <2>1. PICK r, at, result, asked :
          /\ r \in Askable /\ asked = [Asked("chunk", r) EXCEPT !.at = at]
          /\ Ready /\ Reply(asked, result)
    BY <1>5 DEF AskChunk
  <2>2. PICK first : first = Asked("chunk", r)
    OBVIOUS
  <2>3. DOMAIN first = DOMAIN NoAnswer /\ first.job = "chunk" /\ first.name = r.name
    BY <2>2, AskedFields
  <2>4. {"job", "name", "by", "ctx", "at", "ok", "bytes"} \subseteq DOMAIN first
    BY <2>3 DEF NoAnswer
  <2>5. DOMAIN asked = DOMAIN NoAnswer /\ asked.job = "chunk" /\ asked.name = r.name
    BY <2>1, <2>2, <2>3, <2>4
  <2> QED
    BY <2>1, <2>5, RepliedReadBack
<1> QED
  BY <1>1, <1>2, <1>3, <1>4, <1>5

LEMMA StillTold ==
    ASSUME ReadBackInv, UNCHANGED <<file, made, bundle>>, reader'.answer = reader.answer
    PROVE  Told'
<1>1. Told
  BY DEF Told, ReadBackInv
<1>2. Askable' = Askable
  BY DEF Askable
<1>3. \A r : Given(r.name, SectionBytes(file, bundle, r))' <=> Given(r.name, SectionBytes(file, bundle, r))
  BY DEF Given
<1>4. \A r : Given(r.name, Decrypted(r, reader.answer.by, reader.answer.ctx))'
              <=> Given(r.name, Decrypted(r, reader.answer.by, reader.answer.ctx))
  BY DEF Given, Decrypted
<1> QED
  BY <1>1, <1>2, <1>3, <1>4 DEF Told

\* The other steps of a reader tell it nothing.
LEMMA QuietReadBack ==
    ASSUME ReadBackInv, UNCHANGED <<file, made, bundle>>, reader'.pc \in Opened \ {"aborted"},
           reader'.answer = reader.answer \/ reader'.answer.job \in {"none", "stream"},
           \/ reader'.report = reader.report
           \/ reader'.report = NoReport
    PROVE  ReadBackInv'
<1>1. Told'
  BY StillTold DEF Told
<1>2. NoReport.mismatches = {}
  BY DEF NoReport
<1> QED
  BY <1>1, <1>2, WhileReading

LEMMA VerifyReadBack ==
    ASSUME IInv, ReportInv, ReadBackInv, VerifySection, ReportInv'
    PROVE  ReadBackInv'
<1>1. {"pc", "answer", "authentic", "at", "report", "mirror"} \subseteq DOMAIN reader
  BY DEF IInv, ReaderInv, Closed
<1>2. /\ UNCHANGED <<file, made, edits, bundle>> /\ reader.at \in DOMAIN bundle.secs
      /\ reader.pc = "verifying"
  BY DEF VerifySection
<1>3. PICK r : r = bundle.secs[reader.at]
  OBVIOUS
<1>4. r \in ToSet(bundle.secs)
  BY <1>2, <1>3 DEF ToSet
<1>5. CASE Finding(file, r) = "abort"
  <2>1. reader' = [reader EXCEPT !.pc = "aborted"]
    BY <1>3, <1>5 DEF VerifySection
  <2>2. reader'.pc = "aborted" /\ reader'.report = reader.report /\ reader'.answer = reader.answer
    BY <1>1, <2>1
  <2>3. Told'
    BY <1>2, <2>2, StillTold
  <2> QED
    BY <1>2, <1>4, <1>5, <2>2, <2>3, WhileReading DEF Opened
<1>6. CASE Finding(file, r) # "abort"
  <2>1. reader'.pc = "verifying" /\ reader'.answer = reader.answer
    BY <1>1, <1>2, <1>3, <1>6 DEF VerifySection
  <2>2. Told'
    BY <1>2, <2>1, StillTold
  <2>3. reader'.report["mismatches"] = {bundle'.secs[i].name :
                 i \in {i \in DOMAIN bundle'.secs :
                          i < reader'.at /\ Finding(file', bundle'.secs[i]) = "mismatches"}}
    BY <2>1 DEF ReportInv, Lists
  <2>4. ASSUME reader'.report.mismatches # {}
        PROVE  \E x \in ToSet(bundle.secs) : Finding(file, x) = "mismatches"
    <3>1. PICK i \in DOMAIN bundle.secs : Finding(file, bundle.secs[i]) = "mismatches"
      BY <1>2, <2>3, <2>4
    <3>2. bundle.secs[i] \in ToSet(bundle.secs)
      BY DEF ToSet
    <3> QED
      BY <3>1, <3>2
  <2> QED
    BY <1>2, <2>1, <2>2, <2>4, WhileReading DEF Opened
<1> QED
  BY <1>5, <1>6

LEMMA ReadBackNext ==
    ASSUME IInv, JInv, ReportInv, ReadBackInv, [Next]_vars
    PROVE  ReadBackInv'
<1>1. {"pc", "answer", "authentic", "at", "report", "mirror"} \subseteq DOMAIN reader
  BY DEF IInv, ReaderInv, Closed
<1>2. CASE \E order \in Orders : WriteBundle(order)
  <2>1. /\ reader' = reader /\ reader.pc = "closed"
        /\ made'.file # <<>> => Parse(made'.file).ok
    BY <1>2 DEF WriteBundle, IInv, ReaderInv
  <2> QED
    BY <2>1, BeforeOpening
<1>3. CASE \E key, public \in Signers : SignBundle(key, public)
  <2>1. PICK key \in Signers, public \in Signers : SignBundle(key, public)
    BY <1>3
  <2>2. PICK signed : signed = Signed(file, Parse(file).value.h, key)
    OBVIOUS
  <2>3. /\ reader' = reader /\ reader.pc = "closed" /\ Parse(signed).ok
        /\ \/ made' = [made EXCEPT !.file = signed, !.signed = key = Trusted]
           \/ made' = made
    BY <2>1, <2>2 DEF SignBundle
  <2>4. DOMAIN made = {"order", "file", "signed"}
    BY DEF IInv, SignedInv
  <2>5. made'.file = signed \/ made' = made
    BY <2>3, <2>4
  <2>6. made'.file # <<>> => Parse(made'.file).ok
    BY <2>3, <2>5 DEF ReadBackInv
  <2> QED
    BY <2>3, <2>6, BeforeOpening
<1>4. CASE Edit \/ Recommit
  <2>1. reader' = reader /\ reader.pc = "closed" /\ made' = made
    BY <1>4 DEF Edit, Recommit
  <2>2. made'.file # <<>> => Parse(made'.file).ok
    BY <2>1 DEF ReadBackInv
  <2> QED
    BY <2>1, <2>2, BeforeOpening
<1>5. CASE Open
  BY <1>5, OpenReadBack
<1>6. CASE Authenticate
  <2>1. /\ UNCHANGED <<file, made, bundle>> /\ reader'.pc = "open"
        /\ reader'.answer = reader.answer /\ reader'.report = reader.report
    BY <1>1, <1>6 DEF Authenticate, Ready
  <2> QED
    BY <2>1, QuietReadBack DEF Opened
<1>7. CASE AskBytes \/ AskServed \/ AskChunk \/ AskDecrypted \/ AskStage
  BY <1>7, AskedReadBack
<1>8. CASE StartVerify
  <2>1. /\ UNCHANGED <<file, made, bundle>> /\ reader'.pc = "verifying"
        /\ reader'.answer = reader.answer /\ reader'.report = NoReport
    BY <1>1, <1>8 DEF StartVerify, Ready
  <2> QED
    BY <2>1, QuietReadBack DEF Opened
<1>9. CASE VerifySection
  BY <1>9, VerifySectionInv, VerifyReadBack
<1>10. CASE EndVerify
  <2>1. /\ UNCHANGED <<file, made, bundle>> /\ reader'.pc = "reported"
        /\ reader'.answer = reader.answer /\ reader'.report = reader.report
    BY <1>1, <1>10 DEF EndVerify
  <2> QED
    BY <2>1, QuietReadBack DEF Opened
<1>11. CASE StartStream
  <2>1. PICK sent, name : reader' = [reader EXCEPT !.pc = "streaming", !.at = 0, !.mirror = sent,
                                                   !.answer.name = name]
    BY <1>11 DEF StartStream
  <2>2. UNCHANGED <<file, made, bundle>> /\ reader.answer = NoAnswer
    BY <1>11 DEF StartStream, Ready
  <2>3. /\ reader'.pc = "streaming" /\ reader'.report = reader.report
        /\ reader'.answer.job = "none"
    BY <1>1, <2>1, <2>2 DEF NoAnswer
  <2> QED
    BY <2>2, <2>3, QuietReadBack DEF Opened
<1>12. ASSUME NEW ok, reader' = Settle(ok), UNCHANGED <<file, made, bundle>>,
              reader.pc = "streaming"
       PROVE  ReadBackInv'
  <2>1. DOMAIN reader.answer = DOMAIN NoAnswer
    BY <1>12 DEF JInv, StreamInv
  <2>2. DOMAIN reader = DOMAIN Closed
    BY DEF IInv, ReaderInv
  <2>3. reader'.pc = "streamed" /\ reader'.answer.job = "stream"
    BY <1>12, <2>1, <2>2, SettledReader
  <2>4. reader'.report = reader.report
    BY <1>1, <1>12 DEF Settle
  <2> QED
    BY <1>12, <2>3, <2>4, QuietReadBack DEF Opened
<1>13. CASE \E n \in 1 .. MaxChunk : StreamRead(n)
  <2>1. PICK n \in 1 .. MaxChunk : StreamRead(n)
    BY <1>13
  <2>2. /\ UNCHANGED <<file, made, bundle>> /\ reader.pc = "streaming"
        /\ reader' = Settle(FALSE) \/ reader' = [reader EXCEPT !.at = @ + n]
    BY <2>1 DEF StreamRead
  <2>3. CASE reader' = [reader EXCEPT !.at = @ + n]
    <3>1. /\ reader'.pc = "streaming" /\ reader'.report = reader.report
          /\ reader'.answer = reader.answer
      BY <1>1, <2>2, <2>3
    <3> QED
      BY <2>2, <3>1, QuietReadBack DEF Opened
  <2> QED
    BY <1>12, <2>2, <2>3
<1>14. CASE StreamEnd
  <2>1. PICK ok : reader' = Settle(ok)
    BY <1>14 DEF StreamEnd
  <2> QED
    BY <1>12, <1>14, <2>1 DEF StreamEnd
<1>15. CASE UNCHANGED vars
  <2>1. UNCHANGED <<file, made, bundle, reader>>
    BY <1>15 DEF vars
  <2>2. Told'
    BY <2>1, StillTold
  <2>3. CASE reader.pc = "closed"
    <3>1. made'.file # <<>> => Parse(made'.file).ok
      BY <2>1 DEF ReadBackInv
    <3> QED
      BY <2>1, <2>3, <3>1, BeforeOpening
  <2>4. CASE reader.pc # "closed"
    <3>1. /\ (reader'.pc = "refused" => ~Parse(file').ok /\ reader' = [Closed EXCEPT !.pc = "refused"])
          /\ (made'.file # <<>> => Parse(made'.file).ok) /\ reader'.pc # "closed"
          /\ (reader'.pc = "aborted" => \E r \in ToSet(bundle'.secs) : Finding(file', r) = "abort")
          /\ (reader'.report.mismatches # {} =>
                \E r \in ToSet(bundle'.secs) : Finding(file', r) = "mismatches")
      BY <2>1, <2>4 DEF ReadBackInv
    <3> QED
      BY <2>2, <3>1 DEF ReadBackInv, Told
  <2> QED
    BY <2>3, <2>4
<1> QED
  BY <1>2, <1>3, <1>4, <1>5, <1>6, <1>7, <1>8, <1>9, <1>10, <1>11, <1>13, <1>14, <1>15 DEF Next

\* What the verify pass finds in a file that is as it was written.
LEMMA WrittenFinding ==
    ASSUME NEW order, OrderOk(order), CanLay(order), NEW g, LaidAs(order, g),
           Cells(g), Parse(g).ok, NEW r \in ToSet(Parse(g).value.secs)
    PROVE  Finding(g, r) # "mismatches" /\ (Finding(g, r) = "abort" => ~Unpackable(r))
<1>1. PICK s \in ToSet(order.specs) : Describes(order, s, r) /\ PayloadAt(order, s, r.offset, g)
  BY WrittenRecords
<1>2. RecordOk(r)
  BY RecordFacts
<1>3. CASE "EXTERNAL" \in r.flags
  BY <1>3 DEF Finding
<1>4. CASE "EXTERNAL" \notin r.flags /\ ~Unpackable(r)
  BY <1>2, <1>4 DEF Finding, Unpackable
<1>5. CASE "EXTERNAL" \notin r.flags /\ Unpackable(r)
  <2>1. CASE r.enc # "none" \/ (r.kind \notin KnownKinds /\ r.comp # "none")
    BY <1>2, <1>5, <2>1 DEF Finding, Unpackable, RecordOk
  <2>2. CASE ~(r.enc # "none" \/ (r.kind \notin KnownKinds /\ r.comp # "none"))
    <3>1. VerifiedBytes(g, r) = Ok(PlainOf(order, s))
      BY <1>1, <1>5, <2>2, WrittenIsRead DEF Unpackable
    <3>2. VerifiedBytes(g, r).ok
      BY <3>1 DEF Ok
    <3>3. ReadPlain(g, r).ok
      BY <3>2 DEF VerifiedBytes, AndThen, Failed
    <3>4. ~(r.comp # "none" /\ ~WithinCaps(r.lenPlain, r.lenStored))
      BY <1>2, <1>5 DEF Unpackable, RecordOk
    <3>5. Finding(g, r) = "verified"
      BY <1>5, <2>2, <3>2, <3>3, <3>4 DEF Finding
    <3> QED
      BY <3>5
  <2> QED
    BY <2>1, <2>2
<1> QED
  BY <1>3, <1>4, <1>5

\* What section_bytes gives of one.
LEMMA WrittenBytes ==
    ASSUME NEW order, OrderOk(order), CanLay(order), NEW g, LaidAs(order, g),
           Cells(g), Parse(g).ok, NEW r \in ToSet(Parse(g).value.secs),
           NEW s \in ToSet(order.specs),
           Describes(order, s, r), PayloadAt(order, s, r.offset, g),
           ~s.encrypt, s.kind \in KnownKinds, s.from # "external", Unpackable(r)
    PROVE  SectionBytes(g, Parse(g).value, r) = Ok(PlainOf(order, s))
<1>1. RecordOk(r) /\ r.enc = "none" /\ r.kind \in KnownKinds
  BY RecordFacts DEF Describes
<1>2. "SEALED" \notin r.flags
  BY <1>1 DEF RecordOk, SealedOk
<1>3. "EXTERNAL" \notin r.flags
  BY WrittenInside
<1>4. VerifiedBytes(g, r) = Ok(PlainOf(order, s))
  BY <1>1, <1>3, WrittenIsRead DEF Unpackable
<1>5. Owned(Parse(g).value, r)
  BY DEF Owned, ToSet
<1> QED
  BY <1>1, <1>2, <1>4, <1>5 DEF SectionBytes

LEMMA ReadBack ==
    ASSUME IInv, WrittenInv, ReadBackInv
    PROVE  WrittenFileReadsBack
<1> SUFFICES ASSUME file = made.file, file # <<>>
    PROVE /\ reader.pc # "refused"
          /\ reader.pc = "aborted" => \E r \in ToSet(bundle.secs) : ~Unpackable(r)
          /\ reader.report.mismatches = {}
          /\ reader.answer.job \in {"bytes", "decrypt"} =>
                \E s \in Written(reader.answer.name), r \in ToSet(bundle.secs) :
                    LET plain == PlainOf(made.order, s)
                        whole == reader.answer.ok /\ reader.answer.bytes = plain
                        to == To(reader.answer.ctx, reader.answer.by)
                    IN /\ r.name = s.name
                       /\ IF reader.answer.job = "bytes"
                          THEN /\ ~s.encrypt /\ s.kind \in KnownKinds /\ s.from # "external"
                               /\ Unpackable(r)
                               => whole
                          ELSE /\ s.encrypt /\ s.kind \in KnownKinds /\ to \in ToSet(s.to)
                               /\ Unpackable(r) /\ KeysAreReadable
                               => whole \/ Len(plain) > MaxIndex * s.cs
  BY DEF WrittenFileReadsBack
<1>1. Parse(file).ok /\ CanLay(made.order) /\ LaidAs(made.order, file) /\ OrderOk(made.order)
      /\ Cells(file)
  BY DEF ReadBackInv, WrittenInv, IInv, CellsInv, Cells
<1>2. reader.pc # "refused"
  BY <1>1 DEF ReadBackInv
<1>3. reader.pc \notin NotOpened => bundle = Parse(file).value
  BY DEF IInv, ReaderInv
<1>4. reader.pc = "closed" => reader.report.mismatches = {} /\ reader.answer.job = "none"
  BY DEF ReadBackInv, Closed, NoReport, NoAnswer
<1>5. CASE reader.pc = "closed"
  BY <1>4, <1>5
<1>6. CASE reader.pc # "closed"
  <2>1. bundle = Parse(file).value
    BY <1>2, <1>3, <1>6 DEF NotOpened
  <2>2. ASSUME reader.pc = "aborted"
        PROVE  \E r \in ToSet(bundle.secs) : ~Unpackable(r)
    <3>1. PICK r \in ToSet(bundle.secs) : Finding(file, r) = "abort"
      BY <2>2 DEF ReadBackInv
    <3>2. ~Unpackable(r)
      BY <1>1, <2>1, <3>1, WrittenFinding
    <3> QED
      BY <3>2
  <2>3. reader.report.mismatches = {}
    <3>1. \A r \in ToSet(bundle.secs) : Finding(file, r) # "mismatches"
      BY <1>1, <2>1, WrittenFinding
    <3> QED
      BY <3>1 DEF ReadBackInv
  <2>4. Askable = ToSet(bundle.secs)
    BY <2>1 DEF Askable
  <2>5. ASSUME NEW r \in ToSet(bundle.secs), NEW result, Given(r.name, result)
        PROVE  \E s \in Written(reader.answer.name) :
                  /\ r.name = s.name /\ s \in ToSet(made.order.specs)
                  /\ Describes(made.order, s, r) /\ PayloadAt(made.order, s, r.offset, file)
    <3>1. PICK s \in ToSet(made.order.specs) :
              Describes(made.order, s, r) /\ PayloadAt(made.order, s, r.offset, file)
      BY <1>1, <2>1, WrittenRecords
    <3> QED
      BY <2>5, <3>1 DEF Given, Written, Describes
  <2>6. ASSUME reader.answer.job = "bytes"
        PROVE  \E s \in Written(reader.answer.name), r \in ToSet(bundle.secs) :
                  /\ r.name = s.name
                  /\ /\ ~s.encrypt /\ s.kind \in KnownKinds /\ s.from # "external"
                     /\ Unpackable(r)
                     => reader.answer.ok /\ reader.answer.bytes = PlainOf(made.order, s)
    <3>1. PICK r \in ToSet(bundle.secs) : Given(r.name, SectionBytes(file, bundle, r))
      BY <2>4, <2>6 DEF ReadBackInv
    <3>2. PICK s \in Written(reader.answer.name) :
                  /\ r.name = s.name /\ s \in ToSet(made.order.specs)
                  /\ Describes(made.order, s, r) /\ PayloadAt(made.order, s, r.offset, file)
      BY <2>5, <3>1
    <3>3. ASSUME ~s.encrypt, s.kind \in KnownKinds, s.from # "external", Unpackable(r)
          PROVE  reader.answer.ok /\ reader.answer.bytes = PlainOf(made.order, s)
      <4>1. SectionBytes(file, bundle, r) = Ok(PlainOf(made.order, s))
        BY <1>1, <2>1, <3>2, <3>3, WrittenBytes
      <4> QED
        BY <3>1, <4>1 DEF Given, Ok
    <3> QED
      BY <3>2, <3>3
  <2>7. ASSUME reader.answer.job = "decrypt"
        PROVE  \E s \in Written(reader.answer.name), r \in ToSet(bundle.secs) :
                  /\ r.name = s.name
                  /\ /\ s.encrypt /\ s.kind \in KnownKinds
                     /\ To(reader.answer.ctx, reader.answer.by) \in ToSet(s.to)
                     /\ Unpackable(r) /\ KeysAreReadable
                     => \/ reader.answer.ok /\ reader.answer.bytes = PlainOf(made.order, s)
                        \/ Len(PlainOf(made.order, s)) > MaxIndex * s.cs
    <3>1. PICK r \in ToSet(bundle.secs) :
             Given(r.name, Decrypted(r, reader.answer.by, reader.answer.ctx))
      BY <2>4, <2>7 DEF ReadBackInv
    <3>2. PICK s \in Written(reader.answer.name) :
                  /\ r.name = s.name /\ s \in ToSet(made.order.specs)
                  /\ Describes(made.order, s, r) /\ PayloadAt(made.order, s, r.offset, file)
      <4>1. PICK result : result = Decrypted(r, reader.answer.by, reader.answer.ctx)
        OBVIOUS
      <4> QED
        BY <2>5, <3>1, <4>1
    <3>3. PICK plain, holder, ctx : /\ plain = PlainOf(made.order, s)
                                    /\ holder = reader.answer.by /\ ctx = reader.answer.ctx
      OBVIOUS
    <3>4. ASSUME s.encrypt, s.kind \in KnownKinds, To(ctx, holder) \in ToSet(s.to),
                 Unpackable(r), KeysAreReadable, ~(Len(plain) > MaxIndex * s.cs)
          PROVE  reader.answer.ok /\ reader.answer.bytes = plain
      <4>1. KeysReadable(made.order, file)
        BY <2>1, <3>4 DEF KeysAreReadable, KeysReadable, Unpackable
      <4>2. SectionContentKey(file, bundle, r, holder, ctx) = Ok(ContentKey(s))
        BY <1>1, <2>1, <3>2, <3>4, <4>1, WrittenKey
      <4>3. Len(plain) <= MaxIndex * s.cs
        <5>1. List(plain) /\ s.cs \in Nat
          BY <1>1, <3>2, <3>3, PlainCells
        <5>2. Len(plain) \in Nat
          BY <5>1, ListMembers
        <5>3. MaxIndex * s.cs \in Nat
          BY <5>1, StreamAssumption, ProductIsNat
        <5> QED
          BY <3>4, <5>2, <5>3
      <4>4. DecryptSection(file, bundle, r, ContentKey(s)) = Ok(plain)
        BY <1>1, <2>1, <3>2, <3>3, <3>4, <4>3, SealedIsOpened DEF Unpackable
      <4>5. Decrypted(r, holder, ctx) = Ok(plain)
        BY <4>2, <4>4 DEF Decrypted, Ok
      <4> QED
        BY <3>1, <3>3, <4>5 DEF Given, Ok
    <3> QED
      BY <3>2, <3>3, <3>4
  <2> QED
    BY <1>2, <2>2, <2>3, <2>6, <2>7
<1> QED
  BY <1>5, <1>6

\* What write_bundle and sign_bundle return is opened by their own reader and given back
\* whole: each plain section to anyone, each sealed one to its recipients.
THEOREM WrittenIsReadBack == Spec => []WrittenFileReadsBack
<1>1. Init => ReadBackInv
  BY ReadBackInit
<1>2. IInv /\ JInv /\ ReportInv /\ ReadBackInv /\ [Next]_vars => ReadBackInv'
  BY ReadBackNext
<1>3. IInv /\ JInv /\ ReadBackInv => WrittenFileReadsBack
  BY ReadBack DEF JInv
<1>4. Spec => []IInv
  BY ContainerInvariant
<1>5. Spec => []JInv
  BY AnswersInvariant
<1>6. Init => ReportInv
  BY DEF Init, ReportInv, Closed
<1>7. IInv /\ ReportInv /\ [Next]_vars => ReportInv'
  BY ReportNext
<1> QED
  BY <1>1, <1>2, <1>3, <1>4, <1>5, <1>6, <1>7, PTL DEF Spec
=============================================================================
