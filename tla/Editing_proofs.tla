--------------------------- MODULE Editing_proofs ---------------------------
(* For any scenes, rules, desks and shows: the journal is a truthful record *)
(* of the document, what the pages show is what the document says, and no   *)
(* write that the log's sink heard of is missing from the log unsaid.       *)
EXTENDS Editing, SequenceTheorems, FiniteSetTheorems, TLAPS

\* Every write under way knows the show it was armed for.
FlightHasShows == \E S : flight \in Seq(S) /\ \A w \in S : w.show \in Shows

\* The entries' own shape does not matter.
LogIsPieces == \E S : log \in [Shows -> Seq(Pieces(S))]

\* Behind every piece of a file is the start of its line, with torn pieces between.
linesStart(file_) ==
    \A i \in 1..Len(file_) : \E j \in 1..i :
        startsLine(file_, j) /\ \A k \in j..(i - 1) : torn(file_[k])
LinesStart == \A c \in Shows : linesStart(log[c])

\* Without a warning, all that the sink heard of was appended whole.
whole(file_, n) == \E i \in 1..Len(file_) : file_[i].entry.n = n /\ file_[i].cut = "line"
AllAppended == ~warning => \A n \in owed \ unheard : \E c \in Shows : whole(log[c], n)

\* Each patch's before is what the patches ahead of it made of the original.
truthful(original, journal) ==
    \A i \in 1..Len(journal) :
        LET doc == applied(original, SubSeq(journal, 1, i - 1)) IN
        has(doc, journal[i].leaf) /\ doc[journal[i].leaf] = journal[i].before
recordOf(s) ==
    /\ s = [original |-> s.original, path |-> s.path, journal |-> s.journal]
    /\ \E S : s.journal \in Seq(S)
    /\ truthful(s.original, s.journal)
JournalInv == session # None => recordOf(session)

IInv == /\ FlightHasShows /\ LogIsPieces /\ LinesStart /\ AllAppended /\ ShownIsCurrent
        /\ JournalInv

-----------------------------------------------------------------------------
(* Files                                                                   *)

\* An append leaves a file of pieces.
LEMMA AppendTyped ==
    ASSUME NEW S, NEW f \in Seq(Pieces(S)), NEW e, NEW cut \in Cuts \cup {"line"}
    PROVE  append(f, e, cut) \in Seq(Pieces(S \cup {e}))
<1> DEFINE T == Pieces(S \cup {e})
           piece == [cut |-> cut, entry |-> e]
<1>1. Pieces(S) \subseteq T /\ piece \in T
  BY DEF Pieces
<1>2. f \in Seq(T)
  BY <1>1, SeqMonotonic
<1> HIDE DEF T, piece
<1>3. Append(f, piece) \in Seq(T)
  BY <1>1, <1>2
<1> QED
  BY <1>3 DEF append, piece, T

\* It keeps the pieces that are there ...
LEMMA AppendKeeps ==
    ASSUME NEW S, NEW f \in Seq(S), NEW e, NEW cut
    PROVE  /\ Len(f) \in Nat /\ Len(append(f, e, cut)) = Len(f) + 1
           /\ \A i \in 1..Len(f) : append(f, e, cut)[i] = f[i]
<1> DEFINE piece == [cut |-> cut, entry |-> e]
<1>1. f \in Seq(S \cup {piece}) /\ piece \in S \cup {piece}
  BY SeqMonotonic
<1> HIDE DEF piece
<1>2. /\ Len(f) \in Nat /\ Len(Append(f, piece)) = Len(f) + 1
      /\ \A i \in 1..Len(f) : Append(f, piece)[i] = f[i]
  BY <1>1
<1> QED
  BY <1>2 DEF append, piece

\* ... and makes one of its own.
LEMMA AppendAdds ==
    ASSUME NEW S, NEW f \in Seq(S), NEW e, NEW cut
    PROVE  append(f, e, cut)[Len(f) + 1] = [cut |-> cut, entry |-> e]
<1> DEFINE piece == [cut |-> cut, entry |-> e]
<1>1. f \in Seq(S \cup {piece}) /\ piece \in S \cup {piece}
  BY SeqMonotonic
<1> HIDE DEF piece
<1>2. Append(f, piece)[Len(f) + 1] = piece
  BY <1>1
<1> QED
  BY <1>2 DEF append, piece

\* It continues the line of a torn piece, and starts one otherwise.
LEMMA AppendStartsOrContinues ==
    ASSUME NEW S, NEW f \in Seq(Pieces(S)), NEW e, NEW cut \in Cuts \cup {"line"}, linesStart(f)
    PROVE  linesStart(append(f, e, cut))
<1> DEFINE g == append(f, e, cut)
           n == Len(f)
<1>1. n \in Nat /\ Len(g) = n + 1 /\ \A i \in 1..n : g[i] = f[i]
  BY AppendKeeps
<1> HIDE DEF g, n
<1>2. \A j \in 1..n : startsLine(f, j) => startsLine(g, j)
  BY <1>1 DEF startsLine, n
<1>3. ASSUME NEW i \in 1..n
      PROVE  \E j \in 1..i : startsLine(g, j) /\ \A k \in j..(i - 1) : torn(g[k])
  <2>1. PICK j \in 1..i : startsLine(f, j) /\ \A k \in j..(i - 1) : torn(f[k])
    BY <1>1 DEF linesStart, n
  <2>2. \A k \in j..(i - 1) : g[k] = f[k]
    BY <1>1, <1>3
  <2> QED
    BY <1>1, <1>2, <1>3, <2>1, <2>2
<1>4. \E j \in 1..(n + 1) : startsLine(g, j) /\ \A k \in j..n : torn(g[k])
  <2>1. CASE n = 0 \/ ~torn(g[n])
    <3>1. startsLine(g, n + 1)
      BY <1>1, <2>1 DEF startsLine
    <3> QED
      BY <1>1, <3>1
  <2>2. CASE n # 0 /\ torn(g[n])
    <3>1. PICK j \in 1..n : startsLine(g, j) /\ \A k \in j..(n - 1) : torn(g[k])
      BY <1>1, <1>3, <2>2
    <3> QED
      BY <1>1, <2>2, <3>1
  <2> QED
    BY <2>1, <2>2
<1>5. \A i \in 1..Len(g) : i \in 1..n \/ (i = n + 1 /\ i - 1 = n)
  BY <1>1
<1> QED
  BY <1>3, <1>4, <1>5 DEF linesStart, g

\* What was appended whole is an entry, or its line is counted as skipped.
LEMMA WholeIsSaid ==
    ASSUME NEW S, NEW f \in Seq(Pieces(S)), linesStart(f), NEW n, whole(f, n)
    PROVE  \/ read_show(f).error
           \/ \E e \in read_show(f).entries : e.n = n
           \/ read_show(f).skipped > 0 /\ \E i \in DOMAIN f : f[i].entry.n = n
<1>0. DOMAIN f = 1..Len(f) /\ Len(f) \in Nat
  BY LenProperties
<1>1. PICK i \in 1..Len(f) : f[i].entry.n = n /\ f[i].cut = "line"
  BY DEF whole
<1>2. PICK j \in 1..i : startsLine(f, j) /\ \A k \in j..(i - 1) : torn(f[k])
  BY <1>1 DEF linesStart
<1> SUFFICES ASSUME decodes(f)
             PROVE  \/ \E e \in entriesOf(f) : e.n = n
                    \/ skippedIn(f) > 0
  BY <1>0, <1>1 DEF read_show
<1>3. CASE j = i
  BY <1>0, <1>1, <1>2, <1>3 DEF parses, entriesOf
<1>4. CASE j # i
  <2> DEFINE bad == {k \in DOMAIN f : startsLine(f, k) /\ ~parses(f, k)}
  <2>1. torn(f[j]) /\ j \in 1..Len(f) /\ j # Len(f)
    <3>1. i \in Int /\ j \in Int /\ Len(f) \in Int /\ i <= Len(f) /\ 1 <= j /\ j < i
      BY <1>0, <1>4
    <3>2. j \in j..(i - 1) /\ j \in 1..Len(f) /\ j # Len(f)
      BY <3>1
    <3> QED
      BY <1>2, <3>2
  <2>2. j \in bad
    BY <1>0, <1>2, <2>1 DEF parses, torn
  <2>3. IsFiniteSet(bad)
    <3>1. IsFiniteSet(1..Len(f)) /\ bad \subseteq 1..Len(f)
      BY <1>0, FS_Interval
    <3> HIDE DEF bad
    <3> QED
      BY <3>1, FS_Subset
  <2>4. Cardinality(bad) \in Nat /\ Cardinality(bad) # 0
    BY <2>2, <2>3, FS_CardinalityType, FS_EmptySet
  <2> QED
    BY <2>4 DEF skippedIn
<1> QED
  BY <1>3, <1>4

-----------------------------------------------------------------------------
(* The log                                                                 *)

LogInv == LogIsPieces /\ LinesStart /\ AllAppended

\* A step that leaves the log alone.
LEMMA LogKeeps ==
    LogInv /\ UNCHANGED <<log, warning, owed, unheard>> => LogInv'
  BY DEF LogInv, LogIsPieces, LinesStart, AllAppended

\* One append, whole or torn, to the file of one show.
LEMMA OneAppendKeeps ==
    ASSUME LogInv, NEW c \in Shows, NEW e, NEW cut \in Cuts \cup {"line"},
           log' = [log EXCEPT ![c] = append(@, e, cut)]
    PROVE  /\ LogIsPieces' /\ LinesStart'
           /\ \A d \in Shows : \A n : whole(log[d], n) => whole(log'[d], n)
           /\ cut = "line" => whole(log'[c], e.n)
<1>1. PICK S : log \in [Shows -> Seq(Pieces(S))]
  BY DEF LogInv, LogIsPieces
<1> DEFINE g == append(log[c], e, cut)
<1>2. log[c] \in Seq(Pieces(S)) /\ linesStart(log[c])
  BY <1>1 DEF LogInv, LinesStart
<1>3. /\ g \in Seq(Pieces(S \cup {e}))
      /\ Len(log[c]) \in Nat /\ Len(g) = Len(log[c]) + 1
      /\ \A i \in 1..Len(log[c]) : g[i] = log[c][i]
      /\ g[Len(log[c]) + 1] = [cut |-> cut, entry |-> e]
  <2>1. g \in Seq(Pieces(S \cup {e}))
    BY <1>2, AppendTyped
  <2>2. /\ Len(log[c]) \in Nat /\ Len(g) = Len(log[c]) + 1
        /\ \A i \in 1..Len(log[c]) : g[i] = log[c][i]
    BY <1>2, AppendKeeps
  <2>3. g[Len(log[c]) + 1] = [cut |-> cut, entry |-> e]
    BY <1>2, AppendAdds
  <2> QED
    BY <2>1, <2>2, <2>3
<1>4. linesStart(g)
  BY <1>2, AppendStartsOrContinues
<1> HIDE DEF g
<1>5. log' = [d \in Shows |-> IF d = c THEN g ELSE log[d]]
  BY <1>1 DEF g
<1>6. LogIsPieces'
  <2>1. \A d \in Shows : log[d] \in Seq(Pieces(S \cup {e}))
    <3>1. Pieces(S) \subseteq Pieces(S \cup {e})
      BY DEF Pieces
    <3> QED
      BY <1>1, <3>1, SeqMonotonic
  <2>2. log' \in [Shows -> Seq(Pieces(S \cup {e}))]
    BY <1>3, <1>5, <2>1
  <2> QED
    BY <2>2 DEF LogIsPieces
<1>7. LinesStart'
  BY <1>4, <1>5 DEF LinesStart, LogInv
<1>8. \A d \in Shows : \A n : whole(log[d], n) => whole(log'[d], n)
  BY <1>3, <1>5 DEF whole
<1>9. cut = "line" => whole(log'[c], e.n)
  <2>1. log'[c] = g
    BY <1>5
  <2>2. Len(log[c]) + 1 \in 1..Len(g)
    BY <1>3
  <2> QED
    BY <1>3, <2>1, <2>2 DEF whole
<1> QED
  BY <1>6, <1>7, <1>8, <1>9

\* The line of a settled write.
LEMMA LogsKeeps ==
    ASSUME LogInv, NEW w, w.show \in Shows, NEW outcome, logs(w, outcome), owed' = owed \cup {number}
    PROVE  LogInv'
<1> USE DEF LogInv
<1>1. owed' = owed \cup {number} /\ unheard' = unheard
  BY DEF logs
<1>2. entry(w, outcome).n = number
  BY DEF entry
<1>3. CASE /\ log' = [log EXCEPT ![w.show] = append(@, entry(w, outcome), "line")]
           /\ warning' = warned(FALSE)
  <2>1. /\ LogIsPieces' /\ LinesStart'
        /\ \A d \in Shows : \A n : whole(log[d], n) => whole(log'[d], n)
        /\ whole(log'[w.show], number)
    BY <1>2, <1>3, OneAppendKeeps
  <2>2. AllAppended'
    <3> SUFFICES ASSUME ~warning', NEW n \in owed' \ unheard'
                 PROVE  \E c \in Shows : whole(log'[c], n)
      BY DEF AllAppended
    <3>1. CASE n = number
      BY <2>1, <3>1
    <3>2. CASE n # number
      <4>1. n \in owed \ unheard /\ ~warning
        BY <1>1, <1>3, <3>2 DEF warned
      <4>2. PICK c \in Shows : whole(log[c], n)
        BY <4>1 DEF AllAppended
      <4> QED
        BY <2>1, <4>2
    <3> QED
      BY <3>1, <3>2
  <2> QED
    BY <2>1, <2>2
<1>4. ASSUME NEW cut \in Cuts,
             log' = [log EXCEPT ![w.show] = append(@, entry(w, outcome), cut)],
             warning' = warned(TRUE)
      PROVE  LogInv'
  <2>1. LogIsPieces' /\ LinesStart'
    BY <1>4, OneAppendKeeps
  <2> QED
    BY <1>4, <2>1 DEF AllAppended, warned
<1>5. CASE warning' = warned(TRUE) /\ UNCHANGED log
  BY <1>5 DEF LogIsPieces, LinesStart, AllAppended, warned
<1> QED
  BY <1>3, <1>4, <1>5 DEF logs

-----------------------------------------------------------------------------
(* The journal                                                             *)

\* Journals that begin alike make the same document of it.
LEMMA BeginsAlike ==
    ASSUME NEW S, NEW s \in Seq(S), NEW t \in Seq(S), NEW n \in Nat, n <= Len(s), n <= Len(t),
           \A k \in 1..n : s[k] = t[k]
    PROVE  SubSeq(s, 1, n) = SubSeq(t, 1, n)
<1> DEFINE a == SubSeq(s, 1, n)
           b == SubSeq(t, 1, n)
<1>1. \A k \in 1..n : s[k] \in S /\ t[k] \in S
  OBVIOUS
<1>2. /\ a \in Seq(S) /\ Len(a) = (IF 1 <= n THEN n - 1 + 1 ELSE 0)
      /\ \A k \in 1..(n - 1 + 1) : a[k] = s[1 + k - 1]
  BY <1>1, SubSeqProperties
<1>3. /\ b \in Seq(S) /\ Len(b) = (IF 1 <= n THEN n - 1 + 1 ELSE 0)
      /\ \A k \in 1..(n - 1 + 1) : b[k] = t[1 + k - 1]
  BY <1>1, SubSeqProperties
<1> HIDE DEF a, b
<1>4. Len(a) = n /\ Len(b) = n
  BY <1>2, <1>3
<1>5. \A k \in 1..n : a[k] = b[k]
  BY <1>2, <1>3
<1>6. a = b
  BY <1>2, <1>3, <1>4, <1>5
<1> QED BY <1>6 DEF a, b

\* A new patch stands behind a truthful journal and says what the document holds ...
LEMMA PatchIsTruthful ==
    ASSUME NEW o, NEW S, NEW s \in Seq(S), truthful(o, s), NEW p,
           has(applied(o, s), p.leaf), applied(o, s)[p.leaf] = p.before
    PROVE  truthful(o, Append(s, p))
<1> DEFINE t == Append(s, p)
           n == Len(s)
           T == S \cup {p}
<1>1. s \in Seq(T) /\ p \in T
  BY SeqMonotonic
<1> HIDE DEF T
<1>2. t \in Seq(T) /\ n \in Nat /\ Len(t) = n + 1 /\ t[n + 1] = p /\ \A k \in 1..n : t[k] = s[k]
  BY <1>1
<1> HIDE DEF t
<1>3. \A i \in 1..(n + 1) : SubSeq(t, 1, i - 1) = SubSeq(s, 1, i - 1)
  <2> SUFFICES ASSUME NEW i \in 1..(n + 1) PROVE SubSeq(t, 1, i - 1) = SubSeq(s, 1, i - 1)
    OBVIOUS
  <2>1. i - 1 \in Nat /\ i - 1 <= n /\ i - 1 <= Len(t) /\ \A k \in 1..(i - 1) : t[k] = s[k]
    BY <1>2
  <2> QED BY <1>1, <1>2, <2>1, BeginsAlike
<1>4. SubSeq(s, 1, n) = s
  BY SubSeqFull
<1> SUFFICES ASSUME NEW i \in 1..(n + 1)
             PROVE  LET doc == applied(o, SubSeq(t, 1, i - 1)) IN
                    has(doc, t[i].leaf) /\ doc[t[i].leaf] = t[i].before
  BY <1>2 DEF truthful, t
<1>5. CASE i = n + 1
  <2>1. SubSeq(t, 1, i - 1) = s /\ t[i] = p
    BY <1>2, <1>3, <1>4, <1>5
  <2> QED BY <2>1
<1>6. CASE i # n + 1
  <2>1. i \in 1..Len(s) /\ t[i] = s[i] /\ SubSeq(t, 1, i - 1) = SubSeq(s, 1, i - 1)
    BY <1>2, <1>3, <1>6
  <2> QED BY <2>1 DEF truthful
<1> QED BY <1>5, <1>6

\* ... and taking the last one back leaves the others true.
LEMMA UndoIsTruthful ==
    ASSUME NEW o, NEW S, NEW s \in Seq(S), s # << >>, truthful(o, s)
    PROVE  Front(s) \in Seq(S) /\ truthful(o, Front(s))
<1> DEFINE t == Front(s)
<1>0. PICK n \in Nat : n + 1 = Len(s) /\ n = Len(s) - 1
  OBVIOUS
<1>1. \A k \in 1..n : s[k] \in S
  BY <1>0
<1>2. t = SubSeq(s, 1, n)
  BY <1>0 DEF Front
<1>3. /\ t \in Seq(S) /\ Len(t) = (IF 1 <= n THEN n - 1 + 1 ELSE 0)
      /\ \A k \in 1..(n - 1 + 1) : t[k] = s[1 + k - 1]
  BY <1>1, <1>2, SubSeqProperties
<1> HIDE DEF t
<1>4. Len(t) = n /\ \A k \in 1..n : t[k] = s[k]
  BY <1>1, <1>3
<1> SUFFICES ASSUME NEW i \in 1..n
             PROVE  LET doc == applied(o, SubSeq(t, 1, i - 1)) IN
                    has(doc, t[i].leaf) /\ doc[t[i].leaf] = t[i].before
  BY <1>3, <1>4 DEF truthful, t
<1>5. i - 1 \in Nat /\ i - 1 <= n /\ i - 1 <= Len(s) /\ i \in 1..Len(s)
      /\ \A k \in 1..(i - 1) : t[k] = s[k]
  BY <1>0, <1>4
<1>6. SubSeq(t, 1, i - 1) = SubSeq(s, 1, i - 1) /\ t[i] = s[i]
  BY <1>3, <1>4, <1>5, BeginsAlike
<1> QED BY <1>5, <1>6 DEF truthful

\* A session with a patch more, one with the last one less, and one just opened.
LEMMA RecordGrows ==
    ASSUME NEW s, recordOf(s), NEW p, has(document(s), p.leaf), document(s)[p.leaf] = p.before
    PROVE  recordOf([s EXCEPT !.journal = Append(@, p)])
<1> DEFINE t == [s EXCEPT !.journal = Append(@, p)]
<1>1. t = [original |-> s.original, path |-> s.path, journal |-> Append(s.journal, p)]
  BY DEF recordOf
<1> HIDE DEF t
<1>2. t.original = s.original /\ t.path = s.path /\ t.journal = Append(s.journal, p)
  BY <1>1
<1>3. PICK S : s.journal \in Seq(S)
  BY DEF recordOf
<1>4. s.journal \in Seq(S \cup {p})
  BY <1>3, SeqMonotonic
<1>5. t.journal \in Seq(S \cup {p})
  BY <1>2, <1>4
<1>6. truthful(t.original, t.journal)
  BY <1>2, <1>3, PatchIsTruthful DEF recordOf, document
<1>7. recordOf(t)
  BY <1>1, <1>2, <1>5, <1>6 DEF recordOf
<1> QED BY <1>7 DEF t

LEMMA RecordShrinks ==
    ASSUME NEW s, recordOf(s), s.journal # << >>
    PROVE  recordOf([s EXCEPT !.journal = Front(@)])
<1> DEFINE t == [s EXCEPT !.journal = Front(@)]
<1>1. t = [original |-> s.original, path |-> s.path, journal |-> Front(s.journal)]
  BY DEF recordOf
<1> HIDE DEF t
<1>2. t.original = s.original /\ t.path = s.path /\ t.journal = Front(s.journal)
  BY <1>1
<1>3. PICK S : s.journal \in Seq(S)
  BY DEF recordOf
<1>4. t.journal \in Seq(S) /\ truthful(t.original, t.journal)
  BY <1>2, <1>3, UndoIsTruthful DEF recordOf
<1>5. recordOf(t)
  BY <1>1, <1>2, <1>4 DEF recordOf
<1> QED BY <1>5 DEF t

LEMMA RecordOpens == ASSUME NEW doc, NEW path PROVE recordOf(opened(doc, path))
<1>1. << >> \in Seq({}) /\ Len(<< >>) = 0
  OBVIOUS
<1> QED BY <1>1 DEF recordOf, opened, truthful

-----------------------------------------------------------------------------

LEMMA InitIInv == Init => IInv
<1> SUFFICES ASSUME Init PROVE IInv
  OBVIOUS
<1>1. FlightHasShows
  <2>1. flight \in Seq({}) /\ \A w \in {} : w.show \in Shows
    BY DEF Init
  <2> QED
    BY <2>1 DEF FlightHasShows
<1>2. LogIsPieces /\ LinesStart
  <2>1. log \in [Shows -> Seq(Pieces({}))] /\ \A c \in Shows : Len(log[c]) = 0
    BY DEF Init
  <2> QED
    BY <2>1 DEF LogIsPieces, LinesStart, linesStart
<1>3. AllAppended
  BY DEF Init, AllAppended
<1>4. ShownIsCurrent
  BY DEF Init, SessionInit, ShownIsCurrent, findings, changes
<1>5. JournalInv
  BY DEF Init, SessionInit, JournalInv
<1> QED
  BY <1>1, <1>2, <1>3, <1>4, <1>5 DEF IInv

\* A new write goes to the end of those under way, a settled one leaves at the front.
LEMMA FlightKeeps ==
    ASSUME FlightHasShows
    PROVE  /\ UNCHANGED flight => FlightHasShows'
           /\ \A w : w.show \in Shows /\ flight' = Append(flight, w) => FlightHasShows'
           /\ flight # << >> => Head(flight).show \in Shows
           /\ flight # << >> /\ flight' = Tail(flight) => FlightHasShows'
<1>1. PICK S : flight \in Seq(S) /\ \A w \in S : w.show \in Shows
  BY DEF FlightHasShows
<1>2. UNCHANGED flight => FlightHasShows'
  BY DEF FlightHasShows
<1>3. ASSUME NEW w, w.show \in Shows, flight' = Append(flight, w)
      PROVE  FlightHasShows'
  <2>1. flight \in Seq(S \cup {w})
    BY <1>1, SeqMonotonic
  <2>2. flight' \in Seq(S \cup {w}) /\ \A v \in S \cup {w} : v.show \in Shows
    BY <1>1, <1>3, <2>1
  <2> QED
    BY <2>2 DEF FlightHasShows
<1>4. flight # << >> => Head(flight) \in S /\ Tail(flight) \in Seq(S)
  BY <1>1, HeadTailProperties
<1> QED
  BY <1>1, <1>2, <1>3, <1>4 DEF FlightHasShows

\* MainWindow._refresh sets every page to the session.
LEMMA RefreshShows == refresh => ShownIsCurrent'
  BY DEF refresh, ShownIsCurrent

\* A repair and a settled write say what the document held before them.
LEMMA RepairIsTruthful == ASSUME JournalInv, NEW r, repair(r) PROVE JournalInv'
<1> DEFINE p == patchFor(r, session)
<1>1. recordOf(session) /\ session' = [session EXCEPT !.journal = Append(@, p)]
  BY DEF repair, JournalInv
<1>2. has(document(session), p.leaf) /\ document(session)[p.leaf] = p.before
  BY DEF repair, repairable, patchFor
<1> HIDE DEF p
<1>3. recordOf(session')
  BY <1>1, <1>2, RecordGrows
<1> QED BY <1>3 DEF JournalInv, recordOf

LEMMA ApplyIsTruthful == ASSUME JournalInv, NEW w, NEW value, apply(w, value) PROVE JournalInv'
<1>1. CASE moves(w, value) /\ landsIn(w, value)
  <2> DEFINE because == IF w.kind = "repair" THEN w.patch.because ELSE "revert"
             label == IF w.kind = "repair" THEN "clamped" ELSE "reverted"
             p == [leaf |-> leafOf(w), before |-> document(session)[leafOf(w)],
                   after |-> value, because |-> because, label |-> label]
  <2>1. recordOf(session) /\ has(document(session), leafOf(w))
    BY <1>1 DEF landsIn, JournalInv
  <2>2. session' = [session EXCEPT !.journal = Append(@, p)]
    BY <1>1 DEF apply, recorded
  <2>3. p.leaf = leafOf(w) /\ p.before = document(session)[leafOf(w)]
    OBVIOUS
  <2> HIDE DEF p
  <2>4. recordOf(session')
    BY <2>1, <2>2, <2>3, RecordGrows
  <2> QED BY <2>4 DEF JournalInv, recordOf
<1>2. CASE ~(moves(w, value) /\ landsIn(w, value))
  BY <1>2 DEF apply, JournalInv, recordOf
<1> QED BY <1>1, <1>2

LEMMA NextIInv == IInv /\ [Next]_vars => IInv'
<1> SUFFICES ASSUME IInv, [Next]_vars PROVE IInv'
  OBVIOUS
<1>0. LogInv /\ FlightHasShows /\ ShownIsCurrent /\ JournalInv
  BY DEF IInv, LogInv
<1>q. ASSUME LogInv', FlightHasShows', ShownIsCurrent', JournalInv' PROVE IInv'
  BY <1>q DEF IInv, LogInv
<1>j. /\ UNCHANGED session => JournalInv'
      /\ \A doc, path : session' = opened(doc, path) => JournalInv'
  <2>1. UNCHANGED session => JournalInv'
    BY <1>0 DEF JournalInv, recordOf
  <2>2. ASSUME NEW doc, NEW path, session' = opened(doc, path) PROVE JournalInv'
    <3>1. recordOf(session')
      BY <2>2, RecordOpens
    <3> QED BY <3>1 DEF JournalInv, recordOf
  <2> QED BY <2>1, <2>2
<1>c. UNCHANGED <<session, shown>> => ShownIsCurrent'
  BY <1>0 DEF ShownIsCurrent, findings, changes
<1>s. sceneOnly => LogInv' /\ FlightHasShows'
  BY <1>0, LogKeeps, FlightKeeps DEF sceneOnly
<1>1. CASE Open
  BY <1>1, <1>j, <1>q, <1>s, RefreshShows DEF Open, open
<1>2. CASE Pull
  BY <1>2, <1>j, <1>q, <1>s, RefreshShows DEF Pull, adopt_pulled_session
<1>3. CASE Repair
  BY <1>0, <1>3, <1>q, <1>s, RefreshShows, RepairIsTruthful DEF Repair, repair
<1>4. CASE Undo
  <2>1. /\ session # None /\ session.journal # << >> /\ refresh /\ sceneOnly
        /\ session' = [session EXCEPT !.journal = Front(@)]
    BY <1>4 DEF Undo, undo
  <2>2. recordOf(session')
    BY <1>0, <2>1, RecordShrinks DEF JournalInv
  <2>3. JournalInv'
    BY <2>2 DEF JournalInv, recordOf
  <2> QED
    BY <1>q, <1>s, <2>1, <2>3, RefreshShows
<1>5. CASE Reanalyse
  BY <1>5, <1>j, <1>q, <1>s, RefreshShows DEF Reanalyse, reanalyse
<1>6. CASE SaveAs
  <2>1. UNCHANGED <<session, shown>> /\ UNCHANGED logVars
    BY <1>6 DEF SaveAs, save_as
  <2> QED
    BY <1>0, <1>c, <1>j, <1>q, <2>1, LogKeeps, FlightKeeps DEF logVars
<1>7. CASE Send
  <2>1. UNCHANGED <<session, shown>> /\ UNCHANGED <<log, warning, owed, unheard>>
    BY <1>7 DEF Send, sessionVars
  <2>2. PICK p \in ToSet(changes(session)), c \in Shows :
          flight' = Append(flight, [kind |-> "repair", patch |-> p, show |-> c])
    BY <1>7 DEF Send
  <2>3. FlightHasShows'
    BY <1>0, <2>2, FlightKeeps
  <2> QED
    BY <1>0, <1>c, <1>j, <1>q, <2>1, <2>3, LogKeeps
<1>8. CASE Revert
  <2>1. UNCHANGED <<session, shown>> /\ UNCHANGED <<log, warning, owed, unheard>>
    BY <1>8 DEF Revert, sessionVars
  <2>2. PICK i \in DOMAIN rows, c \in Shows :
          flight' = Append(flight, [kind |-> "revert", leaf |-> rows[i].leaf,
                                    after |-> rows[i].before, show |-> c])
    BY <1>8 DEF Revert
  <2>3. FlightHasShows'
    BY <1>0, <2>2, FlightKeeps
  <2> QED
    BY <1>0, <1>c, <1>j, <1>q, <2>1, <2>3, LogKeeps
<1>9. CASE Settle
  <2> DEFINE w == Head(flight)
  <2>1. flight # << >> /\ flight' = Tail(flight)
    BY <1>9 DEF Settle
  <2>2. PICK outcome \in Outcomes, readback \in Clamps :
          /\ apply(w, settle_scene(w, outcome, readback))
          /\ owed' = owed \cup {number}
          /\ IF announced(w, settle_scene(w, outcome, readback)) THEN logs(w, outcome)
             ELSE unheard' = unheard \cup {number} /\ UNCHANGED <<log, warning>>
    BY <1>9 DEF Settle
  <2>3. w.show \in Shows /\ FlightHasShows'
    BY <1>0, <2>1, FlightKeeps
  <2> DEFINE value == settle_scene(w, outcome, readback)
  <2> HIDE DEF w
  <2>4. ShownIsCurrent'
    <3>1. CASE moves(w, value) /\ landsIn(w, value)
      BY <2>2, <3>1, RefreshShows DEF apply, showsMove
    <3>2. CASE ~(moves(w, value) /\ landsIn(w, value))
      BY <1>c, <2>2, <3>2 DEF apply
    <3> QED
      BY <3>1, <3>2
  <2>5. LogInv'
    <3>1. CASE announced(w, value)
      BY <1>0, <2>2, <2>3, <3>1, LogsKeeps
    <3>2. CASE ~announced(w, value)
      BY <1>0, <2>2, <3>2 DEF LogInv, LogIsPieces, LinesStart, AllAppended
    <3> QED
      BY <3>1, <3>2
  <2>6. JournalInv'
    BY <1>0, <2>2, ApplyIsTruthful
  <2> QED
    BY <1>q, <2>3, <2>4, <2>5, <2>6
<1>10. CASE Crash
  <2>1. ShownIsCurrent'
    BY <1>10 DEF Crash, ShownIsCurrent, findings, changes
  <2>2. FlightHasShows'
    <3>1. flight' \in Seq({}) /\ \A w \in {} : w.show \in Shows
      BY <1>10 DEF Crash
    <3> QED
      BY <3>1 DEF FlightHasShows
  <2>3. LogInv'
    <3>1. AllAppended'
      BY <1>10 DEF Crash, AllAppended
    <3>2. LogIsPieces' /\ LinesStart'
      <4>1. CASE UNCHANGED log
        BY <1>0, <4>1 DEF LogInv, LogIsPieces, LinesStart
      <4>2. ASSUME flight # << >>, NEW cut \in Cuts,
                   log' = [log EXCEPT ![Head(flight).show] =
                              append(@, entry(Head(flight), "sent"), cut)]
            PROVE  LogIsPieces' /\ LinesStart'
        BY <1>0, <4>2, FlightKeeps, OneAppendKeeps
      <4> QED
        BY <1>10, <4>1, <4>2 DEF Crash
    <3> QED
      BY <3>1, <3>2 DEF LogInv
  <2>4. JournalInv'
    BY <1>10 DEF Crash, JournalInv
  <2> QED
    BY <1>q, <2>1, <2>2, <2>3, <2>4
<1>11. CASE UNCHANGED vars
  <2>1. UNCHANGED <<session, shown>> /\ UNCHANGED logVars
    BY <1>11 DEF vars, sessionVars
  <2> QED
    BY <1>0, <1>c, <1>j, <1>q, <2>1, LogKeeps, FlightKeeps DEF logVars
<1> QED
  BY <1>1, <1>2, <1>3, <1>4, <1>5, <1>6, <1>7, <1>8, <1>9, <1>10, <1>11 DEF Next

\* The inductive invariant, over any number of lives of the program.
THEOREM Invariance == Spec => []IInv
  BY InitIInv, NextIInv, PTL DEF Spec

\* What the pages show is what the window's document says now (ui/session.py).
THEOREM ShownIsCurrentHolds == Spec => []ShownIsCurrent
<1>1. IInv => ShownIsCurrent
  BY DEF IInv
<1> QED
  BY <1>1, Invariance, PTL

\* The journal is a truthful record (edit/journal.py), whatever was repaired, undone,
\* clamped and reverted, in whichever session a write settled.
THEOREM JournalIsTruthfulHolds == Spec => []JournalIsTruthful
<1>1. IInv => JournalIsTruthful
  <2> SUFFICES ASSUME IInv, session # None PROVE JournalIsTruthful
    BY DEF JournalIsTruthful
  <2>1. (\E S : session.journal \in Seq(S)) /\ truthful(session.original, session.journal)
    BY DEF IInv, JournalInv, recordOf
  <2>2. DOMAIN session.journal = 1..Len(session.journal)
    BY <2>1, LenProperties
  <2> QED
    BY <2>1, <2>2 DEF truthful, JournalIsTruthful
<1> QED
  BY <1>1, Invariance, PTL

\* No settled write that the sink heard of is missing from the log without a word
\* (write_log_sink over store).
THEOREM HeardIsAccountedHolds == Spec => []HeardIsAccounted
<1>1. IInv => HeardIsAccounted
  <2> SUFFICES ASSUME IInv, NEW n \in owed \ unheard, ~warning
               PROVE  \E c \in Shows : LET read == read_show(log[c]) IN
                         \/ read.error
                         \/ \E e \in read.entries : e.n = n
                         \/ read.skipped > 0 /\ \E i \in DOMAIN log[c] : log[c][i].entry.n = n
    BY DEF HeardIsAccounted, accounted
  <2>1. PICK c \in Shows : whole(log[c], n)
    BY DEF IInv, AllAppended
  <2>2. PICK S : log \in [Shows -> Seq(Pieces(S))]
    BY DEF IInv, LogIsPieces
  <2>3. log[c] \in Seq(Pieces(S)) /\ linesStart(log[c])
    BY <2>1, <2>2 DEF IInv, LinesStart
  <2> QED
    BY <2>1, <2>3, WholeIsSaid
<1> QED
  BY <1>1, Invariance, PTL

=============================================================================
