-------------------------- MODULE Vocabulary_proofs --------------------------
(* For any vocabularies, releases, proposals and files: a write leaves the  *)
(* other entries of the file alone, a default a person deleted stays        *)
(* deleted but for what an overlapped write revives, an expansion is what   *)
(* can be reached, the cycles reported are those there are, and a checked   *)
(* put closes none.                                                         *)
EXTENDS Vocabulary, Selection_proofs

\* A change that puts an entry has one.
whole(c) == c \in Changes /\ (c.op \in {"add", "edit"} => c.entry \in Entries)

Typed ==
    /\ release \in Releases
    /\ file \in Raws /\ seen \in Raws \cup {None}
    /\ hand = [w \in Writers |-> hand[w]]
    /\ \A w \in Writers : hand[w] # None =>
        /\ hand[w] \in [change : Changes, doc : Raws, stale : BOOLEAN, overlapped : BOOLEAN]
        /\ whole(hand[w].change)
    /\ rows \in Seq([change : Changes, valid : BOOLEAN])
    /\ \A i \in DOMAIN rows : whole(rows[i].change)
    /\ applying \in BOOLEAN
    /\ revived \subseteq gone /\ gone \subseteq Keys

\* Nothing of the window outlives it; the command line only remembers.
WindowIsOpen ==
    /\ seen = None => rows = << >> /\ ~applying /\ hand["window"] = None
    /\ hand["command line"] # None => hand["command line"].change.op = "edit"

\* What was deleted, and not revived by an overlapped write.
dead == gone \ revived
USE DEF dead

\* What was deleted is a tombstone in the file and in the window's copy of it.
Buried == \A k \in dead : file[k] = Deleted /\ (seen # None => seen[k] = Deleted)

\* A deletion under way writes a tombstone over a default, and one of an entry deleted
\* before has a default under it.
deletes(c, k) == c.op = "delete" /\ c.key = k

HandBuries ==
    \A w \in Writers, k \in Keys : hand[w] # None /\ deletes(hand[w].change, k) =>
        /\ release[k] # None => hand[w].doc[k] = Deleted
        /\ k \in dead => release[k] # None

RowsBury ==
    \A i \in DOMAIN rows, k \in Keys :
        rows[i].valid /\ deletes(rows[i].change, k) /\ k \in dead => release[k] # None

\* A write that no other one overlapped differs from the file in its own entry only.
HandIsOwn ==
    \A w \in Writers : hand[w] # None /\ ~hand[w].overlapped =>
        \A k \in Keys \ {hand[w].change.key} : hand[w].doc[k] = file[k]

IInv == Typed /\ WindowIsOpen /\ Buried /\ HandBuries /\ RowsBury /\ HandIsOwn

-----------------------------------------------------------------------------

LEMMA InitIInv == Init => IInv
<1> SUFFICES ASSUME Init PROVE IInv
  OBVIOUS
<1>1. Typed
  <2>1. hand = [w \in Writers |-> hand[w]] /\ \A w \in Writers : hand[w] = None
    BY DEF Init
  <2>2. rows \in Seq([change : Changes, valid : BOOLEAN]) /\ DOMAIN rows = {}
    BY DEF Init
  <2>3. release \in Releases /\ file \in Raws /\ seen = None /\ applying = FALSE /\ gone = {} /\ revived = {}
    BY VocabularyAssumption DEF Init
  <2>4. QED BY <2>1, <2>2, <2>3 DEF Typed
<1>2. WindowIsOpen /\ Buried /\ HandBuries /\ RowsBury /\ HandIsOwn
  BY DEF Init, WindowIsOpen, Buried, HandBuries, RowsBury, HandIsOwn, Writers
<1>3. QED BY <1>1, <1>2 DEF IInv

LEMMA Begun ==
    ASSUME NEW c \in Changes, NEW d \in Raws, NEW s \in BOOLEAN
    PROVE  [change |-> c, doc |-> d, stale |-> s, overlapped |-> FALSE]
                \in [change : Changes, doc : Raws, stale : BOOLEAN, overlapped : BOOLEAN]
OBVIOUS

\* What stays true when a writer reads the file.
LEMMA ReadingKeeps ==
    ASSUME IInv, NEW w \in Writers, NEW c, whole(c), begins(w, c), idle(w),
           w = "command line" => c.op = "edit",
           w = "window" => seen # None,
           \A k \in dead : deletes(c, k) => release[k] # None,
           UNCHANGED <<release, file, seen, gone, revived>>,
           rows' \in Seq([change : Changes, valid : BOOLEAN]), applying' \in BOOLEAN,
           \A i \in DOMAIN rows' : whole(rows'[i].change),
           seen = None => rows' = << >> /\ ~applying',
           RowsBury'
    PROVE  IInv'
<1> DEFINE doc == changed(file, c)
<1>1. PICK stale \in BOOLEAN :
        hand' = [hand EXCEPT ![w] =
                    [change |-> c, doc |-> doc, stale |-> stale, overlapped |-> FALSE]]
  BY DEF begins, read_raw
<1>2. c \in Changes /\ (c.op \in {"add", "edit"} => c.entry \in Entries) /\ file \in Raws
  BY DEF IInv, Typed, whole
<1>3. /\ doc \in Raws
      /\ \A k \in Keys \ {c.key} : doc[k] = file[k]
      /\ c.op = "delete" /\ release[c.key] # None => doc[c.key] = Deleted
  <2> DEFINE put == CASE c.op \in {"add", "edit"} -> c.entry
                      [] c.op = "delete" -> IF had_default(c.key) THEN Deleted ELSE None
                      [] c.op = "reset" -> None
  <2>1. put \in Entries \cup {None, Deleted, Malformed}
    BY <1>2 DEF Changes
  <2>2. c.op = "delete" /\ release[c.key] # None => put = Deleted
    BY DEF had_default
  <2>3. c.key \in Keys /\ doc = [file EXCEPT ![c.key] = put]
    BY <1>2 DEF changed, Changes
  <2> HIDE DEF put, doc
  <2>4. QED BY <1>2, <2>1, <2>2, <2>3 DEF Raws
<1> HIDE DEF doc
<1>4. /\ hand'[w] = [change |-> c, doc |-> doc, stale |-> stale, overlapped |-> FALSE]
      /\ \A v \in Writers : v # w => hand'[v] = hand[v]
      /\ hand' = [v \in Writers |-> hand'[v]]
  BY <1>1 DEF IInv, Typed
<1>5. /\ hand'[w] \in [change : Changes, doc : Raws, stale : BOOLEAN, overlapped : BOOLEAN]
      /\ hand'[w].change = c /\ hand'[w].doc = doc
  BY <1>1, <1>2, <1>3, <1>4, Begun
<1>6. ASSUME NEW v \in Writers, hand'[v] # None
      PROVE  /\ hand'[v] \in [change : Changes, doc : Raws, stale : BOOLEAN, overlapped : BOOLEAN]
             /\ whole(hand'[v].change)
  <2>1. CASE v = w
    BY <1>5, <2>1
  <2>2. CASE v # w
    BY <1>4, <1>6, <2>2 DEF IInv, Typed
  <2>3. QED BY <2>1, <2>2
<1>7. Typed'
  BY <1>4, <1>6 DEF IInv, Typed
<1>8. WindowIsOpen'
  <2>1. seen' = None => rows' = << >> /\ ~applying' /\ hand'["window"] = None
    BY <1>4 DEF IInv, WindowIsOpen, Writers
  <2>2. ASSUME hand'["command line"] # None PROVE hand'["command line"].change.op = "edit"
    <3>1. CASE w = "command line"
      BY <1>5, <3>1
    <3>2. CASE w # "command line"
      BY <1>4, <2>2, <3>2 DEF IInv, WindowIsOpen, Writers
    <3>3. QED BY <3>1, <3>2
  <2>3. QED BY <2>1, <2>2 DEF WindowIsOpen
<1>9. Buried'
  BY DEF IInv, Buried
<1>10. HandBuries'
  <2>1. SUFFICES ASSUME NEW v \in Writers, NEW k \in Keys, hand'[v] # None,
                        deletes(hand'[v].change, k)
                 PROVE  /\ release[k] # None => hand'[v].doc[k] = Deleted
                        /\ k \in dead => release[k] # None
    BY DEF HandBuries, deletes
  <2>2. CASE v = w
    <3>1. deletes(c, k)
      BY <1>5, <2>1, <2>2
    <3>2. QED BY <1>3, <1>5, <2>2, <3>1 DEF deletes
  <2>3. CASE v # w
    <3>1. hand[v] # None /\ deletes(hand[v].change, k)
      BY <1>4, <2>1, <2>3
    <3>2. QED BY <1>4, <2>3, <3>1 DEF IInv, HandBuries
  <2>4. QED BY <2>2, <2>3
<1>11. HandIsOwn'
  <2>1. SUFFICES ASSUME NEW v \in Writers, hand'[v] # None, ~hand'[v].overlapped,
                        NEW k \in Keys \ {hand'[v].change.key}
                 PROVE  hand'[v].doc[k] = file[k]
    BY DEF HandIsOwn
  <2>2. CASE v = w
    BY <1>3, <1>5, <2>1, <2>2
  <2>3. CASE v # w
    <3>1. hand[v] # None /\ ~hand[v].overlapped /\ k \in Keys \ {hand[v].change.key}
      BY <1>4, <2>1, <2>3
    <3>2. hand[v].doc[k] = file[k]
      BY <3>1 DEF IInv, HandIsOwn
    <3>3. QED BY <1>4, <2>3, <3>2
  <2>4. QED BY <2>2, <2>3
<1>12. QED BY <1>7, <1>8, <1>9, <1>10, <1>11 DEF IInv

\* A tab of the window starts a write.
LEMMA TabsKeep ==
    IInv /\ (Add \/ Edit \/ Delete \/ Reset \/ MendReference) => IInv'
<1> SUFFICES ASSUME IInv, Add \/ Edit \/ Delete \/ Reset \/ MendReference PROVE IInv'
  OBVIOUS
<1>1. ready
  BY DEF Add, Edit, Delete, Reset, MendReference
<1>2. \E c : /\ tabWrites(c) /\ whole(c)
             /\ \A k \in dead : deletes(c, k) => release[k] # None
  <2>1. CASE Add
    BY <2>1, VocabularyAssumption DEF Add, enterable, Keys, visible, whole, Changes, deletes
  <2>2. CASE Edit
    BY <2>2, VocabularyAssumption DEF Edit, enterable, visible, whole, Changes, deletes
  <2>3. CASE Delete
    <3>1. PICK k \in visible(merge(seen)) : tabWrites([op |-> "delete", key |-> k, entry |-> None])
      BY <2>3 DEF Delete
    <3>2. k \in Keys /\ k \notin dead
      BY <1>1, VocabularyAssumption DEF visible, merge, ready, IInv, Buried
    <3>3. QED BY <3>1, <3>2 DEF whole, Changes, deletes
  <2>4. CASE Reset
    BY <2>4 DEF Reset, whole, Changes, deletes
  <2>5. CASE MendReference
    <3>1. PICK k \in visible(merge(seen)), chosen \in {{}} \cup {{s} : s \in visibleSets(merge(seen))} :
            tabWrites([op |-> "edit", key |-> k, entry |-> mended(merge(seen), merge(seen)[k], chosen)])
      BY <2>5 DEF MendReference
    <3>2. k \in Keys /\ merge(seen)[k] \in Entries
      <4>1. seen \in Raws /\ release \in [Keys -> Entries \cup {None}]
        BY <1>1, VocabularyAssumption DEF IInv, Typed, ready
      <4>2. k \in Keys /\ merge(seen)[k] \notin {None, Deleted}
        BY DEF visible
      <4>3. QED BY <4>1, <4>2 DEF merge, Raws
    <3>3. mended(merge(seen), merge(seen)[k], chosen) \in Entries
      BY <3>2 DEF mended, Entries, visibleSets
    <3>4. QED BY <3>1, <3>2, <3>3 DEF whole, Changes, deletes
  <2>6. QED BY <2>1, <2>2, <2>3, <2>4, <2>5
<1>3. PICK c : /\ tabWrites(c) /\ whole(c)
               /\ \A k \in dead : deletes(c, k) => release[k] # None
  BY <1>2
<1>4. /\ begins("window", c) /\ idle("window") /\ seen # None
      /\ UNCHANGED <<release, file, seen, rows, applying, gone, revived>>
  BY <1>1, <1>3 DEF tabWrites, ready
<1>5. RowsBury'
  BY <1>4 DEF IInv, RowsBury, deletes
<1>6. /\ rows' \in Seq([change : Changes, valid : BOOLEAN]) /\ applying' \in BOOLEAN
      /\ \A i \in DOMAIN rows' : whole(rows'[i].change)
  BY <1>4 DEF IInv, Typed
<1>7. "window" \in Writers /\ "window" # "command line"
  BY DEF Writers
<1>8. QED BY <1>3, <1>4, <1>5, <1>6, <1>7, ReadingKeeps

\* A row of the assistant: the rows left are rows of the table.
LEMMA RowKeeps == IInv /\ ApplyRow => IInv'
<1> SUFFICES ASSUME IInv, ApplyRow PROVE IInv'
  OBVIOUS
<1>1. /\ applying /\ idle("window") /\ seen # None
      /\ UNCHANGED <<release, file, seen, gone, revived>>
  BY DEF ApplyRow, IInv, WindowIsOpen
<1> DEFINE Rows == [change : Changes, valid : BOOLEAN]
<1>2. rows \in Seq(Rows)
  BY DEF IInv, Typed
<1>3. /\ rows' \in Seq(Rows)
      /\ \A i \in DOMAIN rows' : \E j \in DOMAIN rows : rows'[i] = rows[j]
  <2>1. CASE rows = << >>
    BY <1>2, <2>1 DEF ApplyRow
  <2>2. CASE rows # << >>
    <3>1. rows' = Tail(rows)
      BY <2>2 DEF ApplyRow
    <3> HIDE DEF Rows
    <3>2. /\ Tail(rows) \in Seq(Rows)
          /\ \A i \in DOMAIN Tail(rows) : i + 1 \in DOMAIN rows /\ Tail(rows)[i] = rows[i + 1]
      BY <1>2, <2>2
    <3>3. QED BY <3>1, <3>2
  <2>3. QED BY <2>1, <2>2
<1>4. \A i \in DOMAIN rows' : whole(rows'[i].change)
  BY <1>3 DEF IInv, Typed
<1>5. RowsBury'
  BY <1>1, <1>3 DEF IInv, RowsBury, deletes
<1>6. applying' \in BOOLEAN
  BY DEF ApplyRow
<1>7. CASE UNCHANGED hand
  BY <1>1, <1>3, <1>4, <1>5, <1>6, <1>7
     DEF IInv, Typed, WindowIsOpen, Buried, HandBuries, HandIsOwn, deletes
<1>8. CASE rows # << >> /\ Head(rows).valid /\ begins("window", Head(rows).change)
  <2> DEFINE c == Head(rows).change
  <2>1. 1 \in DOMAIN rows /\ Head(rows) = rows[1]
    BY <1>2, <1>8
  <2>2. whole(c)
    BY <2>1 DEF IInv, Typed
  <2>3. \A k \in dead : deletes(c, k) => release[k] # None
    BY <1>8, <2>1 DEF IInv, RowsBury, Typed
  <2>4. "window" \in Writers /\ "window" # "command line"
    BY DEF Writers
  <2> HIDE DEF c
  <2>5. begins("window", c)
    BY <1>8 DEF c
  <2>6. QED BY <1>1, <1>3, <1>4, <1>5, <1>6, <2>2, <2>3, <2>4, <2>5, ReadingKeeps
<1>9. QED BY <1>7, <1>8 DEF ApplyRow

LEMMA RememberKeeps == IInv /\ Remember => IInv'
<1> SUFFICES ASSUME IInv, Remember PROVE IInv'
  OBVIOUS
<1>1. PICK t \in TermKeys, e \in Remembered :
        begins("command line", [op |-> "edit", key |-> t, entry |-> e])
  BY DEF Remember
<1> DEFINE c == [op |-> "edit", key |-> t, entry |-> e]
<1>2. whole(c) /\ c.op = "edit" /\ \A k \in dead : ~deletes(c, k)
  BY VocabularyAssumption DEF whole, Changes, deletes, Keys
<1>3. idle("command line") /\ UNCHANGED <<release, file, seen, rows, applying, gone, revived>>
  BY DEF Remember
<1>4. RowsBury'
  BY <1>3 DEF IInv, RowsBury, deletes
<1>5. /\ rows' \in Seq([change : Changes, valid : BOOLEAN]) /\ applying' \in BOOLEAN
      /\ \A i \in DOMAIN rows' : whole(rows'[i].change)
      /\ seen = None => rows' = << >> /\ ~applying'
  BY <1>3 DEF IInv, Typed, WindowIsOpen
<1>6. "command line" \in Writers /\ "command line" # "window"
  BY DEF Writers
<1> HIDE DEF c
<1>7. begins("command line", c)
  BY <1>1 DEF c
<1>8. QED BY <1>2, <1>3, <1>4, <1>5, <1>6, <1>7, ReadingKeeps

\* What a finished write puts in the file: nothing of what was deleted comes back
\* unless it is brought back.
LEMMA FinishKeeps == IInv /\ Finish => IInv'
<1> SUFFICES ASSUME IInv, NEW w \in Writers, ~idle(w),
                    file' = hand[w].doc,
                    seen' = IF w = "window" THEN file' ELSE seen,
                    gone' = (gone \cup deletedBy(w)) \ putBackBy(w),
                    revived' = ((revived \ deletedBy(w)) \cup revivedBy(w)) \cap gone',
                    hand' = [overlaps(w) EXCEPT ![w] = None],
                    UNCHANGED <<release, rows, applying>>
             PROVE  IInv'
  BY DEF Finish
<1> DEFINE c == hand[w].change
<1>1. hand[w] # None
  BY DEF idle
<1>2. c \in Changes /\ hand[w].doc \in Raws
  BY <1>1 DEF IInv, Typed
<1>3. \A v \in Writers : hand'[v] = IF v = w \/ hand[v] = None THEN None
                                   ELSE [hand[v] EXCEPT !.overlapped = TRUE]
  BY <1>1 DEF overlaps
<1>4. \A v \in Writers : hand'[v] # None =>
        /\ v # w /\ hand[v] # None
        /\ hand'[v].change = hand[v].change /\ hand'[v].doc = hand[v].doc
        /\ hand'[v].overlapped = TRUE
        /\ hand'[v] \in [change : Changes, doc : Raws, stale : BOOLEAN, overlapped : BOOLEAN]
  <2>1. SUFFICES ASSUME NEW v \in Writers, hand'[v] # None
                 PROVE  /\ v # w /\ hand[v] # None
                        /\ hand'[v].change = hand[v].change /\ hand'[v].doc = hand[v].doc
                        /\ hand'[v].overlapped = TRUE
                        /\ hand'[v] \in [change : Changes, doc : Raws, stale : BOOLEAN, overlapped : BOOLEAN]
    OBVIOUS
  <2>2. v # w /\ hand[v] # None /\ hand'[v] = [hand[v] EXCEPT !.overlapped = TRUE]
    BY <1>3, <2>1
  <2>3. hand[v] \in [change : Changes, doc : Raws, stale : BOOLEAN, overlapped : BOOLEAN]
    BY <2>2 DEF IInv, Typed
  <2> DEFINE h == hand[v]
  <2> HIDE DEF h
  <2>4. h \in [change : Changes, doc : Raws, stale : BOOLEAN, overlapped : BOOLEAN]
        => LET o == [h EXCEPT !.overlapped = TRUE] IN
           /\ o.change = h.change /\ o.doc = h.doc /\ o.overlapped = TRUE
           /\ o \in [change : Changes, doc : Raws, stale : BOOLEAN, overlapped : BOOLEAN]
    OBVIOUS
  <2>5. QED BY <2>2, <2>3, <2>4 DEF h
<1>5. Typed'
  <2>1. hand' = [v \in Writers |-> hand'[v]]
    BY DEF overlaps
  <2>2. gone' \subseteq Keys /\ revived' \subseteq gone'
    BY DEF IInv, Typed, deletedBy
  <2>3. QED BY <1>2, <1>4, <2>1, <2>2 DEF IInv, Typed
<1>6. WindowIsOpen'
  <2>1. "window" \in Writers /\ "command line" \in Writers
    BY DEF Writers
  <2>2. hand'["command line"] # None => hand'["command line"].change.op = "edit"
    BY <1>4, <2>1 DEF IInv, WindowIsOpen
  <2>3. seen' = None => seen = None
    BY <1>2, VocabularyAssumption
  <2>4. QED BY <1>4, <2>1, <2>2, <2>3 DEF IInv, WindowIsOpen
<1>a. \A k \in dead' : /\ k \in Keys /\ k \notin putBackBy(w) /\ k \notin revivedBy(w)
                        /\ (k \in dead \/ k \in deletedBy(w))
  <2>1. dead' \subseteq gone \cup deletedBy(w) /\ gone \subseteq Keys /\ deletedBy(w) \subseteq Keys
    BY DEF IInv, Typed, deletedBy
  <2>2. \A k \in dead' : k \notin putBackBy(w) /\ k \notin revivedBy(w)
    OBVIOUS
  <2>3. \A k \in dead' : k \in dead \/ k \in deletedBy(w)
    OBVIOUS
  <2>4. QED BY <2>1, <2>2, <2>3
<1>7. \A k \in dead' : file'[k] = Deleted
  <2>1. SUFFICES ASSUME NEW k \in dead' PROVE hand[w].doc[k] = Deleted
    OBVIOUS
  <2>2. k \in Keys /\ k \notin putBackBy(w) /\ k \notin revivedBy(w)
    BY <1>a
  <2>3. CASE hand[w].overlapped
    BY <2>2, <2>3 DEF revivedBy
  <2>4. CASE ~hand[w].overlapped /\ k # c.key
    <3>1. k \in dead
      BY <1>a, <2>4 DEF deletedBy
    <3>2. QED BY <1>1, <2>2, <2>4, <3>1 DEF IInv, HandIsOwn, Buried
  <2>5. CASE ~hand[w].overlapped /\ k = c.key
    <3>1. deletes(c, k)
      BY <2>2, <2>5 DEF putBackBy, deletes
    <3>2. release[k] # None
      BY <1>1, <1>a, <2>2, <2>5, <3>1 DEF IInv, HandBuries, deletedBy
    <3>3. QED BY <1>1, <2>2, <3>1, <3>2 DEF IInv, HandBuries
  <2>6. QED BY <2>3, <2>4, <2>5
<1>8. Buried'
  <2>1. CASE w = "window"
    BY <1>7, <2>1 DEF Buried
  <2>2. CASE w # "window"
    <3>1. c.op = "edit"
      BY <1>1, <2>2 DEF IInv, WindowIsOpen, Writers
    <3>2. dead' \subseteq dead
      BY <1>a, <3>1 DEF deletedBy
    <3>3. QED BY <1>7, <2>2, <3>2 DEF IInv, Buried
  <2>3. QED BY <2>1, <2>2
<1>9. \A k \in dead' : k \in dead \/ release[k] # None
  BY <1>a DEF deletedBy
<1>10. HandBuries'
  BY <1>4, <1>9 DEF IInv, HandBuries, deletes
<1>11. RowsBury'
  BY <1>9 DEF IInv, RowsBury, deletes
<1>12. HandIsOwn'
  BY <1>4 DEF HandIsOwn
<1>13. QED BY <1>5, <1>6, <1>8, <1>10, <1>11, <1>12 DEF IInv

\* The window opens, closes and is told a proposal.
LEMMA WindowKeeps == IInv /\ (Open \/ Close \/ Propose \/ Apply) => IInv'
<1> SUFFICES ASSUME IInv, Open \/ Close \/ Propose \/ Apply PROVE IInv'
  OBVIOUS
<1> USE DEF IInv, deletes
<1>1. CASE Open
  <2>1. seen = None /\ seen' = file /\ file \in Raws /\ file # None
    BY <1>1, VocabularyAssumption DEF Open, Typed
  <2>2. UNCHANGED <<release, file, hand, rows, applying, gone, revived>>
    BY <1>1 DEF Open
  <2>3. Typed' /\ WindowIsOpen' /\ Buried'
    BY <2>1, <2>2 DEF Typed, WindowIsOpen, Buried
  <2>4. HandBuries' /\ RowsBury' /\ HandIsOwn'
    BY <2>2 DEF HandBuries, RowsBury, HandIsOwn
  <2>5. QED BY <2>3, <2>4
<1>2. CASE Close
  <2>1. rows' = << >> /\ DOMAIN rows' = {}
    BY <1>2 DEF Close
  <2>2. /\ UNCHANGED <<release, file, hand, applying, gone, revived>>
        /\ seen' = None /\ ~applying /\ hand["window"] = None
    BY <1>2 DEF Close, idle
  <2>3. Typed'
    <3>1. rows' \in Seq([change : Changes, valid : BOOLEAN])
      BY <2>1
    <3>2. QED BY <2>1, <2>2, <3>1 DEF Typed
  <2>4. WindowIsOpen' /\ Buried' /\ HandBuries' /\ RowsBury' /\ HandIsOwn'
    BY <2>1, <2>2 DEF WindowIsOpen, Buried, HandBuries, RowsBury, HandIsOwn
  <2>5. QED BY <2>3, <2>4
<1>3. CASE Apply
  BY <1>3 DEF Apply, ready, Typed, WindowIsOpen, Buried, HandBuries, RowsBury, HandIsOwn
<1>4. CASE Propose
  <2>1. PICK reply \in Proposals :
          rows' = [i \in DOMAIN reply |->
                      [change |-> reply[i], valid |-> validate(merge(seen), reply[i])]]
    BY <1>4 DEF Propose
  <2>2. seen # None /\ UNCHANGED <<release, file, seen, hand, applying, gone, revived>>
    BY <1>4 DEF Propose, ready
  <2>3. \A i \in DOMAIN reply : reply[i] \in Changes /\ whole(reply[i])
    BY ProposalsAssumption DEF whole
  <2>4. ASSUME NEW i \in DOMAIN reply PROVE validate(merge(seen), reply[i]) \in BOOLEAN
    <3>1. reply[i].op \in {"add", "edit", "delete"}
      BY <2>3, ProposalsAssumption DEF Changes
    <3>2. CASE reply[i].op = "add"
      BY <3>2 DEF validate, acceptable
    <3>3. CASE reply[i].op = "edit"
      BY <3>3 DEF validate, acceptable
    <3>4. CASE reply[i].op = "delete"
      BY <3>4 DEF validate
    <3>5. QED BY <3>1, <3>2, <3>3, <3>4
  <2>5. /\ rows' \in Seq([change : Changes, valid : BOOLEAN])
        /\ \A i \in DOMAIN rows' : rows'[i].change = reply[i] /\ i \in DOMAIN reply
    <3>1. reply \in Seq(Changes)
      BY ProposalsAssumption
    <3> DEFINE row(i) == [change |-> reply[i], valid |-> validate(merge(seen), reply[i])]
    <3>2. \A i \in DOMAIN reply : row(i) \in [change : Changes, valid : BOOLEAN]
      BY <2>3, <2>4
    <3>3. rows' = [i \in DOMAIN reply |-> row(i)] /\ \A i : row(i).change = reply[i]
      BY <2>1
    <3> HIDE DEF row
    <3>4. \A i \in DOMAIN rows' : rows'[i] = row(i) /\ i \in DOMAIN reply
      BY <3>3
    <3>5. rows' \in Seq([change : Changes, valid : BOOLEAN])
      <4>1. DOMAIN reply = 1..Len(reply) /\ Len(reply) \in Nat
        BY <3>1
      <4>2. rows' \in [1..Len(reply) -> [change : Changes, valid : BOOLEAN]]
        BY <3>2, <3>3, <4>1
      <4>3. QED BY <4>1, <4>2, SeqDef
    <3>6. QED BY <3>3, <3>4, <3>5
  <2>6. Typed'
    BY <2>2, <2>3, <2>5 DEF Typed
  <2>7. ASSUME NEW i \in DOMAIN reply, NEW k \in dead, validate(merge(seen), reply[i])
        PROVE  ~deletes(reply[i], k)
    BY <2>2, <2>7, VocabularyAssumption DEF validate, visible, merge, Buried
  <2>8. RowsBury'
    BY <2>1, <2>2, <2>7 DEF RowsBury
  <2>9. QED BY <2>2, <2>6, <2>8 DEF WindowIsOpen, Buried, HandBuries, HandIsOwn
<1>5. QED BY <1>1, <1>2, <1>3, <1>4

LEMMA OthersKeep == IInv /\ (HandEdit \/ Update \/ Crash) => IInv'
<1> SUFFICES ASSUME IInv, HandEdit \/ Update \/ Crash PROVE IInv'
  OBVIOUS
<1> USE DEF IInv, deletes
<1>1. CASE HandEdit
  <2>1. file' \in Raws
    BY <1>1, VocabularyAssumption DEF HandEdit
  <2>2. QED BY <1>1, <2>1 DEF HandEdit, idle, Typed, WindowIsOpen, Buried, HandBuries, RowsBury, HandIsOwn
<1>2. CASE Update
  <2>1. rows = << >> /\ rows' = << >> /\ \A w \in Writers : hand[w] = None
    BY <1>2 DEF Update, idle, WindowIsOpen
  <2>2. /\ UNCHANGED <<file, seen, hand, rows, applying, gone, revived>> /\ release' \in Releases
        /\ DOMAIN rows' = {}
    BY <1>2, <2>1 DEF Update
  <2>3. Typed' /\ WindowIsOpen' /\ Buried'
    BY <2>2 DEF Typed, WindowIsOpen, Buried
  <2>4. HandBuries' /\ RowsBury' /\ HandIsOwn'
    BY <2>1, <2>2 DEF HandBuries, RowsBury, HandIsOwn
  <2>5. QED BY <2>3, <2>4
<1>3. CASE Crash
  <2>1. /\ UNCHANGED <<release, file, gone, revived>> /\ seen' = None /\ applying' = FALSE
        /\ rows' = << >> /\ DOMAIN rows' = {}
        /\ hand' = [w \in Writers |-> hand'[w]] /\ \A w \in Writers : hand'[w] = None
    BY <1>3 DEF Crash
  <2>2. Typed'
    <3>1. rows' \in Seq([change : Changes, valid : BOOLEAN])
      BY <2>1
    <3>2. QED BY <2>1, <3>1 DEF Typed
  <2>3. WindowIsOpen' /\ Buried' /\ HandBuries' /\ RowsBury' /\ HandIsOwn'
    BY <2>1 DEF Writers, WindowIsOpen, Buried, HandBuries, RowsBury, HandIsOwn
  <2>4. QED BY <2>2, <2>3
<1>4. QED BY <1>1, <1>2, <1>3

LEMMA NextIInv == IInv /\ [Next]_vars => IInv'
<1> SUFFICES ASSUME IInv, [Next]_vars PROVE IInv'
  OBVIOUS
<1>1. CASE UNCHANGED vars
  <2>1. Typed' /\ WindowIsOpen' /\ Buried'
    BY <1>1 DEF vars, IInv, Typed, WindowIsOpen, Buried
  <2>2. HandBuries' /\ RowsBury' /\ HandIsOwn'
    BY <1>1 DEF vars, IInv, HandBuries, RowsBury, HandIsOwn, deletes
  <2>3. QED BY <2>1, <2>2 DEF IInv
<1>2. QED BY <1>1, TabsKeep, RowKeeps, RememberKeeps, FinishKeeps, WindowKeeps, OthersKeep DEF Next

\* The inductive invariant, in every state of every behaviour.
THEOREM Invariance == Spec => []IInv
BY InitIInv, NextIInv, PTL DEF Spec

-----------------------------------------------------------------------------
(* What it is for                                                          *)

\* The type invariant.
THEOREM TypeCorrect == Spec => []TypeOK
<1>1. IInv => TypeOK
  BY DEF IInv, Typed, TypeOK
<1>2. QED BY <1>1, Invariance, PTL

\* A default a person deleted stays away until somebody puts it back, or a write that
\* began before the delete revives it.
THEOREM DeletedStaysDeletedHolds == Spec => []DeletedStaysDeleted
<1>1. IInv => DeletedStaysDeleted
  BY VocabularyAssumption DEF IInv, Typed, Buried, DeletedStaysDeleted, visible, merge, dead
<1>2. QED BY <1>1, Invariance, PTL

\* A write that no other one overlaps leaves every other entry of the file as it is.
THEOREM OnlyItsOwnEntryHolds == Spec => OnlyItsOwnEntry
<1>1. IInv => \A w \in Writers :
                finishes(w) /\ ~hand[w].overlapped
                  => \A k \in Keys \ {hand[w].change.key} : file'[k] = file[k]
  BY DEF IInv, HandIsOwn, finishes
<1>2. QED BY <1>1, Invariance, PTL DEF Spec, OnlyItsOwnEntry

-----------------------------------------------------------------------------
(* What can be reached                                                     *)

\* The least collection of A that holds what F has of A and is closed under G within A.
ClosedIn(A, G, X) == \A x \in X : G[x] \cap A \subseteq X
Reached(A, G, F) ==
    {v \in A : \A X \in SUBSET A : F \cap A \subseteq X /\ ClosedIn(A, G, X) => v \in X}

LEMMA ReachedIsClosed ==
    ASSUME NEW A, NEW G, NEW F
    PROVE  /\ Reached(A, G, F) \subseteq A /\ F \cap A \subseteq Reached(A, G, F)
           /\ ClosedIn(A, G, Reached(A, G, F))
BY DEF Reached, ClosedIn

LEMMA ReachedIsLeast ==
    ASSUME NEW A, NEW G, NEW F, NEW X \in SUBSET A, F \cap A \subseteq X, ClosedIn(A, G, X)
    PROVE  Reached(A, G, F) \subseteq X
BY DEF Reached

\* What several nodes reach is what one of them reaches.
LEMMA ReachedFromEach ==
    ASSUME NEW A, NEW G, NEW F
    PROVE  Reached(A, G, F) = UNION {Reached(A, G, {n}) : n \in F}
<1> DEFINE U == UNION {Reached(A, G, {n}) : n \in F}
<1>1. Reached(A, G, F) \subseteq U
  <2>1. U \subseteq A
    BY DEF Reached
  <2>2. F \cap A \subseteq U
    <3> SUFFICES ASSUME NEW n \in F \cap A PROVE n \in Reached(A, G, {n})
      OBVIOUS
    <3>1. {n} \cap A \subseteq Reached(A, G, {n})
      BY ReachedIsClosed
    <3> QED BY <3>1
  <2>3. ClosedIn(A, G, U)
    <3> SUFFICES ASSUME NEW n \in F, NEW x \in Reached(A, G, {n})
                 PROVE  G[x] \cap A \subseteq Reached(A, G, {n})
      BY DEF ClosedIn
    <3> QED BY ReachedIsClosed DEF ClosedIn
  <2> HIDE DEF U
  <2> QED BY <2>1, <2>2, <2>3, ReachedIsLeast
<1>2. ASSUME NEW n \in F PROVE Reached(A, G, {n}) \subseteq Reached(A, G, F)
  <2> DEFINE X == Reached(A, G, F)
  <2>1. X \in SUBSET A /\ {n} \cap A \subseteq X /\ ClosedIn(A, G, X)
    BY ReachedIsClosed
  <2> HIDE DEF X
  <2>2. Reached(A, G, {n}) \subseteq X
    BY <2>1, ReachedIsLeast
  <2> QED BY <2>2 DEF X
<1> QED BY <1>1, <1>2

\* From a node: itself, and what the nodes it leads to reach, whether by way of it or not.
leaving(A, G, s, T, B, N) == s \in A /\ T = {s} /\ B = A \ {s} /\ N = G[s]

LEMMA ReachedFromOne ==
    ASSUME NEW A, NEW G, NEW s, NEW T, NEW B, NEW N, leaving(A, G, s, T, B, N)
    PROVE  /\ Reached(A, G, T) = T \cup Reached(B, G, N)
           /\ Reached(A, G, T) = T \cup Reached(A, G, N)
<1> USE DEF leaving
<1> DEFINE X == Reached(A, G, T)
           V == Reached(B, G, N)
           W == Reached(A, G, N)
           Y == T \cup V
           Z == T \cup W
<1>1. X \in SUBSET A /\ s \in X /\ ClosedIn(A, G, X)
  BY ReachedIsClosed
<1>2. V \subseteq B /\ N \cap B \subseteq V /\ ClosedIn(B, G, V)
  BY ReachedIsClosed
<1>3. W \subseteq A /\ N \cap A \subseteq W /\ ClosedIn(A, G, W)
  BY ReachedIsClosed
<1>4. X \subseteq Y
  <2>1. Y \in SUBSET A /\ T \cap A \subseteq Y /\ ClosedIn(A, G, Y)
    <3> HIDE DEF V
    <3> QED BY <1>2 DEF ClosedIn
  <2> HIDE DEF Y
  <2> QED BY <2>1, ReachedIsLeast
<1>5. V \subseteq X
  <2> DEFINE U == X \ {s}
  <2>1. U \in SUBSET B /\ N \cap B \subseteq U /\ ClosedIn(B, G, U)
    <3> HIDE DEF X
    <3> QED BY <1>1 DEF ClosedIn
  <2>2. V \subseteq U
    <3> HIDE DEF U
    <3> QED BY <2>1, ReachedIsLeast
  <2> QED BY <2>2
<1>6. W \subseteq X
  <2>1. N \cap A \subseteq X
    <3> HIDE DEF X
    <3> QED BY <1>1 DEF ClosedIn
  <2> HIDE DEF X
  <2> QED BY <1>1, <2>1, ReachedIsLeast
<1>7. X \subseteq Z
  <2>1. Z \in SUBSET A /\ T \cap A \subseteq Z /\ ClosedIn(A, G, Z)
    <3> HIDE DEF W
    <3> QED BY <1>3 DEF ClosedIn
  <2> HIDE DEF Z
  <2> QED BY <2>1, ReachedIsLeast
<1>8. T \subseteq X
  BY <1>1
<1> HIDE DEF X, V, W
<1>9. X = T \cup V /\ X = T \cup W
  BY <1>4, <1>5, <1>6, <1>7, <1>8
<1> QED BY <1>9 DEF X, V, W

\* What is reached from a node is the node, or is reached from one it leads to by a way
\* that does not come back.
Beyond(A, G, t, s) == \E n \in G[t] : s \in Reached(A \ {t}, G, {n})

LEMMA ReachedOnward ==
    ASSUME NEW A, NEW G, NEW t, t \in A
    PROVE  \A s : s # t /\ s \in Reached(A, G, {t}) => Beyond(A, G, t, s)
<1> DEFINE T == {t}
           N == G[t]
           B == A \ {t}
           from(n) == Reached(B, G, {n})
           all == Reached(A, G, T)
           beyond == Reached(B, G, N)
<1>1. leaving(A, G, t, T, B, N)
  BY DEF leaving
<1>2. beyond = UNION {from(n) : n \in N}
  <2> HIDE DEF T, N, B
  <2> QED BY ReachedFromEach
<1>3. all = T \cup beyond
  <2> HIDE DEF T, N, B
  <2> QED BY <1>1, ReachedFromOne
<1> HIDE DEF beyond, from
<1>4. \A s : s # t /\ s \in all => \E n \in N : s \in from(n)
  BY <1>2, <1>3
<1> QED BY <1>4 DEF from, Beyond

\* What can be reached from something reached is reached.
LEMMA ReachedFurther ==
    ASSUME NEW A, NEW G, NEW F, NEW x \in Reached(A, G, F)
    PROVE  Reached(A, G, G[x]) \subseteq Reached(A, G, F)
<1> DEFINE X == Reached(A, G, F)
           N == G[x]
<1>1. X \in SUBSET A /\ ClosedIn(A, G, X)
  BY ReachedIsClosed
<1>2. N \cap A \subseteq X
  BY <1>1 DEF ClosedIn
<1> HIDE DEF X, N
<1>3. Reached(A, G, N) \subseteq X
  BY <1>1, <1>2, ReachedIsLeast
<1> QED BY <1>3 DEF X, N

\* From what is not there, nothing.
LEMMA ReachedFromOutside ==
    ASSUME NEW A, NEW G, NEW s, s \notin A
    PROVE  Reached(A, G, {s}) = {}
<1>1. {} \in SUBSET A /\ {s} \cap A \subseteq {} /\ ClosedIn(A, G, {})
  BY DEF ClosedIn
<1>2. Reached(A, G, {s}) \subseteq {}
  BY <1>1, ReachedIsLeast
<1> QED BY <1>2

\* A depth-first walk ends: what follows for a visit from the visits one deeper, a node
\* longer, holds of all visits.
LEMMA DepthFirst ==
    ASSUME NEW K, IsFiniteSet(K), NEW B,
           \A V \in SUBSET K, s \in K : (s \notin V => \A n \in K : <<V \cup {s}, n>> \in B) => <<V, s>> \in B
    PROVE  (SUBSET K) \X K \subseteq B
<1> DEFINE T == {m \in Nat : \A V \in SUBSET K, s \in K : Cardinality(K \ V) <= m => <<V, s>> \in B}
<1>1. \A V \in SUBSET K : IsFiniteSet(K \ V) /\ Cardinality(K \ V) \in Nat
  BY FS_Subset, FS_CardinalityType
<1>2. 0 \in T
  <2> SUFFICES ASSUME NEW V \in SUBSET K, NEW s \in K, Cardinality(K \ V) <= 0 PROVE <<V, s>> \in B
    OBVIOUS
  <2>1. Cardinality(K \ V) = 0
    BY <1>1
  <2>2. K \ V = {}
    BY <1>1, <2>1, FS_EmptySet
  <2> QED BY <2>2
<1>3. ASSUME NEW m \in Nat, m \in T PROVE m + 1 \in T
  <2>0. m + 1 \in Nat
    OBVIOUS
  <2> SUFFICES \A V \in SUBSET K, s \in K : Cardinality(K \ V) <= m + 1 => <<V, s>> \in B
    BY <2>0, Zenon
  <2> SUFFICES ASSUME NEW V \in SUBSET K, NEW s \in K, Cardinality(K \ V) <= m + 1 PROVE <<V, s>> \in B
    OBVIOUS
  <2>1. ASSUME s \notin V, NEW n \in K PROVE <<V \cup {s}, n>> \in B
    <3>1. V \cup {s} \in SUBSET K /\ K \ (V \cup {s}) = (K \ V) \ {s} /\ s \in K \ V
      BY <2>1
    <3>2. Cardinality((K \ V) \ {s}) = Cardinality(K \ V) - 1
      BY <1>1, <3>1, FS_RemoveElement
    <3>3. Cardinality(K \ (V \cup {s})) <= m
      BY <1>1, <3>1, <3>2
    <3> QED BY <1>3, <3>1, <3>3
  <2> QED BY <2>1
<1>4. Nat \subseteq T
  <2> HIDE DEF T
  <2> QED BY <1>2, <1>3, Induction
<1>5. ASSUME NEW V \in SUBSET K, NEW s \in K PROVE <<V, s>> \in B
  <2>1. Cardinality(K \ V) \in T
    BY <1>1, <1>4
  <2>2. Cardinality(K \ V) <= Cardinality(K \ V)
    BY <1>1
  <2> QED BY <2>1, <2>2
<1> QED BY <1>5

-----------------------------------------------------------------------------
(* The sets of a merged view                                               *)

\* A merged view: an entry, a tombstone or nothing under each key.
Views == [Keys -> Entries \cup {None, Deleted}]
links(view) == [s \in SetKeys |-> view[s].sets]

\* A visible set is an entry, and what it names are sets.
LEMMA VisibleIs ==
    ASSUME NEW view \in Views, NEW k \in visible(view)
    PROVE  k \in Keys /\ view[k] \in Entries /\ view[k].kinds \subseteq Words /\ view[k].sets \subseteq SetKeys
<1>1. k \in Keys /\ view[k] \in Entries
  BY DEF visible, Views
<1> QED BY <1>1 DEF Entries

LEMMA VisibleSetIs ==
    ASSUME NEW view \in Views
    PROVE  /\ visibleSets(view) \subseteq SetKeys
           /\ \A s \in visibleSets(view) :
                s \in visible(view) /\ links(view)[s] = view[s].sets /\ view[s].sets \subseteq SetKeys
BY VisibleIs DEF visibleSets, links

\* What a set stands for by itself, and what is found from a place of a walk: the sets on
\* the path are not there.
own(view, s) == view[s].kinds \cap Kinds
standing(view, at) == Reached(visibleSets(view) \ at[1], links(view), {at[2]})
found(view, at) == UNION {own(view, s) : s \in standing(view, at)}

\* From a set that stands: itself and what is found beyond it.
LEMMA StandingIs ==
    ASSUME NEW view \in Views, NEW V \in SUBSET SetKeys, NEW s \in SetKeys
    PROVE  /\ s \notin visibleSets(view) \/ s \in V => standing(view, <<V, s>>) = {}
           /\ s \in visibleSets(view) /\ s \notin V =>
                standing(view, <<V, s>>) =
                    {s} \cup UNION {standing(view, <<V \cup {s}, n>>) : n \in view[s].sets}
<1> DEFINE A == visibleSets(view) \ V
           G == links(view)
<1>1. standing(view, <<V, s>>) = Reached(A, G, {s})
  BY DEF standing
<1>2. CASE s \notin visibleSets(view) \/ s \in V
  <2>1. s \notin A
    BY <1>2
  <2> HIDE DEF A, G
  <2>2. Reached(A, G, {s}) = {}
    BY <2>1, ReachedFromOutside
  <2> QED BY <1>1, <1>2, <2>2
<1>3. CASE s \in visibleSets(view) /\ s \notin V
  <2>1. s \in A /\ A \ {s} = visibleSets(view) \ (V \cup {s}) /\ G[s] = view[s].sets
    BY <1>3, VisibleSetIs
  <2>2. \A n : standing(view, <<V \cup {s}, n>>) = Reached(visibleSets(view) \ (V \cup {s}), G, {n})
    BY DEF standing
  <2> HIDE DEF A, G
  <2>3. Reached(A, G, {s}) = {s} \cup Reached(A \ {s}, G, G[s])
    <3> DEFINE T == {s}
               B == A \ {s}
               N == G[s]
    <3>1. leaving(A, G, s, T, B, N)
      BY <2>1 DEF leaving
    <3> HIDE DEF T, B, N
    <3>2. Reached(A, G, T) = T \cup Reached(B, G, N)
      BY <3>1, ReachedFromOne
    <3> QED BY <3>2 DEF T, B, N
  <2>4. Reached(A \ {s}, G, G[s]) = UNION {Reached(A \ {s}, G, {n}) : n \in G[s]}
    BY ReachedFromEach
  <2>5. UNION {Reached(A \ {s}, G, {n}) : n \in G[s]}
            = UNION {standing(view, <<V \cup {s}, n>>) : n \in view[s].sets}
    BY <2>1, <2>2
  <2> QED BY <1>1, <1>3, <2>3, <2>4, <2>5
<1> QED BY <1>2, <1>3

LEMMA FoundIs ==
    ASSUME NEW view \in Views, NEW V \in SUBSET SetKeys, NEW s \in SetKeys
    PROVE  /\ s \notin visibleSets(view) \/ s \in V => found(view, <<V, s>>) = {}
           /\ s \in visibleSets(view) /\ s \notin V =>
                found(view, <<V, s>>) =
                    own(view, s) \cup UNION {found(view, <<V \cup {s}, n>>) : n \in view[s].sets}
<1>1. CASE s \notin visibleSets(view) \/ s \in V
  BY <1>1, StandingIs DEF found
<1>2. CASE ~(s \notin visibleSets(view) \/ s \in V)
  <2>1. standing(view, <<V, s>>) = {s} \cup UNION {standing(view, <<V \cup {s}, n>>) : n \in view[s].sets}
    BY <1>2, StandingIs
  <2> DEFINE here == standing(view, <<V, s>>)
             beyond(n) == standing(view, <<V \cup {s}, n>>)
  <2> HIDE DEF here, beyond
  <2>2. here = {s} \cup UNION {beyond(n) : n \in view[s].sets}
    BY <2>1 DEF here, beyond
  <2>3. UNION {own(view, x) : x \in here}
            = own(view, s) \cup UNION {UNION {own(view, x) : x \in beyond(n)} : n \in view[s].sets}
    BY <2>2
  <2> QED BY <1>2, <2>3 DEF found, here, beyond
<1> QED BY <1>1, <1>2

\* An expansion is what is found from the set.
LEMMA ExpandIs ==
    ASSUME NEW view \in Views, NEW key \in SetKeys
    PROVE  expand_set(view, key) = found(view, <<{}, key>>)
<1> DEFINE body(f, at) ==
              IF at[2] \notin visibleSets(view) \/ at[2] \in at[1] THEN {}
              ELSE own(view, at[2]) \cup UNION {f[<<at[1] \cup {at[2]}, n>>] : n \in view[at[2]].sets}
           expand == CHOOSE f : f = [at \in Visits |-> body(f, at)]
           F == [at \in Visits |-> found(view, at)]
<1>1. expand_set(view, key) = expand[<<{}, key>>]
  BY DEF expand_set, nestedIn, own
<1>2. ASSUME NEW at \in Visits, at[2] \in visibleSets(view), NEW n \in view[at[2]].sets
      PROVE  <<at[1] \cup {at[2]}, n>> \in Visits
  BY <1>2, VisibleSetIs DEF Visits
<1>3. ASSUME NEW at \in Visits PROVE F[at] = body(F, at)
  <2> DEFINE V == at[1]
             s == at[2]
  <2>1. V \in SUBSET SetKeys /\ s \in SetKeys /\ at = <<V, s>>
    BY DEF Visits
  <2>2. F[at] = found(view, <<V, s>>)
    BY <2>1
  <2>3. CASE s \notin visibleSets(view) \/ s \in V
    <3>1. body(F, at) = {}
      BY <2>3
    <3>2. found(view, <<V, s>>) = {}
      BY <2>1, <2>3, FoundIs
    <3> QED BY <2>2, <3>1, <3>2
  <2>4. CASE s \in visibleSets(view) /\ s \notin V
    <3>1. \A n \in view[s].sets : F[<<V \cup {s}, n>>] = found(view, <<V \cup {s}, n>>)
      BY <1>2, <2>4
    <3>2. body(F, at) = own(view, s) \cup UNION {F[<<V \cup {s}, n>>] : n \in view[s].sets}
      BY <2>4
    <3>3. found(view, <<V, s>>) = own(view, s) \cup UNION {found(view, <<V \cup {s}, n>>) : n \in view[s].sets}
      <4>1. V \in SUBSET SetKeys /\ s \in SetKeys
        BY <2>1
      <4> HIDE DEF V, s
      <4> QED BY <2>4, <4>1, FoundIs
    <3> HIDE DEF F, V, s, body
    <3> QED BY <2>2, <3>1, <3>2, <3>3
  <2> QED BY <2>3, <2>4
<1>4. F = [at \in Visits |-> body(F, at)]
  <2>1. F = [at \in Visits |-> F[at]]
    OBVIOUS
  <2> HIDE DEF F, body
  <2> QED BY <1>3, <2>1
<1>5. expand = [at \in Visits |-> body(expand, at)]
  <2> HIDE DEF F, body
  <2> QED BY <1>4
<1> HIDE DEF expand
<1> DEFINE B == {at \in Visits : expand[at] = F[at]}
<1>6. ASSUME NEW V \in SUBSET SetKeys, NEW s \in SetKeys,
             s \notin V => \A n \in SetKeys : <<V \cup {s}, n>> \in B
      PROVE  <<V, s>> \in B
  <2>1. <<V, s>> \in Visits
    BY DEF Visits
  <2>2. expand[<<V, s>>] = body(expand, <<V, s>>) /\ F[<<V, s>>] = body(F, <<V, s>>)
    <3> HIDE DEF F, body
    <3> QED BY <1>3, <1>5, <2>1
  <2>3. CASE s \notin visibleSets(view) \/ s \in V
    <3>1. body(expand, <<V, s>>) = {} /\ body(F, <<V, s>>) = {}
      BY <2>3
    <3> HIDE DEF F, body
    <3> QED BY <2>1, <2>2, <3>1
  <2>4. CASE ~(s \notin visibleSets(view) \/ s \in V)
    <3>1. ASSUME NEW n \in view[s].sets PROVE expand[<<V \cup {s}, n>>] = F[<<V \cup {s}, n>>]
      <4>1. n \in SetKeys
        BY <2>4, VisibleSetIs
      <4>2. <<V \cup {s}, n>> \in B
        <5> HIDE DEF B
        <5> QED BY <1>6, <2>4, <4>1
      <4> HIDE DEF F
      <4> QED BY <4>2
    <3>2. /\ body(expand, <<V, s>>) = own(view, s) \cup UNION {expand[<<V \cup {s}, n>>] : n \in view[s].sets}
          /\ body(F, <<V, s>>) = own(view, s) \cup UNION {F[<<V \cup {s}, n>>] : n \in view[s].sets}
      <4> HIDE DEF F
      <4> QED BY <2>4
    <3> HIDE DEF F, body
    <3>3. UNION {expand[<<V \cup {s}, n>>] : n \in view[s].sets} = UNION {F[<<V \cup {s}, n>>] : n \in view[s].sets}
      BY <3>1
    <3>4. expand[<<V, s>>] = F[<<V, s>>]
      BY <2>2, <3>2, <3>3
    <3> QED BY <2>1, <3>4
  <2> QED BY <2>3, <2>4
<1>7. Visits \subseteq B
  <2>1. IsFiniteSet(SetKeys) /\ Visits = (SUBSET SetKeys) \X SetKeys
    BY VocabularyAssumption DEF Visits
  <2> HIDE DEF B
  <2> QED BY <1>6, <2>1, DepthFirst
<1>8. <<{}, key>> \in Visits
  BY DEF Visits
<1> QED BY <1>1, <1>7, <1>8

LEMMA ReachIs ==
    ASSUME NEW view \in Views, NEW from
    PROVE  reach(view, from) = Reached(visibleSets(view), links(view), from)
<1>1. \A X \in SUBSET visibleSets(view) : holdsOn(view, X) <=> ClosedIn(visibleSets(view), links(view), X)
  BY VisibleSetIs DEF holdsOn, ClosedIn
<1> QED BY <1>1 DEF reach, Reached

\* An expansion has the kinds of every set that can be reached.
LEMMA ExpansionIs ==
    ASSUME NEW view \in Views, NEW names \in SUBSET SetKeys
    PROVE  UNION {expand_set(view, s) : s \in names} = UNION {own(view, x) : x \in reach(view, names)}
<1> DEFINE A == visibleSets(view)
           G == links(view)
           R == Reached(A, G, names)
           from(s) == Reached(A, G, {s})
<1>1. reach(view, names) = R
  BY ReachIs
<1>2. R = UNION {from(s) : s \in names}
  <2> HIDE DEF A, G
  <2> QED BY ReachedFromEach
<1>3. \A s \in names : expand_set(view, s) = UNION {own(view, x) : x \in from(s)}
  <2> SUFFICES ASSUME NEW s \in names PROVE expand_set(view, s) = UNION {own(view, x) : x \in from(s)}
    OBVIOUS
  <2>1. expand_set(view, s) = found(view, <<{}, s>>)
    BY ExpandIs
  <2>2. A \ {} = A
    OBVIOUS
  <2>3. standing(view, <<{}, s>>) = from(s)
    BY <2>2 DEF standing
  <2> QED BY <2>1, <2>3 DEF found
<1> HIDE DEF R, from
<1>4. UNION {expand_set(view, s) : s \in names} = UNION {UNION {own(view, x) : x \in from(s)} : s \in names}
  BY <1>3
<1>5. UNION {UNION {own(view, x) : x \in from(s)} : s \in names} = UNION {own(view, x) : x \in R}
  BY <1>2
<1> QED BY <1>1, <1>4, <1>5

LEMMA EffectiveIs ==
    ASSUME NEW view \in Views, NEW t \in effectiveTerms(view)
    PROVE  effective(view)[t] =
                (view[t].kinds \cup UNION {view[s].kinds : s \in reach(view, view[t].sets)}) \cap Kinds
<1>1. view[t].sets \in SUBSET SetKeys /\ view[t].kinds \subseteq Kinds
  BY VisibleIs DEF effectiveTerms
<1>2. effective(view)[t] = view[t].kinds \cup UNION {expand_set(view, s) : s \in view[t].sets}
  BY DEF effective
<1> DEFINE R == reach(view, view[t].sets)
<1>3. UNION {expand_set(view, s) : s \in view[t].sets} = UNION {own(view, x) : x \in R}
  BY <1>1, ExpansionIs
<1> HIDE DEF R
<1>4. UNION {own(view, x) : x \in R} = (UNION {view[s].kinds : s \in R}) \cap Kinds
  BY DEF own
<1>5. effective(view)[t] = (view[t].kinds \cup UNION {view[s].kinds : s \in R}) \cap Kinds
  BY <1>1, <1>2, <1>3, <1>4
<1> QED BY <1>5 DEF R

\* Whatever is left out is reported where it is.
LEMMA LeftOutIsNoted ==
    ASSUME NEW view \in Views, NEW k \in visible(view)
    PROVE  /\ ~(view[k].kinds \subseteq Kinds) => k \in problems(view).kinds
           /\ ~(view[k].sets \subseteq visible(view)) => k \in problems(view).sets
<1>1. ~(view[k].kinds \subseteq Kinds) => k \in problems(view).kinds
  BY DEF problems
<1>2. ~(view[k].sets \subseteq visible(view)) => missing(view, view[k]) # {}
  BY DEF missing, visibleSets
<1>3. problems(view).sets = {j \in visible(view) : missing(view, view[j]) # {}}
  BY DEF problems
<1> QED BY <1>1, <1>2, <1>3

-----------------------------------------------------------------------------
(* The cycles                                                              *)

\* The visits of find_set_cycles, and where one leads on to.
Trails == Seq(SetKeys) \X SetKeys
onward(view) ==
    [at \in Trails |->
        IF at[2] \notin ToSet(at[1]) /\ at[2] \in visibleSets(view)
        THEN {<<Append(at[1], at[2]), n>> : n \in view[at[2]].sets} ELSE {}]
closed(at) == at[2] \in ToSet(at[1])
cyclesFrom(view, at) ==
    {since(v[1], v[2]) : v \in {w \in Reached(Trails, onward(view), {at}) : closed(w)}}

LEMMA OnwardIs ==
    ASSUME NEW view \in Views, NEW p \in Seq(SetKeys), NEW s \in SetKeys
    PROVE  /\ s \notin ToSet(p) /\ s \in visibleSets(view) =>
                /\ onward(view)[<<p, s>>] = {<<Append(p, s), n>> : n \in view[s].sets}
                /\ \A n \in view[s].sets : <<Append(p, s), n>> \in Trails
           /\ ~(s \notin ToSet(p) /\ s \in visibleSets(view)) => onward(view)[<<p, s>>] = {}
<1>1. <<p, s>> \in Trails /\ Append(p, s) \in Seq(SetKeys)
  BY DEF Trails
<1>2. s \in visibleSets(view) => view[s].sets \subseteq SetKeys
  BY VisibleSetIs
<1> QED BY <1>1, <1>2 DEF onward, Trails

\* From a visit: its own cycle, or those the visits it leads to run into.
LEMMA CyclesFromIs ==
    ASSUME NEW view \in Views, NEW p \in Seq(SetKeys), NEW s \in SetKeys
    PROVE  /\ s \in ToSet(p) => cyclesFrom(view, <<p, s>>) = {since(p, s)}
           /\ s \notin ToSet(p) /\ s \in visibleSets(view) =>
                cyclesFrom(view, <<p, s>>) = UNION {cyclesFrom(view, <<Append(p, s), n>>) : n \in view[s].sets}
           /\ s \notin ToSet(p) /\ s \notin visibleSets(view) => cyclesFrom(view, <<p, s>>) = {}
<1> DEFINE A == Trails
           G == onward(view)
           at == <<p, s>>
           N == G[at]
           ends(X) == {since(v[1], v[2]) : v \in {w \in X : closed(w)}}
           from(v) == Reached(A, G, {v})
<1>1. \A v : cyclesFrom(view, v) = ends(from(v))
  BY DEF cyclesFrom
<1>2. at \in A /\ (closed(at) <=> s \in ToSet(p)) /\ since(at[1], at[2]) = since(p, s)
  BY DEF Trails, closed
<1>3. from(at) = {at} \cup UNION {from(v) : v \in N}
  <2> DEFINE T == {at}
             B == A \ {at}
  <2>1. leaving(A, G, at, T, B, N)
    BY <1>2 DEF leaving
  <2> HIDE DEF A, G, T, B, N, at
  <2>2. Reached(A, G, T) = T \cup Reached(A, G, N)
    BY <2>1, ReachedFromOne
  <2>3. Reached(A, G, N) = UNION {from(v) : v \in N}
    BY ReachedFromEach
  <2> QED BY <2>2, <2>3 DEF T
<1>4. \A v : closed(v) => ends({v}) = {since(v[1], v[2])}
  OBVIOUS
<1>5. \A v : ~closed(v) => ends({v}) = {}
  OBVIOUS
<1>6. ends(from(at)) = ends({at}) \cup UNION {ends(from(v)) : v \in N}
  <2> HIDE DEF from, N, at
  <2> QED BY <1>3
<1>7. CASE s \in ToSet(p)
  <2>1. N = {}
    BY <1>7, OnwardIs
  <2>2. UNION {ends(from(v)) : v \in N} = {}
    BY <2>1
  <2> HIDE DEF ends, N, from, at
  <2>3. ends({at}) = {since(p, s)}
    BY <1>2, <1>4, <1>7
  <2>4. ends(from(at)) = {since(p, s)}
    BY <1>6, <2>2, <2>3
  <2> QED BY <1>1, <1>7, <2>4 DEF at
<1>8. CASE s \notin ToSet(p) /\ s \in visibleSets(view)
  <2>1. N = {<<Append(p, s), n>> : n \in view[s].sets}
    BY <1>8, OnwardIs
  <2>2. ends({at}) = {}
    <3> HIDE DEF ends, at
    <3> QED BY <1>2, <1>5, <1>8
  <2>3. cyclesFrom(view, at) = UNION {cyclesFrom(view, v) : v \in N}
    <3> HIDE DEF ends, from, N, at
    <3> QED BY <1>1, <1>6, <2>2
  <2>4. UNION {cyclesFrom(view, v) : v \in N}
            = UNION {cyclesFrom(view, <<Append(p, s), n>>) : n \in view[s].sets}
    <3> HIDE DEF N
    <3> QED BY <2>1
  <2> QED BY <1>8, <2>3, <2>4
<1>9. CASE s \notin ToSet(p) /\ s \notin visibleSets(view)
  <2>1. N = {}
    BY <1>9, OnwardIs
  <2>2. UNION {ends(from(v)) : v \in N} = {}
    BY <2>1
  <2> HIDE DEF ends, N, from, at
  <2>3. ends({at}) = {}
    BY <1>2, <1>5, <1>9
  <2>4. ends(from(at)) = {}
    BY <1>6, <2>2, <2>3
  <2> QED BY <1>1, <1>9, <2>4 DEF at
<1> QED BY <1>7, <1>8, <1>9

\* What the walk of find_set_cycles does at each visit.
Walks(view, W) ==
    \A p \in Seq(SetKeys), s \in SetKeys :
        /\ s \in ToSet(p) => W[<<p, s>>] = {since(p, s)}
        /\ s \notin ToSet(p) /\ s \in visibleSets(view) =>
                \A c : c \in W[<<p, s>>] <=> \E n \in view[s].sets : c \in W[<<Append(p, s), n>>]
        /\ s \notin ToSet(p) /\ s \notin visibleSets(view) => W[<<p, s>>] = {}

LEMMA WalkIs ==
    ASSUME NEW view \in Views
    PROVE  Walks(view, runsInto(view))
<1> DEFINE branch(f, p, s) == UNION {f[<<Append(p, s), n>>] : n \in view[s].sets}
           body(f, at) ==
              IF at[2] \in ToSet(at[1]) THEN {since(at[1], at[2])}
              ELSE IF at[2] \notin visibleSets(view) THEN {}
              ELSE branch(f, at[1], at[2])
           walk == CHOOSE f : f = [at \in Trails |-> body(f, at)]
           F == [at \in Trails |-> cyclesFrom(view, at)]
<1>1. runsInto(view) = walk
  BY DEF runsInto, Trails
<1>2. ASSUME NEW f, NEW p \in Seq(SetKeys), NEW s \in SetKeys
      PROVE  /\ s \in ToSet(p) => body(f, <<p, s>>) = {since(p, s)}
             /\ s \notin ToSet(p) /\ s \in visibleSets(view) => body(f, <<p, s>>) = branch(f, p, s)
             /\ s \notin ToSet(p) /\ s \notin visibleSets(view) => body(f, <<p, s>>) = {}
  <2> HIDE DEF branch
  <2> QED OBVIOUS
<1>3. ASSUME NEW p \in Seq(SetKeys), NEW s \in SetKeys PROVE F[<<p, s>>] = body(F, <<p, s>>)
  <2>1. <<p, s>> \in Trails
    BY DEF Trails
  <2>2. F[<<p, s>>] = cyclesFrom(view, <<p, s>>)
    BY <2>1
  <2>3. CASE s \in ToSet(p)
    <3>1. body(F, <<p, s>>) = {since(p, s)} /\ cyclesFrom(view, <<p, s>>) = {since(p, s)}
      <4> HIDE DEF body, F
      <4> QED BY <1>2, <2>3, CyclesFromIs
    <3> QED BY <2>2, <3>1
  <2>4. CASE s \notin ToSet(p) /\ s \in visibleSets(view)
    <3> DEFINE next(n) == <<Append(p, s), n>>
    <3>1. \A n \in view[s].sets : F[next(n)] = cyclesFrom(view, next(n))
      BY <2>4, OnwardIs
    <3>2. body(F, <<p, s>>) = UNION {F[next(n)] : n \in view[s].sets}
      <4>1. body(F, <<p, s>>) = branch(F, p, s)
        <5> HIDE DEF body, F, branch
        <5> QED BY <1>2, <2>4
      <4> HIDE DEF body, F
      <4> QED BY <4>1
    <3>3. cyclesFrom(view, <<p, s>>) = UNION {cyclesFrom(view, next(n)) : n \in view[s].sets}
      BY <2>4, CyclesFromIs
    <3>4. UNION {F[next(n)] : n \in view[s].sets} = UNION {cyclesFrom(view, next(n)) : n \in view[s].sets}
      <4> HIDE DEF F, body, next
      <4> QED BY <3>1
    <3> HIDE DEF F, body, next
    <3> QED BY <2>2, <3>2, <3>3, <3>4
  <2>5. CASE s \notin ToSet(p) /\ s \notin visibleSets(view)
    <3>1. body(F, <<p, s>>) = {} /\ cyclesFrom(view, <<p, s>>) = {}
      <4> HIDE DEF body, F
      <4> QED BY <1>2, <2>5, CyclesFromIs
    <3> QED BY <2>2, <3>1
  <2> QED BY <2>3, <2>4, <2>5
<1>4. F = [at \in Trails |-> body(F, at)]
  <2>1. \A at \in Trails : F[at] = body(F, at)
    <3> SUFFICES ASSUME NEW at \in Trails PROVE F[at] = body(F, at)
      OBVIOUS
    <3>1. PICK p \in Seq(SetKeys), s \in SetKeys : at = <<p, s>>
      BY DEF Trails
    <3> HIDE DEF F, body
    <3> QED BY <1>3, <3>1
  <2>2. F = [at \in Trails |-> F[at]]
    OBVIOUS
  <2> HIDE DEF F, body
  <2> QED BY <2>1, <2>2
<1>5. walk = [at \in Trails |-> body(walk, at)]
  <2> HIDE DEF F, body
  <2> QED BY <1>4
<1> HIDE DEF walk
<1>6. Walks(view, walk)
  <2> SUFFICES ASSUME NEW p \in Seq(SetKeys), NEW s \in SetKeys
               PROVE  /\ s \in ToSet(p) => walk[<<p, s>>] = {since(p, s)}
                      /\ s \notin ToSet(p) /\ s \in visibleSets(view) =>
                            \A c : c \in walk[<<p, s>>]
                                    <=> \E n \in view[s].sets : c \in walk[<<Append(p, s), n>>]
                      /\ s \notin ToSet(p) /\ s \notin visibleSets(view) => walk[<<p, s>>] = {}
    BY DEF Walks
  <2>1. <<p, s>> \in Trails
    BY DEF Trails
  <2> HIDE DEF body, F
  <2>2. walk[<<p, s>>] = body(walk, <<p, s>>)
    BY <1>5, <2>1
  <2>3. s \in ToSet(p) => walk[<<p, s>>] = {since(p, s)}
    BY <1>2, <2>2
  <2>4. ASSUME s \notin ToSet(p), s \in visibleSets(view), NEW c
        PROVE  c \in walk[<<p, s>>] <=> \E n \in view[s].sets : c \in walk[<<Append(p, s), n>>]
    <3>1. body(walk, <<p, s>>) = UNION {walk[<<Append(p, s), n>>] : n \in view[s].sets}
      <4>1. body(walk, <<p, s>>) = branch(walk, p, s)
        <5> HIDE DEF branch
        <5> QED BY <1>2, <2>4
      <4> QED BY <4>1
    <3>2. walk[<<p, s>>] = UNION {walk[<<Append(p, s), n>>] : n \in view[s].sets}
      BY <2>2, <3>1
    <3>3. c \in UNION {walk[<<Append(p, s), n>>] : n \in view[s].sets}
            <=> \E n \in view[s].sets : c \in walk[<<Append(p, s), n>>]
      OBVIOUS
    <3> QED BY <3>2, <3>3
  <2>5. s \notin ToSet(p) /\ s \notin visibleSets(view) => walk[<<p, s>>] = {}
    BY <1>2, <2>2
  <2> QED BY <2>3, <2>4, <2>5
<1> QED BY <1>1, <1>6

\* What a walk finds from a visit: the cycle it closes, or what it finds one step on.
LEMMA WalksAt ==
    ASSUME NEW view \in Views, NEW p \in Seq(SetKeys), NEW s \in SetKeys, NEW W, Walks(view, W), NEW c
    PROVE  /\ s \in ToSet(p) => (c \in W[<<p, s>>] <=> c = since(p, s))
           /\ s \notin ToSet(p) /\ s \in visibleSets(view) =>
                (c \in W[<<p, s>>] <=> \E n \in view[s].sets : c \in W[<<Append(p, s), n>>])
           /\ s \notin ToSet(p) /\ s \notin visibleSets(view) => c \notin W[<<p, s>>]
<1>1. s \in ToSet(p) => W[<<p, s>>] = {since(p, s)}
  BY Zenon DEF Walks
<1>2. s \notin ToSet(p) /\ s \in visibleSets(view) =>
        (c \in W[<<p, s>>] <=> \E n \in view[s].sets : c \in W[<<Append(p, s), n>>])
  BY Zenon DEF Walks
<1>3. s \notin ToSet(p) /\ s \notin visibleSets(view) => W[<<p, s>>] = {}
  BY Zenon DEF Walks
<1> QED BY <1>1, <1>2, <1>3

\* The sets on a path, which grow by one at each step.
LEMMA PathGrows ==
    ASSUME NEW p \in Seq(SetKeys), NEW s \in SetKeys
    PROVE  /\ ToSet(p) \in SUBSET SetKeys /\ Append(p, s) \in Seq(SetKeys)
           /\ ToSet(Append(p, s)) = ToSet(p) \cup {s}
           /\ Len(Append(p, s)) = Len(p) + 1
           /\ \A j \in 1..Len(p) : Append(p, s)[j] = p[j]
           /\ Append(p, s)[Len(p) + 1] = s
           /\ DOMAIN p = 1..Len(p) /\ Len(p) \in Nat
BY DEF ToSet

\* What holds of a visit when it holds of those it leads to holds of all.
LEMMA Walking ==
    ASSUME NEW B,
           \A p \in Seq(SetKeys), s \in SetKeys :
                (s \notin ToSet(p) => \A n \in SetKeys : <<Append(p, s), n>> \in B) => <<p, s>> \in B
    PROVE  Trails \subseteq B
<1> DEFINE C == {v \in Visits : \A p \in Seq(SetKeys) : ToSet(p) = v[1] => <<p, v[2]>> \in B}
<1>1. ASSUME NEW V \in SUBSET SetKeys, NEW s \in SetKeys,
             s \notin V => \A n \in SetKeys : <<V \cup {s}, n>> \in C
      PROVE  <<V, s>> \in C
  <2>1. <<V, s>> \in Visits
    BY DEF Visits
  <2>2. ASSUME NEW p \in Seq(SetKeys), ToSet(p) = V PROVE <<p, s>> \in B
    <3>1. ASSUME s \notin V, NEW n \in SetKeys PROVE <<Append(p, s), n>> \in B
      <4>1. <<V \cup {s}, n>> \in C
        BY <1>1, <3>1
      <4>2. Append(p, s) \in Seq(SetKeys) /\ ToSet(Append(p, s)) = V \cup {s}
        BY <2>2, PathGrows
      <4> QED BY <4>1, <4>2
    <3> QED BY <2>2, <3>1
  <2> QED BY <2>1, <2>2
<1>2. Visits \subseteq C
  <2> HIDE DEF C
  <2> QED BY <1>1, VocabularyAssumption, DepthFirst DEF Visits
<1>3. ASSUME NEW p \in Seq(SetKeys), NEW s \in SetKeys PROVE <<p, s>> \in B
  <2>1. <<ToSet(p), s>> \in Visits
    BY PathGrows DEF Visits
  <2> QED BY <1>2, <2>1
<1> QED BY <1>3 DEF Trails

-----------------------------------------------------------------------------

\* A set on the path of a walk that the rest of the walk can come back to is found.
LEMMA CyclesAreFound ==
    ASSUME NEW view \in Views, NEW s \in visibleSets(view), cyclic(view, s)
    PROVE  s \in UNION find_set_cycles(view)
<1> DEFINE A == visibleSets(view)
           G == links(view)
           W == runsInto(view)
           free(p) == A \ (ToSet(p) \ {s})
           B == {v \in Trails :
                    v[1] # << >> /\ v[1][1] = s /\ s \in Reached(free(v[1]), G, {v[2]})
                        => s \in UNION W[v]}
<1>0. A \subseteq SetKeys /\ s \in SetKeys
  BY VisibleSetIs
<1>w. Walks(view, W)
  BY WalkIs
<1> HIDE DEF W
<1>1. ASSUME NEW p \in Seq(SetKeys), NEW t \in SetKeys,
             t \notin ToSet(p) => \A n \in SetKeys : <<Append(p, t), n>> \in B
      PROVE  <<p, t>> \in B
  <2>0. <<p, t>> \in Trails
    BY DEF Trails
  <2> SUFFICES ASSUME p # << >>, p[1] = s, s \in Reached(free(p), G, {t}) PROVE s \in UNION W[<<p, t>>]
    BY <2>0
  <2>1. t \in free(p)
    <3>1. t \notin free(p) => Reached(free(p), G, {t}) = {}
      <4> HIDE DEF free, G
      <4> QED BY ReachedFromOutside
    <3> QED BY <3>1
  <2>2. 1 \in DOMAIN p /\ s \in ToSet(p)
    BY DEF ToSet
  <2>3. CASE t \in ToSet(p)
    <3>1. t = s
      BY <2>1, <2>3
    <3>2. since(p, t) \in W[<<p, t>>]
      BY <2>3, <1>w, WalksAt
    <3>3. s \in since(p, t)
      BY <2>2, <3>1 DEF since
    <3> QED BY <3>2, <3>3
  <2>4. CASE t \notin ToSet(p)
    <3> DEFINE N == G[t]
               F == free(p)
               rest == free(Append(p, t))
    <3>1. t \in A /\ t # s /\ N = view[t].sets /\ N \subseteq SetKeys
      BY <2>1, <2>2, <2>4, VisibleSetIs
    <3>2. rest = F \ {t}
      BY <3>1, PathGrows
    <3>3. Beyond(F, G, t, s)
      <4>1. t \in F /\ s \in Reached(F, G, {t})
        BY <2>1
      <4> HIDE DEF F, G
      <4> QED BY <3>1, <4>1, ReachedOnward
    <3>4. \E n \in N : s \in Reached(rest, G, {n})
      <4> HIDE DEF F, G, rest
      <4> QED BY <3>2, <3>3 DEF Beyond
    <3>6. PICK n \in N : s \in Reached(rest, G, {n})
      BY <3>4
    <3>7. n \in SetKeys /\ <<Append(p, t), n>> \in B
      BY <1>1, <2>4, <3>1
    <3>8. Append(p, t) # << >> /\ Append(p, t)[1] = s
      BY <2>2, PathGrows
    <3>9. s \in UNION W[<<Append(p, t), n>>]
      <4> HIDE DEF G
      <4> QED BY <3>6, <3>7, <3>8
    <3>10. PICK c \in W[<<Append(p, t), n>>] : s \in c
      BY <3>9
    <3>11. c \in W[<<p, t>>]
      BY <3>6, <3>10, <2>4, <3>1, <1>w, WalksAt
    <3> QED BY <3>10, <3>11
  <2> QED BY <2>3, <2>4
<1>2. Trails \subseteq B
  <2> HIDE DEF B
  <2> QED BY <1>1, Walking
<1>3. PICK n \in view[s].sets : s \in Reached(A, G, {n})
  <2>1. s \in Reached(A, G, view[s].sets)
    BY ReachIs DEF cyclic
  <2>2. Reached(A, G, view[s].sets) = UNION {Reached(A, G, {n}) : n \in view[s].sets}
    <3> HIDE DEF A, G
    <3> QED BY ReachedFromEach
  <2> QED BY <2>1, <2>2
<1>4. n \in SetKeys /\ <<s>> \in Seq(SetKeys) /\ <<<<s>>, n>> \in Trails /\ <<<< >>, s>> \in Trails
  <2>1. view[s].sets \subseteq SetKeys
    BY VisibleSetIs
  <2>2. n \in SetKeys /\ <<s>> \in Seq(SetKeys) /\ << >> \in Seq(SetKeys)
    BY <1>0, <2>1
  <2> QED BY <1>0, <2>2 DEF Trails
<1>5. ToSet(<<s>>) = {s} /\ ToSet(<< >>) = {} /\ Append(<< >>, s) = <<s>>
  BY DEF ToSet
<1>6. s \in UNION W[<<<<s>>, n>>]
  <2>1. free(<<s>>) = A
    BY <1>5
  <2>2. <<s>> # << >> /\ <<s>>[1] = s
    OBVIOUS
  <2>3. <<<<s>>, n>> \in B
    BY <1>2, <1>4
  <2> HIDE DEF A, G
  <2> QED BY <1>3, <2>1, <2>2, <2>3
<1>7. s \in UNION W[<<<< >>, s>>]
  <2>1. << >> \in Seq(SetKeys) /\ s \notin ToSet(<< >>)
    BY <1>5
  <2>2. PICK c \in W[<<Append(<< >>, s), n>>] : s \in c
    BY <1>5, <1>6
  <2>3. c \in W[<<<< >>, s>>]
    BY <1>0, <1>w, <2>1, WalksAt
  <2> QED BY <2>2, <2>3
<1> QED BY <1>0, <1>7 DEF find_set_cycles, W

\* A path of sets that stand, each to be reached from those before it, and the next one from all.
trail(view, p, t) ==
    \A j \in 1..Len(p) :
        /\ p[j] \in visibleSets(view)
        /\ t \in visibleSets(view) => t \in reach(view, view[p[j]].sets)
        /\ \A i \in 1..Len(p) : i < j => p[j] \in reach(view, view[p[i]].sets)

LEMMA ReachFurther ==
    ASSUME NEW view \in Views, NEW from, NEW s \in reach(view, from)
    PROVE  reach(view, view[s].sets) \subseteq reach(view, from)
<1> DEFINE A == visibleSets(view)
           G == links(view)
<1>1. s \in Reached(A, G, from) /\ s \in visibleSets(view)
  BY ReachIs DEF reach
<1>2. G[s] = view[s].sets
  BY <1>1, VisibleSetIs
<1>3. Reached(A, G, G[s]) \subseteq Reached(A, G, from)
  <2> HIDE DEF A, G
  <2> QED BY <1>1, ReachedFurther
<1> QED BY <1>2, <1>3, ReachIs

LEMMA ReachHas ==
    ASSUME NEW view \in Views, NEW from
    PROVE  /\ reach(view, from) \subseteq visibleSets(view)
           /\ from \cap visibleSets(view) \subseteq reach(view, from)
BY DEF reach

LEMMA TrailGoesOn ==
    ASSUME NEW view \in Views, NEW p \in Seq(SetKeys), NEW t \in SetKeys, trail(view, p, t),
           t \in visibleSets(view), NEW n \in view[t].sets
    PROVE  trail(view, Append(p, t), n)
<1> DEFINE q == Append(p, t)
           A == visibleSets(view)
           beyond(s) == reach(view, view[s].sets)
<1>1. /\ Len(q) = Len(p) + 1 /\ Len(p) \in Nat /\ q[Len(p) + 1] = t
      /\ \A j \in 1..Len(p) : q[j] = p[j]
  BY PathGrows
<1>2. n \in A => n \in beyond(t)
  BY ReachHas
<1>3. \A j \in 1..Len(p) : p[j] \in A /\ t \in beyond(p[j])
        /\ \A i \in 1..Len(p) : i < j => p[j] \in beyond(p[i])
  BY DEF trail
<1>4. \A j \in 1..Len(p) : n \in A => n \in beyond(p[j])
  <2> SUFFICES ASSUME NEW j \in 1..Len(p), n \in A PROVE n \in beyond(p[j])
    OBVIOUS
  <2>1. t \in beyond(p[j])
    BY <1>3
  <2> QED BY <1>2, <2>1, ReachFurther
<1> SUFFICES ASSUME NEW j \in 1..Len(q)
             PROVE  /\ q[j] \in A /\ (n \in A => n \in beyond(q[j]))
                    /\ \A i \in 1..Len(q) : i < j => q[j] \in beyond(q[i])
  BY DEF trail
<1> HIDE DEF q, beyond
<1>5. CASE j \in 1..Len(p)
  BY <1>1, <1>3, <1>4, <1>5
<1>6. CASE j = Len(p) + 1
  BY <1>1, <1>2, <1>3, <1>6
<1> QED BY <1>1, <1>5, <1>6

\* Every set of a cycle that a walk finds can be reached from itself.
LEMMA FoundAreCycles ==
    ASSUME NEW view \in Views, NEW s \in UNION find_set_cycles(view)
    PROVE  cyclic(view, s)
<1> DEFINE W == runsInto(view)
           B == {v \in Trails : trail(view, v[1], v[2]) => \A c \in W[v] : \A y \in c : cyclic(view, y)}
<1>w. Walks(view, W)
  BY WalkIs
<1> HIDE DEF W
<1>1. ASSUME NEW p \in Seq(SetKeys), NEW t \in SetKeys,
             t \notin ToSet(p) => \A n \in SetKeys : <<Append(p, t), n>> \in B
      PROVE  <<p, t>> \in B
  <2>0. <<p, t>> \in Trails
    BY DEF Trails
  <2> SUFFICES ASSUME trail(view, p, t), NEW c \in W[<<p, t>>], NEW y \in c PROVE cyclic(view, y)
    BY <2>0
  <2>1. CASE t \in ToSet(p)
    <3>1. c = since(p, t)
      BY <1>w, <2>1, WalksAt
    <3>2. PICK j \in 1..Len(p) : y = p[j] /\ \E i \in 1..j : p[i] = t
      BY <3>1 DEF since
    <3>3. PICK i \in 1..j : p[i] = t
      BY <3>2
    <3>4. i \in 1..Len(p) /\ (i = j \/ i < j)
      BY <3>2, <3>3
    <3>5. y \in visibleSets(view) /\ t \in visibleSets(view)
      BY <3>2, <3>3, <3>4 DEF trail
    <3>6. t \in reach(view, view[y].sets)
      BY <3>2, <3>5 DEF trail
    <3>7. CASE i = j
      BY <3>2, <3>3, <3>5, <3>6, <3>7 DEF cyclic
    <3>8. CASE i < j
      <4>1. y \in reach(view, view[t].sets)
        BY <3>2, <3>3, <3>4, <3>8 DEF trail
      <4>2. reach(view, view[t].sets) \subseteq reach(view, view[y].sets)
        BY <3>6, ReachFurther
      <4> QED BY <3>5, <4>1, <4>2 DEF cyclic
    <3> QED BY <3>4, <3>7, <3>8
  <2>2. CASE t \notin ToSet(p)
    <3>1. t \in visibleSets(view)
      BY <1>w, <2>2, WalksAt
    <3>2. PICK n \in view[t].sets : c \in W[<<Append(p, t), n>>]
      <4>1. c \in W[<<p, t>>] <=> \E n \in view[t].sets : c \in W[<<Append(p, t), n>>]
        BY <1>w, <2>2, <3>1, Zenon DEF Walks
      <4> QED BY <4>1, Zenon
    <3>3. n \in SetKeys
      BY <3>1, VisibleSetIs
    <3>4. trail(view, Append(p, t), n)
      BY <3>1, TrailGoesOn
    <3>5. <<Append(p, t), n>> \in B
      BY <1>1, <2>2, <3>3
    <3> QED BY <3>2, <3>4, <3>5
  <2> QED BY <2>1, <2>2
<1>2. Trails \subseteq B
  <2> HIDE DEF B
  <2> QED BY <1>1, Walking
<1>3. PICK o \in SetKeys : \E c \in W[<<<< >>, o>>] : s \in c
  BY DEF find_set_cycles, W
<1>4. <<<< >>, o>> \in Trails /\ trail(view, << >>, o)
  <2>1. << >> \in Seq(SetKeys) /\ 1..Len(<< >>) = {}
    OBVIOUS
  <2>2. trail(view, << >>, o)
    BY <2>1, Zenon DEF trail
  <2> QED BY <2>1, <2>2 DEF Trails
<1> QED BY <1>2, <1>3, <1>4

LEMMA CyclesAre ==
    ASSUME NEW view \in Views
    PROVE  {s \in SetKeys : cyclic(view, s)} = UNION find_set_cycles(view)
<1>1. \A s : cyclic(view, s) => s \in visibleSets(view) /\ s \in SetKeys
  BY VisibleSetIs DEF cyclic
<1> QED BY <1>1, CyclesAreFound, FoundAreCycles

-----------------------------------------------------------------------------
(* Putting a set                                                           *)

\* An entry that names only sets from which no way leads back closes no cycle.
LEMMA NoWayBack ==
    ASSUME NEW A, NEW G, NEW H, NEW key, NEW N \in SUBSET A, NEW A2, A2 = A \cup {key},
           H[key] = N, \A x \in A : x # key => H[x] = G[x],
           key \notin N, \A x \in Reached(A, G, N) : key \notin G[x],
           \A s \in A : s \notin Reached(A, G, G[s])
    PROVE  \A s \in A2 : s \notin Reached(A2, H, H[s])
<1> DEFINE Z == Reached(A, G, N)
<1>1. Z \in SUBSET A /\ N \subseteq Z /\ ClosedIn(A, G, Z)
  BY ReachedIsClosed
<1>2. \A x \in Z : key \notin G[x]
  OBVIOUS
<1>3. key \notin Z
  <2> DEFINE X == Z \ {key}
  <2>1. X \in SUBSET A /\ N \cap A \subseteq X /\ ClosedIn(A, G, X)
    <3> HIDE DEF Z
    <3> QED BY <1>1, <1>2 DEF ClosedIn
  <2>2. Z \subseteq X
    <3> HIDE DEF X
    <3> QED BY <2>1, ReachedIsLeast
  <2> QED BY <2>2
<1> HIDE DEF Z
<1>4. \A x \in Z : H[x] = G[x] /\ H[x] \cap A2 \subseteq Z
  BY <1>1, <1>2, <1>3 DEF ClosedIn
<1>5. ASSUME NEW X, X \in SUBSET A2, NEW s, H[s] \cap A2 \subseteq X, \A x \in X : H[x] \cap A2 \subseteq X
      PROVE  Reached(A2, H, H[s]) \subseteq X
  <2> DEFINE F == H[s]
  <2>1. F \cap A2 \subseteq X /\ ClosedIn(A2, H, X)
    BY <1>5 DEF ClosedIn
  <2> HIDE DEF F
  <2>2. Reached(A2, H, F) \subseteq X
    BY <1>5, <2>1, ReachedIsLeast
  <2> QED BY <2>2 DEF F
<1> SUFFICES ASSUME NEW s \in A2, s \in Reached(A2, H, H[s]) PROVE FALSE
  OBVIOUS
<1>6. CASE s = key
  <2>1. Z \in SUBSET A2 /\ H[s] \cap A2 \subseteq Z
    BY <1>1, <1>6
  <2>2. Reached(A2, H, H[s]) \subseteq Z
    BY <1>4, <1>5, <2>1
  <2> QED BY <1>3, <1>6, <2>2
<1>7. CASE s # key
  <2> DEFINE F == G[s]
             R == Reached(A, G, F)
  <2>0. s \in A /\ H[s] = F
    BY <1>7
  <2>1. R \in SUBSET A /\ F \cap A \subseteq R /\ ClosedIn(A, G, R) /\ s \notin R
    <3>1. s \notin R
      BY <2>0
    <3>2. R \in SUBSET A /\ F \cap A \subseteq R /\ ClosedIn(A, G, R)
      <4> HIDE DEF F
      <4> QED BY ReachedIsClosed
    <3> QED BY <3>1, <3>2
  <2>2. s \in Z => R \subseteq Z
    <3> SUFFICES ASSUME s \in Z PROVE R \subseteq Z
      OBVIOUS
    <3>1. F \cap A \subseteq Z
      BY <1>1 DEF ClosedIn
    <3> HIDE DEF F
    <3> QED BY <1>1, <3>1, ReachedIsLeast
  <2> HIDE DEF F, R
  <2>3. CASE s \in Z
    <3>1. R \in SUBSET A2 /\ H[s] \cap A2 \subseteq R
      BY <1>2, <2>0, <2>1, <2>3 DEF F
    <3>2. \A x \in R : H[x] \cap A2 \subseteq R
      BY <1>1, <1>2, <1>4, <2>1, <2>2, <2>3 DEF ClosedIn
    <3>3. Reached(A2, H, H[s]) \subseteq R
      BY <1>5, <3>1, <3>2
    <3> QED BY <2>1, <3>3
  <2>4. CASE s \notin Z
    <3> DEFINE X == R \cup Z \cup {key}
    <3>1. X \in SUBSET A2 /\ H[s] \cap A2 \subseteq X
      BY <1>1, <2>0, <2>1
    <3>2. \A x \in X : H[x] \cap A2 \subseteq X
      <4>1. \A x \in R : x # key => H[x] \cap A2 \subseteq R \cup {key}
        BY <2>1 DEF ClosedIn
      <4>2. H[key] \subseteq Z
        BY <1>1
      <4> QED BY <1>4, <4>1, <4>2
    <3>3. s \notin X
      BY <1>7, <2>1, <2>4
    <3> HIDE DEF X
    <3>4. Reached(A2, H, H[s]) \subseteq X
      BY <1>5, <3>1, <3>2
    <3> QED BY <3>3, <3>4
  <2> QED BY <2>3, <2>4
<1> QED BY <1>6, <1>7

\* Key is named by the next set, or by one found from there: no set on the path is there again.
named(view, key, at) == at[2] = key \/ \E x \in standing(view, at) : key \in view[x].sets

\* Key is the next set, or is named from one of those it leads to.
namedNext(view, key, V, s) ==
    \/ s = key
    \/ /\ s \notin V /\ s \in visibleSets(view)
       /\ \E n \in view[s].sets : named(view, key, <<V \cup {s}, n>>)

LEMMA NamedIs ==
    ASSUME NEW view \in Views, NEW key, NEW V \in SUBSET SetKeys, NEW s \in SetKeys
    PROVE  named(view, key, <<V, s>>) <=> namedNext(view, key, V, s)
<1> DEFINE here == standing(view, <<V, s>>)
           beyond(n) == standing(view, <<V \cup {s}, n>>)
           has(X) == \E x \in X : key \in view[x].sets
<1>1. named(view, key, <<V, s>>) <=> s = key \/ has(here)
  BY Zenon DEF named
<1>2. \A n : named(view, key, <<V \cup {s}, n>>) <=> n = key \/ has(beyond(n))
  BY Zenon DEF named
<1>3. CASE s \notin visibleSets(view) \/ s \in V
  <2>1. here = {}
    BY <1>3, StandingIs
  <2> QED BY <1>1, <1>3, <2>1 DEF namedNext
<1>4. CASE s \in visibleSets(view) /\ s \notin V
  <2>1. here = {s} \cup UNION {beyond(n) : n \in view[s].sets}
    BY <1>4, StandingIs
  <2> HIDE DEF here, beyond
  <2>2. has(here) <=> key \in view[s].sets \/ \E n \in view[s].sets : has(beyond(n))
    BY <2>1
  <2> HIDE DEF has
  <2>3. has(here) <=> \E n \in view[s].sets : named(view, key, <<V \cup {s}, n>>)
    BY <1>2, <2>2
  <2> QED BY <1>1, <1>4, <2>3 DEF namedNext
<1> QED BY <1>3, <1>4

LEMMA ComesToIs ==
    ASSUME NEW view \in Views, NEW key, NEW s \in SetKeys
    PROVE  comesTo(view, key)[<<{}, s>>] <=> named(view, key, <<{}, s>>)
<1> DEFINE body(f, at) ==
              \/ at[2] = key
              \/ /\ at[2] \notin at[1] /\ at[2] \in visibleSets(view)
                 /\ \E n \in view[at[2]].sets : f[<<at[1] \cup {at[2]}, n>>]
           walk == CHOOSE f : f = [at \in Visits |-> body(f, at)]
           F == [at \in Visits |-> named(view, key, at)]
<1>1. comesTo(view, key) = walk
  BY DEF comesTo
<1>2. ASSUME NEW V \in SUBSET SetKeys, NEW t \in SetKeys
      PROVE  /\ <<V, t>> \in Visits
             /\ t \notin V /\ t \in visibleSets(view) => \A n \in view[t].sets : <<V \cup {t}, n>> \in Visits
  BY VisibleSetIs DEF Visits
<1>3. ASSUME NEW f, NEW V \in SUBSET SetKeys, NEW t \in SetKeys
      PROVE  body(f, <<V, t>>) =
                \/ t = key
                \/ /\ t \notin V /\ t \in visibleSets(view)
                   /\ \E n \in view[t].sets : f[<<V \cup {t}, n>>]
  OBVIOUS
<1>4. ASSUME NEW V \in SUBSET SetKeys, NEW t \in SetKeys
      PROVE  named(view, key, <<V, t>>) = body(F, <<V, t>>)
  <2>1. t \notin V /\ t \in visibleSets(view) =>
            \A n \in view[t].sets : F[<<V \cup {t}, n>>] = named(view, key, <<V \cup {t}, n>>)
    BY <1>2
  <2>2. body(F, <<V, t>>) <=>
                \/ t = key
                \/ /\ t \notin V /\ t \in visibleSets(view)
                   /\ \E n \in view[t].sets : named(view, key, <<V \cup {t}, n>>)
    <3> HIDE DEF F
    <3> QED BY <2>1, Zenon
  <2>3. body(F, <<V, t>>) <=> named(view, key, <<V, t>>)
    <3>1. named(view, key, <<V, t>>) <=> namedNext(view, key, V, t)
      BY NamedIs
    <3> HIDE DEF F, body
    <3>2. body(F, <<V, t>>) <=> namedNext(view, key, V, t)
      BY <2>2 DEF namedNext
    <3> QED BY <3>1, <3>2, Zenon
  <2>4. body(F, <<V, t>>) \in BOOLEAN /\ named(view, key, <<V, t>>) \in BOOLEAN
    <3>1. body(F, <<V, t>>) \in BOOLEAN
      <4> HIDE DEF F
      <4> QED BY Zenon
    <3>2. named(view, key, <<V, t>>) \in BOOLEAN
      BY Zenon DEF named
    <3> QED BY <3>1, <3>2
  <2> HIDE DEF F, body
  <2> QED BY <2>3, <2>4, Zenon
<1>5. F = [at \in Visits |-> body(F, at)]
  <2>1. ASSUME NEW at \in Visits PROVE named(view, key, at) = body(F, at)
    <3>1. PICK V \in SUBSET SetKeys, t \in SetKeys : at = <<V, t>>
      BY DEF Visits
    <3>2. named(view, key, <<V, t>>) = body(F, <<V, t>>)
      BY <1>4
    <3> HIDE DEF F, body
    <3> QED BY <3>1, <3>2, Zenon
  <2>2. F = [at \in Visits |-> named(view, key, at)]
    OBVIOUS
  <2> HIDE DEF F, body
  <2> QED BY <2>1, <2>2, Zenon
<1>6. walk = [at \in Visits |-> body(walk, at)]
  <2> HIDE DEF F, body
  <2> QED BY <1>5, Zenon
<1> HIDE DEF walk
<1> DEFINE B == {at \in Visits : walk[at] = named(view, key, at)}
<1>7. ASSUME NEW V \in SUBSET SetKeys, NEW t \in SetKeys,
             t \notin V => \A n \in SetKeys : <<V \cup {t}, n>> \in B
      PROVE  <<V, t>> \in B
  <2>1. <<V, t>> \in Visits
    BY <1>2
  <2>2. walk[<<V, t>>] = body(walk, <<V, t>>)
    <3> HIDE DEF body
    <3> QED BY <1>6, <2>1, Zenon
  <2>3. t \notin V /\ t \in visibleSets(view) =>
            \A n \in view[t].sets : walk[<<V \cup {t}, n>>] = named(view, key, <<V \cup {t}, n>>)
    <3> SUFFICES ASSUME t \notin V, t \in visibleSets(view), NEW n \in view[t].sets
                 PROVE  <<V \cup {t}, n>> \in B
      BY Zenon
    <3>1. n \in SetKeys
      BY VisibleSetIs
    <3> QED BY <1>7, <3>1
  <2>4. body(walk, <<V, t>>) <=>
                \/ t = key
                \/ /\ t \notin V /\ t \in visibleSets(view)
                   /\ \E n \in view[t].sets : named(view, key, <<V \cup {t}, n>>)
    BY <2>3, Zenon
  <2>5. body(walk, <<V, t>>) <=> named(view, key, <<V, t>>)
    <3>1. named(view, key, <<V, t>>) <=> namedNext(view, key, V, t)
      BY NamedIs
    <3> HIDE DEF body
    <3>2. body(walk, <<V, t>>) <=> namedNext(view, key, V, t)
      BY <2>4 DEF namedNext
    <3> QED BY <3>1, <3>2, Zenon
  <2>6. body(walk, <<V, t>>) \in BOOLEAN /\ named(view, key, <<V, t>>) \in BOOLEAN
    <3>1. body(walk, <<V, t>>) \in BOOLEAN
      BY Zenon
    <3>2. named(view, key, <<V, t>>) \in BOOLEAN
      BY Zenon DEF named
    <3> QED BY <3>1, <3>2
  <2>7. walk[<<V, t>>] = named(view, key, <<V, t>>)
    <3> HIDE DEF body
    <3> QED BY <2>2, <2>5, <2>6, Zenon
  <2> QED BY <2>1, <2>7, Zenon
<1>8. Visits \subseteq B
  <2>1. IsFiniteSet(SetKeys) /\ Visits = (SUBSET SetKeys) \X SetKeys
    BY VocabularyAssumption DEF Visits
  <2> HIDE DEF B
  <2> QED BY <1>7, <2>1, DepthFirst
<1>9. <<{}, s>> \in Visits
  BY <1>2
<1>10. walk[<<{}, s>>] = named(view, key, <<{}, s>>)
  <2>1. <<{}, s>> \in B
    <3> HIDE DEF B
    <3> QED BY <1>8, <1>9
  <2> QED BY <2>1, Zenon
<1> QED BY <1>1, <1>10, Zenon

\* check_cycle refuses exactly the entries from which a way leads to key.
LEMMA ClosesIs ==
    ASSUME NEW view \in Views, NEW key, NEW names \in SUBSET SetKeys
    PROVE  closes(view, key, names) <=>
              key \in names \/ \E x \in reach(view, names) : key \in view[x].sets
<1> DEFINE A == visibleSets(view)
           G == links(view)
           from(s) == Reached(A, G, {s})
           has(X) == \E x \in X : key \in view[x].sets
<1>1. ASSUME NEW s \in names PROVE comesTo(view, key)[<<{}, s>>] <=> s = key \/ has(from(s))
  <2>1. comesTo(view, key)[<<{}, s>>] <=> named(view, key, <<{}, s>>)
    BY ComesToIs
  <2>2. standing(view, <<{}, s>>) = from(s)
    <3>1. A \ {} = A
      OBVIOUS
    <3> QED BY <3>1 DEF standing
  <2>3. named(view, key, <<{}, s>>) <=> s = key \/ has(standing(view, <<{}, s>>))
    BY Zenon DEF named
  <2> HIDE DEF has, from
  <2> QED BY <2>1, <2>2, <2>3
<1>2. closes(view, key, names) <=> \E s \in names : s = key \/ has(from(s))
  <2> HIDE DEF has, from
  <2> QED BY <1>1, Zenon DEF closes
<1>3. reach(view, names) = UNION {from(s) : s \in names}
  <2>1. reach(view, names) = Reached(A, G, names)
    BY ReachIs
  <2>2. Reached(A, G, names) = UNION {from(s) : s \in names}
    <3> HIDE DEF A, G
    <3> QED BY ReachedFromEach
  <2> QED BY <2>1, <2>2
<1> HIDE DEF from
<1>4. has(reach(view, names)) <=> \E s \in names : has(from(s))
  BY <1>3
<1> HIDE DEF has
<1>5. closes(view, key, names) <=> key \in names \/ has(reach(view, names))
  BY <1>2, <1>4
<1> QED BY <1>5 DEF has

-----------------------------------------------------------------------------
(* What the window is told of the file                                     *)

LEMMA MergedIs ==
    ASSUME IInv, NEW raw \in Raws
    PROVE  merge(raw) \in Views
<1>1. release \in [Keys -> Entries \cup {None}]
  BY VocabularyAssumption DEF IInv, Typed
<1> QED BY <1>1 DEF merge, Views, Raws

\* A term is expanded to the kinds of every set that can be reached from it, and what is
\* left out on the way, and every cycle, is reported.
THEOREM ExpansionIsReachabilityHolds == Spec => []ExpansionIsReachability
<1>1. IInv => ExpansionIsReachability
  <2> SUFFICES ASSUME IInv, NEW t \in visible(merge(file)) \cap TermKeys
               PROVE  LET view == merge(file)
                          sets == reach(view, view[t].sets)
                          wanted == view[t].kinds \cup UNION {view[s].kinds : s \in sets}
                          noted == problems(view) IN
                      /\ t \in effectiveTerms(view) => effective(view)[t] = wanted \cap Kinds
                      /\ t \notin effectiveTerms(view) => t \in noted.kinds
                      /\ \A k \in {t} \cup sets :
                            /\ ~(view[k].kinds \subseteq Kinds) => k \in noted.kinds
                            /\ ~(view[k].sets \subseteq visible(view)) => k \in noted.sets
                      /\ {s \in SetKeys : cyclic(view, s)} = UNION noted.cycles
    BY DEF ExpansionIsReachability
  <2> DEFINE view == merge(file)
             sets == reach(view, view[t].sets)
             wanted == view[t].kinds \cup UNION {view[s].kinds : s \in sets}
  <2>1. view \in Views /\ t \in visible(view) /\ t \in TermKeys
    BY MergedIs DEF IInv, Typed
  <2> HIDE DEF view
  <2>2. t \in effectiveTerms(view) => effective(view)[t] = wanted \cap Kinds
    BY <2>1, EffectiveIs
  <2>3. t \notin effectiveTerms(view) => t \in problems(view).kinds
    BY <2>1, LeftOutIsNoted DEF effectiveTerms
  <2>4. \A k \in {t} \cup sets :
            /\ ~(view[k].kinds \subseteq Kinds) => k \in problems(view).kinds
            /\ ~(view[k].sets \subseteq visible(view)) => k \in problems(view).sets
    <3>1. \A k \in {t} \cup sets : k \in visible(view)
      BY <2>1 DEF reach, visibleSets
    <3> HIDE DEF sets
    <3> QED BY <2>1, <3>1, LeftOutIsNoted
  <2>5. {s \in SetKeys : cyclic(view, s)} = UNION problems(view).cycles
    <3>1. problems(view).cycles = find_set_cycles(view)
      BY DEF problems
    <3> QED BY <2>1, <3>1, CyclesAre
  <2> QED BY <2>2, <2>3, <2>4, <2>5 DEF view
<1> QED BY <1>1, Invariance, PTL

\* What the window is about to put was checked against the file as it stands, unless
\* its copy was stale or another write has come in between.
Checked ==
    LET h == hand["window"] IN
    h # None /\ h.change.op \in {"add", "edit"} =>
        /\ h.doc[h.change.key] = h.change.entry
        /\ ~h.stale /\ ~h.overlapped => acceptable(merge(file), h.change.key, h.change.entry)

LEMMA PuttingChecks ==
    ASSUME IInv, NEW c, whole(c), begins("window", c), UNCHANGED <<release, file>>,
           c.op \in {"add", "edit"} => acceptable(merge(seen), c.key, c.entry)
    PROVE  Checked'
<1> DEFINE doc == changed(file, c)
           stale == seen # file
           h == [change |-> c, doc |-> doc, stale |-> stale, overlapped |-> FALSE]
<1>1. hand'["window"] = h
  <2>1. hand' = [hand EXCEPT !["window"] = [change |-> c, doc |-> doc, stale |-> seen # file, overlapped |-> FALSE]]
    BY DEF begins, read_raw
  <2>2. hand = [w \in Writers |-> hand[w]] /\ "window" \in Writers
    BY DEF IInv, Typed, Writers
  <2> HIDE DEF doc
  <2> QED BY <2>1, <2>2
<1>2. h.change = c /\ h.doc = doc /\ h.overlapped = FALSE
  OBVIOUS
<1>3. h.stale <=> seen # file
  OBVIOUS
<1>4. c.op \in {"add", "edit"} => doc[c.key] = c.entry
  BY DEF changed, whole, Changes, IInv, Typed, Raws
<1>5. merge(file)' = merge(file)
  BY DEF merge
<1> HIDE DEF h, doc
<1>6. c.op \in {"add", "edit"} /\ ~h.stale => acceptable(merge(file)', c.key, c.entry)
  BY <1>3, <1>5
<1> QED BY <1>1, <1>2, <1>4, <1>6 DEF Checked

LEMMA CheckedKeeps == IInv /\ Checked /\ [Next]_vars => Checked'
<1> SUFFICES ASSUME IInv, Checked, [Next]_vars PROVE Checked'
  OBVIOUS
<1>m. UNCHANGED <<release, file>> => merge(file)' = merge(file)
  BY DEF merge
<1>1. CASE UNCHANGED <<release, file, hand>>
  BY <1>m, <1>1 DEF Checked
<1>2. ASSUME NEW c, tabWrites(c), whole(c),
             c.op \in {"add", "edit"} => acceptable(merge(seen), c.key, c.entry)
      PROVE  Checked'
  BY <1>2, PuttingChecks DEF tabWrites
<1>3. CASE Add
  <2>1. PICK k \in Keys \ visible(merge(seen)) : \E e \in enterable(merge(seen), k) :
            tabWrites([op |-> "add", key |-> k, entry |-> e])
    BY <1>3 DEF Add
  <2>e. PICK e \in enterable(merge(seen), k) : tabWrites([op |-> "add", key |-> k, entry |-> e])
    BY <2>1
  <2> DEFINE c == [op |-> "add", key |-> k, entry |-> e]
  <2>2. whole(c) /\ acceptable(merge(seen), c.key, c.entry)
    BY VocabularyAssumption DEF enterable, whole, Changes
  <2> QED BY <1>2, <2>e, <2>2
<1>4. CASE Edit
  <2>1. PICK k \in visible(merge(seen)) : \E e \in enterable(merge(seen), k) :
            tabWrites([op |-> "edit", key |-> k, entry |-> e])
    BY <1>4 DEF Edit
  <2>e. PICK e \in enterable(merge(seen), k) : tabWrites([op |-> "edit", key |-> k, entry |-> e])
    BY <2>1
  <2> DEFINE c == [op |-> "edit", key |-> k, entry |-> e]
  <2>2. whole(c) /\ acceptable(merge(seen), c.key, c.entry)
    BY VocabularyAssumption DEF enterable, whole, Changes, visible
  <2> QED BY <1>2, <2>e, <2>2
<1>5. CASE Delete
  <2>1. PICK k \in visible(merge(seen)) : tabWrites([op |-> "delete", key |-> k, entry |-> None])
    BY <1>5 DEF Delete
  <2>2. whole([op |-> "delete", key |-> k, entry |-> None])
    BY DEF whole, Changes, visible
  <2> QED BY <1>2, <2>1, <2>2
<1>6. CASE Reset
  <2>1. PICK k \in Keys : tabWrites([op |-> "reset", key |-> k, entry |-> None])
    BY <1>6 DEF Reset
  <2>2. whole([op |-> "reset", key |-> k, entry |-> None])
    BY DEF whole, Changes
  <2> QED BY <1>2, <2>1, <2>2
<1>7. CASE MendReference
  <2> DEFINE view == merge(seen)
  <2>1. PICK k \in visible(view), chosen \in {{}} \cup {{s} : s \in visibleSets(view)} :
            /\ acceptable(view, k, mended(view, view[k], chosen))
            /\ tabWrites([op |-> "edit", key |-> k, entry |-> mended(view, view[k], chosen)])
    BY <1>7 DEF MendReference
  <2>2. view \in Views
    BY <1>7, MergedIs DEF MendReference, ready, IInv, Typed
  <2> HIDE DEF view
  <2>3. k \in Keys /\ mended(view, view[k], chosen) \in Entries
    <3>1. k \in Keys /\ view[k] \in Entries
      BY <2>2, VisibleIs
    <3> QED BY <3>1 DEF mended, Entries, visibleSets
  <2>4. whole([op |-> "edit", key |-> k, entry |-> mended(view, view[k], chosen)])
    BY <2>3 DEF whole, Changes
  <2> QED BY <1>2, <2>1, <2>4 DEF view
<1>8. CASE ApplyRow
  <2>1. CASE UNCHANGED hand
    BY <1>1, <1>8, <2>1 DEF ApplyRow
  <2>2. CASE rows # << >> /\ (Head(rows).change.op # "delete" =>
                acceptable(merge(seen), Head(rows).change.key, Head(rows).change.entry))
             /\ begins("window", Head(rows).change)
    <3>1. Head(rows) = rows[1] /\ 1 \in DOMAIN rows
      BY <2>2 DEF IInv, Typed
    <3>2. whole(Head(rows).change)
      BY <3>1 DEF IInv, Typed
    <3> DEFINE c == Head(rows).change
    <3>3. whole(c) /\ begins("window", c) /\ UNCHANGED <<release, file>>
          /\ (c.op \in {"add", "edit"} => acceptable(merge(seen), c.key, c.entry))
      BY <1>8, <2>2, <3>2 DEF ApplyRow
    <3> HIDE DEF c
    <3> QED BY <3>3, PuttingChecks
  <2> QED BY <1>8, <2>1, <2>2 DEF ApplyRow
<1>9. CASE Remember
  <2>1. UNCHANGED <<release, file>> /\ hand'["window"] = hand["window"]
    BY <1>9 DEF Remember, begins, IInv, Typed, Writers
  <2> QED BY <1>m, <2>1 DEF Checked
<1>10. CASE Finish
  <2>1. PICK w \in Writers : ~idle(w) /\ hand' = [overlaps(w) EXCEPT ![w] = None]
    BY <1>10 DEF Finish
  <2>2. "window" \in Writers
    BY DEF Writers
  <2>3. CASE w = "window"
    <3>1. hand'["window"] = None
      BY <2>1, <2>2, <2>3 DEF overlaps
    <3> QED BY <3>1 DEF Checked
  <2>4. CASE w # "window"
    <3>1. CASE hand["window"] = None
      <4>1. hand'["window"] = None
        BY <2>1, <2>2, <2>4, <3>1 DEF overlaps
      <4> QED BY <4>1 DEF Checked
    <3>2. CASE hand["window"] # None
      <4>1. hand'["window"] = [hand["window"] EXCEPT !.overlapped = TRUE]
        BY <2>1, <2>2, <2>4, <3>2 DEF overlaps
      <4>2. hand["window"] \in [change : Changes, doc : Raws, stale : BOOLEAN, overlapped : BOOLEAN]
        BY <2>2, <3>2 DEF IInv, Typed
      <4>3. /\ hand'["window"].change = hand["window"].change /\ hand'["window"].doc = hand["window"].doc
            /\ hand'["window"].overlapped = TRUE
        BY <4>1, <4>2
      <4> QED BY <3>2, <4>3 DEF Checked
    <3> QED BY <3>1, <3>2
  <2> QED BY <2>3, <2>4
<1>11. CASE HandEdit \/ Crash
  <2>1. hand'["window"] = None
    BY <1>11 DEF HandEdit, Crash, idle, Writers
  <2> QED BY <2>1 DEF Checked
<1>12. CASE Update
  <2>1. hand'["window"] = None
    BY <1>12 DEF Update, idle, Writers
  <2> QED BY <2>1 DEF Checked
<1>13. CASE Open \/ Close \/ Propose \/ Apply \/ UNCHANGED vars
  BY <1>1, <1>13 DEF Open, Close, Propose, Apply, vars
<1> QED BY <1>3, <1>4, <1>5, <1>6, <1>7, <1>8, <1>9, <1>10, <1>11, <1>12, <1>13 DEF Next

LEMMA CheckedAlways == Spec => []Checked
<1>1. Init => Checked
  BY DEF Init, Checked, Writers
<1> QED BY <1>1, CheckedKeeps, Invariance, PTL DEF Spec

-----------------------------------------------------------------------------
(* A put closes no cycle                                                   *)

\* An entry that was accepted, under its key, among sets none of which comes back to itself.
LEMMA PutKeepsAcyclic ==
    ASSUME NEW view \in Views, NEW view2 \in Views, NEW key \in Keys, NEW entry \in Entries,
           acceptable(view, key, entry),
           view2[key] = entry, \A k \in Keys \ {key} : view2[k] = view[k],
           \A s \in SetKeys : ~cyclic(view, s)
    PROVE  \A s \in SetKeys : ~cyclic(view2, s)
<1> DEFINE A == visibleSets(view)
           A2 == visibleSets(view2)
           G == links(view)
           H == links(view2)
           N == entry.sets
<1>0. N \in SUBSET SetKeys /\ entry \notin {None, Deleted}
  BY VocabularyAssumption DEF Entries
<1>1. N \in SUBSET A
  BY <1>0 DEF acceptable, missing
<1>2. \A s \in A : s \notin Reached(A, G, G[s])
  <2> SUFFICES ASSUME NEW s \in A, s \in Reached(A, G, G[s]) PROVE FALSE
    OBVIOUS
  <2>1. s \in SetKeys /\ G[s] = view[s].sets
    BY VisibleSetIs
  <2>2. s \in reach(view, view[s].sets)
    BY <2>1, ReachIs
  <2> QED BY <2>1, <2>2 DEF cyclic
<1>3. ASSUME \A s \in A2 : s \notin Reached(A2, H, H[s]), NEW s \in SetKeys, cyclic(view2, s)
      PROVE  FALSE
  <2>1. s \in A2 /\ s \in reach(view2, view2[s].sets)
    BY <1>3 DEF cyclic
  <2>2. H[s] = view2[s].sets
    BY <2>1, VisibleSetIs
  <2>3. s \in Reached(A2, H, H[s])
    BY <2>1, <2>2, ReachIs
  <2> QED BY <1>3, <2>1, <2>3
<1>4. CASE key \in SetKeys
  <2>1. ~closes(view, key, N)
    BY <1>4 DEF acceptable
  <2>2. key \notin N /\ \A x \in reach(view, N) : key \notin view[x].sets
    BY <1>0, <2>1, ClosesIs
  <2>3. reach(view, N) = Reached(A, G, N) /\ Reached(A, G, N) \subseteq A
    BY ReachIs DEF Reached
  <2>4. \A x \in Reached(A, G, N) : key \notin G[x]
    BY <2>2, <2>3, VisibleSetIs
  <2>5. A2 = A \cup {key}
    BY <1>0, <1>4 DEF visibleSets, visible, Keys
  <2>6. H[key] = N
    BY <1>4 DEF links
  <2>7. \A x \in A : x # key => H[x] = G[x]
    <3>1. \A x \in A : x \in SetKeys /\ x \in Keys
      BY VisibleSetIs DEF Keys
    <3> QED BY <3>1 DEF links
  <2> HIDE DEF A, A2, G, H, N
  <2>8. \A s \in A2 : s \notin Reached(A2, H, H[s])
    BY <1>1, <1>2, <2>2, <2>4, <2>5, <2>6, <2>7, NoWayBack
  <2> QED BY <1>3, <2>8
<1>5. CASE key \notin SetKeys
  <2>1. \A s \in SetKeys : view2[s] = view[s]
    BY <1>5 DEF Keys
  <2>2. A2 = A
    BY <2>1 DEF visibleSets, visible, Keys
  <2>3. H = G
    BY <2>1 DEF links
  <2> HIDE DEF A, A2, G, H
  <2> QED BY <1>2, <1>3, <2>2, <2>3
<1> QED BY <1>4, <1>5

\* A put checked against the file as it stands, with no other write in between, closes
\* no cycle.
THEOREM PutClosesNoCycleHolds == Spec => PutClosesNoCycle
<1>1. IInv /\ Checked /\ [Next]_vars =>
        (finishes("window") /\ ~hand["window"].stale /\ ~hand["window"].overlapped
            /\ hand["window"].change.op \in {"add", "edit"}
            /\ (\A s \in SetKeys : ~cyclic(merge(file), s))
          => \A s \in SetKeys : ~cyclic(merge(file)', s))
  <2> SUFFICES ASSUME IInv, Checked, [Next]_vars, finishes("window"),
                      ~hand["window"].stale, ~hand["window"].overlapped,
                      hand["window"].change.op \in {"add", "edit"},
                      \A s \in SetKeys : ~cyclic(merge(file), s)
               PROVE  \A s \in SetKeys : ~cyclic(merge(file)', s)
    OBVIOUS
  <2> DEFINE h == hand["window"]
             key == h.change.key
             entry == h.change.entry
             doc == h.doc
             view == merge(file)
             view2 == merge(doc)
  <2>1. h # None /\ hand'["window"] = None /\ file' = doc /\ "window" \in Writers
    BY DEF finishes, Writers
  <2>2. doc \in Raws /\ key \in Keys /\ entry \in Entries
    BY <2>1 DEF IInv, Typed, whole, Changes
  <2>3. release' = release
    BY <2>1 DEF Next, vars, Open, Close, Add, Edit, Delete, Reset, MendReference, tabWrites,
                Propose, Apply, ApplyRow, Finish, Remember, HandEdit, Update, Crash, idle
  <2>4. merge(file)' = view2
    BY <2>1, <2>3 DEF merge
  <2>5. acceptable(view, key, entry) /\ doc[key] = entry
    BY <2>1 DEF Checked
  <2>6. \A k \in Keys \ {key} : doc[k] = file[k]
    BY <2>1 DEF IInv, HandIsOwn
  <2>7. view \in Views /\ view2 \in Views
    BY <2>2, MergedIs DEF IInv, Typed
  <2>8. view2[key] = entry /\ \A k \in Keys \ {key} : view2[k] = view[k]
    BY <2>2, <2>5, <2>6, VocabularyAssumption DEF merge
  <2> HIDE DEF h, key, entry, doc, view, view2
  <2>9. \A s \in SetKeys : ~cyclic(view, s)
    BY DEF view
  <2>10. \A s \in SetKeys : ~cyclic(view2, s)
    BY <2>2, <2>5, <2>7, <2>8, <2>9, PutKeepsAcyclic
  <2> QED BY <2>4, <2>10
<1> QED BY <1>1, Invariance, CheckedAlways, PTL DEF Spec, PutClosesNoCycle

=============================================================================
