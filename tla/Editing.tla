------------------------------ MODULE Editing ------------------------------
(***************************************************************************)
(* The scene on screen while writes settle under it, and what is left on   *)
(* disk of them: Session, the Changes dock (changes_panel.set_changes and  *)
(* record_sent, the ledger's rows and reverts), what a result does to the  *)
(* scene (write_apply, write_records.settle_scene) and the write log       *)
(* (write_log_sink over WriteLog).  WritePath models how a write gets to   *)
(* the wire; here a write is submitted and later settles, in order, with   *)
(* whichever session the window holds by then.                             *)
(*                                                                         *)
(* An append may fail at once, or leave part of its text behind (a full    *)
(* disk); the program may die in the middle of one and be started again.   *)
(***************************************************************************)
EXTENDS Session, WriteLog, FiniteSetsExt

CONSTANTS
    Shows,      \* the show codes the operator arms for
    Clamps,     \* what a desk may answer instead of the value written
    Held,       \* what a desk may say it held before a write
    MaxWrites,  \* bound: the sends of one life of the program, and the writes under way
    MaxEntries  \* bound: the lines a show's file is given, and those one life owes

ASSUME EditingAssumption ==
    /\ Clamps \subseteq Values /\ Held \subseteq Values
    /\ MaxWrites \in Nat /\ MaxEntries \in Nat

VARIABLES
    flight,     \* the writes submitted and not settled, oldest first
    rows,       \* SentLedger._records
    sentRows,   \* ChangesPanel._sent_rows: the patches with a badge
    lastFinding,\* WriteLogSink._findings: per leaf, the finding of its last repair
    log,        \* the files of the write-log folder
    warning,    \* WriteLogSink.warning is up
    sends,      \* history: the patches whose own send settled, in this life
    owed,       \* history: the settled writes, each owed a line of the log, in this life
    unheard     \* history: those of them that the log's sink was never told of

logVars == <<flight, rows, sentRows, lastFinding, log, warning, sends, owed, unheard>>
vars == <<sessionVars, logVars>>

-----------------------------------------------------------------------------

Outcomes == {"sent", "clamped", "no_reply"}
\* A journal row that a revert made has a Send of its own: "revert" is then its finding.
Findings == Rules \cup {"revert", None}
Entries == [n : Nat, kind : {"repair", "revert"}, outcome : Outcomes, finding : Findings]
\* A repair carries its patch; a revert the ledger row it puts back.
Writes == [kind : {"repair"}, patch : Patches, show : Shows]
          \cup [kind : {"revert"}, leaf : Leaves, after : Values, show : Shows]
Rows == [leaf : Leaves, before : Values \cup {None}]

TypeOK ==
    /\ SessionTypeOK
    /\ flight \in Seq(Writes)
    /\ rows \in Seq(Rows)
    /\ sentRows \subseteq Patches
    /\ lastFinding \in [Leaves -> Findings]
    /\ log \in [Shows -> Seq(Pieces(Entries))]
    /\ warning \in BOOLEAN
    /\ sends \in Seq(Patches)
    /\ unheard \subseteq owed /\ owed \subseteq Nat

noFinding == [l \in Leaves |-> None]

Init ==
    /\ SessionInit
    /\ flight = << >> /\ rows = << >> /\ sentRows = {}
    /\ lastFinding = noFinding
    /\ warning = FALSE
    /\ log = [c \in Shows |-> << >>]
    /\ sends = << >> /\ owed = {} /\ unheard = {}

-----------------------------------------------------------------------------
(* The scene and its dock                                                  *)

\* set_changes: a patch that left the journal loses its record.
kept(badged) == badged \cap ToSet(changes(session'))

dockFollows == sentRows' = kept(sentRows)
sceneOnly == UNCHANGED <<flight, rows, lastFinding, log, warning, sends, owed, unheard>>

Open == \E f \in Scenes : open(f) /\ dockFollows /\ sceneOnly
Pull == \E doc \in Pulled : adopt_pulled_session(doc) /\ dockFollows /\ sceneOnly
Repair == \E r \in Rules : repair(r) /\ dockFollows /\ sceneOnly
Undo == undo /\ dockFollows /\ sceneOnly
Reanalyse == reanalyse /\ dockFollows /\ sceneOnly
SaveAs == \E f \in Scenes : save_as(f) /\ UNCHANGED logVars

-----------------------------------------------------------------------------
(* Writes and reverts                                                      *)

\* A Repair above Manual, or the Send of a journal row.
Send ==
    /\ Len(flight) + Len(rows) < MaxWrites
    /\ \E p \in ToSet(changes(session)), c \in Shows :
        flight' = Append(flight, [kind |-> "repair", patch |-> p, show |-> c])
    /\ UNCHANGED <<sessionVars, rows, sentRows, lastFinding, log, warning, sends, owed, unheard>>

\* Revert, or one step of Revert all: a row the desk never described is left out.
Revert ==
    /\ Len(flight) < MaxWrites
    /\ \E i \in DOMAIN rows, c \in Shows :
        /\ rows[i].before # None
        /\ flight' = Append(flight, [kind |-> "revert", leaf |-> rows[i].leaf,
                                     after |-> rows[i].before, show |-> c])
    /\ UNCHANGED <<sessionVars, rows, sentRows, lastFinding, log, warning, sends, owed, unheard>>

leafOf(w) == IF w.kind = "repair" THEN w.patch.leaf ELSE w.leaf
wanted(w) == IF w.kind = "repair" THEN w.patch.after ELSE w.after

\* settle_scene: matched holds what was written, a clamp what was read back.
settle_scene(w, outcome, readback) ==
    CASE outcome = "sent" -> wanted(w)
      [] outcome = "clamped" -> readback
      [] outcome = "no_reply" -> None

\* apply_result and apply_revert: what the window's scene does with the value.
moves(w, value) == value # None /\ (w.kind = "revert" \/ value # w.patch.after)
landsIn(w, value) == session # None /\ has(document(session), leafOf(w))

\* Mutant of showsMove: no _refresh after the scene moved.
showsNothing(badged) == UNCHANGED <<shown, sentRows>>
showsMove(badged) == refresh /\ sentRows' = kept(badged)

badgedWith(w) == IF w.kind = "repair" THEN sentRows \cup {w.patch} ELSE sentRows

apply(w, value) ==
    IF moves(w, value) /\ landsIn(w, value)
    THEN /\ Len(session.journal) < MaxJournal
         /\ session' = recorded(session, leafOf(w), value,
                                IF w.kind = "repair" THEN w.patch.because ELSE "revert",
                                IF w.kind = "repair" THEN "clamped" ELSE "reverted")
         /\ showsMove(badgedWith(w))
    ELSE /\ UNCHANGED <<session, shown>>
         /\ sentRows' = badgedWith(w)

\* _reverted raises in apply_revert when the scene lacks the leaf, before its signal;
\* record_sent emits its own in a finally.
announced(w, value) == w.kind = "revert" /\ moves(w, value) => landsIn(w, value)

\* WriteLogSink._entry
number == 1 + Max({0} \cup owed \cup UNION {{log[c][i].entry.n : i \in DOMAIN log[c]} : c \in Shows})
findingOf(w) == IF w.kind = "repair" THEN w.patch.because ELSE lastFinding[w.leaf]
entry(w, outcome) ==
    [n |-> number, kind |-> w.kind, outcome |-> outcome, finding |-> findingOf(w)]

\* Mutant of warned: the next good append takes the warning down.
warnedLast(failed) == failed

\* A warning persists.
warned(failed) == warning \/ failed

\* WriteLogSink._log: whatever append raises ends here.
logs(w, outcome) ==
    /\ Len(log[w.show]) < MaxEntries
    /\ UNCHANGED unheard
    /\ lastFinding' = IF w.kind = "repair"
                      THEN [lastFinding EXCEPT ![w.patch.leaf] = w.patch.because]
                      ELSE lastFinding
    /\ \/ log' = [log EXCEPT ![w.show] = append(@, entry(w, outcome), "line")]
          /\ warning' = warned(FALSE)
       \/ \E cut \in Cuts :
            /\ log' = [log EXCEPT ![w.show] = append(@, entry(w, outcome), cut)]
            /\ warning' = warned(TRUE)
       \/ warning' = warned(TRUE) /\ UNCHANGED log

row(w, before) == [leaf |-> w.patch.leaf, before |-> before]

\* The oldest write settles: ledger row, badge, scene, then its line of the log.
Settle ==
    /\ flight # << >>
    /\ LET w == Head(flight) IN
        \E outcome \in Outcomes, readback \in Clamps, before \in Held \cup {None} :
            LET value == settle_scene(w, outcome, readback) IN
            /\ outcome = "clamped" => readback # wanted(w)
            /\ outcome # "clamped" => readback = Max(Clamps)
            /\ flight' = Tail(flight)
            /\ IF w.kind = "repair"
               THEN /\ rows' = Append(rows, row(w, before))
                    /\ sends' = Append(sends, w.patch)
               ELSE before = None /\ UNCHANGED <<rows, sends>>
            /\ apply(w, value)
            /\ Cardinality(owed) < MaxEntries
            /\ owed' = owed \cup {number}
            /\ IF announced(w, value)
               THEN logs(w, outcome)
               ELSE unheard' = unheard \cup {number} /\ UNCHANGED <<lastFinding, log, warning>>
    /\ UNCHANGED file

\* The program dies, perhaps in the middle of an append, and is started again.
Crash ==
    /\ session' = None /\ shown' = [findings |-> {}, changes |-> 0]
    /\ flight' = << >> /\ rows' = << >> /\ sentRows' = {}
    /\ lastFinding' = noFinding
    /\ warning' = FALSE
    /\ sends' = << >> /\ owed' = {} /\ unheard' = {}
    /\ \/ UNCHANGED log
       \/ /\ flight # << >> /\ Len(log[Head(flight).show]) < MaxEntries
          /\ \E cut \in Cuts : log' = [log EXCEPT ![Head(flight).show] =
                                        append(@, entry(Head(flight), "sent"), cut)]
    /\ UNCHANGED file

Next == \/ Open \/ Pull \/ Repair \/ Undo \/ Reanalyse \/ SaveAs
        \/ Send \/ Revert \/ Settle \/ Crash

Spec == Init /\ [][Next]_vars

-----------------------------------------------------------------------------
(* Properties                                                              *)

\* The journal is a truthful record (edit/journal.py): each patch's before is what
\* the document held when the patch was made, clamps and reverts that settled into
\* another session's document included.
JournalIsTruthful ==
    session # None =>
        \A i \in DOMAIN session.journal :
            LET p == session.journal[i]
                doc == applied(session.original, SubSeq(session.journal, 1, i - 1)) IN
            has(doc, p.leaf) /\ doc[p.leaf] = p.before

\* The findings list is always the truth about the current state (ui/session.py):
\* what the Doctor page and the dock show is what the window's document says now,
\* whoever moved it.
ShownIsCurrent ==
    shown = [findings |-> findings(session), changes |-> Len(changes(session))]

\* Where the line of a settled write went: it is an entry of a file that reads, it is
\* on a line counted as skipped, in a file whose reader raises, or the warning of a
\* failed append is on screen.
accounted(n) ==
    \/ warning
    \/ \E c \in Shows : LET read == read_show(log[c]) IN
        \/ read.error
        \/ \E e \in read.entries : e.n = n
        \/ read.skipped > 0 /\ \E i \in DOMAIN log[c] : log[c][i].entry.n = n

\* Through torn appends and restarts, no write that the sink heard of is missing from
\* the log without a word.  Not every settled write is heard of: a revert that settles
\* into a document without its leaf raises before changes_ledger.py emits reverted.
HeardIsAccounted == \A n \in owed \ unheard : accounted(n)

\* W3, W4 of the write-log design, of every settled write: the revert that raised is
\* the exception, and breaks it.
NoSilentLoss == \A n \in owed : accounted(n)

\* changes_panel.py: a repair made again after an Undo "has NOT been sent", so a
\* badge never stands on more rows than its patch was sent for.
BadgeMeansSent ==
    \A p \in sentRows :
        Len(SelectSeq(changes(session), LAMBDA q : q = p))
            <= Len(SelectSeq(sends, LAMBDA q : q = p))

=============================================================================
