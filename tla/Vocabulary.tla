----------------------------- MODULE Vocabulary -----------------------------
(***************************************************************************)
(* The cue-sheet vocabulary: the shipped defaults with the edits and       *)
(* tombstones of classifier.yaml over them (classifier/vocabulary.py,      *)
(* vocabulary_store, vocabulary_checks, cache), the window that edits it   *)
(* (the Sets, Terms and Assistant tabs over one merged copy, loaded again  *)
(* after every write) and the command line, which remembers terms in the   *)
(* same file.                                                              *)
(*                                                                         *)
(* Every write reads the whole file, changes one entry and puts the whole  *)
(* file back by a rename; its checks are made against the window's copy.   *)
(* A key stands for its folded identity; labels, origins and matching      *)
(* modes are left out.  The order of an expansion's kinds is left out too. *)
(***************************************************************************)
EXTENDS Naturals, Sequences, SequencesExt, FiniteSets

CONSTANTS
    SetKeys, TermKeys,
    Kinds,      \* the kinds patterns.yaml can produce
    Words,      \* the kinds a file may name, misspelt ones included
    Releases,   \* the shipped defaults, one table per release of the program
    HandWritten,\* classifier.yaml files a person may have written
    Offered,    \* the entries a person enters in a dialog
    Proposals,  \* the replies of the model, rows of changes
    Remembered, \* the term entries the command line remembers
    None, Deleted, Malformed

Keys == SetKeys \cup TermKeys
Entries == [kinds : SUBSET Words, sets : SUBSET SetKeys, ignore : BOOLEAN]
Raws == [Keys -> Entries \cup {None, Deleted, Malformed}]

ASSUME VocabularyAssumption ==
    /\ Offered \subseteq Entries /\ Remembered \subseteq Entries
    /\ Releases \subseteq [Keys -> Entries \cup {None}]
    /\ HandWritten \subseteq Raws
    /\ SetKeys \cap TermKeys = {} /\ IsFiniteSet(SetKeys)
    /\ None \notin Raws /\ Deleted \notin {None, Malformed}
    /\ \A mark \in {None, Deleted, Malformed} : mark \notin Entries

Changes == [op : {"add", "edit", "delete", "reset"}, key : Keys, entry : Entries \cup {None}]
ASSUME ProposalsAssumption ==
    /\ Proposals \subseteq Seq(Changes)
    /\ \A reply \in Proposals : \A i \in DOMAIN reply :
            /\ reply[i].op # "reset"
            /\ reply[i].op \in {"add", "edit"} => reply[i].entry \in Entries
Writers == {"window", "command line"}

VARIABLES
    release,    \* the defaults of the installed program
    file,       \* classifier.yaml
    seen,       \* the file as the window's copy last merged it, None when it is closed
    hand,       \* per writer, the change between its read and its rename
    rows,       \* the assistant's table: its changes, and which can be ticked
    applying,   \* the assistant is writing its ticked rows
    gone,       \* history: the defaults a person deleted and nobody put back on purpose
    revived     \* history: those of them that an overlapped write brought back unasked

vars == <<release, file, seen, hand, rows, applying, gone, revived>>

-----------------------------------------------------------------------------
(* The merged view                                                         *)

\* _merge: an entry that cannot be parsed is skipped, so its default shows through.
merge(raw) == [k \in Keys |-> IF raw[k] \in {None, Malformed} THEN release[k] ELSE raw[k]]

visible(view) == {k \in Keys : view[k] \notin {None, Deleted}}
visibleSets(view) == visible(view) \cap SetKeys

\* Where a depth-first walk of the sets stands: the sets on its path, and the next one.
Visits == (SUBSET SetKeys) \X SetKeys

\* Mutant of nestedIn: only the sets that still stand after the first level are followed.
nestedOnce(view, s, visiting) == IF visiting = {} THEN view[s].sets ELSE {}

\* What expand_set goes on to from s.
nestedIn(view, s, visiting) == view[s].sets

\* expand_set: depth first along a path, a set on the path contributes nothing again.
expand_set(view, key) ==
    LET expand[at \in Visits] ==
            LET visiting == at[1]  s == at[2] IN
            IF s \notin visibleSets(view) \/ s \in visiting THEN {}
            ELSE (view[s].kinds \cap Kinds)
                 \cup UNION {expand[<<visiting \cup {s}, n>>] : n \in nestedIn(view, s, visiting)}
    IN expand[<<{}, key>>]

\* effective: a term with a kind of its own that nothing can produce is left out.
effectiveTerms(view) ==
    {t \in visible(view) \cap TermKeys : view[t].kinds \subseteq Kinds}
effective(view) ==
    [t \in effectiveTerms(view) |->
        view[t].kinds \cup UNION {expand_set(view, s) : s \in view[t].sets}]

-----------------------------------------------------------------------------
(* The checks                                                              *)

\* check_sets, broken_set_names
missing(view, entry) == entry.sets \ visibleSets(view)

\* Mutant of closes: the sets named are looked at, not the sets those name.
closesDirectly(view, key, nested) ==
    key \in nested \/ \E s \in nested \cap visibleSets(view) : key \in view[s].sets

\* The walk of check_cycle: does some path from this visit on come to key?
comesTo(view, key) ==
    LET walk[at \in Visits] ==
            LET passed == at[1]  s == at[2] IN
            \/ s = key
            \/ /\ s \notin passed /\ s \in visibleSets(view)
               /\ \E n \in view[s].sets : walk[<<passed \cup {s}, n>>]
    IN walk

\* check_cycle: does some path from the sets named come back to key?
closes(view, key, nested) == \E s \in nested : comesTo(view, key)[<<{}, s>>]

wellShaped(entry) ==
    IF entry.ignore THEN entry.kinds = {} /\ entry.sets = {}
                    ELSE entry.kinds # {} \/ entry.sets # {}

\* What put_set and put_term refuse; dry_run_set and dry_run_term report the same.
acceptable(view, key, entry) ==
    /\ entry.kinds \subseteq Kinds
    /\ missing(view, entry) = {}
    /\ IF key \in SetKeys THEN ~closes(view, key, entry.sets) ELSE wellShaped(entry)

\* The sets of a path from s on.
since(path, s) == {path[j] : j \in {j \in DOMAIN path : \E i \in 1..j : path[i] = s}}

\* The walk of find_set_cycles: the nodes of each cycle it runs into from this visit on.
runsInto(view) ==
    LET walk[at \in Seq(SetKeys) \X SetKeys] ==
            LET path == at[1]  s == at[2] IN
            IF s \in ToSet(path) THEN {since(path, s)}
            ELSE IF s \notin visibleSets(view) THEN {}
            ELSE UNION {walk[<<Append(path, s), n>>] : n \in view[s].sets}
    IN walk

find_set_cycles(view) == UNION {runsInto(view)[<<<< >>, s>>] : s \in SetKeys}

\* compute_problems: what the window says of a file it could not fully trust.
problems(view) ==
    [kinds |-> {k \in visible(view) : ~(view[k].kinds \subseteq Kinds)},
     sets |-> {k \in visible(view) : missing(view, view[k]) # {}},
     cycles |-> find_set_cycles(view)]

-----------------------------------------------------------------------------
(* Writing                                                                 *)

\* Mutant of had_default: decided from the merged entry, which may be the tombstone.
had_visible_default(key) == release[key] # None /\ key \in visible(merge(seen))

\* _had_default_set: from the shipped keys.
had_default(key) == release[key] # None

\* put_set, put_term, delete and reset on the document read from the file.
changed(doc, c) ==
    [doc EXCEPT ![c.key] =
        CASE c.op \in {"add", "edit"} -> c.entry
          [] c.op = "delete" -> IF had_default(c.key) THEN Deleted ELSE None
          [] c.op = "reset" -> None]

\* Mutant of read_raw: a write starts from the window's copy.
read_seen(writer) == IF writer = "window" THEN seen ELSE file

\* cache.read_raw
read_raw(writer) == file

idle(writer) == hand[writer] = None

\* The read half of a write; stale says that the checks were made on another file.
begins(writer, c) ==
    hand' = [hand EXCEPT ![writer] =
                [change |-> c, doc |-> changed(read_raw(writer), c),
                 stale |-> writer = "window" /\ seen # file, overlapped |-> FALSE]]

\* Somebody else's write falls between a writer's read and its rename.
overlaps(writer) ==
    [w \in Writers |-> IF w # writer /\ hand[w] # None
                       THEN [hand[w] EXCEPT !.overlapped = TRUE] ELSE hand[w]]

\* What a write deletes, what it puts back on purpose, and what it brings back unasked:
\* a write that another one overlapped puts the file back as it was read, with whatever
\* was deleted since.
deletedBy(writer) ==
    {k \in Keys : hand[writer].change.op = "delete" /\ hand[writer].change.key = k
                    /\ release[k] # None}
putBackBy(writer) ==
    {k \in Keys : hand[writer].change.op # "delete" /\ hand[writer].change.key = k}
revivedBy(writer) == {k \in Keys : hand[writer].overlapped /\ hand[writer].doc[k] # Deleted}

\* The rename; the window's copy is merged again right after (_refresh, then _reload).
Finish ==
    \E w \in Writers :
        /\ ~idle(w)
        /\ file' = hand[w].doc
        /\ seen' = IF w = "window" THEN file' ELSE seen
        /\ gone' = (gone \cup deletedBy(w)) \ putBackBy(w)
        /\ revived' = ((revived \ deletedBy(w)) \cup revivedBy(w)) \cap gone'
        /\ hand' = [overlaps(w) EXCEPT ![w] = None]
        /\ UNCHANGED <<release, rows, applying>>

-----------------------------------------------------------------------------
(* The window                                                              *)

Open ==
    /\ seen = None
    /\ seen' = file
    /\ UNCHANGED <<release, file, hand, rows, applying, gone, revived>>

Close ==
    /\ seen # None /\ idle("window") /\ ~applying
    /\ seen' = None /\ rows' = << >>
    /\ UNCHANGED <<release, file, hand, applying, gone, revived>>

ready == seen # None /\ idle("window") /\ ~applying
tabWrites(c) == begins("window", c) /\ UNCHANGED <<release, file, seen, rows, applying, gone, revived>>

\* The entries a dialog can return: its lists hold the visible sets, never the set itself.
enterable(view, key) ==
    {e \in Offered : e.sets \subseteq visibleSets(view) \ {key} /\ acceptable(view, key, e)}

Add ==
    /\ ready
    /\ LET view == merge(seen) IN
        \E k \in Keys \ visible(view) : \E e \in enterable(view, k) :
            tabWrites([op |-> "add", key |-> k, entry |-> e])

Edit ==
    /\ ready
    /\ LET view == merge(seen) IN
        \E k \in visible(view) :
            /\ missing(view, view[k]) = {}
            /\ \E e \in enterable(view, k) : tabWrites([op |-> "edit", key |-> k, entry |-> e])

Delete ==
    /\ ready
    /\ \E k \in visible(merge(seen)) : tabWrites([op |-> "delete", key |-> k, entry |-> None])

\* Enabled on a key with a default under it; nothing is checked.
Reset ==
    /\ ready
    /\ \E k \in {k \in Keys : had_default(k)} :
        tabWrites([op |-> "reset", key |-> k, entry |-> None])

\* pick_another_set and drop_reference: every broken name at once, unknown kinds dropped.
mended(view, e, chosen) ==
    [e EXCEPT !.sets = (@ \ missing(view, e)) \cup chosen, !.kinds = @ \cap Kinds]

MendReference ==
    /\ ready
    /\ LET view == merge(seen) IN
        \E k \in visible(view) :
            /\ missing(view, view[k]) # {}
            /\ \E chosen \in {{}} \cup {{s} : s \in visibleSets(view)} :
                LET e == mended(view, view[k], chosen) IN
                acceptable(view, k, e) /\ tabWrites([op |-> "edit", key |-> k, entry |-> e])

-----------------------------------------------------------------------------
(* The assistant                                                           *)

\* vocab_changes.validate, against the vocabulary as it stands.
validate(view, c) ==
    CASE c.op = "delete" -> c.key \in visible(view)
      [] c.op = "add" -> c.key \notin visible(view) /\ acceptable(view, c.key, c.entry)
      [] c.op = "edit" -> c.key \in visible(view) /\ acceptable(view, c.key, c.entry)

\* _show_proposal: a row that is not valid cannot be ticked.
Propose ==
    /\ ready
    /\ \E reply \in Proposals :
        rows' = [i \in DOMAIN reply |->
                    [change |-> reply[i], valid |-> validate(merge(seen), reply[i])]]
    /\ UNCHANGED <<release, file, seen, hand, applying, gone, revived>>

Apply ==
    /\ ready /\ rows # << >>
    /\ applying' = TRUE
    /\ UNCHANGED <<release, file, seen, hand, rows, gone, revived>>

\* apply_ticked, one row: not ticked, refused by put_*, or written.
ApplyRow ==
    /\ applying /\ idle("window")
    /\ rows' = IF rows = << >> THEN rows ELSE Tail(rows)
    /\ applying' = (Len(rows) > 1)
    /\ \/ UNCHANGED hand
       \/ /\ rows # << >> /\ Head(rows).valid
          /\ LET c == Head(rows).change IN
              /\ c.op # "delete" => acceptable(merge(seen), c.key, c.entry)
              /\ begins("window", c)
    /\ UNCHANGED <<release, file, seen, gone, revived>>

-----------------------------------------------------------------------------
(* Everybody else                                                          *)

\* cache.remember on a term, from an import on the command line: no checks at all.
Remember ==
    /\ idle("command line")
    /\ \E t \in TermKeys, e \in Remembered :
        begins("command line", [op |-> "edit", key |-> t, entry |-> e])
    /\ UNCHANGED <<release, file, seen, rows, applying, gone, revived>>

\* A text editor, on a file the program is not writing.
HandEdit ==
    /\ \A w \in Writers : idle(w)
    /\ file' \in HandWritten
    /\ gone' = gone \ {k \in Keys : file'[k] # Deleted}
    /\ revived' = revived \cap gone'
    /\ UNCHANGED <<release, seen, hand, rows, applying>>

\* Another release of the program, with other defaults.
Update ==
    /\ seen = None /\ \A w \in Writers : idle(w)
    /\ release' \in Releases
    /\ UNCHANGED <<file, seen, hand, rows, applying, gone, revived>>

\* The program dies between a read and a rename: the temporary file is no one's.
Crash ==
    /\ \E w \in Writers : ~idle(w)
    /\ hand' = [w \in Writers |-> None]
    /\ seen' = None /\ rows' = << >> /\ applying' = FALSE
    /\ UNCHANGED <<release, file, gone, revived>>

Init ==
    /\ release \in Releases
    /\ file \in HandWritten
    /\ seen = None
    /\ hand = [w \in Writers |-> None]
    /\ rows = << >> /\ applying = FALSE
    /\ gone = {} /\ revived = {}

Next == \/ Open \/ Close \/ Add \/ Edit \/ Delete \/ Reset \/ MendReference
        \/ Propose \/ Apply \/ ApplyRow \/ Finish
        \/ Remember \/ HandEdit \/ Update \/ Crash

Spec == Init /\ [][Next]_vars

-----------------------------------------------------------------------------
(* Properties                                                              *)

TypeOK ==
    /\ release \in Releases
    /\ file \in Raws /\ seen \in Raws \cup {None}
    /\ \A w \in Writers : hand[w] # None => hand[w].doc \in Raws /\ hand[w].change \in Changes
    /\ rows \in Seq([change : Changes, valid : BOOLEAN]) /\ applying \in BOOLEAN
    /\ revived \subseteq gone /\ gone \subseteq Keys

\* What can be reached from the sets an entry names: the sets in every collection that
\* holds those and, with any set, the sets it names.
holdsOn(view, X) == \A s \in X : view[s].sets \cap visibleSets(view) \subseteq X

reach(view, from) ==
    {s \in visibleSets(view) :
        \A X \in SUBSET visibleSets(view) :
            from \cap visibleSets(view) \subseteq X /\ holdsOn(view, X) => s \in X}

cyclic(view, s) == s \in visibleSets(view) /\ s \in reach(view, view[s].sets)

\* A term is expanded to its own kinds and those of every set that can be reached from
\* it, once each, cycles or not; and whatever is left out of it on the way -- a kind
\* nothing produces, a set that is not there -- the window reports, at the entry where it is.
ExpansionIsReachability ==
    \A t \in visible(merge(file)) \cap TermKeys :
        LET view == merge(file)
            sets == reach(view, view[t].sets)
            wanted == view[t].kinds \cup UNION {view[s].kinds : s \in sets}
            noted == problems(view) IN
        /\ t \in effectiveTerms(view) => effective(view)[t] = wanted \cap Kinds
        /\ t \notin effectiveTerms(view) => t \in noted.kinds
        /\ \A k \in {t} \cup sets :
            /\ ~(view[k].kinds \subseteq Kinds) => k \in noted.kinds
            /\ ~(view[k].sets \subseteq visible(view)) => k \in noted.sets
        /\ {s \in SetKeys : cyclic(view, s)} = UNION noted.cycles

finishes(w) == hand[w] # None /\ hand'[w] = None /\ file' = hand[w].doc

\* A put made on an up-to-date copy, with no other write in between, never closes a cycle.
PutClosesNoCycle ==
    [][finishes("window") /\ ~hand["window"].stale /\ ~hand["window"].overlapped
         /\ hand["window"].change.op \in {"add", "edit"}
         /\ (\A s \in SetKeys : ~cyclic(merge(file), s))
       => \A s \in SetKeys : ~cyclic(merge(file)', s)]_vars

\* Unless two writes overlap, a write leaves every other entry of the file as it
\* stands on disk, whoever wrote it since the window was opened.
OnlyItsOwnEntry ==
    [][\A w \in Writers :
        finishes(w) /\ ~hand[w].overlapped
          => \A k \in Keys \ {hand[w].change.key} : file'[k] = file[k]]_vars

\* A default a person deleted stays away -- deleted twice, through the program's
\* updates, whatever else is written -- until somebody puts it back on purpose, with
\* one exception: a write that began before the delete and ends after it brings back
\* what its old copy of the file held (cache.py takes no lock).
DeletedStaysDeleted == \A k \in gone \ revived : k \notin visible(merge(file))

\* vocabulary.py: "a cycle is refused AT WRITE TIME", so only a person's own
\* editing brings one to disk.
NoCycleIsWritten ==
    [][finishes("window") /\ ~hand["window"].stale /\ ~hand["window"].overlapped
         /\ (\A s \in SetKeys : ~cyclic(merge(file), s))
       => \A s \in SetKeys : ~cyclic(merge(file)', s)]_vars

=============================================================================
