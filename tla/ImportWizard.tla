---------------------------- MODULE ImportWizard ----------------------------
(***************************************************************************)
(* The Import page: Pick, Mapping, Terms, Scene, Save (ui/import_page,     *)
(* import_steps, import_finish, import_controller and the step widgets),   *)
(* over a vocabulary other windows and the command line write as well,     *)
(* over scenes that are opened and pulled while the page stands, and the   *)
(* dialog that checks an existing file and repairs it (ui/lint_dialog.py). *)
(*                                                                         *)
(* A model call is a call of CallRunner: one at a time, it answers, fails, *)
(* times out or is cancelled, once.  The vocabulary is the terms in force, *)
(* keyed by their folded text (Vocabulary models how they come about).     *)
(***************************************************************************)
EXTENDS ShowContext, Selection, Integers

CONSTANTS
    Workbooks, sheetOf,  \* what a workbook holds
    Proposals,  \* the model's mappings, [columns, headers], None without an assist
    Grids,      \* what a person may fill in, a value per field
    Taught,     \* the entries Record and Ignore write
    Initial,    \* the vocabularies there may be at the start
    Elsewhere,  \* the entries other windows and the command line write
    Scenes,
    Documents,  \* show-context files a person may have written
    Torn,
    MaxMoves    \* bound: what happens outside the page

Entries == [kinds : SUBSET known_kinds, ignore : BOOLEAN, match : {"exact", "word"}]

ASSUME ImportAssumption ==
    /\ Taught \cup Elsewhere \subseteq Entries
    /\ \A some \in Initial : DOMAIN some \subseteq Seq(Words) /\ some \in [DOMAIN some -> Entries]
    /\ \A path \in Workbooks :
        LET sheet == sheetOf[path] IN
        /\ Len(sheet.headers) \in Nat /\ DOMAIN sheet.headers = 1..Len(sheet.headers)
        /\ sheet.rows \in Seq([number : Nat, cells : Seq(Cells)])
        /\ \A r \in DOMAIN sheet.rows :
            /\ DOMAIN sheet.rows[r].cells = DOMAIN sheet.headers
            /\ \A c \in DOMAIN sheet.headers :
                blank(sheet.rows[r].cells[c]) \/ sheet.rows[r].cells[c] \in DOMAIN identified
    /\ \A doc \in Documents \ {Torn} : wellFormed(doc)

VARIABLES
    step, xlsx, call,       \* where the page stands, the workbook, the call in flight
    grid,                   \* the mapping step's fields
    fields,                 \* the resolved mapping, None before the sheet is read
    terms, known,           \* the vocabulary on disk, the Terms step's copy
    rows,                   \* the Terms step: a state per unresolved fragment
    result,                 \* what build made of the sheet
    doctor, pulled, opened, \* the scenes of the window, of the last pull, of a file
    source, table, enabled, \* the Scene step
    chosen, preview, saved,
    lint,                   \* the lint dialog and its file
    moves,
    undone                  \* history: terms deleted, emptied or overwritten

pick == <<step, xlsx, call, grid>>
teach == <<terms, known, rows, undone>>
build_ == <<fields, result>>
scene == <<doctor, pulled, opened, source, table, enabled, chosen>>
out == <<preview, saved>>
vars == <<pick, teach, build_, scene, out, lint, moves>>

Sources == {"doctor", "file", "pull"}
Nothing == [x \in {} |-> None]

-----------------------------------------------------------------------------
(* Pick and Mapping                                                        *)

\* pick_file: a file that cannot be sampled, and one picked while a call runs, go no further.
PickFile ==
    /\ lint = None /\ step = 0 /\ call = None
    /\ \E w \in Workbooks : call' = [kind |-> "pick", path |-> w]
    /\ UNCHANGED <<step, xlsx, grid, teach, build_, scene, out, lint, moves>>

\* MappingStep.fill: one edit per field, whichever block named it.
fill(p) == IF p = None THEN Nothing ELSE p.columns @@ p.headers

\* There is no edit to fill for a field nobody knows: fill raises.
fillable(p) == p = None \/ DOMAIN fill(p) \subseteq FIELDS

\* _proposal_done.
ProposalArrives ==
    /\ call # None /\ call.kind = "pick"
    /\ call' = None
    /\ \E p \in Proposals \cup {None} :
        /\ xlsx' = call.path
        /\ grid' = IF fillable(p) THEN fill(p) ELSE Nothing
        /\ step' = IF fillable(p) THEN 1 ELSE step
    /\ UNCHANGED <<teach, build_, scene, out, lint, moves>>

\* It fails, times out or is cancelled; the panel on the Mapping step shows, and fills nothing.
CallEnds ==
    /\ call # None
    /\ call' = None
    /\ UNCHANGED <<step, xlsx, grid, teach, build_, scene, out, lint, moves>>

TryAi ==
    /\ step = 1 /\ call = None
    /\ call' = [kind |-> "try", path |-> xlsx]
    /\ UNCHANGED <<step, xlsx, grid, teach, build_, scene, out, lint, moves>>

Back ==
    /\ step = 1
    /\ step' = 0
    /\ UNCHANGED <<xlsx, call, grid, teach, build_, scene, out, lint, moves>>

EditGrid ==
    /\ step = 1
    /\ grid' \in Grids
    /\ UNCHANGED <<step, xlsx, call, teach, build_, scene, out, lint, moves>>

\* MappingStep.collect: letters for three fields, headings for the others.
collect(g) ==
    [columns |-> Restrict(g, DOMAIN g \cap LETTER_FIELDS), headers |-> Restrict(g, DOMAIN g \cap TEXT_FIELDS)]

pendingRows(fragments) == [f \in fragments |-> [state |-> "pending", by |-> {}]]

\* finish_mapping: the sheet is read and built, or an error is shown.
Next_ ==
    /\ step = 1
    /\ resolvable(collect(grid), sheetOf[xlsx])
    /\ fields' = resolve_columns(collect(grid), sheetOf[xlsx])
    /\ result' = build(sheetOf[xlsx], fields', terms)
    /\ known' = terms
    /\ rows' = pendingRows(unresolved_terms(result'))
    /\ step' = 2
    /\ UNCHANGED <<xlsx, call, grid, terms, undone, scene, out, lint, moves>>

-----------------------------------------------------------------------------
(* Terms                                                                   *)

\* _reresolve: a pending row whose fragment is understood by now is done.
reresolved(before, vocabulary) ==
    [f \in DOMAIN before |->
        IF before[f].state = "pending" /\ resolves(f, vocabulary)
        THEN [state |-> "resolved", by |-> resolve_fragment(f, vocabulary).by] ELSE before[f]]

\* The keys a row can be taught under: the fragment, or a piece of it.
keysOf(fragment) ==
    {SubSeq(fold(fragment), i, j) : i \in 1..Len(fragment), j \in 1..Len(fragment)} \ {<< >>}

put(vocabulary, key, entry) ==
    [k \in DOMAIN vocabulary \cup {key} |-> IF k = key THEN entry ELSE vocabulary[k]]

\* put_term, from the row's copy onto the file, then the re-resolve and the row's own check.
taught(f, key, entry) ==
    /\ terms' = put(terms, key, entry)
    /\ known' = terms'
    /\ undone' = undone \cup ({key} \cap DOMAIN terms)
    /\ LET swept == reresolved(rows, terms') IN
        rows' = [swept EXCEPT ![f] =
                    IF resolves(f, terms') THEN [state |-> "recorded", by |-> resolve_fragment(f, terms').by]
                                           ELSE rows[f]]

\* Record and Ignore; a key the row's copy holds is confirmed first.
Record ==
    /\ step = 2
    /\ \E f \in DOMAIN rows : \E key \in keysOf(f), entry \in Taught :
        /\ rows[f].state = "pending"
        /\ taught(f, key, entry)
    /\ UNCHANGED <<pick, build_, scene, out, lint, moves>>

Skip ==
    /\ step = 2
    /\ \E f \in DOMAIN rows :
        /\ rows[f].state = "pending"
        /\ rows' = [rows EXCEPT ![f].state = "skipped"]
    /\ UNCHANGED <<pick, terms, known, undone, build_, scene, out, lint, moves>>

\* What may become of the file elsewhere: a term written, deleted, emptied with its sets,
\* or a guess remembered, which says nothing when it is below HIGH.
emptied(entry) == [entry EXCEPT !.kinds = {}, !.ignore = FALSE]

changedTerms ==
    LET unknown == (UNION {keysOf(f) : f \in DOMAIN rows}) \ DOMAIN terms IN
    {[undone |-> {}, terms |-> put(terms, k, e)] : k \in unknown, e \in Elsewhere}
    \cup {[undone |-> {k}, terms |-> Restrict(terms, DOMAIN terms \ {k})] : k \in DOMAIN terms}
    \cup {[undone |-> {k}, terms |-> put(terms, k, emptied(terms[k]))] : k \in DOMAIN terms}

\* The Vocabulary window from the step's own buttons: the rows are looked at when it closes.
OpenVocabulary ==
    /\ step = 2 /\ moves < MaxMoves
    /\ moves' = moves + 1
    /\ \E c \in changedTerms :
        terms' = c.terms /\ undone' = undone \cup c.undone
    /\ known' = terms'
    /\ rows' = reresolved(rows, terms')
    /\ UNCHANGED <<pick, build_, scene, out, lint>>

\* The same window from the Tools menu, the command line, a text editor: nobody is told.
TermsChange ==
    /\ step \in {2, 3} /\ moves < MaxMoves
    /\ moves' = moves + 1
    /\ \E c \in changedTerms :
        terms' = c.terms /\ undone' = undone \cup c.undone
    /\ UNCHANGED <<pick, known, rows, build_, scene, out, lint>>

-----------------------------------------------------------------------------
(* Scene and Save                                                          *)

sceneOf(s, d, p, o) == CASE s = "doctor" -> d [] s = "pull" -> p [] s = "file" -> o

\* _populate_table: per segment, the channels found and the kinds missing.
tableOf(r, sc) ==
    [i \in DOMAIN r.segments |->
        LET s == r.segments[i].segment IN
        [found |-> UNION {channels_of(sc, k) : k \in s.expects}, missing |-> missingKinds(s, sc)]]

\* _refresh_table: the table of the scene there is now, and Continue only with one.
refreshed(r, sc) ==
    /\ table' = IF r = None \/ sc = None THEN << >> ELSE tableOf(r, sc)
    /\ enabled' = (r # None /\ sc # None)

_preselect_source ==
    IF doctor # None THEN "doctor" ELSE IF pulled # None THEN "pull"
    ELSE IF opened # None THEN "file" ELSE "doctor"

\* refresh_result: the sheet once more, with the vocabulary on disk now.
refresh_result == build(sheetOf[xlsx], fields, terms)

\* show_scene_step; a vocabulary that cannot be read leaves the page where it is.
Preview ==
    /\ step = 2
    /\ step' = 3
    /\ result' = refresh_result
    /\ source' = _preselect_source
    /\ refreshed(result', sceneOf(source', doctor, pulled, opened))
    /\ UNCHANGED <<xlsx, call, grid, teach, fields, doctor, pulled, opened, chosen, out, lint, moves>>

ChooseSource ==
    /\ step = 3
    /\ source' \in {s \in Sources : s = "pull" => pulled # None}
    /\ refreshed(result, sceneOf(source', doctor, pulled, opened))
    /\ UNCHANGED <<pick, teach, build_, doctor, pulled, opened, chosen, out, lint, moves>>

\* _open_file: a file that cannot be read forgets the one before it.
OpenSceneFile ==
    /\ step = 3 /\ source = "file"
    /\ opened' \in Scenes \cup {None}
    /\ refreshed(result, opened')
    /\ UNCHANGED <<pick, teach, build_, doctor, pulled, source, chosen, out, lint, moves>>

\* The window opens another scene: set_session keeps it, the table is not told.
WindowOpens ==
    /\ step \in {2, 3} /\ moves < MaxMoves
    /\ moves' = moves + 1
    /\ doctor' \in Scenes
    /\ UNCHANGED <<pick, teach, build_, pulled, opened, source, table, enabled, chosen, out, lint>>

\* The Console page pulls one: the window's scene, and the step's third source.
Pull ==
    /\ step \in {2, 3} /\ moves < MaxMoves
    /\ moves' = moves + 1
    /\ doctor' \in Scenes /\ pulled' = doctor'
    /\ refreshed(IF step = 2 THEN None ELSE result, sceneOf(source, doctor', pulled', opened))
    /\ UNCHANGED <<pick, teach, build_, opened, source, chosen, out, lint>>

\* Mutant of continued: the table on the page is left as it is.
continuedAsShown(sc) == UNCHANGED <<table, enabled>>

\* _continue: the table is filled again first.
continued(sc) == refreshed(result, sc)

\* finish_scene, after Continue or Skip.
finish_scene(sc) ==
    /\ chosen' = sc
    /\ preview' = render(xlsx, result, sc)
    /\ step' = 4

Continue ==
    /\ step = 3 /\ enabled
    /\ LET sc == sceneOf(source, doctor, pulled, opened) IN continued(sc) /\ finish_scene(sc)
    /\ UNCHANGED <<xlsx, call, grid, teach, build_, doctor, pulled, opened, source, saved, lint, moves>>

SkipScene ==
    /\ step = 3
    /\ finish_scene(None)
    /\ UNCHANGED <<xlsx, call, grid, teach, build_, doctor, pulled, opened, source, table, enabled, saved, lint, moves>>

\* write_output: what the preview shows, and nothing rendered anew.
Save ==
    /\ step = 4
    /\ saved' = preview
    /\ UNCHANGED <<pick, teach, build_, scene, preview, lint, moves>>

-----------------------------------------------------------------------------
(* The lint dialog, over the Pick step                                     *)

\* _lint.
linted(file) ==
    [listed |-> IF file # Torn /\ loadable(file) THEN anomalies(file) ELSE {},
     enabled |-> file # Torn /\ loadable(file) /\ \E a \in anomalies(file) : is_fixable_anomaly(a)]

OpenLint ==
    /\ step = 0 /\ xlsx = None /\ call = None /\ lint = None
    /\ \E d \in Documents :
        lint' = [file |-> d, bak |-> None, edited |-> FALSE,
                 listed |-> linted(d).listed, enabled |-> linted(d).enabled]
    /\ UNCHANGED <<pick, teach, build_, scene, out, moves>>

\* The file is written in an editor meanwhile.
EditFile ==
    /\ lint # None /\ ~lint.edited
    /\ \E d \in Documents : lint' = [lint EXCEPT !.file = d, !.edited = TRUE]
    /\ UNCHANGED <<pick, teach, build_, scene, out, moves>>

backedUp(before, after) == before

\* _fix, once the backup is made: refused, cut short, or written and linted again.  A file that
\* was cut short is refused, or reads as a shorter one that needs no repair or is cut again.
Fix ==
    /\ lint # None /\ lint.enabled
    /\ LET file == lint.file IN
       \/ lint' = [lint EXCEPT !.bak = backedUp(file, file)]
       \/ /\ file = Torn
          /\ lint' = [lint EXCEPT !.bak = backedUp(file, file),
                                  !.listed = linted(file).listed, !.enabled = linted(file).enabled]
       \/ /\ file # Torn /\ repairable(file)
          /\ lint' = [lint EXCEPT !.bak = backedUp(file, Torn), !.file = Torn]
       \/ /\ file # Torn /\ repairable(file)
          /\ LET after == apply_repairs(file) IN
             lint' = [lint EXCEPT !.bak = backedUp(file, after), !.file = after,
                                  !.listed = linted(after).listed, !.enabled = linted(after).enabled]
    /\ UNCHANGED <<pick, teach, build_, scene, out, moves>>

CloseLint ==
    /\ lint # None
    /\ lint' = None
    /\ UNCHANGED <<pick, teach, build_, scene, out, moves>>

-----------------------------------------------------------------------------

Init ==
    /\ step = 0 /\ xlsx = None /\ call = None /\ grid = Nothing
    /\ fields = None /\ result = None
    /\ terms \in Initial /\ known = terms /\ rows = Nothing /\ undone = {}
    /\ doctor \in Scenes \cup {None} /\ pulled = None /\ opened = None
    /\ source = "doctor" /\ table = << >> /\ enabled = FALSE /\ chosen = None
    /\ preview = None /\ saved = None
    /\ lint = None /\ moves = 0

Next == \/ PickFile \/ ProposalArrives \/ CallEnds \/ TryAi \/ Back \/ EditGrid \/ Next_
        \/ Record \/ Skip \/ OpenVocabulary \/ TermsChange
        \/ Preview \/ ChooseSource \/ OpenSceneFile \/ WindowOpens \/ Pull \/ Continue \/ SkipScene \/ Save
        \/ OpenLint \/ EditFile \/ Fix \/ CloseLint

Spec == Init /\ [][Next]_vars

-----------------------------------------------------------------------------
(* Properties                                                              *)

\* Every row of the sheet is a segment or a comment, in order; of a titled row every cell of a
\* column that has a heading or a field is in its segment or in its comments; a fragment is
\* understood, ignored on purpose or kept; and nothing is expected that no fragment said.  Not
\* kept: the cells of a column with neither, and of a row with no title all but its id, its
\* performers, its note and its time.
RowIsKept(row, built, sheet, mapping, vocabulary) ==
    LET mapped(f) == IF f \in DOMAIN mapping THEN row.cells[mapping[f]] ELSE << >>
        spoken == ToSet(mapped("performers"))
        saidBy(f) == resolve_fragment(f, vocabulary).kinds IN
    /\ built.row = row.number
    /\ \A c \in headed(sheet) \cup Range(mapping) :
        \/ blank(row.cells[c]) \/ c \in built.comments.columns
        \/ \E f \in DOMAIN mapping :
            mapping[f] = c /\ f \in built.segment.kept \cup built.comments.kept \cup {"id", "title", "performers"}
    /\ \A f \in spoken :
        f \in built.comments.unread \/ resolve_fragment(f, vocabulary).ignored
            \/ (saidBy(f) # {} /\ saidBy(f) \subseteq built.segment.expects)
    /\ \A k \in built.segment.expects : \E f \in spoken : k \in saidBy(f)

SheetIsKept(made, sheet, mapping, vocabulary) ==
    LET isTitled(row) == "title" \in DOMAIN mapping /\ ~blank(row.cells[mapping["title"]])
        titled == selected(sheet.rows, {row \in ToSet(sheet.rows) : isTitled(row)}) IN
    /\ Len(made.segments) + Len(made.loose) = Len(sheet.rows)
    /\ Len(made.segments) = Len(titled)
    /\ \A i \in DOMAIN titled : RowIsKept(titled[i], made.segments[i], sheet, mapping, vocabulary)

NothingLost == [][result' # result => SheetIsKept(result', sheetOf[xlsx], fields', terms)]_vars

\* What the comments of an import seem to say of a text nobody could read, and do not: a fragment
\* that is spelled otherwise in the sheet, a name that a note or another cell quotes.
misread(made) ==
    UNION {LET c == made.segments[i].comments IN
           {readBack(f) : f \in {g \in c.unread : readBack(g) # g}} \cup namedIn(c) : i \in DOMAIN made.segments}

\* What the Terms step says was recorded, or cleared by another row, is not a comment in
\* the file, unless one of the terms it was owed to was taken away since, or the row was never
\* a fragment of the sheet: one that came back escaped from its comment, or that a note quotes,
\* is recorded and stays a comment.  (A fragment with an apostrophe has no row to be taught in.)
TaughtIsImported ==
    \A f \in DOMAIN rows :
        rows[f].state \in {"recorded", "resolved"} /\ rows[f].by \cap undone = {}
        => /\ step = 2 => resolves(f, terms)
           /\ step > 2 /\ f \in unresolved_terms(result) => f \in misread(result)

\* The table on the page at Continue is the file's join with the scene: a channel it shows
\* is proposed in that segment's comment, and the kinds it calls missing are the ones Q4
\* will report of the file beside that scene.
TableJoins(shown, doc, sc) ==
    LET unmet == {k \in DOMAIN build_expectations(parse_show_context(doc)) : is_unmet(sc, k)} IN
    /\ DOMAIN shown = DOMAIN doc.segments
    /\ \A i \in DOMAIN shown : shown[i].found = doc.segments[i].proposed
    /\ UNION {shown[i].missing : i \in DOMAIN shown} = unmet

TableIsEmitted == [][step = 3 /\ step' = 4 /\ chosen' # None => TableJoins(table', preview', chosen')]_vars

\* What Save writes, the loader reads: no id refused, no kind repaired, every segment with
\* the expectations that were reviewed.
SavedLoads ==
    saved # None =>
        /\ loadable(saved) /\ anomalies(saved) = {}
        /\ LET segments == parse_show_context(saved) IN
           /\ Len(segments) = Len(result.segments)
           /\ \A i \in DOMAIN segments :
                ToSet(segments[i].expects) = result.segments[i].segment.expects
        /\ saved.show = xlsx

\* A Fix says again what the file already said: the loader reads the repaired file as it
\* read the one before, with only the anomalies left that Fix does not touch; and until the dialog
\* is closed the file as it was is beside it, whether the Fix was refused, cut short or done.  But
\* for a Fix of a file that an earlier one cut short: it is still offered, and it puts the torn
\* file in the place of the only whole copy.
MeansTheSame(before, after) ==
    /\ after.bak = before.file
    /\ after.file \notin {Torn, before.file} /\ loadable(before.file) =>
        /\ loadable(after.file)
        /\ parse_show_context(after.file) = parse_show_context(before.file)
        /\ after.listed = {a \in anomalies(before.file) : ~a.fixable}
        /\ ~after.enabled

FixKeepsMeaning ==
    [][lint # None /\ lint' # None /\ lint'.edited = lint.edited /\ lint' # lint /\ lint.file # Torn
        => MeansTheSame(lint, lint')]_vars

=============================================================================
