---------------------------- MODULE RunningOrder ----------------------------
(***************************************************************************)
(* From a producer's spreadsheet to segments: the mapping of fields to     *)
(* columns (showcontext/ingest/mapping.py, suggest.py), the lookup of a    *)
(* performer fragment in the vocabulary and then in patterns.yaml          *)
(* (keywords.py, build.resolve_fragment, classifier/matcher.py), the       *)
(* segments with their ids (build.py), their join with a scene             *)
(* (propose.py) and the document that is written (emit.py).                *)
(*                                                                         *)
(* A text is a sequence of words, a cell a sequence of fragments split at  *)
(* the separators, << >> when it is blank.  An id is a name, a number and  *)
(* the suffixes put behind it: S with <<1, 2>> is S1-2.  Columns are       *)
(* counted from 1.  The order of a segment's kinds and the wording of its  *)
(* comments are left out.                                                  *)
(***************************************************************************)
EXTENDS Naturals, Sequences, SequencesExt, FiniteSets, Functions, TLC

CONSTANTS
    Words,
    folded,     \* keywords.fold of each word: case, tone marks, punctuation
    Spelled,    \* pairs of folded words, the first a piece of the second
    Patterns,   \* patterns.yaml, "channels": [words, kind, confidence] in file order
    Lowered,    \* the names of ids and their lower case
    identified, \* the id that a cell of the id column reads as
    respelled,  \* what a fragment comes back as from its comment, None for nothing, if not itself
    named,      \* what the comment that quotes a cell says it could not read, without saying so
    None

HIGH == 80      \* matcher.HIGH, in hundredths

FIELDS == {"id", "title", "time", "performers", "note", "sound", "lighting", "led"}
LETTER_FIELDS == {"id", "time", "title"}
TEXT_FIELDS == FIELDS \ LETTER_FIELDS

known_kinds == {Patterns[i].kind : i \in DOMAIN Patterns}
Cells == Seq(Seq(Words))
Ids == [name : DOMAIN Lowered, numbers : Seq(Nat)]

\* Of different words the longest is no piece of another.
ASSUME RunningOrderAssumption ==
    /\ folded \in [Words -> Words]
    /\ \A w \in Words : folded[folded[w]] = folded[w]
    /\ \A some \in SUBSET Words :
            some # {} /\ IsFiniteSet(some) => \E w \in some : \A v \in some : <<w, v>> \notin Spelled
    /\ Patterns \in Seq([words : Seq(Words), kind : known_kinds, confidence : 0..100])
    /\ Lowered \in [DOMAIN Lowered -> DOMAIN Lowered] /\ "S" \in DOMAIN Lowered
    /\ \A cell \in DOMAIN identified : identified[cell] \in Ids
    /\ \A fragment \in DOMAIN respelled : respelled[fragment] = None \/ respelled[fragment] \in Seq(Words)
    /\ \A cell \in DOMAIN named : named[cell] \in Seq(Words)

-----------------------------------------------------------------------------
(* Columns                                                                 *)

blank(cell) == cell = << >>

\* SheetRead.headers: the columns with a heading.
headed(sheet) == {c \in DOMAIN sheet.headers : sheet.headers[c] # None}

\* SheetRead.last_column: the last column that holds anything.
last_column(sheet) ==
    LET holding == headed(sheet) \cup
            UNION {{c \in DOMAIN sheet.rows[r].cells : ~blank(sheet.rows[r].cells[c])} : r \in DOMAIN sheet.rows}
    IN IF holding = {} THEN 0 ELSE CHOOSE c \in holding : \A d \in holding : d <= c

reading(sheet, heading) == {c \in headed(sheet) : sheet.headers[c] = heading}

\* resolve_columns raises unless this holds.
resolvable(map, sheet) ==
    /\ DOMAIN map.columns \cap DOMAIN map.headers = {}
    /\ DOMAIN map.columns \cup DOMAIN map.headers \subseteq FIELDS
    /\ \A f \in DOMAIN map.columns : map.columns[f] \in headed(sheet) \cup 1..last_column(sheet)
    /\ \A f \in DOMAIN map.headers : Cardinality(reading(sheet, map.headers[f])) = 1
    /\ "title" \in DOMAIN map.columns \cup DOMAIN map.headers

resolve_columns(map, sheet) ==
    [f \in DOMAIN map.columns \cup DOMAIN map.headers |->
        IF f \in DOMAIN map.columns THEN map.columns[f]
                                    ELSE CHOOSE c \in reading(sheet, map.headers[f]) : TRUE]

\* check_proposal: what the model claims, against the workbook.
check_proposal(map, sheet) ==
    /\ \A f \in DOMAIN map.columns : map.columns[f] \in headed(sheet) \cup {last_column(sheet)}
    /\ "title" \in DOMAIN map.columns

-----------------------------------------------------------------------------
(* Fragments                                                               *)

fold(text) == [i \in DOMAIN text |-> folded[text[i]]]

\* _contains_word: a whole word, or phrase, of the text.
occurs(phrase, text) == \E i \in 1..Len(text) : i + Len(phrase) - 1 <= Len(text) /\ SubSeq(text, i, i + Len(phrase) - 1) = phrase

\* `folded_key in fold(other.key)`: spelled inside it, at word boundaries or not.
spelledIn(key, other) ==
    /\ key # other
    /\ \/ occurs(key, other)
       \/ Len(key) = 1 /\ \E i \in DOMAIN other : <<key[1], other[i]>> \in Spelled

says(entry) == entry.kinds # {} \/ entry.ignore

\* Mutant of exactly: an exact term hides the others, whether it says anything or not.
exactlyAnything(text, terms) == {k \in DOMAIN terms : terms[k].match = "exact" /\ k = fold(text)}

\* The exact stage: a term with no kinds and no ignore is no hit.
exactly(text, terms) ==
    {k \in DOMAIN terms : terms[k].match = "exact" /\ k = fold(text) /\ says(terms[k])}

\* The word stage: the hits that say something, the longest of those spelled in one another.
wordHits(text, terms) ==
    LET hits == {k \in DOMAIN terms : terms[k].match = "word" /\ occurs(k, fold(text)) /\ says(terms[k])}
    IN {k \in hits : ~\E other \in hits : spelledIn(k, other)}

\* keywords.match, with the terms it is owed to.
match(text, terms) ==
    LET exact == exactly(text, terms)
        hits == IF exact # {} THEN exact ELSE wordHits(text, terms) IN
    [kinds |-> UNION {terms[k].kinds : k \in {h \in hits : h \in exact \/ ~terms[h].ignore}},
     ignored |-> hits # {} /\ \A k \in hits : terms[k].ignore,
     by |-> hits]

\* matcher.classify: the surest pattern, then the longest, then the first.
classify(text) ==
    LET hits == {i \in DOMAIN Patterns : occurs(Patterns[i].words, text)}
        outranks(i, j) == \/ Patterns[i].confidence > Patterns[j].confidence
                          \/ /\ Patterns[i].confidence = Patterns[j].confidence
                             /\ \/ Len(Patterns[i].words) > Len(Patterns[j].words)
                                \/ Len(Patterns[i].words) = Len(Patterns[j].words) /\ i <= j
    IN IF hits = {} THEN [kind |-> None, confidence |-> 0]
       ELSE LET best == CHOOSE i \in hits : \A j \in hits : outranks(i, j)
            IN [kind |-> Patterns[best].kind, confidence |-> Patterns[best].confidence]

is_confident(c) == c.confidence >= HIGH

\* Vocabulary first, pattern matcher second, nothing third.
resolve_fragment(text, terms) ==
    LET found == match(text, terms)
        pattern == classify(text) IN
    IF found.kinds # {} \/ found.ignored THEN found
    ELSE [kinds |-> IF is_confident(pattern) THEN {pattern.kind} ELSE {}, ignored |-> FALSE, by |-> {}]

resolves(text, terms) == LET r == resolve_fragment(text, terms) IN r.kinds # {} \/ r.ignored

-----------------------------------------------------------------------------
(* Segments                                                                *)

\* Mutant of _fold: ids are told apart as they are written.
asWritten(id) == id

\* The loader's own rule, kept in step with it by hand.
_fold(id) == [id EXCEPT !.name = Lowered[@]]

suffixed(id, n) == [id EXCEPT !.numbers = Append(@, n)]
numbered(n) == [name |-> "S", numbers |-> <<n>>]

\* _unique: S1 again becomes S1-2, then S1-3.
_unique(id, used) ==
    LET free == {n \in 2..(Cardinality(used) + 2) : _fold(suffixed(id, n)) \notin used}
    IN suffixed(id, CHOOSE n \in free : \A m \in free : n <= m)

\* The next generated id that the sheet has not spent already.
nextFree(generated, used) ==
    LET free == {n \in (generated + 1)..(generated + Cardinality(used) + 1) : _fold(numbered(n)) \notin used}
    IN CHOOSE n \in free : \A m \in free : n <= m

\* The id of the next segment, with what the rows above have used.
idOf(written, done) ==
    IF blank(written) THEN numbered(nextFree(done.generated, done.used))
    ELSE IF _fold(identified[written]) \in done.used THEN _unique(identified[written], done.used)
    ELSE identified[written]

\* _cell: blank for a field that is not mapped.
_cell(row, fields, f) == IF f \in DOMAIN fields THEN row.cells[fields[f]] ELSE << >>

\* _expectations, over the fragments of the cell.
unread(cell, terms) == {cell[i] : i \in {i \in DOMAIN cell : ~resolves(cell[i], terms)}}
expected(cell, terms) == UNION {resolve_fragment(cell[i], terms).kinds : i \in DOMAIN cell}

\* Mutant of otherColumns: the columns nothing is mapped to are not looked at.
noOtherColumns(row, fields, sheet) == {}

\* The headed columns no field is mapped to, kept as comments.
otherColumns(row, fields, sheet) == {c \in headed(sheet) \ Range(fields) : ~blank(row.cells[c])}

\* What a row with no title leaves behind.
loose(row, fields) ==
    [row |-> row.number,
     kept |-> {f \in {"id", "performers", "note", "time"} : ~blank(_cell(row, fields, f))}]

\* The cells a row's other comments quote: its time, its note, other columns, an id used above.
quoted(row, fields, sheet, id) ==
    {_cell(row, fields, f) : f \in {"time", "note"}}
    \cup {row.cells[c] : c \in otherColumns(row, fields, sheet)}
    \cup {cell \in {_cell(row, fields, "id")} : ~blank(cell) /\ identified[cell] # id}

\* The row's comments: the fragments nobody could read, the time, the note, other columns.
comments(row, fields, sheet, terms, id) ==
    [unread |-> unread(_cell(row, fields, "performers"), terms),
     kept |-> {f \in {"time", "note"} : ~blank(_cell(row, fields, f))},
     columns |-> otherColumns(row, fields, sheet),
     quoted |-> quoted(row, fields, sheet, id)]

segmentOf(row, fields, terms, id) ==
    [id |-> id, title |-> _cell(row, fields, "title"),
     expects |-> expected(_cell(row, fields, "performers"), terms),
     kept |-> {f \in {"sound", "lighting", "led"} : ~blank(_cell(row, fields, f))}]

\* build.build: a row with a title is a segment, one without a comment.
blankSheet == [segments |-> << >>, loose |-> << >>, generated |-> 0, used |-> {}]

rowBuilt(done, row, sheet, fields, terms) ==
    LET written == _cell(row, fields, "id")
        id == idOf(written, done)
    IN IF blank(_cell(row, fields, "title"))
       THEN [done EXCEPT !.loose = Append(@, loose(row, fields))]
       ELSE [segments |-> Append(done.segments, [row |-> row.number,
                                                 segment |-> segmentOf(row, fields, terms, id),
                                                 comments |-> comments(row, fields, sheet, terms, id)]),
             loose |-> done.loose,
             generated |-> IF blank(written) THEN nextFree(done.generated, done.used) ELSE done.generated,
             used |-> done.used \cup {_fold(id)}]

build(sheet, fields, terms) ==
    LET after[i \in 0..Len(sheet.rows)] ==
            IF i = 0 THEN blankSheet
            ELSE rowBuilt(after[i - 1], sheet.rows[i], sheet, fields, terms)
        end == after[Len(sheet.rows)]
    IN [segments |-> end.segments, loose |-> end.loose]

Results ==
    [segments : Seq([row : Nat,
                     segment : [id : Ids, title : Cells, expects : SUBSET known_kinds, kept : SUBSET FIELDS],
                     comments : [unread : SUBSET Seq(Words), kept : SUBSET FIELDS, columns : SUBSET Nat,
                                 quoted : SUBSET Cells]]),
     loose : Seq([row : Nat, kept : SUBSET FIELDS])]
ASSUME NoneAssumption == None \notin Results

\* A fragment is put in its comment as Python writes it, and read back by a pattern: a character
\* that does not print comes back escaped, and one with an apostrophe, in other quotes, not at all.
readBack(fragment) == IF fragment \in DOMAIN respelled THEN respelled[fragment] ELSE fragment

\* A note, a time, another column or an id that quotes a performer is read back as well.
namedIn(c) == {named[cell] : cell \in c.quoted \cap DOMAIN named}

\* guess.unresolved_terms: read back from the comments.
unresolved_terms(result) ==
    UNION {LET c == result.segments[i].comments IN ({readBack(f) : f \in c.unread} \ {None}) \cup namedIn(c) :
           i \in DOMAIN result.segments}

-----------------------------------------------------------------------------
(* The join with a scene, and the document                                 *)

\* channels_of: the channels a kind is confidently found on.
channels_of(scene, kind) == {n \in DOMAIN scene : scene[n].kind = kind /\ scene[n].confidence >= HIGH}

\* missing_for_segments, for one segment.
missingKinds(segment, scene) == {k \in segment.expects : channels_of(scene, k) = {}}

\* for_segments: the channels of the cue proposed above a segment, none without a match.
proposal(segment, scene) ==
    IF scene = None THEN {} ELSE UNION {channels_of(scene, k) : k \in segment.expects}

\* emit.render: segments without cues, everything else in comments.
render(show, result, scene) ==
    [show |-> show,
     segments |-> [i \in DOMAIN result.segments |->
        LET s == result.segments[i].segment IN
        [id |-> s.id, expects |-> SetToSeq(s.expects), cues |-> << >>, time |-> None,
         proposed |-> proposal(s, scene)]]]

=============================================================================
