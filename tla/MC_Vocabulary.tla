---------------------------- MODULE MC_Vocabulary ----------------------------
(* The shipped shape -- band nests the drum kit -- with a set of the user's *)
(* own and a term.                                                         *)
EXTENDS Vocabulary, TLC
CONSTANTS drums, band, stage, sheetTerm, kick, vocal, misspelt
TheSets == {drums, band, stage}
OneTerm == {sheetTerm}
KnownKinds == {kick, vocal}
entry(kinds, sets) == [kinds |-> kinds, sets |-> sets, ignore |-> FALSE]
ignored == [kinds |-> {}, sets |-> {}, ignore |-> TRUE]
OfferedEntries == {entry({kick}, {}), entry({}, {band}), entry({}, {stage}), ignored}
table(d, b, t) == (drums :> d) @@ (band :> b) @@ (stage :> None) @@ (sheetTerm :> t)
\* This release, and one before it that had no term.
TheReleases == {table(entry({kick}, {}), entry({vocal}, {drums}), t) : t \in {entry({}, {band}), None}}
TheHandWritten ==
    {table(None, None, None),
     table(entry({misspelt}, {}), None, entry({misspelt}, {drums})),
     table(entry({kick}, {band}), Malformed, None),
     table(Deleted, None, entry({vocal}, {drums}))}
TheWords == {kick, vocal, misspelt}
change(op, k, e) == [op |-> op, key |-> k, entry |-> e]
TheProposals ==
    {<<change("delete", drums, None), change("delete", drums, None)>>,
     <<change("edit", band, entry({vocal}, {})), change("edit", drums, entry({}, {band}))>>,
     <<change("edit", drums, entry({}, {band})), change("edit", band, entry({}, {drums}))>>,
     <<change("add", sheetTerm, entry({kick}, {})), change("add", sheetTerm, ignored)>>}
\* At most two entries of the file's own at a time.  The assistant's rows and the third
\* set are explored with nobody else writing.
entriesOf(raw) == {k \in Keys : raw[k] # None}
alone == hand["command line"] = None /\ seen \in {None, file}
Apart ==
    /\ Cardinality(entriesOf(file)) <= 2
    /\ seen # None => Cardinality(entriesOf(seen)) <= 2
    /\ rows # << >> \/ file[stage] # None => alone
    /\ rows # << >> => file[stage] = None
NothingWritten == {table(None, None, None)}
OneRemembered == {entry({vocal}, {})}
=============================================================================
