------------------------------ MODULE WriteLog ------------------------------
(***************************************************************************)
(* The append-only JSONL store of writelog/: one file per show code, one   *)
(* line per settled write or revert (store.append), and what its readers   *)
(* make of a file (read_show).  Operators only:                            *)
(* the files are the state of the modules that keep a log.                 *)
(*                                                                         *)
(* A file is a sequence of pieces, each what one append left behind:       *)
(* "line" with its newline, or torn -- "half" when the cut fell between    *)
(* two characters, "byte" when it fell inside one (the text is written     *)
(* with ensure_ascii=False, so a Vietnamese show name is multi-byte).      *)
(***************************************************************************)
EXTENDS Naturals, Sequences, FiniteSets

Cuts == {"bare", "half", "byte"}
Pieces(Entries) == [cut : Cuts \cup {"line"}, entry : Entries]

\* store.append: the text is added at the end of the file, wherever that is.
append(file, entry, cut) == Append(file, [cut |-> cut, entry |-> entry])

torn(piece) == piece.cut # "line"

\* read_text: one byte sequence that is no character and the whole file is unreadable.
decodes(file) == \A i \in DOMAIN file : file[i].cut # "byte"

\* splitlines: a torn piece has no newline, so the next append continues its line.
startsLine(file, i) == i = 1 \/ ~torn(file[i - 1])

\* A line is an entry when it is one whole piece; a joined or torn one is skipped.
parses(file, i) ==
    /\ startsLine(file, i)
    /\ file[i].cut = "line" \/ (file[i].cut = "bare" /\ i = Len(file))

\* read_show: the entries, the number of lines skipped, or an error for the whole file.
entriesOf(file) == {file[i].entry : i \in {j \in DOMAIN file : parses(file, j)}}
skippedIn(file) ==
    Cardinality({i \in DOMAIN file : startsLine(file, i) /\ ~parses(file, i)})
read_show(file) ==
    IF decodes(file)
    THEN [error |-> FALSE, entries |-> entriesOf(file), skipped |-> skippedIn(file)]
    ELSE [error |-> TRUE, entries |-> {}, skipped |-> 0]

=============================================================================
