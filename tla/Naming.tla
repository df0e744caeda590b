------------------------------- MODULE Naming -------------------------------
(***************************************************************************)
(* What the names of a scene stand for: a Classifier per process           *)
(* (classifier/resolve.py) that looks a name up in classifier.yaml         *)
(* (classifier/cache.py), then in the patterns (classifier/matcher.py),    *)
(* then asks a model (classifier/llm.py), and writes what the model said   *)
(* back when the command ends.                                             *)
(*                                                                         *)
(* Confidence is in ten-thousandths, because the file keeps three digits.  *)
(* cache.remember reads the whole file, sets one entry and renames a new   *)
(* file over it, without a lock: between the two anybody else may write.   *)
(***************************************************************************)
EXTENDS Provider, Integers, Functions

CONSTANTS
    Names,      \* as they are typed on the desk
    domain,     \* what carries each name: a channel or a bus
    clean,      \* what a name is looked up by, its domain and what normalize.clean leaves
                \* of it; None where nothing is left
    patterns,   \* what the best pattern makes of each key, or UNKNOWN
    Guesses,    \* what a model may say of a name
    ByHand,     \* what a person writes into the file
    Commands,   \* the commands that may run, some at the same time
    MaxEdits,   \* bound: edits of files by hand
    Lost        \* told, and taken back by a write that overlapped the one that told it

LOW == 4000
HIGH == 8000
Named == {n \in Names : clean[n] # None}
Cleaned == {clean[n] : n \in Named}
Confidences == 0..10000
Answers == [kind : STRING, conf : Confidences, origin : STRING]
UNKNOWN == [kind |-> "unknown", conf |-> 0, origin |-> "none"]

\* Where a command stands, what its Classifier has still to write, and all it knows.
Stages == {"rules", "names", "suppressed", "event", "flush", "done"}
Pending == Seq([key : Cleaned, gives : Answers])
Copies == [doc : [Cleaned -> Answers \cup {None}], overlapped : BOOLEAN]
Classifiers ==
    [at : Stages, disk : [Cleaned -> Answers \cup {None}] \cup {None},
     memo : UNION {[S -> Answers] : S \in SUBSET Cleaned}, pending : Pending]

ASSUME NamingAssumption ==
    /\ DOMAIN clean = Names /\ domain \in [Names -> {"channel", "bus"}]
    /\ Lost \notin Answers \cup {None}
    /\ patterns \in [Cleaned -> Answers] /\ Guesses \subseteq Answers /\ ByHand \subseteq Answers
    /\ None \notin Answers /\ None \notin [Cleaned -> Answers \cup {None}] /\ None \notin Classifiers \cup Copies
    /\ MaxEdits \in Nat

VARIABLES
    entries,    \* classifier.yaml: an answer per key, or None
    copy,       \* per command, the file between the read and the rename of a remember
    proc,       \* each command: None until it starts, then its Classifier
    edits,
    told,       \* history: what the last flush wrote of a key, None once it was edited by
                \* hand, Lost once an overlapped write put an older entry back
    at_start,   \* history: told, when each command read the file
    asked       \* history: how often each command asked a model

kept == <<entries, copy, edits, told, at_start, asked>>
naming == <<kept, proc>>

-----------------------------------------------------------------------------

is_confident(a) == a.conf >= HIGH
is_usable(a) == a.conf >= LOW

\* cache.remember: three digits of the confidence.
three_digits(conf) == ((conf + 5) \div 10) * 10
rounded(a) == [a EXCEPT !.conf = three_digits(@)]

\* Classifier.__init__: nothing is read yet.
started(at) == [at |-> at, disk |-> None, memo |-> << >>, pending |-> << >>]

\* Mutant of memoKey: by the name as typed.
asTyped(n) == n

memoKey(n) == clean[n]

\* available, _ask and classify: the Anthropic adapter with the key of its variable; no
\* key, the kill switch, any failure and an answer that is no answer come to nothing.
guesses == {None} \cup IF ~kill /\ environ["ANTHROPIC_API_KEY"] = "good" THEN Guesses ELSE {}

settles(found) == is_confident(found)

\* The memo holds the answer from now on.
memoized(memo, k, a) == [x \in {k} \cup DOMAIN memo |-> IF x = k THEN a ELSE memo[x]]

\* A command takes an answer for a name; a model's is to be remembered.
takes(c, n, disk, a, pending, asks) ==
    /\ proc' = [proc EXCEPT ![c] = [@ EXCEPT !.disk = disk, !.pending = pending,
                                             !.memo = memoized(proc[c].memo, memoKey(n), a)]]
    /\ asked' = [asked EXCEPT ![c][clean[n]] = @ + asks]

\* _cached: the file is read on first use.
readBy(c) == IF proc[c].disk = None THEN entries ELSE proc[c].disk

\* resolve and _first_answer, for a name that is not memoized.
Resolve(c, n) ==
    /\ memoKey(n) \notin DOMAIN proc[c].memo
    /\ LET disk == readBy(c)
           found == patterns[clean[n]]
           pending == proc[c].pending
       IN IF disk[clean[n]] # None THEN takes(c, n, disk, disk[clean[n]], pending, 0)
          ELSE IF settles(found) THEN takes(c, n, disk, found, pending, 0)
          ELSE \E guess \in guesses :
                 IF guess = None THEN takes(c, n, disk, found, pending, 1)
                 ELSE takes(c, n, disk, guess, Append(pending, [key |-> clean[n], gives |-> guess]), 1)
    /\ at_start' = [at_start EXCEPT ![c] = IF proc[c].disk = None THEN told ELSE @]
    /\ UNCHANGED <<entries, copy, edits, told>>

unresolved(c) == {n \in Named : memoKey(n) \notin DOMAIN proc[c].memo}

\* What a name is taken for; where nothing is left of it, nobody is asked.
source_type(c, n) == IF clean[n] = None THEN UNKNOWN ELSE proc[c].memo[memoKey(n)]

\* Mutant of _read: remember starts from the copy this command looked names up in.
_readOnce(c) == readBy(c)

\* cache._read, by remember: the file as it is now.
_read(c) == entries

\* Somebody writes the file while others are between their read and their rename.
overlapped ==
    [c \in Commands |-> IF copy[c] = None THEN None ELSE [copy[c] EXCEPT !.overlapped = TRUE]]

rememberReads(c) ==
    /\ copy[c] = None
    /\ copy' = [copy EXCEPT ![c] = [doc |-> _read(c), overlapped |-> FALSE]]
    /\ UNCHANGED <<entries, proc, told>>

\* What is told from now on: the answer written, and of the rest what an overlapped write
\* left as it was told.
tellsOf(c, k, a) ==
    [x \in Cleaned |->
        IF x = k THEN a
        ELSE IF /\ copy[c].overlapped /\ told[x] \notin {None, Lost}
                /\ copy[c].doc[x] # rounded(told[x])
        THEN Lost ELSE told[x]]

\* One entry set in what was read, and the whole of it put back (cache._write).
rememberWrites(c) ==
    /\ copy[c] # None
    /\ LET first == Head(proc[c].pending) IN
       /\ entries' = [copy[c].doc EXCEPT ![first.key] = rounded(first.gives)]
       /\ told' = tellsOf(c, first.key, first.gives)
    /\ copy' = [overlapped EXCEPT ![c] = None]
    /\ proc' = [proc EXCEPT ![c].pending = Tail(@)]

\* flush: one entry after the other; other commands and other hands come in between.
Flush(c) ==
    /\ proc[c].pending # << >>
    /\ rememberReads(c) \/ rememberWrites(c)
    /\ UNCHANGED <<edits, at_start, asked>>

\* A person writes an entry, or takes one out.
EditEntry ==
    /\ edits < MaxEdits
    /\ edits' = edits + 1
    /\ \E k \in Cleaned, a \in {None} \cup ByHand :
        /\ entries' = [entries EXCEPT ![k] = a]
        /\ told' = [told EXCEPT ![k] = None]
    /\ copy' = overlapped
    /\ UNCHANGED <<proc, at_start, asked>>

NamingInit ==
    /\ entries \in [Cleaned -> {None}]
    /\ copy = [c \in Commands |-> None]
    /\ proc = [c \in Commands |-> None]
    /\ edits = 0
    /\ told = entries /\ at_start = [c \in Commands |-> entries]
    /\ asked = [c \in Commands |-> [k \in Cleaned |-> 0]]

-----------------------------------------------------------------------------
(* Properties                                                              *)

\* A model is asked at most once per name by a command, however the name is spelled and
\* whether or not it answered, and never for a name the file it read had an answer to.
\* What one command wrote no later command asks again, with one exception: two commands
\* whose flushes overlap can lose an entry (cache.remember takes no lock), and the next
\* command pays for that name once more, where cache.py promises "only ever resolved once".
AskedOnce ==
    \A c \in Commands, k \in Cleaned :
        /\ asked[c][k] <= 1
        /\ at_start[c][k] \notin {None, Lost} => asked[c][k] = 0

\* What a command was told by a model, a command that reads the file after it wrote it is
\* told again: the same kind, as confident but for the last digit, and never dropped below
\* the confidence the rules ask for; but for an entry that overlapping flushes lost.
SameNextTime ==
    \A c \in Commands : proc[c] # None =>
        \A k \in Cleaned \cap DOMAIN proc[c].memo :
            LET before == at_start[c][k]
                now == proc[c].memo[k]
            IN before \notin {None, Lost} =>
                /\ now.kind = before.kind
                /\ now.conf \in (before.conf - 5)..(before.conf + 5)
                /\ is_usable(before) => is_usable(now)

=============================================================================
