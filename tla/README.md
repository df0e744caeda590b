# wing-parser: models and proofs

TLA+ modules for the parts of `wing_parser` in which something can go wrong that
a unit test hardly reaches: the worker threads and the GUI thread that race in
the desktop app; the path a write takes from a click to a console on the network
and back into the scene and the log; the client that has to read a console over a
lossy network; the files that a window, a command and a person with a text editor
write at the same time; and the long way from a producer's spreadsheet to a show
file. TLC checks them on small instances; the theorems of eight modules are proved
by TLAPS for every instance.

## 1. The system

`wing_parser` (Python, under `src/wing_parser/`) reads a Behringer WING scene from
a file or from a console, classifies and advises on it, and, in its desktop app
(PySide6), edits it and writes single parameters back to the console.

| Part | Source | State | Operations | Interacts with |
|---|---|---|---|---|
| Call runner, registry | `ui/workers.py`, `ui/worker_registry.py` | active call, retired workers, process-wide keep-alive set | start, cancel, shutdown; result, failure, timeout delivered | a QThread per call; every panel and dialog owns one |
| Write gate, queue | `ui/write_gate.py`, `ui/write_queue.py`, `ui/apply_level.py` | arming (desk, address, level), queue, in-flight job | arm, submit, settle, close | page state (gate 1), call runner, `live_write.send` |
| A write at the desk | `ui/live_write.py`, `net/write.py` | none | identity check, datagram, read-back | UDP, on a worker thread |
| Write dialogs, ledger | `ui/write_router.py`, `ui/write_arm_dialog.py`, `ui/write_delay_*.py`, `ui/changes_*.py` | countdown, pre-flight read, rows, Revert-all run | repair, send, revert, revert all, stop, +5 s, cancel | gate, session, write log |
| Console page | `ui/console_page.py`, `ui/live_*.py`, `ui/call_button.py` | one `LiveState` in five widgets, host, identity, schema cache | connect, discover, rerun, pull, watch, cancel, disconnect | call runners, watch session, gate (closed on every way down) |
| Watch session | `ui/live_watch_session.py`, `ui/generator_worker.py`, `ui/live_guard.py`, `net/watch/poller.py` | cancel event, abandoned flag, silent rounds, previous values | start, stop, abandon, finish | a thread without a budget; posts changes and one end |
| OSC client | `net/client.py` | socket | request, get_many, rotate | the console, over UDP |
| Schema walk, snapshot | `net/schema.py`, `net/snapshot.py`, `net/nodetext.py` | frontier, leaves, unresolved | walk, recover by dump, assemble | OSC client |
| Session | `ui/session.py`, `edit/` | original document, journal | repair, undo, record_value, save | every page; scene corrections of writes |
| Write log | `writelog/`, `ui/write_log_sink.py` | one append-only file per show | append, read, list | settled writes |
| Advisory | `advisory/` | rule layers (user files), verdict log | load, resolve, evaluate | scenes |
| Classifier, vocabulary | `classifier/`, `ui/vocabulary_*.py` | one knowledge file | lookup, remember, put, delete, reset, apply proposals | a model service, through the call runner |
| Show context, import | `showcontext/`, `ui/import_*.py`, `ui/*_step.py` | wizard steps | read, map, resolve, lint, save | vocabulary |
| Core, descriptors, query | `core/`, `descriptors/`, `query/` | none | load, normalise, diff, trace | scenes |
| Command line, MCP server | `cli/`, `mcp/`, `config.py` | none | render the above | all of it |
| Window, settings, texts | the rest of `ui/` | preferences file | show | session |

`PROJECT.json` lists the same parts with what is modelled of each.

### What is hard, and what correct means

* **Call runner.** A worker's signal, the budget timer and Cancel race. Correct:
  each call ends once, late results reach nobody, an owner is never left busy, and
  no running `QThread` loses its last reference (PySide6 aborts the process).
* **Gate and queue.** A job is confirmed at one moment and sent at another; the
  desk, the arming and the page may have changed. Correct: one write on the wire,
  in order, none lost, none waiting behind a closed gate, the right desk or none, and
  "refused" means that nothing was sent.
* **Dialogs and ledger.** Modal dialogs under which reads land, countdowns expire
  and connections drop. Correct: what they believe to be on the wire is what the
  gate has; a countdown never applies blind; every result has one row; Revert all
  puts the desk back and never waits for what will not come.
* **Console page.** Five widgets share one state; cancelled calls run on in their
  threads; abandoned watches still post their end. Correct: one state, busy only
  with a call, a watch ended only by itself, no schema walked before the last connect,
  disconnect or Rerun, the gate closed on every way down, no busy state for ever.
* **OSC client.** Silence means absent, lost, or poisoned by a neighbour. Correct:
  every address accounted for, innocent neighbours recovered, absent leaves cheap.
* **Session and log.** A write settles into whichever session the window holds by
  then; an append may tear or the program die in it. Correct: the journal is a
  truthful record, the pages show the document there is, and no write that the log's
  sink heard of is missing from the log without a word.
* **Reading a desk.** Nodes stay silent or answer too much, values move while they
  are read. Correct: what was there all along is read or reported, a saved file names
  what the desk had, watched changes add up, and an exit code 0 is true.
* **Vocabulary.** One file, four writers, tombstones over defaults that a new release
  changes, sets that name sets. Correct: an expansion is reachability or a reported
  problem, a put closes no cycle, deletions stay and a write touches one entry, both
  but for what overlapping writes do to each other.
* **Import.** Rows, columns and words nobody planned for; five steps over data that
  moves. Correct: of a titled row no cell of a headed or mapped column is lost, what was
  taught is used wherever it is read back, what was reviewed is what is written and
  what the loader reads, and a repair keeps the meaning.
* **Rules and names.** A report is made of four readings of files that people edit;
  names cost money to resolve. Correct: a printed report accounts for every enabled base
  rule, a name is paid for once and the next command told the same, but for what
  overlapping flushes lose.

## 2. Modules

| Module | Models | |
|---|---|---|
| `OneCall` | what a call runner promises | abstract |
| `CallRunner` | `workers.py`, `worker_registry.py` | implements `OneCall` |
| `WriteGate` | gate, queue, arming, `live_write.send`, `net/write.set` | with a caller that does anything |
| `WritePath` | router, dialogs, ledger, Send rows | extends `WriteGate` with the program's own caller |
| `Connection` | what the page promises whoever writes | abstract |
| `LiveConsole` | Console page, panels, watch, schema cache | implements `Connection` |
| `Selection` | `[x for x in s if ...]`: the filtered lists of the modules below | one operator |
| `GetMany` | `WingClient.get_many` | stand-alone |
| `Reading` | schema walk, recovery by dump, snapshot, poller | over the promise of a batch |
| `CommandLine` | `wing net` snapshot, watch, set, toggle, push; a scene read live | extends `Reading` |
| `Session` | document, journal, undo, save, findings on screen | |
| `WriteLog` | the append-only files and their reader | operators only |
| `Editing` | writes and reverts that settle into the scene and the log | composes `Session` and `WriteLog` |
| `Vocabulary` | `classifier.yaml` over the defaults, its window, assistant, other writers | |
| `RunningOrder` | spreadsheet to segments, join with a scene, written document | operators only |
| `ShowContext` | loader, repairs of mistyped words, what a file expects | operators only, extends `RunningOrder` |
| `ImportWizard` | the five steps and the lint dialog | extends `ShowContext` |
| `Provider` | provider files, keys, adapters, the Settings dialog | |
| `Naming` | classifier: file, patterns, model, memo, flush | extends `Provider` |
| `Advice` | rule layers, evaluator, the doctor command | extends `Naming` |
| `*_proofs` | theorems about the modules they extend | TLAPS, section 5 |
| `MC_*` | instances for TLC | |

Definitions carry the names of the code where TLA+ lets them (`_settle` is
`settle`, `settleThen` is `_settle_then`); `PROJECT.json` maps each one to its
lines. A comment "Mutant of d" marks a variant of definition `d` with a plausible
bug: replacing `d` by it must violate the property named in `PROJECT.json`, which
shows that the property can fail. No specification uses a mutant.

### How state and steps correspond to the code

**Atomicity.** The GUI thread runs one slot at a time, so a slot with everything it
calls synchronously is one action. A worker thread's steps interleave with them: in
`CallRunner` the callable's return, the test of the cancel flag, the emit and the
thread's end are separate; in `WriteGate` so are identity check, datagram and
read-back; in `LiveConsole` the look in the cache, the captured generation, the
store, and each round of a watch. A modal dialog blocks clicks elsewhere and nothing
else, hence the guard `clickable` on clicks and not on what lands underneath. A
command of the terminal is a process of its own: it and anybody else interleave
between any two packets, and between any two accesses to a file.

**CallRunner.** `thread[c]` is where `FunctionWorker.run` stands, `posted[c]` the
signal queued for the GUI thread, `heard[c]` the callbacks the owner has got.
A hung callable is a `Return` that never happens.

**WriteGate.** `page` is what `allowed_actions` makes of the eight page states:
live (a write may start), busy, down. `pump` is `_pump` together with the gate's
`_start`: with a closed gate the first job is refused, its settle pumps the next,
and so on until the queue is empty, which the model writes as one refusal of all of
them, as it is one GUI event. `answer` is what the worker brings back; an answer of
a job that has timed out is nobody's. `desk`, `held` and `hit` are the world: which
console answers at an address, what its leaves hold, which console a datagram went
to. The desk may clamp (`Kept`), lose the datagram, or be swapped. `SwapInWindow`
says whether it may be swapped between the identity check and the datagram, a window
no program can close; `RightDesk` is stated without it. The caller of this module arms
whenever it likes, over a waiting queue too, as `arm` asks nothing.

**WritePath.** `task[j]` is one write from click to end; job `j` of the gate is the
same `j`. The level is not copied into a task but read when the code reads it.
`orphan` marks a Send whose `SendRow` was deleted by `set_changes`, which a landed pull
runs as well as the journal (`pullLands`). `undoing` is a
history variable: a Revert-all that nothing disturbed. The number of seconds of a
countdown is left out: only whether it ticks, is held at 0 or stopped matters.

**LiveConsole.** `panel[p]` and `page` are the five copies of the state. `active`
abstracts each panel's call runner to its active call (what `CallRunner` is shown to
provide); `call[c]` is the thread of a call, cancelled or not, because a cancelled
Discover still stores its schema. `posted` is the queue of the GUI thread, in order;
`cache.of`, the call that stored a schema, is history.

**GetMany.** One action is one chunk: sends, then replies until the idle gap. The
console's side is `nature` (answers, absent, oversized) and `stream` (alive or dead
for the current source port), as the comments and tests of `net/client.py` describe
it; any subset of the replies may be lost.

**Reading, CommandLine.** One action is one `get_many`: any subset of what is there
answers (`GetMany` says how a batch comes to that). `phase` is where the walk, the
recovery by dump, the read of the leaves or the watch stands; the desk's `shape` and
`held` move between any two batches. `always` and `ever` are history: the leaves the
desk had all along, and at any time. `cmd` is a write command between its check of the
identity, its datagrams and its read-backs; the desk clamps, any subset of a push's
datagrams and of its replies is lost, a hand moves a fader, another desk comes to
answer. `hits`, `drifted` and `restorable` are history. A watched value, a level of a
leaf and the document of a file are kept apart, as no property relates them.

**Session, Editing.** A document is a function from the leaves it has to values; it is
never stored but derived from original and journal, as in the code, and `shown` is what
the last `_refresh` put on the pages. `flight` is the queue of `WritePath`, reduced to
what settles later; each `Settle` picks what the desk answered. A file of the log is a
sequence of pieces, one per append, whole or cut; the reader's lines are made of them.
`owed` and `unheard` are history: the writes and reverts that settled, and those of them
whose settling raised before the sink was told. `Crash` ends the program anywhere, in
the middle of an append too; what is on disk stays.

**Vocabulary.** `file` is `classifier.yaml` as parsed, `seen` the merged copy the window
holds, `hand[w]` a writer between its read of the file and its rename: other writers, a
text editor and an update of the defaults come in between. The assistant's rows were
validated against the copy of the moment and are applied later, one by one. `gone`,
`revived`, `stale` and `overlapped` are history: `revived` is what an overlapped write
brought back from its old copy of the file, which nobody put back.

**ImportWizard.** `step` and the state of each step are separate variables, because the
steps are widgets that outlive one another. `terms` is what is on disk, `known` the copy
the Terms step loaded, `table` what the Scene step shows, `doctor`, `pulled` and
`opened` the scenes that may be chosen. A cell is a sequence of fragments and a fragment
one of words, so that splitting, folding and matching are operators that TLC evaluates;
what an id cell reads as, a name with the numbers behind it, is the constant
`identified`, so that "S1 again becomes S1-2" is a step on numbers and two spellings of
one id are equal after `_fold`. A fragment nobody can read goes into a comment as `repr`
writes it, and the Terms step reads it back with a pattern: the constant `respelled`
says which ones come back otherwise or not at all, `named` which other texts look like
such a comment, and `misread` what of an import is concerned. A Fix writes in place, so
it may leave the file `Torn`, and is offered again after that. The operators of
`RunningOrder` and `ShowContext` are the pure functions of `showcontext/`, composed
here: what `emit` writes is what `loader` reads.

**Provider, Naming, Advice.** `proc[c]` is a command with its `Classifier`: the file
as it read it, its memo, and the answers it still has to write, flushed one after the
other; `copy[c]` is a flush between its read of the knowledge file and its rename, in
which other commands and a person write. A name has a domain, and a blank one is not
looked up. `told` and `at_start` are history: what was written of each name, and what of
it a command could read; an entry that a flush from an older copy took away is `Lost`.
The report is made in the four readings of `cli.doctor`,
with edits of the rule files in between, and comes out as lists, as "No findings."
alone, or as `--json` without the lists. An adapter call is any answer or failure
that the configuration, the environment and the key allow.

## 3. Runs

Each run is `tlc -config <cfg> <module>` and ends within about three minutes.

| Run | What it shows | Bounds |
|---|---|---|
| `call_runner` | each call ends once; running threads stay referenced; `OneCall` is implemented; every call settles even if its callable hangs | 3 calls, one of them without `on_cancel` |
| `write_gate` | one on the wire, none lost, none left waiting behind a closed gate, every write ends | 3 jobs, 1 address, 2 desks, 1 leaf; swaps at any moment (`SwapInWindow`), arming at any moment |
| `write_path_dialogs` | dialogs, run and ledger agree with the gate; no blind apply; right desk; one row per result | 2 jobs at all levels, 2 desks, a clamp |
| `write_path_revert` | Revert all restores the desk | 4 jobs: one fader moved twice, both reverted; Immediate only |
| `lost_row` | a Send whose row was rebuilt under it has no ledger row (a violation) | 2 jobs, immediate |
| `live_console` | cache, watch and busy states; `Connection` implemented | 3 calls, 2 watches, 1 address, lost after 2 silent rounds, `MaxClears` 4 |
| `stale_schema` | the schema of one desk is cached for another (a violation) | 3 calls, 1 watch, 2 addresses, `MaxClears` 4 |
| `net` | of `get_many`: every address accounted for, no chunk on a dead port. Of the commands: walk, snapshot, watch and writes tell the truth | one `get_many` of up to 6 addresses, batch 0, 2 or 4, 3 retry rounds; or the commands: 10 leaves in 2 shapes, 2 desks, `MaxRounds` 3, `MaxCommands` 2, `MaxTouches` 1, commands addressed to 3 leaves |
| `editing` | the journal is truthful, the pages current, the log complete or complained of, as far as the sink heard | 2 leaves, 2 rules, 1 scene and one of older firmware, `MaxJournal` 3, `MaxWrites` 1, `MaxEntries` 2 |
| `vocabulary` | expansion, cycles, deletions, one entry per write | 3 sets, 1 term, 2 kinds and a misspelt one, 2 releases, 4 proposals |
| `import_wizard` | no cell of a headed or mapped column, no lesson and no expectation is lost; the saved file loads; Fix keeps the meaning | 3 workbooks (one pasted, with a non-breaking space and a note that looks like a comment), 2 scenes, 6 files, `MaxMoves` 1 (moves of others while the page stands) |
| `advice` | a printed report accounts for every base rule; names are asked once and answered alike; key line and calls agree | 3 commands, two at a time (`Late` is the third), 4 names over 2 domains, one blank, 3 base rules, one disabled, 8 principles files, 2 show files, `MaxEdits` 1, `MaxMoves` 2 |

**Why these bounds are enough.** Three calls give an old, a current and a next one:
a late event can meet a call two after its own. Three jobs give one on the wire, one
that waits, one behind it. Two writes suffice for a dialog over a dialog, a step
behind a step, and a rebuilt row under a Send; four are a move, a second move, and
their two reverts. Six addresses in chunks of four, two and one make every chunk
position (first, last, only) and two halvings. Two watches are the one abandoned
and the one begun over it. Three patches are a repair, its clamp and a second repair
of the same leaf; two log entries are a torn one and the one that continues its line.
Three sets close a cycle of any kind an edit can close: over itself, over another,
and through a third. Three rounds are a reading, a silent round and a change. Two
commands at a time are one that asks and writes, and one that reads or writes before,
between or after; a third, when both are through, reads what their overlapping flushes
have left.

**Named bounds** are bounds of the instances, not of the code: `MaxWrites` (forward
writes of a session; in `Editing` also the writes under way), `MaxJournal`,
`MaxEntries`, `MaxRounds`, `MaxCommands`, `MaxTouches` (hands on the desk), `MaxMoves`,
`MaxEdits`, `MaxClears` (how often a Rerun without an address bumps the cache
generation), `Late` (the command that starts last), and the sets `Calls`, `Watches`,
`Jobs` (each used once), `Rounds`. `LostAfter` is 2 instead of 3.

**Restrictions of single runs.** `write_path_revert` has the constraint `Untroubled`,
which keeps to sessions in which no connection drops and the fader moves first to 1,
then to 2: it only keeps the run small, and the theorem needs neither. `editing` starts from
files as they were exported (`SpecFromFactory`) and explores saves with no write under
way (`SavesApart`), since the two meet only in the session. `vocabulary` keeps at most
two entries of the file's own, and explores the assistant's rows and the third set with
nobody else writing (`Apart`). `net` runs one `get_many` or the commands,
which share nothing in the model. `advice` runs either the doctor or the window
(`MCSpec`): they share the environment only; `--json` runs without a profile and without
principles (`fewerRuns`), and the third command without rule files and edits
(`lateAtLast`). Symmetry is used for desks, addresses and the first two terminals, in
runs without temporal properties. The largest runs are `advice` (3 052 542 distinct
states), `import_wizard` (2 817 546) and `vocabulary` (1 697 939).

`CHECK_DEADLOCK FALSE` stands wherever an instance ends when its calls, jobs,
addresses, edits or commands are used up, or an operator may stop clicking. The
vocabulary run has no such end and checks deadlock.

The type invariants are stated in their modules and not checked by runs of their own;
those of `CallRunner`, `WriteGate`, `WritePath` and `Vocabulary` are proved, and the
import's is part of its `ImportInvariance`.

### Disagreements between the code and what it says of itself

| Configuration | Property | What the code does |
|---|---|---|
| `MC_WritePath_lost_row` (run `lost_row`) | `EverySendHasARow` | a journal rebuild under a Send on its way deletes the row whose callbacks make the ledger row |
| `MC_WritePath_arming` | `ArmedOnlyConnected` | the arming dialog never asks for a connection, so the gate can be armed while the page is down and the next connection starts armed |
| `MC_WritePath_stranded` | `RunIsNeverStranded` | dismissing the arming dialog that Revert all opened leaves the run waiting |
| `MC_LiveConsole_schema` (run `stale_schema`) | `SchemaIsOfThisConnection` | `_schema_for` captures the cache generation on the worker, so a cancelled Discover whose thread is scheduled only after a reconnect to another desk stores the old desk's schema for the new one |
| `MC_Net_innocent` | `OnlyTheGuilty` | a round in which a poison address stands before everything recovers nothing, and the rest is given up unasked |
| `MC_LiveConsole_host` | `HostIsTheHandshakes` | the address box is read when the handshake lands |
| `MC_Editing_unheard` | `NoSilentLoss` | a revert that settles into a document without its leaf raises before `reverted` is emitted, and its line is missing from the log without a word |
| `MC_Editing_badge` | `BadgeMeansSent` | badges are matched by equality: a repair undone under its Send and made again wears the badge of the first |
| `MC_Vocabulary_reset` | `NoCycleIsWritten` | `reset_set` makes no cycle check, so a reset can close one |
| `MC_Provider` | `UsableKeyAuthenticates` | a marker left in the file falls through to the variable in `has_usable_key`, but not in the adapters, which refuse the call for want of a key |

Each configuration ends in a counterexample. Two are runs, and `PROJECT.json` quotes the
sentences they contradict under "findings"; the others are kept beside the runs.

Where the code breaks what a passing property would say at its strongest, the property
names the exception in its own statement:

| Property | But for |
|---|---|
| `RecordedOnce` | a Send whose row was rebuilt under it |
| `HeardIsAccounted` | reverts the sink was never told of; `NoSilentLoss` is the property without the exception |
| `WalkedSinceTheClear` | says when a schema was walked, not of which desk; `SchemaIsOfThisConnection` says that |
| `DeletedStaysDeleted`, `OnlyItsOwnEntry` | a write that began before the other and ends after it: `cache.py:176-185` reads, changes and renames without a lock |
| `AskedOnce`, `SameNextTime` | an entry that overlapping flushes lost, in the same lines; `cache.py:1-6` promises "only ever resolved once" |
| `PutClosesNoCycle` | resets |
| `TaughtIsImported` | rows the import's comments were misread into: a fragment that comes back escaped, a note that quotes a performer |
| `NothingLost` | cells of a column with neither heading nor field, and of a row without a title all but its id, performers, note and time; README.md:591-598 of the repository says nothing is dropped |
| `FixKeepsMeaning` | a Fix of a file that an earlier one left torn |
| `ReportAccounts` | reports made while rules were edited, `--json`, and a doctor with no findings, which prints "No findings." and no lists, against README.md:289 of the repository; of a rule shipped disabled nothing is said |
| `HintAgrees` | markers left in the file |

### Limits seen while modelling

These are what the code does besides; the properties are stated beside them.

* *Console.* The ledger survives a change of desks. The change events of an abandoned
  watch are not gated. Two arming dialogs may be stacked and `arm` asks nothing, so that
  a write may wait under an arming other than its own; that it then goes to no other
  desk is `RightDesk`. `request()` takes whatever datagram arrives next.
* *Scene and log.* A Revert all stops at the revert that raises. A line torn inside a
  multibyte character makes `read_show` and `list_shows` raise. `state_store` and
  `provider.yaml` are written in place.
* *Desk from the terminal.* `net snapshot -o` writes an empty file with exit 0 for a
  desk that never answers. A push counts a leaf whose reply is lost as absent and
  exits 0; an error after some datagrams exits as if none had left. `toggle` exits 0
  though its datagram is lost. A schema reply without a string is skipped silently.
* *Vocabulary.* Two ticked "add" rows of one key overwrite each other silently.
* *Import.* There is no way back from Terms, Scene or Save to Pick, and rows marked
  recorded are never opened again. A fragment with an apostrophe gets no row in Terms;
  one with a non-breaking space gets a row under its escaped spelling, a note that quotes
  a performer a row of its own, and a term recorded in either is marked recorded and
  imported nowhere. `MappingStep.fill` raises on an unknown field. After a Fix that was
  cut short a second one is offered, and copies the torn file over the only whole `.bak`.
* *Rules and names.* A typo in `hardness` makes a rule unconditional; `supersedes` of an
  inactive rule is not checked; the `event` of a principle filters nothing, as only base
  rules are held against a show's; a blank `message` in `principles.yaml` raises when a
  finding is rendered; a report is mixed if rules are edited between its readings. A
  doctor that ends in an error loses its answers, the window never flushes its own, and
  a flush replaces what a person or another command wrote between its read and its
  rename. An answer of 0.3996 is rounded up to the floor of the rules by the next
  command. A `provider.yaml` that is no YAML raises in `key_configured`; `run_probe`
  goes on when the save failed; a refusal of the Anthropic model is classed OTHER.

## 4. Fairness

* `CallRunner`: Qt fires a running timer and delivers a queued signal, and a thread
  past its callable goes on. No fairness for the callable, which may hang, nor for
  start, cancel and shutdown.
* `WriteGate`: every read of `live_write.send` has a socket deadline of its own, so
  each step of a write's worker happens; the settled answer is delivered. Nothing is
  asked of the operator, nor of the budget timer, which only settles earlier.
* `LiveConsole`: the event queue is delivered, a running budget fires, and each
  round of a watch ends (its reads have deadlines). A call's thread may hang.

All other modules are checked for safety only: what they would have to promise is that
a person goes on clicking, or that a sequential command comes to its end.

## 5. Proofs

TLAPS proves, for every value of the constants that the named assumptions allow:

| Module | Theorems | from |
|---|---|---|
| `Net_proofs` | of `CallRunner`: `TypeCorrect`, `SettledOnceHolds`, `OneAtATimeHolds`, `RunningIsHeldHolds`, `NeverHandedOverHolds`, `HeardIsFinalHolds`, `Refinement` (implements `OneCall`) | `CallsAssumption` |
| | of `GetMany`: `FreshPortHolds`, `AccountedHolds` | `GetManyAssumption` |
| | of `CommandLine`: `SilenceIsCompleteHolds`, `FileIsOfTheDeskHolds`, `ChangesAddUpHolds`, `PinHoldsHolds`, `ZeroMeansHeldHolds` | `ReadingAssumption`: a desk's tree is finite, and an address is a node or a leaf; `CommandLineAssumption`: settings are integers, the desk's range starts at `lowest` |
| `WritePath_proofs` | of `WriteGate`: `TypeCorrect`, `OneOnTheWireHolds`, `NoJobIsLostHolds`, `NothingWaitsBehindAClosedGateHolds`, `RightDeskHolds` | `GateAssumption`, `NoneAssumption` |
| | of `WritePath`: `PathTypeCorrect`, `PathGateHolds`, `PathRightDeskHolds`, `SentIsOnTheGateHolds`, `NeverAppliesBlindHolds`, `RecordedOnceHolds`, `RevertAllRestoresHolds` (where there is one desk) | those, `TaskAssumption` and `RunAssumption` |
| `LiveConsole_proofs` | `OneState`, `WalkedSinceTheClearHolds`, `Implements` (implements `Connection`), `EndsByItsOwnHolds` | `LiveAssumption`, `NoneAssumption` |
| `Vocabulary_proofs` | `TypeCorrect`, `DeletedStaysDeletedHolds`, `OnlyItsOwnEntryHolds`, `ExpansionIsReachabilityHolds`, `PutClosesNoCycleHolds` | `VocabularyAssumption`: there are finitely many sets, and the marks for absent, deleted and malformed are no entries; `ProposalsAssumption` |
| `Editing_proofs` | `JournalIsTruthfulHolds`, `ShownIsCurrentHolds`, `HeardIsAccountedHolds` | none: any scenes, rules and shows |
| `Advice_proofs` | `AskedOnceHolds`, `SameNextTimeHolds`, `HintAgreesHolds`, `ReportAccountsHolds` | `NamingAssumption`, `AdviceAssumption` |
| `ImportWizard_proofs` | `ImportInvariance`, `TaughtIsImportedHolds`, `SavedLoadsHolds`, `NothingLostHolds`, `TableIsEmittedHolds`, `FixKeepsMeaningHolds` | `RunningOrderAssumption`: folding twice is folding once, of the spellings of a text one is a part of no other, "S" has a lower case, and what is read back or quoted are texts; `ContextAssumption`; `ImportAssumption`: a sheet's rows are as wide as its headings, and a hand-written file has the fields the loader looks for |
| `Selection_proofs` | lemmas: what a selection holds, in what order, once (`SelectedSet`, `SelectedRange`, `SelectedInjective`) | none |

Each module proves that an inductive invariant (`IInv`; `RunnerInv` for the runner) holds
in every state, by `Init => IInv`, one lemma or case per action, and temporal logic; the
properties follow from `IInv`, action properties from `IInv` and one step. The
properties are not inductive alone; what they need:

* **CallRunner.** `RunningIsHeld` needs to know that the worker `settle` drops from
  `_active` is the one it puts in `_retired`, hence that an unsettled started call is
  the active one; `SettledOnce` that the timer runs only for an unsettled call and
  that a flagged or retired call is settled (`Bookkeeping`), and what each call has
  heard (`HeardOnce`). The refinement goes step by step: a step begins a call, ends
  the active one in one of three ways, or leaves `fate` as it is.
* **WriteGate.** `NoJobIsLost` is kept as a partition of what waits, flies and ended,
  for which a job must wait once (`WaitsOnce`); `NothingWaitsBehindAClosedGate` is kept
  by each step, as a job is queued only while the gate is ready and whatever closes it
  empties the queue; `RightDesk` needs that a worker about to transmit stands before the
  confirmed desk as long as desks stay put in that window (`CheckedIsThere`), and that a
  datagram left only for a submitted job (`LeftWasSubmitted`).
* **WritePath.** The invariant (`PathInv`) joins the gate's with what the dialogs know of
  it. Of each write (`TasksOK`): nothing was confirmed before it is sent, a sent one has
  not ended, one that is over was told, and a countdown confirms only what it read. Of the
  windows (`WindowsOK`): a write waits for an arming dialog exactly when one stands for
  it, and one only, so that the answer of a dialog finds its write where it left it.
  Of the ledger (`LedgerOK`): each row is a write that came back, once; of the run
  (`RunOK`): what is still to revert has its before-value. `RecordedOnce` needs of the
  gate that a result is answered only after its datagram left (`AnsweredLeft`).
  `RevertAllRestores` has an invariant of its own on top (`RestoreInv`). Of all sessions it
  keeps who wrote first (`KnownInv`): a leaf nothing was sent to holds what it held at the
  start, and so does every before-value read from it, so the first datagram to a leaf is a
  forward write's that read the start or nothing; it has the leaf's first row, or no row
  comes before it is told (`WasFirst`). Of a run that nothing disturbed (`Going`): its step
  is the only write on its way, and with the row that step takes back and those left, the
  first row of every leaf is still to come, behind all others of its leaf, or the leaf is
  back already and none of its rows is left (`AllTold`). That holds when the run begins as
  the queue is the ledger's selection reversed (`FirstToRevert`, `RevertAllTold`), each
  matched step hands it on (`ToldGoesOn`), and when nothing is left it says that
  everything is back. Every other step keeps it (`OtherSteps`) or ends the undisturbed
  run. Over two desks at one address in turn the property is false, as it should be:
  hence `OneDesk => RevertAllRestores`.
* **LiveConsole.** That every panel wears the page's state (`PanelsAgree`) is needed for
  everything else: a panel's right to begin is read off its own copy.
  `WalkedSinceTheClear` needs that a stored schema's call captured the generation in
  force and is past reading (`StoredIsFresh`); the refinement that a call is the
  panel's whose busy state the page is in (`BusyIsItsCall`) and that only a call that
  began posts an answer (`PostedByACall`). `EndsByItsOwn` rests on the order of the
  event queue (`EndsInv`): Disconnect does not abandon a watch whose thread has already
  stopped, so its end may still be on its way; but the page comes back to a watch only
  through the answer of a connect, which began later and stands behind that end. Hence
  whatever end the gate would let through is the current watch's, or lies before every
  answer the page still listens to (`EndIsOwn`).
* **GetMany.** Within a pass the port is alive; before a retry round it need not be, as
  that round begins by rotating (`PortInv`). `Accounted`
  needs that what is answered, waits in the batches of the pass, is missing in it or lies
  over for the next round are apart and make up the request, each once (`BatchInv`): a
  batch is cut from a list without repetitions, its missing ones selected from it in order,
  so both pieces of a halving are again such lists.
* **CommandLine.** What was told of an address is its last known value (`Told`); the
  desk clamps whatever reaches it (`LevelOK`); nobody touches the desk before the
  shell, so a file of it holds what it held first (`FileOK`); a command asks for what
  its kind can ask for (`CmdOK`); before the pin is compared nothing was sent, and
  after it the desk that answers is the pin's while desks stay put (`PinIsHeld`).
  `SilenceIsComplete` needs that a leaf which was there all along is found, has a name
  the walk skips, or is below a node that is still to be visited, was given up or
  answered with no list (`Cover`). A recovery keeps that because a dump parses to the
  leaves it was written from: the cursor after a token is where the writer was, as what
  two addresses share is where both begin (`BodyParses`, `SharedIs`).
* **Vocabulary.** The tombstone of what is gone and was not revived is in the file *and*
  in the window's copy (`Buried`); every delete on its way, in a writer's hand or in the
  assistant's table, of an entry deleted before has a default under it and will write a
  tombstone again (`HandBuries`, `RowsBury`); a hand that no other write overlapped
  differs from the file in one entry (`HandIsOwn`). What can be reached from a set is,
  in the properties, the least collection that has it and is closed under what its sets
  name. `DepthFirst` is the heart of `ExpansionIsReachability`: by induction on the
  number of sets off the path, what is reached from a set while avoiding the path is
  that set and what is reached from those it names while avoiding it too, so the walk
  finds the same (`ExpandIs`, and `ComesToIs` for `check_cycle`). The walk of
  `find_set_cycles` reports exactly the sets on a cycle (`CyclesAre`): every report
  closes (`FoundAreCycles`), and a walk around a cycle is never cut short before it
  reports it (`CyclesAreFound`). `PutClosesNoCycle` needs that a put in the window's
  hand was checked against the copy the file still agrees with (`Checked`), and that an
  edge nobody can come back along closes nothing (`NoWayBack`).
* **Editing.** Journals that begin alike make the same document of it (`BeginsAlike`),
  so a patch more or less leaves the others true (`PatchIsTruthful`, `UndoIsTruthful`).
  Behind every piece of a file is the start of its line, with torn pieces only in
  between (`LinesStart`), so that a whole line is either an entry or stands behind a
  start that is counted as skipped; without a warning all that is owed and the sink
  heard of was appended whole (`AllAppended`).
* **Advice.** What was told and neither edited nor lost since is in the file, rounded,
  and a copy that no other write overlapped is the file (`ToldIsWritten`); a command
  that read the file has it as it was at that moment and asked for nothing in it
  (`HasRead`), one that did not has asked nothing. `ThreeDigits` shows that rounding
  moves a confidence by at most five ten-thousandths and never below the floor, by
  integer division alone. `HintAgrees` has an invariant of its own (`KeyInv`): a call is
  never of a file that raises, and what it ended with and what the key line said are
  both read off their configuration in an environment that stays as it is.
  `ReportAccounts` needs that what was read so far is what the unedited files say
  (`ReadAsItStands`), and that of the rules that name an id there is a last one
  (`LastToName`); the shipped base rules have ids of their own (`AdviceAssumption`).

* **ImportWizard.** Three facts about data carry it, each an induction over natural
  numbers on the recursive functions of the model. *Ids* (`IdIsFresh`): of more suffixes
  than ids are in use one is free, since `_fold` keeps different suffixes apart
  (`FirstFree`, by counting), so the id a row gets is in use by no row above it,
  whatever the sheet says. *Rows* (`BuildImports`): after each row the segments are the
  titled rows so far, in their order, under ids that are apart, and the others are
  comments (`InStep`). *Fragments* (`FragmentResolved`): of the terms that occur in a
  fragment the longest is a part of no other, so a term that occurs makes the fragment
  understood, whatever else matches it (`LongestStands`). The invariant then has six
  parts: where the page stands (`PlaceInv`), that a mapping into that sheet and an
  import with ids apart are there from the Terms step on (`ImportInv`), that a row which
  is done is owed to sure patterns or to terms that speak of it still, but for those
  taken away (`RowsInv`) and from the Scene step on is no comment unless misread
  (`ReviewedInv`, by `ReadBackAre`: what the Terms step reads out of the comments is what
  was read back of the fragments in them, and what notes quote), that
  the preview renders that import (`PreviewInv`), and that the file in the dialog is
  torn or has its fields (`LintInv`). `SavedLoads` follows as a written segment is read
  without a repair (`WrittenReads`), `FixKeepsMeaning` as what a word is repaired to
  needs no repair and is read as the word was (`ResolvesToWord`, `SegmentFixed`).

* **Selections.** What `[x for x in s if ...]` holds is a function by recursion on the
  length of `s`. That such a function is what its equation says is itself proved
  (`Recursion`), from `Induction` over sets of naturals, which the library's
  well-founded induction gives without a parameter that is an operator.

**What stays with TLC**: liveness (fairness and ENABLED are out of the prover's reach),
and what `levenshtein` computes, of which the proofs use only that the words one edit
away are a set, and that a set with one element has just that one.

## 6. Not modelled, and why

* Threads' memory model: attributes shared across threads are a `threading.Event`,
  a locked cache and Qt's queued signals, each atomic.
* Quit: `finish` and `shutdown_all` wait a bounded time while the process ends.
* Console: the rows of the event table, status lines, texts; the pace of a watch.
* Writes: `node_write`, which only tests call; the show fields of the arming dialog.
* Network: the bytes of a datagram, address syntax, `request` and stray replies, the
  families a watch list is built from (a set in the model).
* Log: show codes, layout, the log page and its report.
* Vocabulary: the assistant's model call, which is a call of `CallRunner`; labels,
  origins and matching modes; the window's widgets.
* Import: reading `.xlsx`, dates, headings guessed in other languages, and of a show
  context the book of open and closed channels and the gaps between cues.
* Advice: the wording of findings, the base rules themselves, the feedback log; what a
  model is asked and answers (any of a few kinds).
* Settings: language and theme. Window: the pages' displays; the preferences file,
  whose reader normalises what it finds.
* `core/`, `descriptors/`, `query/`, `mcp/`, texts and theme: sequential and without
  state of their own; a model would restate tables and views.

`PROJECT.json` says the same per component.

## 7. What is left

* Proofs: the type invariants of the modules whose theorems did not need them.
* Models: the book of open and closed channels in `showcontext/view.py`, the routing
  trace and the scene diff of `query/` against reference definitions, and the pages of
  `ui/` that hold state between refreshes.
