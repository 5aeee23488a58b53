# A specification of RIME

TLA+ models of the RIME input method engine (librime) and of the way its front
ends use it, with model checking runs and machine-checked proofs.

RIME turns keystrokes into text. A front end (ibus-rime on Linux, Squirrel on
Mac OS X, Weasel on Windows) opens a session for each input context, sends it
keys, and shows what the session composes. The session cuts its input into
segments, looks each of them up, offers the candidates in a menu, lets the user
select some of them, in parts, go back and change the selection, and finally
commits a text. Beside this a deployer rebuilds dictionaries and settings in a
thread of its own while the application goes on calling.

    Segmentation.tla   Context.tla   Engine.tla     a session at work
    Syllabifier.tla  Translations.tla  Menu.tla     from input to candidates
    TaskQueue.tla      Service.tla                  sessions and deployment
    Customizer.tla                                  a customized settings file
    Lexicon.tla  UserDb.tla  UserDict.tla           a user dictionary
    Weasel.tla                                      the front end for Windows
    MC*.tla  MC*.cfg                                the runs
    *Proofs.tla                                     the theorems

Run `tlc -config MCEngineExpress.cfg MCEngine` to check a configuration, and
`tlapm EngineProofs.tla` to check the proofs.


## 1. The system

Paths are relative to `src/`; `rime/` stands for `librime/include/rime/`.

### Components

| component | state | operations | modelled by |
|---|---|---|---|
| **segmentation** (`librime/src/segmentation.cc`) | a vector of segments (status, interval, tags, menu, highlighted index) and the string they are about | Reset, AddSegment, Forward, Trim, positions | Segmentation |
| **segmentors** (`librime/src/impl/*segmentor.cc`, `matcher.cc`) | none | Proceed: propose a segment where the last one begins | Segmentation |
| **context, composition** (`librime/src/context.cc`, `composition.cc`) | input, caret, composition, options, notifiers | PushInput ... set_option; commit and script text | Context |
| **engine** (`librime/src/engine.cc`) | schema, processors, segmentors, translators; connected to the notifiers | ProcessKeyEvent, Compose, OnSelect, OnCommit | Segmentation, Context, Engine |
| **key processors** (`ascii_composer`, `recognizer`, `speller`, `punctuator`, `selector`, `navigator`, `editor`) | half of a paired punctuation, connection of the temporary ascii mode | ProcessKeyEvent | Engine |
| **service, sessions** (`librime/src/service.cc`) | table of sessions with their last active time, `started_` | create, find, destroy, clean up | Service |
| **deployer** (`librime/src/deployer.cc`) | queue of tasks, the maintenance thread | ScheduleTask, NextTask, Run, StartMaintenance, IsMaintenancing, Join | TaskQueue, Service |
| **C API** (`librime/src/rime_api.cc`) | none | initialize, maintain, deploy, sessions, keys, the page that is shown | Service, Engine, Menu |
| **customizer** and deployment tasks (`librime/src/expl/`) | files in the user directory | update a customized configuration, change the customization, upgrade user dictionaries | Customizer, UserDict; their schedule in Service |
| commit history (`librime/src/commit_history.cc`) | a list of at most 20 records | Push a key, Push a composition | not modelled: only whether the last record is a digit is read |
| **menu, translations, filters** (`menu.cc`, `translation.cc`, `impl/uniquifier.cc`, `impl/simplifier.cc`) | translations not exhausted, candidates recruited so far | Compare, Peek, Next; Prepare, CreatePage, GetCandidateAt | Translations, Menu |
| translators (`librime/src/impl/*translator.cc`) | options, user dictionary | Query, Memorize on commit | ends in Segmentation, generators in Translations, learning in UserDict |
| key_binder, switcher, chord_composer | bindings and `redirecting_`; whether the switcher is active; pressed keys and `pass_thru_` | ProcessKeyEvent, feeding keys back | planned |
| **user dictionary** (`librime/src/dict/user_dictionary.cc`, `user_db.cc`, `librime/src/expl/user_dict_manager.cc`) | records with a count, a weight and a tick; the tick count, cached and stored; a snapshot file | Lookup, UpdateEntry, Open, Backup, RecoverFromSnapshot, Restore, Import, UpgradeUserDict | Lexicon, UserDb, UserDict |
| dictionaries (`dict/dictionary.cc`, `table.cc`, `prism.cc` ...) | mapped files | compile, look up | prediction and its iterator in Translations, answers of the prism in Syllabifier |
| **algorithms** (`algo/syllabifier.cc`, `rime/algo/poet.h`, `algebra.cc`) | none | spelling to syllable graph, best sentence | the former in Syllabifier |
| configuration, schema, registry (`config.cc`, `schema.cc`, `registry.cc`) | a tree of items, whether it is modified | get, set by path, load, save | as far as Customizer uses them |
| **front ends** (`ibus-rime/`, `squirrel/`, `weasel/RimeWithWeasel`, `weasel/WeaselIME`) | a session id for each client, what is shown | the order of calls of the API | history `conduct` of Service; Weasel |
| **Weasel IPC** (`weasel/WeaselIPC*`, `weasel/WeaselDeployer`) | the queue of the server's window, session id, shared response buffer, mutex of the deployer | window messages, some sent and some posted | Weasel |
| typewriter, key names, tools, tests, schemas, documents | | | not modelled: no state of the input method |

### How they interact

*Within a session everything is synchronous.* A key goes down the list of
processors until one accepts it. A processor calls methods of the context; a
method changes the context and then calls a notifier, whose slots run before the
method returns: the engine composes anew (`OnContextUpdate`), reacts to a
selection (`OnSelect`), sends a text to the sink (`OnCommit`), and AsciiComposer
ends the temporary ascii mode. A slot may call the context again: `OnSelect`
calls `Commit` or `set_caret_pos`, each with its own notifications.

*Across sessions* the application calls the C API, and the service finds the
session, unless it is disabled by maintenance.

*The deployer is concurrent.* The maintenance thread takes tasks from the queue
under a mutex; nothing else of the deployer is protected. `RimeStartMaintenance`
runs two tasks in the thread of the caller and schedules two for the maintenance
thread.

*Weasel is three processes.* Every application that types has a client; one
server owns the sessions and shows the panel; the deployer asks the server to
leave the workspace alone, and later to go on. Clients send messages and wait, or
post them and go on; what is sent may overtake what was posted, and the answer
to a key lies in a buffer that all clients share.

### What is hard, and what must hold

Each point is a hazard in `PROJECT.json`, with its line and its properties.

* **Segmentation under selection.** A selection may be shorter than its segment;
  the segment is split and the rest segmented again. The caret may then move,
  the input change anywhere, parts of the selection be disposed, and two editors
  have three ways of going back. The segments must always be consecutive
  intervals of the input before the caret (`SegmentsPartitionInput`), an empty
  segment only waits behind a selection (`EmptySegmentFollowsSelection`), a
  selected segment is as long as its candidate (`SelectionFits`), and what is
  committed goes through the input in its order, once (`CommitInOrder`).
* **Keeping what the user has selected.** Only BackSpace takes a selection back
  (`SelectionSurvives`); BackSpace after typing undoes the typing
  (`BackSpaceUndoesTyping`) and leaves the selection (`BackSpaceKeepsSelection`).
* **Getting somewhere.** Whatever is composed, Space does not come to the same place
  again: it commits, selects more or moves on (`SpaceMakesProgress`).
* **A mode that must end.** The temporary ascii mode ends with its composition,
  whichever of a dozen ways that ends (`InlineEndsWithComposition`).
* **Two threads.** At most one maintenance thread (`OneMaintenanceThread`), no
  key beside it (`NoKeyDuringMaintenance`), tasks in order and once
  (`ImplementsTaskQueue`), none forgotten (`TasksRun`) and none beside another
  in the caller's thread (`NoTwoDeployments`), waiting calls
  that return (`CallsReturn`) and leave nothing behind (`FinalizedIsQuiet`).
* **Persistence.** Sessions share the database of a user dictionary and each has
  its own, possibly stale, tick; entries are deleted and revived; snapshots are
  merged once or twice, in any order; a file is upgraded by removing it; the
  process may die in the middle of all this. The counts must be what the user
  did (`ImplementsLexicon`), merging must not depend on the order
  (`RestoreInAnyOrder`), no record may be later than the tick
  (`NoRecordFromTheFuture`), nothing must invent a commit
  (`NothingInvented`), backups must be used (`DataAreRestored`).
* **A copy that must be true.** A settings file is copied and patched by an update
  that may die or fail in between, while releases come and go and the user edits
  the patch. What the update reports must be so (`UpdateReportsTruly`), and what
  has gone wrong must be mended by later updates (`Mended`).
* **Three processes.** The buffer, the panel and the sessions must stay with the
  client they belong to (`TextArrives`, `PanelShowsActiveSession`,
  `PanelFollowsFocus`, `SessionsAreHeld`), the deployer must be alone
  (`DeployerWorksAlone`), also when a server starts at the same moment, and after
  any of this a key must find a session again (`KeyFindsSession`).
* **Pruning a graph.** The syllable graph is found forwards, pruned backwards, and
  marked at the same time. It must be exactly what lies on the best ways
  (`GraphIsExact`), with true types (`VerticesAreRated`), and there must be an end
  (`ReturnsUnlessStuck`).
* **Lazy merging.** Candidates are fetched when they are looked at, from several
  generators that compare themselves with their neighbour only. None may come
  twice (`NoDuplicates`), none be lost (`NothingLost`), the order must be kept
  (`MenuIsInOrder`), the highlight must be on the page (`HighlightIsShown`), and
  the loop must be left (`KeysAreAnswered`).
* **Re-entrance** (planned). Processors that feed keys back to the engine that
  is processing one.


## 2. The models

### Segmentation, Context, Engine

`Segmentation` has the record `Segment` and one operator for each method of
`Segmentation` and each segmentor. Positions are 0-based offsets as in the code.
A *menu* is abstracted to the sequence of the end positions of its candidates:
whether the index is in range and where a candidate ends are the only facts about
candidates that control looks at. What the translators offer for `n` letters is
the constant `MenuOf[n]`; `echo_translator` and `punct_translator`, which answer
in their own way, are in `Translate`. The loop of `CalculateSegmentation` is the
function `Loop`, one value for each iteration.

`Context` adds the record of a session's state. Each operator is a method of
`Context`, of `ConcreteEngine` or of `Composition`, and takes the context before
to the context after, its notifications included. A text sent to the sink is a
sequence of pieces [from, to) of the input, taken from a candidate or raw.

`Engine` has one action for each key and each processor that may take it; the
guard says that the processors before it pass. The order is that of the preset
schemas: ascii_composer, recognizer, speller, punctuator, selector, navigator,
editor. `RimeClearComposition` and `RimeCommitComposition` are actions too.

| code | model |
|---|---|
| `Context::input_`, `caret_pos_`, `composition_` | `ctx.input`, `ctx.caret`, `ctx.active` and `ctx.segs` |
| option `ascii_mode`, connection `connection_` of AsciiComposer | `ctx.ascii`, `ctx.inline` |
| `Punctuator::oddness_` | `ctx.oddness` |
| `sink_(...)` | an element of `ctx.out`, emptied when the next key arrives |
| `ConcreteEngine::Compose` | `Compose` |
| `update_notifier_` | `Update` |
| `select_notifier_`, `OnSelect` | `OnSelect` |
| `commit_notifier_`, `OnCommit` | `Sink`, in `Commit` |

`OnSelect` keeps a reference to the last segment across `Forward()`, which
appends to the vector. Reading it afterwards is undefined when the vector has
moved; the comparison that reads it answers the parameter `reached`, either
value. (When nothing is appended, or the capacity suffices, the true answer is
one of the two.)

Inputs that are not enumerated, since they change nothing here: press and
release of modifiers other than the switch keys, keys no processor knows, the
choice between half and full shape.

### TaskQueue and Service

`TaskQueue` is the abstract promise of the deployer: tasks wait in order, one
runs at a time, each is finished once. `Service` has the session table with its
clock, the deployer with its queue and threads, and the API. The application has
one thread; a call that takes several steps, during which the maintenance thread
may move, is at `main` in between. `boost::thread` is modelled by `handle`:
swapping a new thread into `maintenance_thread_` detaches the old one, which
would go on running, so `OneMaintenanceThread` is worth checking.

| code | model |
|---|---|
| `Service::started_`, `sessions_`, `Session::last_active_time_` | `started`, `sessions` |
| `Deployer::pending_tasks_` | `pending` |
| `Deployer::maintenance_thread_` | `handle`, `worker` |
| the loop of `Deployer::Run` | `NextTask`, `RunTask`, `EndRun` |
| `timed_join(0)` in `IsMaintenancing` | `IsMaintenancing`, `TryJoin` |
| `RimeStartMaintenance` | `RimeStartMaintenance`, `InstallationUpdate`, `ConfigFileUpdate`, `Schedule1`, `Schedule2`, `StartMaintenance` |
| `RimeFinalize`, `RimeJoinMaintenanceThread` | the action of that name, then `Join` |

The application may call the API in any order. ibus-rime and Squirrel initialize
once, deploy right after that, and finalize before they deploy again; the API does
not ask for this, and Weasel initializes and deploys again when a client wants a
session while it is disabled (`weasel/RimeWithWeasel/RimeWithWeasel.cpp:129`). The
history variable `conduct` remembers whether the application has been orderly so
far; `NoTwoDeployments` and `TasksRun` are about applications that have.

### UserDb, UserDict and Lexicon

`Lexicon` is what the dictionary promises: a count for each entry that is known,
raised by a commit, negative after a deletion, merged by taking the larger one;
and `saved`, the last backup. A merge may also bring in counts that were `Lost`,
stored under a mangled key where no lookup finds them. It promises this as long as
the process lives; when it dies (`died`), what is promised is in `NothingInvented`
and `DataAreRestored`. `UserDict` implements it: `Seen` are the counts in the
database that is open, or in its file, or, while an upgrade has removed that, in
the copy to be merged (`Content`); `Saved` are those in the snapshot.
`UserDb` has the records of a database and the
operations of `UserDictManager` on whole databases, as operators. `UserDict` is
the state machine: the file and its snapshot, the one open `UserDb` that
`UserDictionaryComponent` hands to all sessions, a tick for each
`UserDictionary`, and the manager, which works while no session has the
database open ("CAVEAT: the user dict should be closed before the following
operations", `rime/expl/user_dict_manager.h:30`).

`commits` and `rejected` are history variables: how often an entry was committed, and
which entries were deleted when they had never been. `UpdateEntry` makes an entry that is
not there one with the count -1 when it is deleted, so that these count one more than
they were committed; no other entry may (`NothingInvented`).

| code | model |
|---|---|
| `<name>.userdb.kct`, `<name>.userdb.kct.snapshot` | `file`, `snapshot` |
| `TreeDb::db_`, in memory, while `loaded_` | `db` |
| `UserDictionary::tick_` | `dicts[d]` |
| `"c=.. d=.. t=.."` | a record `[c, t]` |
| `"\x01/tick"`, the key `""` of earlier versions, `"\x01/rime_version"` | `tick`, `empty_tick`, `old` |
| `Open`, which may call `RecoverFromSnapshot` | `LoadFile`, `LoadShared`, `LoadNothing`; `LoadBroken`, then `Recover` |
| `OnCommit`: `UpdateEntry(e, 0)` for the parts, `UpdateEntry(e, 1)` for the phrase | `Commit`, with `Touched`, `Committed`, `BackupDue` |
| `OnDeleteEntry`: `UpdateEntry(e, -1)` | `Delete` |
| `UserDictManager::Restore` | `Restore`, then `RestoreEntries` or `MergeFails`, then `RestoreTick` |
| `UpgradeUserDict` | `UpgradeBackup`, `UpgradeRemove`, then as `Restore` |

Sessions share a thread, so one handler is one step. Steps are split where a
crash may come in between: recovery, upgrade and merge. A crash leaves the file
as it was when it was opened, or with what was in the cache, or broken
(`Survivors`: what kyotocabinet guarantees without synchronization is one of
these); one during a backup leaves a broken snapshot, since the snapshot is
overwritten in place.

Not in the model: the weight `d`, which only orders candidates; a crash in the
middle of one commit, import or merge loop, that is, a file with some of the
changes of one handler; a broken snapshot of which some records can be read (none
are); the file `.old`, which is never read again; dictionaries of other types.
`commits` and `owed` are history variables for the properties.


### Syllabifier

`BuildSyllableGraph` for an input of `N` characters, in the steps of its loops: the
search, which takes the smallest of a queue of positions and types (`Discard`,
`Visit`), the pruning from behind (`Prune`), and completion (`Expand`, `Complete`,
`AddSyllable`). What the prism answers is chosen when it is asked: for each
substring the types of the spellings it has, none included. The reference is a
definition by paths, on the graph as it was found (`found`, a history variable):
`Origin(t)` is what syllables of a type not worse than `t` reach from the
beginning, `Leading` what reaches the end, `OnPath` what does both. Spelling ids,
credibility and the transposition that makes the index are left out: they follow
edge by edge.

| code | model |
|---|---|
| `graph->vertices`, `graph->edges` | `vertices`, `edges`, with the types of the spellings of an edge |
| `queue` | `queue`, a set whose smallest element is next |
| `farthest`, `last_type`, `good` | the variables of those names |
| the loop `for (int i = farthest - 1 ...)` | `Prune`, at position `at` |
| `keys`, `accessor` of the completion | `keys`, `accessor` |

### Translations and Menu

A generator is a record whose `kind` is the class of the translation, and whose
other fields are what is left of it: a list, the iterator of a lazy lookup with
its limit, phrases with the set of texts seen, all of them possibly behind a
charset filter. `Peek` and `Step` are the methods `Peek` and `Next`. `Menu` merges
them as `Menu::Prepare` does, one round of its loop for a step, passes each
candidate through Simplifier and Uniquifier (`Kept` picks the candidates of a set
of indices, in their order), and has an action for each key of
Selector and for `RimeGetContext`. An operation waits in `op` until as many
candidates have been prepared as it wants; a round that fails, because no generator
is left, ends the wait.

| code | model |
|---|---|
| `Menu::translations_`, `Menu::candidates_` | `translations`, `candidates`, each with the candidates merged into it |
| `Translation::Compare` | `Loses`; the echo that gives way is marked by `Asked` |
| `Segment::selected_index` | `selected_index` |
| `Menu::CreatePage` | `CreatePage`; the page is its number, size and whether it is the last |
| `LazyTableTranslation::Next`, `DictEntryIterator` | `FetchMore`; `LookupWords`, `NextEntry`, `Skip`, `Sort` |
| `R10nTranslation::Next`, `CharsetFilter` | `NextR10n`; `LocateNextCandidate` |

### Customizer

One settings file with its steps on disk: `Begin` decides, as `UpdateConfigFile`
does, whether to copy the distributed file and whether to patch; `Copy`;
`CopyOnly`, `Patch` or `PatchFails`. The destructor of `ConfigData` saves a patch that
has failed half-way, so `Customized` has both outcomes. The process may die
between any two steps, and while a file is written: then the file does not parse,
or does with a part of its contents (`Cuts`). Installing another release, editing
the customization, and the settings dialog with its own copy of it are
actions of the user. A version is a sequence of pieces, "custom" one of them,
compared as `CompareVersionString` does; the checksum of a customization stands
for its contents: `Values` is what an item may be set to, and a file is
`Missing`, `Unreadable` (`NoFile`) or one that parses (`File`).

`last` and `flaws` are history variables: what the last update has reported, and what has
happened to the copy since it was copied. `UpdateReportsTruly` compares the two:

| the copy | what a reported success means |
|---|---|
| made in one piece (`flaws = {}`) | it is the copied release with exactly the present customization (`Faithful`) |
| patched half-way before (`half-way`) | every key of the present customization has its value; of the patch that has failed, other keys may be left (`Effective`) |
| patched with a file other than the one of which the checksum was taken (`raced`), or cut by a crash to something that still parses (`cut`) | nothing about its contents |

In every row, the next update has nothing to do; in the first two, the release that
was copied is not older than the one that is installed, by an order that is defined apart
from `CompareVersionString` (`Newer`). The last row is what the code does: such a copy
tells a version and a checksum it does not have, and no update looks further. `Mended`
says nothing of a copy with a flaw, `half-way` included. `same_file` is the case in which the
distributed file is missing from the shared directory, and the user's own is both
source and destination.

### Weasel

| code | model |
|---|---|
| window and message loop of `ServerImpl` | `server`, `posted`, `Serve` |
| `m_disabled`, `m_active_session` of `RimeWithWeaselHandler` | `disabled`, `active` |
| sessions and maintenance of the server's librime | `sessions` (composing or not), `maintaining` |
| `WeaselIPC` shared memory | `buffer` |
| `ClientImpl::serverWnd`, `session_id` | `wnd`, `sid` |
| `WeaselIME::ProcessKeyEvent` | `Press`, then `Echo`, `Connect`, `StartSession`, `Add`, `SendKey`, `GetResponse` by `pc` |
| `FocusIn`, `FocusOut`, `UpdateInputPosition`, `EndSession` of `ClientImpl` | `MoveFocus` and `Notify`, `PostPosition`, `Deselect` |
| `Configurator::UpdateWorkspace` with its mutex | `Deploy`, `StartMaintenance`, `CloseMutex`, `EndMaintenance`, `DeployerDies` |

A message that is sent is handled in the step of its sender; one that is posted
waits in `posted` for `Serve`. The server may be shut down and started again; it
forgets its sessions, while the clients keep window and session ids and find out
one after the other. Addresses are used again, and so are ids: after a restart a
client may hold the id of a session that now belongs to another one. The model
has this; whose composition is under an id is beyond its properties.

`Service` is the same librime from inside, with threads and tasks; here its
maintenance is one bit, and calls of the API are made by the handler
(`RimeWithWeasel.cpp`) only. The composition that a client shows in its
application, the rectangle of its position and the death of a client are left
out, and so is `SHUTDOWN_SERVER` from one server to another during an
installation, which does what `Stop` does.


## 3. The runs

| run | question | distinct states |
|---|---|---|
| engine_express | Does a session with express_editor keep its composition together, with punctuation, echo and a code length of 2? | 156 000 |
| engine_fluency | ... with fluency_editor, where parts are confirmed one by one, a pattern, a delimiter, alternating punctuation? Does it keep what was selected, and commit in order? | 151 000 |
| service | Does the deployer keep its promises however the API is called? Does an orderly application lose no task and run none beside another? | 13 000 |
| user_dict_manager | Do counts follow the lexicon when a file is upgraded, merged with others and edited as text? Is merging independent of the order, mangled keys included, and the tick never behind a record? | 49 000 |
| user_dict_crash | Do two sessions with ticks of their own learn and forget as the lexicon says? Does a crash, anywhere, never invent a commit, and one crash never lose the backup? | 240 000 |
| weasel | Do panel, sessions, texts and deployer keep to themselves in whatever order messages come, and does the next key find a session? | 377 000 |
| customizer | Is what an update reports true, and is every copy mended that can be? | 852 000 |
| syllabifier | Is the pruned graph the reference graph, for every answer of the prism? | 335 000 |
| menu | Do generators, filters and pages lose, repeat or disorder a candidate, and does every key get an answer? | 19 000 |
| engine_caret, syllabifier_completion, weasel_commit | three statements of comments that the code does not keep, see below | |

Deadlock is checked in every run but those of Weasel: there nobody has to type, and
when the budget of a behaviour is spent everything may come to rest
(`CHECK_DEADLOCK FALSE`). Elsewhere a session always takes another key, an
application can always make another call, a dictionary can always be opened or
closed, and an update can always be begun again.

Four properties say less than their names. `SelectionSurvives` says nothing of a
key that commits: the letter that made Speller commit may begin an input that looks
the same as before. `NoRecordFromTheFuture` is about a dictionary that rests, as
long as the process has not died, and in a run with one session: a second session
may set the tick back, and a crash may leave a file of another time.
`CommitInOrder` says that a text goes through the composed input from its beginning
to its end, in its order and without a part twice; it does not say that nothing is
passed over: a candidate may convert only the beginning of its segment, and what is
left of that segment is then in no text. `UpdateReportsTruly` leaves out two kinds of
copies, see Customizer above.

The type invariants of Engine and Service are checked and proved, those of UserDict,
Customizer, Syllabifier and Menu are proved, and of Weasel the part its proofs need.

### Bounds and why they are enough

* `MaxInput = 3`. A segment can be split with one or two letters left, two
  segments can be selected in front of a third, an empty segment can wait behind
  two, and the caret can be in front of, inside and behind each of them. Every
  method looks at the last segment, at the last selected one, or at a boundary
  that the input has moved; three characters give each of these a neighbour on
  either side. For all that is proved in section 4 the bound does not matter.
* Characters. One letter, since control tells letters from other classes only;
  one lead of a pattern ("tick" before letters), one character no component
  knows ("sharp"), one delimiter, and punctuation of each of the four kinds.
* `MenuOf`. No candidate converts all of three letters, so that a word must be
  split, and one has a candidate for its first letter, so that it can be split in
  two ways. With `FewWords` it has a second of those, so that highlighting
  matters and pages of `PageSize = 2` have a short last page; `FewestWords` is for
  the run with more kinds of characters.
* `MaxCode` 1 and 2: a full code commits in express_editor and confirms in
  fluency_editor.
* Two sessions, two threads, two rounds of maintenance: a second thread is
  needed for the first to be lost, a second round to schedule into a thread that
  is about to end. The proofs hold for any number.
* `LifeSpan = 1`, `MaxTime = 2`: a session can become stale, and be used again
  just before.
* User dictionary. Two sessions, since a stale tick needs one that is stale and
  one that goes on; one entry, since entries meet only where a mangled key is
  mended, and user_dict_manager has one of those. `Period` is 2
  instead of 50, so that several backups fall into a run. `MaxCount` bounds how
  often an entry is committed: twice, or once and a deletion, is enough to tell
  adding from taking the larger count. `MaxCrashes = 2`: the second crash comes
  during the recovery from the first. `Foreign` has a snapshot with a deleted
  entry and a later tick, and one with an earlier tick; text files give a
  deletion, no count, and a count.
  user_dict_crash uses the symmetry of the sessions, which no property tells
  apart.
* Syllabifier. `N = 4`: a way of two syllables beside one of one syllable and beside
  a dead end, with something in front or behind. Delimiters: none, one inside,
  two in a row, one at the beginning. A substring is no spelling, a normal one or
  an abbreviation. Each completion is one or two syllables, of one or of two
  types.
* Menu. `page_size = 2`, so that menus of up to five candidates have a first, a
  middle and a short last page; `RIME_MAX_NUM_CANDIDATES = 2` lets a page be as
  large as it may be. Search limits grow 2, 4, 8 over five keys, one of them without
  words: the limit is reached twice and passed once. Every kind of generator
  alone, every pair of them, and three triples in the order of translators in the
  preset schemas.
* Customizer. Three releases, 1.0, 1.0.1 and 2.0: one that goes on where another ends,
  which must be newer than its customized copy, and one that differs in a piece. Three keys, one of which cannot be set and stands
  between the two others in the order of a patch, so that a patch may fail with
  a part applied; two edits and one crash: a crash, an edit that hides it, and
  another one that undoes the first.
* Weasel. `Budgets` bounds what happens in one behaviour: keys pressed, texts
  committed, changes of focus, other posted messages, changes of the workspace,
  runs of the deployer, shutdowns. Four of them are checked, each with what
  interacts: focus and panel, two clients and the buffer, two clients and the
  deployer, and one client with everything that may happen to the server. Two
  session ids, so that one can be used again; two messages in the queue, so that
  they can be overtaken together.

### Fairness

`FairSpec` assumes that a maintenance thread that can run does run and that its
tasks end (`WF_vars(Worker(t))`: the tasks only read and write files), and that a
call of the API that has begun goes on (`WF_vars(Continue)`: the code of a call
has no loop that waits, except for the thread). Weak fairness is enough because
nothing competes with these steps. Nothing is assumed of the application: no
fairness on `Call`.

* Weasel: processes run (`Run`, `Serve`, `Deployer`), maintenance ends, and a client
  that has begun a key goes on (`Continue(c)`). Nobody has to press a key, to change
  the focus or to run the deployer, and the deployer may die.
* Customizer: `Update` is weakly fair, since the deployer runs whenever the
  application starts, and an update has no loop that waits.
* Syllabifier and Menu: a loop that can go on does (`Step`, `Answer`). That the
  loops end is what is checked.

### Disagreements between the code and its comments

1. **engine_caret.** "finished converting current segment; move caret to the end
   of input" (`librime/src/engine.cc:219`). Whether this happens depends on a
   reference that `Forward()` may have invalidated (`engine.cc:218`).
2. **syllabifier_completion.** "when spelling algebra is enabled, a spelling
   evaluates to a set of syllables" (`librime/src/algo/syllabifier.cc:144`). A
   syllable of that set whose spelling is not a normal one is passed over by
   `continue`, without `accessor.Next()` (line 150): the loop looks at it forever.
   Everything else returns (`ReturnsUnlessStuck`).
3. **weasel_commit.** "get commit string from server"
   (`weasel/WeaselIME/WeaselIME.cpp:428`). The client reads the buffer whether or not
   the server has processed the key (line 432); during maintenance it has not, and
   the last commit is inserted again.

What the models take as it is, without a run:

* "so that next BackSpace does not revert previous selection"
  (`librime/src/impl/speller.cc:76`). `BackSpaceKeepsSelection` holds in
  fluency_editor; in express_editor `RevertLastAction` goes on from `PopInput` to
  `ReopenPreviousSegment`.
* "read-only access after library initialization" (`rime/deployer.h:34`). A second
  `RimeStartMaintenance` writes `user_id` in the caller's thread while the
  maintenance thread may run a task.
* "backup every 50 commits" (`librime/src/dict/user_dictionary.cc:239`). Each session
  counts on from its own copy of the tick, and sets it back when that is stale;
  more commits pass until the tick is a multiple of 50.
* "when the file of a user dictionary is found damaged, it is rebuilt and the data
  are restored from the backup" (`weasel/output/README.txt:74`). When the process
  dies a second time, between the creation of the new file and the reading of
  the snapshot (`librime/src/dict/user_db.cc:129`), the next `Open` finds an intact,
  empty database. `owed` is emptied by a crash for this reason. A file that is
  damaged and has no snapshot is not rebuilt (`user_db.cc:116`, `LoadNothing`).
* `fallback_segmentor` extends a raw segment that the user has confirmed, and
  clears it (`librime/src/impl/fallback_segmentor.cc:38`), while a comment says "mark
  redo segmentation, while keeping user confirmed segments"
  (`librime/src/segmentation.cc:33`); `SelectionSurvives` leaves raw segments out.
* Restoring into a file that waits to be upgraded writes a tick that may be
  earlier than that of its records, since `UserDictManager` does not know the key
  of earlier versions; `NoRecordFromTheFuture` leaves this file out until it is
  upgraded.
* "1.0 Y 1.0.custom.X --> Update: 1.0.custom.Y" (`librime/src/expl/customizer.cc`, the
  table of cases). When an item of X cannot be set, the destructor of `ConfigData` saves
  the items before it all the same (`librime/src/config.cc:396`), without version or
  checksum. The next update finds a copy that is not customized, patches Y over it
  (line 134) and reports success, with what is left of X still in it.
* The checksum is taken (line 91) before the customization is loaded (line 125). An edit
  in between that is taken back before the next update is not noticed: the copy has the
  other patch and the checksum of the present one.
* A file is written in place. What a crash leaves of a copy may parse; if it still has
  its version and checksum it is taken for up to date.
* A release that adds a piece 0 to the one before, 1.0.0 after 1.0, is not
  distributed over a customized copy, 1.0.custom, but is over one that is not: "custom"
  counts more than 0 (`librime/src/deployer.cc:26`). `NoPieceZeroAdded`, the hypothesis of
  `Truthful`, says that there is none.
* The snapshot of a user dictionary is overwritten in place (`user_db.cc:106`): a crash in a
  backup leaves no snapshot to recover from.
* An update of a configuration of which the distributed file is missing copies
  the user's file onto itself (`librime/src/expl/customizer.cc:107`), although the
  table of cases (line 42) has nothing to update there: `same_file` in Customizer.
* The joint of two syllables that are one syllable as well is marked
  (`librime/src/algo/syllabifier.cc:192`) while starts before it may still be
  removed (line 116): a vertex of the final graph may be marked for a way that is
  not in it. `VerticesAreRated` allows the mark.
* An echo that has given way stays in the list of translations; a menu that has one
  is never told to be at its last page (compare `librime/test/menu_test.cc:72`, where
  the generators are used up).
* After a restart of the server a client may hold an id that is in use again, see
  Weasel above.


## 4. The proofs

TLAPS checks every proof in `SegmentationProofs`, `EngineProofs`,
`ServiceProofs`, `WeaselProofs`, `UserDictProofs`, `CustomizerProofs`,
`SyllabifierProofs` and `MenuProofs`, for all values of the constants that satisfy
the assumptions of the modules. Those are: `MaxInput`, `PageSize`, `LifeSpan` ...
are natural numbers; `PunctDef` maps punctuation to one of four kinds; a translator
answers with candidates that consume a nonempty prefix of its segment
(`TranslatorAssumption`, what every translator of librime does); `Leads` and
`Letters` are disjoint (so that an input ends with at most one pattern); option
`auto_commit` is what the editor sets it to; `NoThread` and `NoTask` are not threads
and tasks, `NoSession` is not the address of one; keys are finitely many, and a
mangled key is meant for one entry that is not mangled; what stands for a file that
is missing or broken is not a file (`NoFileAssumption`, `FilesAssumption`); what a
schema offers are finite sequences, and OpenCC does not answer with one form twice
(`RecipeAssumption`, `FormsAssumption`); a translation that is offered has a candidate
and goes from long candidates to short ones, only the echo translator offers the
input, and it is the first of its schema (`OfferAssumption`); an input is not empty, and what the
prism knows is spelt normally or abbreviated (`InputAssumption`).
Four theorems have a hypothesis of their own, in the table; see there.

| theorem | says |
|---|---|
| `EngineProofs!TypeCorrect` | `Spec => []TypeOK` |
| `EngineProofs!Partition` | `Spec => []SegmentsPartitionInput` |
| `EngineProofs!EmptySegment` | `Spec => []EmptySegmentFollowsSelection` |
| `EngineProofs!Selection` | `Spec => []SelectionFits` |
| `EngineProofs!CommitOrder` | `Spec => []CommitInOrder` |
| `EngineProofs!InlineEnds` | `Spec => []InlineEndsWithComposition` |
| `EngineProofs!SelectionStays` | `Spec => SelectionSurvives` |
| `EngineProofs!UndoesTyping` | `Spec => []BackSpaceUndoesTyping` |
| `EngineProofs!KeepsSelection` | `Spec => []BackSpaceKeepsSelection`, if `~ Express` |
| `EngineProofs!SpaceProgresses` | `Spec => []SpaceMakesProgress` |
| `ServiceProofs!TypeCorrect` | `Spec => []TypeOK` |
| `ServiceProofs!OneThread` | `Spec => []OneMaintenanceThread` |
| `ServiceProofs!KeysAlone` | `Spec => []NoKeyDuringMaintenance` |
| `ServiceProofs!QuietAfterFinalize` | `Spec => FinalizedIsQuiet` |
| `ServiceProofs!Refinement` | `Spec => ImplementsTaskQueue` |
| `ServiceProofs!OrderlyDeployments` | `Spec => []NoTwoDeployments` |
| `WeaselProofs!NoSessionIsLost` | `Spec => []SessionsAreHeld` |
| `WeaselProofs!DeployerAlone` | `Spec => []DeployerWorksAlone` |
| `WeaselProofs!PanelIsActive` | `Spec => []PanelShowsActiveSession` |
| `WeaselProofs!PanelFollows` | `Spec => []PanelFollowsFocus` |
| `WeaselProofs!TextsArrive` | `Spec => []TextArrives` |
| `UserDictProofs!TypeCorrect` | `Spec => []TypeOK` |
| `UserDictProofs!AnyOrder` | `Spec => []RestoreInAnyOrder` |
| `UserDictProofs!Restoration` | `Spec => []DataAreRestored` |
| `UserDictProofs!NoneMadeUp` | `Spec => []NothingInvented` |
| `UserDictProofs!Implementation` | `Spec => ImplementsLexicon` |
| `UserDictProofs!NoneFromTheFuture` | `OneSession` and `FirstIsTimely` imply `Spec => []NoRecordFromTheFuture` |
| `CustomizerProofs!TypeCorrect` | `Spec => []TypeOK` |
| `CustomizerProofs!Truthful` | `Spec => []UpdateReportsTruly`, if `NoPieceZeroAdded` |
| `SyllabifierProofs!TypeCorrect` | `Spec => []TypeOK` |
| `SyllabifierProofs!ExactGraph` | `Spec => []GraphIsExact` |
| `SyllabifierProofs!RatedVertices` | `Spec => []VerticesAreRated` |
| `MenuProofs!TypeCorrect` | `Spec => []TypeOK` |
| `MenuProofs!TextsAreUnique` | `Spec => []NoDuplicates` |
| `MenuProofs!HighlightStays` | `Spec => []HighlightIsShown` |
| `MenuProofs!MenuStaysInOrder` | `Spec => []MenuIsInOrder` |
| `MenuProofs!AllIsOffered` | `Spec => []NothingLost`, if `Gapless` |

### Engine

The properties are not inductive: a method calls others half-way through, with a
context whose segments are still about the old input. The proof therefore has
two invariants of a *context*, not of a state. A context is **sound** when its
segments are a chain, consecutive intervals from 0 on of which only the last may
be empty, about the string that was composed last; it is **composed** when that
string is the input before the caret and the chain reaches its end, an empty
segment following a selection; and **complete** when AsciiComposer has heard of it.
Then

1. every operation on segments takes chains to chains (`SegmentationProofs`).
   Every segment of a chain is `Fine`: candidates end behind the start of their
   segment, or a split could make an empty segment in the middle; the highlighted
   one does not reach beyond its segment, and a selected segment ends with it,
   which is `SelectionFits`. The segment that is being split is only `Loose`;
2. every round of segmentors gets on in the input (`RoundAdvances`), so the loop
   ends with a chain that reaches the end (`LoopFinished`, an induction on the
   iterations by a least counterexample), and `Compose` makes a sound context
   complete (`ComposeComposed`, `UpdateComplete`);
3. every method takes complete contexts to complete contexts, most of them
   through a sound one and `Compose`; the others change a status or a highlighted
   index only;
4. `IInv`, that `ctx` is complete, is inductive: one lemma for each processor.
   What has been committed is part of it (`Bounded`): the pieces of a commit text or
   a script text are those of the chain, each from where the one before it ended,
   and what is left of the input behind them (`InOrderWithRest`).

The proof covers both values of `reached`: the freed memory in `OnSelect` can
misplace the caret but not break the composition, nor lose a selection.

*Selections.* `SelectionSurvives` relates two states, so it is proved of two
contexts, before and after a method. d `Retains` what c holds: a selected segment
that is neither empty nor raw is in d as well, at its place, unless the
composed strings differ before its end. `Compose` retains because the segmentors
never touch what they cannot overwrite (`SelectedStays` in `SegmentationProofs`):
`Reset` disposes only what ends behind the first difference, and then puts an empty
segment behind a selection (this is what the mutant of this property leaves out);
a round can only add to the last segment, or join a raw one with it. Retaining is
transitive only as long as the string is not shortened in between, since it may
become the same again: the first of two methods must *grow* it (`Grows`,
`RetainsTrans`). Selecting grows the string or commits (`Passes`); so a key of
Selector or Editor that goes on after a selection retains as well.

*Typing and taking back.* `BackSpaceUndoesTyping` needs that a letter never ends up in
a segment that is selected: what a round adds or joins is not, and in front of the
caret the last segment is the one with the letter (`TypedIsLast` in
`SegmentationProofs`). So the selection that Speller confirms lies before it; being
confirmed, and still the last one (`ConfirmPreviousLeaves`), it is not reopened, nor is
there an empty segment to remove: what BackSpace removes is the letter
(`InsertedRemoved`).

That the selection is kept as well (`BackSpaceKeepsSelection`, fluency_editor) needs more,
because a selected segment may be raw, and `fallback_segmentor` extends a raw segment
with what follows, which clears it. BackSpace composes the string without the letter;
`Reset` drops the last segment, the one with the letter, and no other
(`ResetDropsLast`). What is in front of it is found again: the
dropped segment began where `abc_segmentor` or `matcher` finds something (`Opens`,
`TypedOpens`: in a string that ends with a letter the last segment begins with a letter, or with
the lead of a pattern that goes on to the end), and they find something there in the
shorter string, so the fallback is not asked. Behind a selected segment there is always
either a segment that is not empty or such a place (`Followed`), an invariant of the rounds
(`LoopFollows`), under which a round leaves all that is selected (`UntypedKeeps`). Only if
the letter stood alone in its segment does the string end with what was selected.

*Getting on.* `SpaceMakesProgress` compares any context in which Space is taken with
what `Editor::Confirm` makes of it, for both things the freed memory in `OnSelect` may
say; it is an invariant, so that a press that changes nothing violates it. What cannot be
confirmed is committed, which sends (`ConfirmSends`). Before Space the confirmed position is not behind the start of the last
segment (`ConfirmedBeforeBack`). After it, that segment, perhaps split, is selected
with its end behind its start (`Goes`), and composing the same string again leaves it,
unless it is raw and shorter than the string; but a raw segment is never split,
its only candidates being echoes of all of it, which is part of `Loose`. If the
caret was not at the end, and `OnSelect` takes it there, it has moved.

### Service

`IInv` says that every thread that has not been joined is the one `handle`
stands for, that `handle` stands for no other, that a key is processed only if
there is none, and that the number of a call in progress is in range. It is
needed because `OneMaintenanceThread` alone does not say that
`StartMaintenance`, when it finds the old thread ended, swaps out exactly that
one. The refinement maps the queue to `waiting`, the task of the thread `handle`
stands for to `running` and the log to `finished`; a step of the API or of the
clock is a stutter.

### Weasel

`IInv` is `Shape /\ Resting /\ Held`. `Resting`: a server that does not serve, or
beside which the deployer is at work, is disabled and not maintaining; one that
is disabled or maintaining has no session. `DeployerWorksAlone` alone is not
inductive, since a session may be asked for between two steps of the deployer;
what keeps it is that a disabled server looks for the deployer's mutex before it
initializes. `Held`: a session has a client that holds its id, has a window to post
to and is not about to ask for another session, or its end is in the queue. A
client that holds the id but is about to ask for another one will forget it,
which `SessionsAreHeld` does not exclude and `Held` must. The panel needs only that
every handler that ends, disables or changes the active session hides it.

*The panel and the focus.* `PanelFollowsFocus` speaks of a quiet moment; what keeps
it true is about the messages on their way. A session is `Bound` to be shown when
the panel shows it or a message in the queue will, and no later message hides the
panel again. `Followed`: a session that composes and is bound to be shown is that of
the client with the focus, unless some client has lost the focus and has yet to
post so (`Leaving`); that message, when it is posted, unbinds everything before it.
`Attended`: a client without the focus that is amid a key is such a client.

*The texts.* `TextInv` adds to `TextArrives` what a client is about to read: if the
buffer answers its own key, its text is the one the document lacks (`Answered`).
Both speak of a behaviour that is `calm`, in which every answer was read by the
client it was for: without a check of its own a client may read what another one
has been answered, or its own last answer once more (the run weasel_commit).

### User dictionary

*Merging.* `Max` of the community modules is a `CHOOSE`; that it is the largest
element follows from `LargestExists`, a least counterexample among the subsets of a
finite set. With it every count that a merge writes is one of those that meet at
its key, and not less than any of them; two merges, in either order, write one of
the union of what meets, and not less than any; such a count is unique, whence
`MergesCommute`. Ticks are a maximum as well, except that an empty snapshot leaves
the tick alone.

*Restoration.* `OwedInv` follows the data: while the broken file is being replaced
they are in the snapshot; then in the open database; when that is closed, in its
file; when an upgrade has removed that, in the copy to be merged. Every handler
only adds keys (`CommittedIsStore`, `DeletedIsStore`, `ImportedIsStore`,
`MergeEntriesIsStore`), except that a merge mends a key, once and for all
(`KeptWhenMerged`). `TaskInv` says which stage excludes sessions, an open database
or a missing file; with `TypeOK` it is inductive by itself.

*Nothing made up.* A count comes from somewhere outside (`Given`: a text file, another
machine, the file at the beginning) and goes on with what the user has done since
(`Earned`: the commits, and one for an entry in `rejected`, which was deleted before any
commit). `CountInv` bounds the counts in the file, the snapshot, the open database and the
copy to be merged alike (`Fits`), those under a mangled key by what was given to and earned
by the entry it was meant for, or the merge that mends it could exceed the bound. A
merge takes the larger of two counts, each of which has its own source, and so the
bound needs one source only (`WithinMore`, `FitsMore`).

*The lexicon.* `StepSimulation` goes through the actions: opening, closing and the
steps of an upgrade leave `Seen` as it is, since the copy to be merged is seen while
there is no file; a commit is `Learn`, with or without a backup of what was known
before the entry was counted; a merge is `Merge` with the counts of what it reads,
joined with those that were lost (`MergedIsSeen`). It is for this that `LifeInv` says,
as long as the process lives, what may be merged and that no database holds a
mangled key but those that were there at the beginning or came from elsewhere.

*Ticks.* `NoneFromTheFuture` assumes one session (`OneSession`), and that the file at
the beginning has its tick in order (`FirstIsTimely`). `TimeInv`
adds that the session's tick is that of the database, and that between the two
halves of a merge, when records are in and the tick is not, it is the tick to come
that bounds them.

### Customizer

`UpdateReportsTruly` is about what the last update has said; `IInv` is about the file.
`CopyInv`: one that was made in one piece is a copy of some release, or such a copy
with one whole customization (`Whole`); one that was patched half-way has at least the
version of some release, or that with "custom" and every value of the customization it
names (`Marked`). `PatchInv`: between the two steps of an update the file has no
customization and is not older than the release, so that patching it makes it `Whole`, or
`Marked`, again (`PatchedCopy`). The rest is that version and checksum tell all of a whole file, and that a release
that is not newer than a version is not newer than that version with "custom"
appended (`CompareCustom`, by the first difference of two versions). Of
`CompareVersionString` itself `NotNewer` says that it finds a release newer than a copy when
it is `Newer` than the release that was copied, customized or not. For this a release that
goes on where another ends must go on with a piece above 0 (`NoPieceZeroAdded`).

### Syllabifier

*The reference* is recursive: a position is reached if it is the first, or a syllable
leads to it from one that is. `OriginSteps` shows that this defines a set, and which
one: the least that is closed under steps solves the recursion, and any solution
has the property that is used below. `LeadingSteps` is the same from behind.

*Building.* `VisitInv` says that the queue is ahead of what has been visited, in the
order of positions and types (`InOrder`), so that the first visit of a position is
with its best type; that whatever a syllable arrives at has been visited or waits
(`AllOffered`), and that nothing has been visited that no syllable arrives at
(`AllSupported`). When the queue is empty, vertices and their types are therefore
those of the reference (`AllVisited`): a position on which they differed would have
one before it on which they do as well.

*Pruning.* `PruneInv` is `GraphIsExact` in the middle: behind `at` the graph is exact, and
up to it everything is as it was found (`VerticesLeft`, `EdgesLeft`). A position is on a
way to the end if a syllable leads on to one that is (`OnPathSteps`), which is just
what `Qualified` asks of the syllables from `at`, since `good` is the path behind it
(`QualifiedAre`). Marks are made at joints behind `at` only, so that the type of the
vertex that is looked at is the one it was visited with; this is what keeps
`CheckOverlappedSpellings` from removing a vertex.

*Completion* changes one edge, from the end of the path to that of the input, which no
syllable was found for (`CompletionKeeps`).

### Menu

`IInv` is the type invariant with `NoDuplicates`, `HighlightIsShown`, what a list of
candidates is (`Entries`), and that a page is only shown between two keys
(`Resting`). That no text comes twice is the work of `Uniquified`: a candidate
whose text is there is merged into the entry that has it, in its place, and among
those that Simplifier makes of one candidate no text is twice (`Simplified`). `Kept`
is a sequence in the order of the indices; that it has each candidate once is proved by
their ranks (`Ranked`, `KeptOnce`). Which generator is asked plays no part in these
three theorems.

It does in the order of the menu, which has an invariant of its own, `OrderInv`:

* A generator keeps its form while it goes on (`HasForm`, `GoneOn`): its kind, and that
  it goes from long to short. For a lookup by pages and for phrases that were seen this
  is `LazyGoesOn` and `R10nGoesOn`. A charset filter goes on by a recursive function, of
  which the prover knows nothing: `Runs` constructs its value from finite approximations,
  each the continuation of the one before, and `PassingGoesOn` follows it step by step
  (a least step at which the form is lost does not exist).
* An echo that has not been asked is where it was, at the front of a menu that is still
  as it was offered; one that has been asked is exhausted (`EchoRests`). So when the
  echo provides, nothing else was offered, and nothing is left (`InputAlone`).
* Of two generators the one that provides has the longest candidate
  (`ProvidesTheLongest`), so that nothing they still have is longer than what was
  recruited (`Merged`). Of three this is not so, as the loop compares neighbours only (of
  candidates that end at 2, 2 and 3 the first goes first); the property is stated for two.

*Nothing is lost* has a third invariant, `RestInv`: every text that was offered is
either in the menu, in each of its forms (`Covered`), or some generator still has it and
will not filter it out (`Awaited`). `Remains` says what it is for a generator to have a
text: a list has it among its items, the list of phrases also has not seen it; a lookup has
it in its iterator, or among the words of keys beyond its limit. A step of a
generator loses the text it shows and no other (`AdvancedLeaves`), and that one Simplifier
and Uniquifier put into the menu in each form (`RecruitCovers`); no generator is dropped
unless it is exhausted (`StillThere`).

The work is in the lookup. Chunks are sorted by their heads, which is a permutation
(`Sorted`: each chunk is at its rank, and ranks are a bijection); the next word leaves the
others (`NextEntryLeaves`). When the iterator is empty, the search is repeated with a larger
limit, and the words that were counted are skipped. That this skips exactly the old words
is a matter of counting: what the larger search finds begins with what the smaller one
found, in the same order, as `LookupWords` only filters and `Skip` is done before the new
chunks are sorted. `Cells` gives the words of the first chunks as pairs; `CellsAdded`
and `SkipLeaves` say how their numbers add up.

`Gapless` is a hypothesis of this theorem, and it is necessary. `LazyTableTranslation::Next`
gives the search up when the expanded search has gained no word
(`librime/src/impl/table_translator.cc:68`), although there may be keys beyond the
larger limit that have words. Where `kExpandingFactor` times as many keys bring no new
word, because the keys in between have phrases only, the words behind them are never
offered. `NoGap` says that this is not so for any limit from `kInitialSearchLimit` on;
TLC evaluates it for the keys of `MCMenu` (one of which has no words, alone between two that have).

### Only model-checked

* Liveness (`CallsReturn`, `TasksRun`, `KeyFindsSession`, `Mended`, `KeysAreAnswered`,
  `ReturnsUnlessStuck`): the prover has no rules for fairness.
* What the theorems leave to their hypotheses: `BackSpaceKeepsSelection` is false in
  express_editor (see above), `NothingLost` is for `Gapless` lookups, `NoRecordFromTheFuture`
  for one session, and `UpdateReportsTruly` for releases that add no piece 0.

## 5. What is left out

Of the modelled components: the preedit and prompts (display only); the commit
history; the tag "paging"; full shape; the exception of Punctuator for digits
before a separator, which reads the commit history; `DeleteCurrentSelection`,
whose effect is in the user dictionary; `Segmentation::Reset(size_t)`; the option
"dumb", which only the switcher sets; press-and-release detection in
AsciiComposer, of which the toggle is what remains; contents of files that tasks
write; exceptions thrown by libraries. The application has one thread, as in
ibus-rime and Squirrel.

Of the algorithms: the transposition of the syllable graph and the credibility of
a syllable; looking up phrases along the graph and making sentences. Of the user
dictionary: weights and the depth-first lookup. Of Weasel: see there.

Of the other components see the table: dictionaries' binary layout, file mapping,
parsing of YAML, drawing and platform glue are input and output without control
worth a model; the spelling algebra is regular expressions over strings. Most of
the lines of the repository are of such a kind: the headers of the Windows
Template Library under `weasel/include/wtl`, the generated table of key names
(`librime/src/key_table.cc`), schemas and dictionaries.


## 6. The plan

Modules to come, in this order, each with the hazards it is for.

1. **KeyBinder, ChordComposer, Switcher** around an engine that takes keys:
   re-entrance, `redirecting_`, `pass_thru_`, a schema replaced while a key is in
   progress, options restored.
2. **Poet** and the lookup of phrases along a graph, against a reference over the
   graphs of Syllabifier.
3. **Config**: a tree with lists and maps, paths, copy on write.
4. The composition of Weasel with Service: the second client that asks for a session
   during maintenance, with threads; the composition that a client shows.

Every invariant that a run checks is stated by a theorem. What is left to prove comes with
these modules.
