-------------------------------- MODULE CodeIndex --------------------------------
(***************************************************************************)
(* The code index: a source file is prepared (parsed, resolved, batched by   *)
(* app/parsers/pipeline.py and persist.py), staged on disk                   *)
(* (services/commands/command_parse_stage.py), by a command or by the        *)
(* watcher, and committed to the graph by app/parsers/ingest.py.             *)
(*                                                                          *)
(* A curated command is dispatched by a snippet that runs in a child process *)
(* of its own, the indexing tools run in the server: calls of commands and   *)
(* the watcher are actors that share a stage directory and no lock. A file   *)
(* of a command is a call of its own here; there is one watcher at a time.   *)
(* The developer edits at any time, also between the two reads of            *)
(* prepare_index_file: the symbols come from the first, the hash from the    *)
(* second. A text stands for its symbols and for its hash. The database file *)
(* is open in one process at a time, so an ingest is one step; the FTS       *)
(* indexes that it makes again are in EmbeddingIndex.                        *)
(***************************************************************************)
EXTENDS Integers, FiniteSets

CONSTANTS
  Paths,     \* source files of one root, in the watcher's include patterns
  Texts,     \* what a file may hold
  NoText,    \* no such file; as a hash: that of nothing
  Commands,  \* calls of stage, commit-index, index_file or index_tree at once
  MaxEdits   \* bound: how often the developer saves or removes a file

Watcher == "watcher"

ASSUME CodeIndexAssumption ==
  /\ NoText \notin Texts /\ MaxEdits \in Nat
  /\ Watcher \notin Commands /\ "none" \notin Paths

VARIABLES
  file,       \* each source file
  edits,      \* how often one was changed
  watching,   \* _watch_worker runs
  noticed,    \* paths in its queue, or newer than its snapshot
  touched,    \* history: paths saved while it ran
  unparsed,   \* history: paths whose last look by the watcher gave no batch
  spoiled,    \* history: paths whose entry a command may have spoiled; see CloseEntry
  grammar,    \* it runs and has a JSON grammar: the stage entries are source files
  echo,       \* the watcher has noticed a stage entry; see StageEcho
  work,       \* what each actor has in hand: how far it is, the path, the batch
  staged,     \* stage entry of each path: its batch, nothing, or a torn file
  indexed     \* CodeFile.content_hash of each path, and whose symbols are there

codeVars == <<file, edits, watching, noticed, touched, unparsed, spoiled, grammar,
              echo, work, staged, indexed>>
diskVars == <<file, edits>>
watchVars == <<watching, noticed, touched, unparsed, grammar>>

Actors == Commands \cup {Watcher}

Entry(symbols, hash) == [symbols |-> symbols, hash |-> hash]
NoEntry == Entry("none", "none")
Torn == Entry("torn", "torn")

At(step, p, entry) == [at |-> step, path |-> p, entry |-> entry]
NoWork == At("idle", "none", NoEntry)

(* Those that have the entry of a path open for writing.                     *)
Writing(w, p) == w.at \in {"writing", "sharing"} /\ w.path = p
Writers(p) == {a \in Actors : Writing(work[a], p)}

CodeInit ==
  /\ file \in [Paths -> Texts \cup {NoText}] /\ edits = 0
  /\ watching = FALSE /\ grammar = FALSE /\ echo = 0
  /\ noticed = {} /\ touched = {} /\ unparsed = {} /\ spoiled = {}
  /\ work = [a \in Actors |-> NoWork]
  /\ staged = [p \in Paths |-> NoEntry]
  /\ indexed = [p \in Paths |-> [hash |-> NoText, symbols |-> {}]]

Goes(a, w) == work' = [work EXCEPT ![a] = w]

---------------------------------------------------------------------------
(* The developer. Creation, modification and the target of a move are         *)
(* noticed; the watcher is not told of a removal.                            *)
Edit(p, text) ==
  /\ edits < MaxEdits
  /\ text # file[p]
  /\ edits' = edits + 1
  /\ file' = [file EXCEPT ![p] = text]
  /\ IF watching /\ text # NoText
     THEN noticed' = noticed \cup {p} /\ touched' = touched \cup {p}
     ELSE UNCHANGED <<noticed, touched>>
  /\ UNCHANGED <<watching, unparsed, spoiled, grammar, echo, work, staged, indexed>>

(* The worker takes its snapshot, or starts its observer. *)
StartWatching(installed) ==
  /\ ~watching
  /\ watching' = TRUE /\ grammar' = installed
  /\ noticed' = {} /\ touched' = {} /\ unparsed' = {} /\ spoiled' = {} /\ echo' = 0
  /\ UNCHANGED <<diskVars, work, staged, indexed>>

(* The task is cancelled, a file operation raises, or the process ends with    *)
(* the snippet or is killed, perhaps in the middle of an entry.              *)
StopWatching ==
  /\ watching
  /\ watching' = FALSE /\ grammar' = FALSE
  /\ noticed' = {} /\ touched' = {} /\ unparsed' = {} /\ spoiled' = {} /\ echo' = 0
  /\ Goes(Watcher, NoWork)
  /\ UNCHANGED <<diskVars, staged, indexed>>

---------------------------------------------------------------------------
(* prepare_index_file. No batch comes of a file that cannot be read, has no   *)
(* symbols, or hits a limit of size or time.                                 *)

FirstRead(a, p) ==
  /\ file[p] # NoText
  /\ Goes(a, At("parsed", p, Entry(file[p], NoText)))

Prepare(c, p) ==
  /\ work[c] = NoWork
  /\ FirstRead(c, p)
  /\ UNCHANGED <<diskVars, watchVars, spoiled, echo, staged, indexed>>

WatcherLooks(p) ==
  /\ watching /\ work[Watcher] = NoWork
  /\ p \in noticed
  /\ noticed' = noticed \ {p}
  /\ \/ FirstRead(Watcher, p) /\ unparsed' = unparsed \ {p}
     \/ unparsed' = unparsed \cup {p} /\ UNCHANGED work
  /\ UNCHANGED <<diskVars, watching, touched, spoiled, grammar, echo, staged, indexed>>

SecondRead(a) ==
  LET w == work[a] IN
  /\ w.at = "parsed"
  /\ Goes(a, At("hashed", w.path, Entry(w.entry.symbols, file[w.path])))
  /\ UNCHANGED <<diskVars, watchVars, spoiled, echo, staged, indexed>>

---------------------------------------------------------------------------
(* _write_stage_entry. write_text empties the file, writes and closes it: two  *)
(* that have it open write into each other. The stage directory lies under    *)
(* the root and .json is a language: the watcher notices the entry.          *)

Echoes == echo' = IF watching /\ echo = 0 THEN 1 ELSE echo

OpenEntry(a) ==
  LET p == work[a].path IN
  /\ work[a].at = "hashed"
  /\ staged' = [staged EXCEPT ![p] = Torn]
  /\ \/ Writers(p) = {} /\ Goes(a, At("writing", p, work[a].entry)) /\ UNCHANGED spoiled
     \/ /\ Writers(p) # {}
        /\ work' = [b \in Actors |-> IF b \in Writers(p) \cup {a}
                                     THEN At("sharing", p, work[b].entry) ELSE work[b]]
        /\ spoiled' = spoiled \cup {p}
  /\ Echoes
  /\ UNCHANGED <<diskVars, watchVars, indexed>>

(* What the file may hold after one of its writers has closed it.            *)
Closed(w) ==
  CASE w.at = "writing" -> {w.entry}
    [] w.at = "sharing" -> {staged[w.path], w.entry, Torn}
    [] w.at = "orphan"  -> {staged[w.path]}   \* unlinked since it was opened

(* The watcher has written its entry for good if nobody wrote beside it and   *)
(* no command has in hand what it read or prepared before: a command that     *)
(* does may overwrite the entry with an older one, or unlink it with that.   *)
CloseEntry(a) ==
  LET p == work[a].path IN
  /\ work[a].at \in {"writing", "sharing", "orphan"}
  /\ \E content \in Closed(work[a]) : staged' = [staged EXCEPT ![p] = content]
  /\ spoiled' = IF a # Watcher THEN spoiled
                ELSE IF work[a].at = "writing" /\ \A c \in Commands : work[c].path # p
                     THEN spoiled \ {p} ELSE spoiled \cup {p}
  /\ Goes(a, NoWork)
  /\ Echoes
  /\ UNCHANGED <<diskVars, watchVars, indexed>>

(* Mutant: the entry of a stage entry is staged with or without a grammar.   *)
StageEcho_mutantAlways ==
  /\ watching /\ work[Watcher] = NoWork
  /\ echo > 0
  /\ echo' = 3 - echo
  /\ UNCHANGED <<diskVars, watchVars, spoiled, work, staged, indexed>>

(* Without a JSON grammar the entry has no symbols. With one the entry is     *)
(* staged itself, in a new entry that is noticed again: 1 and 2 alternate.   *)
StageEcho ==
  /\ watching /\ work[Watcher] = NoWork
  /\ echo > 0
  /\ echo' = IF grammar THEN 3 - echo ELSE 0
  /\ UNCHANGED <<diskVars, watchVars, spoiled, work, staged, indexed>>

---------------------------------------------------------------------------
(* ingest_batch never raises. It writes the batch in a transaction that is    *)
(* rolled back as a whole; it may also fail at the FTS indexes, before the    *)
(* transaction or after it.                                                  *)

Merged(p, entry) ==
  [indexed EXCEPT ![p] = [hash |-> entry.hash, symbols |-> @.symbols \cup {entry.symbols}]]

Ingest(w, succeeded) ==
  \/ indexed' = Merged(w.path, w.entry)
  \/ ~succeeded /\ UNCHANGED indexed

(* index_file and index_tree: the batch goes to the graph without a stage. *)
IndexBatch(c) ==
  /\ work[c].at = "hashed"
  /\ Ingest(work[c], FALSE)
  /\ Goes(c, NoWork)
  /\ UNCHANGED <<diskVars, watchVars, spoiled, echo, staged>>

(* code_commit_index: _load_staged_entries reads all entries first and raises *)
(* at a torn one; relative_paths may select any.                             *)
LoadEntries(c, p) ==
  /\ work[c] = NoWork
  /\ \A q \in Paths : staged[q] # Torn
  /\ staged[p] # NoEntry
  /\ Goes(c, At("loaded", p, staged[p]))
  /\ UNCHANGED <<diskVars, watchVars, spoiled, echo, staged, indexed>>

(* Mutant: the entry is unlinked whether the ingest succeeded or not.        *)
CommitBatch_mutantUnlinks(c) ==
  /\ work[c].at = "loaded"
  /\ Ingest(work[c], FALSE)
  /\ Goes(c, At("unlinking", work[c].path, work[c].entry))
  /\ UNCHANGED <<diskVars, watchVars, spoiled, echo, staged>>

(* One entry of its loop: to be unlinked if everything went well.            *)
CommitBatch(c) ==
  /\ work[c].at = "loaded"
  /\ \/ Ingest(work[c], TRUE) /\ Goes(c, At("unlinking", work[c].path, work[c].entry))
     \/ Ingest(work[c], FALSE) /\ Goes(c, NoWork)
  /\ UNCHANGED <<diskVars, watchVars, spoiled, echo, staged>>

(* By its path: what was loaded, or what was written there since.            *)
Unlink(c) ==
  LET p == work[c].path IN
  /\ work[c].at = "unlinking"
  /\ staged' = [staged EXCEPT ![p] = NoEntry]
  /\ work' = [a \in Actors |-> CASE a = c -> NoWork
                                 [] a \in Writers(p) -> At("orphan", p, work[a].entry)
                                 [] OTHER -> work[a]]
  /\ UNCHANGED <<diskVars, watchVars, spoiled, echo, indexed>>

(* A command ends early: its process is killed at the bridge's timeout or      *)
(* crashes, an operation raises, or there is no batch to write.              *)
Dies(c) ==
  /\ work[c] # NoWork
  /\ Goes(c, NoWork)
  /\ spoiled' = IF work[c].at \in {"writing", "sharing"}
                THEN spoiled \cup {work[c].path} ELSE spoiled
  /\ UNCHANGED <<diskVars, watchVars, echo, staged, indexed>>

CodeNext ==
  \/ \E p \in Paths :
       \/ \E text \in Texts \cup {NoText} : Edit(p, text)
       \/ \E c \in Commands : Prepare(c, p) \/ LoadEntries(c, p)
       \/ WatcherLooks(p)
  \/ \E a \in Actors : SecondRead(a) \/ OpenEntry(a) \/ CloseEntry(a)
  \/ \E c \in Commands : IndexBatch(c) \/ CommitBatch(c) \/ Unlink(c) \/ Dies(c)
  \/ \E installed \in BOOLEAN : StartWatching(installed)
  \/ StopWatching \/ StageEcho

CodeSpec == CodeInit /\ [][CodeNext]_codeVars

(* The worker goes on with a file it has begun, and its queue is first in,    *)
(* first out: no path waits in it for ever behind others. Nothing is asked of *)
(* commands.                                                                 *)
CodeFairness ==
  /\ \A p \in Paths : SF_codeVars(WatcherLooks(p))
  /\ SF_codeVars(StageEcho)
  /\ WF_codeVars(SecondRead(Watcher) \/ OpenEntry(Watcher) \/ CloseEntry(Watcher))

---------------------------------------------------------------------------
Batch == [symbols : Texts, hash : Texts \cup {NoText}]
Steps == {"parsed", "hashed", "writing", "sharing", "orphan", "loaded", "unlinking"}

CodeTypeOK ==
  /\ file \in [Paths -> Texts \cup {NoText}]
  /\ edits \in 0 .. MaxEdits
  /\ watching \in BOOLEAN /\ grammar \in BOOLEAN /\ echo \in 0 .. 2
  /\ noticed \subseteq Paths /\ touched \subseteq Paths
  /\ unparsed \subseteq Paths /\ spoiled \subseteq Paths
  /\ work \in [Actors -> {NoWork} \cup [at : Steps, path : Paths, entry : Batch]]
  /\ staged \in [Paths -> {NoEntry, Torn} \cup Batch]
  /\ indexed \in [Paths -> [hash : Texts \cup {NoText}, symbols : SUBSET Texts]]

Holds(entry, text) == entry = Entry(text, text)
InGraph(p, text) == indexed[p].hash = text /\ text \in indexed[p].symbols

(* The watcher loses no save: when it has looked at a path that was saved     *)
(* while it ran, the stage entry, or with the entry committed the graph, has  *)
(* the symbols and the hash of one text, the one on disk. Edits between the   *)
(* two reads, failed commits, and commands that begin after the watcher's     *)
(* write may not break this; one that it overtook, that writes into the same *)
(* file as another, or that dies while writing may.                          *)
StagedIsFresh ==
  watching =>
    \A p \in touched \ (noticed \cup unparsed \cup spoiled) :
      file[p] # NoText /\ work[Watcher].path # p /\ Writers(p) = {} =>
        \/ Holds(staged[p], file[p])
        \/ staged[p] = NoEntry /\ InGraph(p, file[p])

(* The watcher comes to rest after the last save: what it writes below the    *)
(* watched root does not keep it busy, unless a JSON grammar is installed.   *)
WatcherSettles ==
  watching /\ ~grammar ~> ~watching \/ (noticed = {} /\ echo = 0)
=================================================================================
