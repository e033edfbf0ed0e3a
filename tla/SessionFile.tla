----------------------------- MODULE SessionFile -----------------------------
(***************************************************************************)
(* class SessionManager (packages/coding-agent/src/core/session-manager.ts):  *)
(* a tree of entries kept in memory and in a file to which lines are appended.  *)
(* Nothing is written before the first assistant message; a write may fail half-  *)
(* way, a process may die in it, and the next one opens what is left.             *)
(***************************************************************************)
EXTENDS Integers, Sequences, SequencesExt, Lists

CONSTANTS MaxEntries, MaxFiles, \* bounds
          MaxDeaths             \* bound: deaths in the middle of a write, and failing writes
ASSUME SessionFileAssumption == {MaxEntries, MaxDeaths} \subseteq Nat /\ MaxFiles \in Nat \ {0}

VARIABLES
  disk,        \* the session file: its lines, and whether the last one is terminated
  outdated,    \* its header has a version before CURRENT_SESSION_VERSION
  running,     \* a process has the session open
  fileEntries, leafId, flushed, \* of that process
  \* history and bounds
  entryCount, deaths, files,
  unwritten,   \* entries of which a write failed that has not been made up for
  damaged,     \* something was appended to an unterminated line, or to the file of a
               \* branch of which the first write failed
  doubled      \* the file was opened as flushed without an assistant message in it, or
               \* its first flush failed half-way: it is going to be flushed again
sessionFileVars == <<disk, outdated, running, fileEntries, leafId, flushed, entryCount, deaths,
                     files, unwritten, damaged, doubled>>

NoEntry == 0
Header == [id |-> 0, assistant |-> FALSE, parent |-> 0]
Junk == [id |-> -1, assistant |-> FALSE, parent |-> 0] \* a line that is no JSON
SessionEntry == [id : 1..MaxEntries, assistant : BOOLEAN, parent : 0..MaxEntries]
Line == SessionEntry \cup {Header, Junk}
NoFile == [exists |-> FALSE, lines |-> <<>>, terminated |-> TRUE]

SessionFileTypeOK ==
  /\ disk \in [exists : BOOLEAN, lines : Seq(Line), terminated : BOOLEAN]
  /\ ~disk.terminated => disk.lines # <<>>
  /\ outdated \in BOOLEAN /\ running \in BOOLEAN /\ flushed \in BOOLEAN
  /\ fileEntries \in Seq(SessionEntry \cup {Header})
  /\ leafId \in 0..MaxEntries
  /\ entryCount \in 0..MaxEntries /\ deaths \in 0..MaxDeaths /\ files \in 1..MaxFiles
  /\ unwritten \subseteq SessionEntry \cup {Header}
  /\ damaged \in BOOLEAN /\ doubled \in BOOLEAN

\* A file of an older version: a straight chain of n messages.
OldFile(n) ==
  [exists |-> TRUE, terminated |-> TRUE,
   lines |-> <<Header>> \o
             [i \in 1..n |-> [id |-> i, assistant |-> i % 2 = 0, parent |-> i - 1]]]

SessionFileInit ==
  /\ \/ disk = NoFile /\ outdated = FALSE /\ entryCount = 0
     \/ entryCount \in 1..MaxEntries /\ disk = OldFile(entryCount) /\ outdated = TRUE
  /\ running = FALSE
  /\ fileEntries = <<>> /\ leafId = NoEntry /\ flushed = FALSE
  /\ deaths = 0 /\ files = 1
  /\ unwritten = {} /\ damaged = FALSE /\ doubled = FALSE

-----------------------------------------------------------------------------
HasAssistant(es) == \E i \in DOMAIN es : es[i].assistant

\* Mutant: such lines are not skipped.
UnparsedToo(lines) == IF lines = <<>> \/ lines[1] # Header THEN <<>> ELSE lines

\* loadEntriesFromFile: lines that do not parse are skipped; no header, no session.
Loaded(lines) ==
  LET es == Without(lines, {Junk}) IN IF es = <<>> \/ es[1] # Header THEN <<>> ELSE es

\* appendFileSync of whole lines: the first continues a line that has no end.
Appended(d, ls) ==
  IF ls = <<>> THEN d
  ELSE [exists |-> TRUE, terminated |-> TRUE,
        lines |-> IF d.terminated THEN d.lines \o ls ELSE Front(d.lines) \o <<Junk>> \o Tail(ls)]

\* What an error or a death leaves of a write of ls: some lines, and a part of the
\* next or all of it but its end.
CutShort(d, ls) ==
  LET whole(k) == [Appended(d, SubSeq(ls, 1, k)) EXCEPT !.exists = TRUE]
      torn(f, l) == [f EXCEPT !.terminated = FALSE,
                              !.lines = IF f.terminated THEN Append(@, l)
                                        ELSE Front(@) \o <<Junk>>]
  IN UNION { {whole(k), torn(whole(k), Junk), torn(whole(k), ls[k + 1])} : k \in 0..Len(ls) - 1 }

\* getBranch: from an entry to its root.
PathTo(es, id) ==
  LET walk[i \in 0..Len(es)] == \* over the last i entries: the path, and whose turn it is
        IF i = 0 THEN [path |-> <<>>, next |-> id]
        ELSE LET w == walk[i - 1]
                 e == es[Len(es) - i + 1]
             IN IF w.next # NoEntry /\ e.id = w.next
                THEN [path |-> <<e>> \o w.path, next |-> e.parent] ELSE w
  IN walk[Len(es)].path

\* Mutant: the first flush writes only the entry that caused it.
OnlyTheLast(es) == IF HasAssistant(es) THEN <<Last(es)>> ELSE <<>>

\* _persist: what is written once es ends with a new entry, ...
ToWrite(es) ==
  IF ~HasAssistant(es) THEN <<>> ELSE IF flushed THEN <<Last(es)>> ELSE es

\* Mutant: the first flush is not remembered.
StillUnflushed(es) == HasAssistant(es) /\ flushed

\* ... and `flushed` after it.
FlushedAfter(es) == HasAssistant(es)

-----------------------------------------------------------------------------
\* The write of the moment throws an error, or the process dies in it.
DiskError == deaths < MaxDeaths /\ deaths' = deaths + 1

\* _appendEntry: as a child of the leaf.  If the write throws, the tree in memory has
\* the entry all the same.
AppendEntry(assistant) ==
  LET e == [id |-> entryCount + 1, assistant |-> assistant, parent |-> leafId]
      es == Append(fileEntries, e)
      w == ToWrite(es)
      inMemory == fileEntries' = es /\ leafId' = e.id /\ running' = TRUE
  IN /\ running /\ entryCount < MaxEntries
     /\ entryCount' = entryCount + 1
     /\ \/ /\ inMemory
           /\ disk' = Appended(disk, w) /\ unwritten' = unwritten \ ToSet(w)
           /\ flushed' = FlushedAfter(es)
           /\ UNCHANGED <<deaths, doubled>>
        \/ /\ w # <<>> /\ DiskError
           /\ disk' \in {disk} \cup CutShort(disk, w) /\ unwritten' = unwritten \cup ToSet(w)
           /\ \/ inMemory /\ doubled' = (doubled \/ (~flushed /\ disk' # disk))
              \/ running' = FALSE /\ UNCHANGED <<fileEntries, leafId, doubled>>
           /\ UNCHANGED flushed
     /\ damaged' = (damaged \/ (~disk.terminated /\ disk' # disk))
     /\ UNCHANGED <<files, outdated>>

\* branch() and resetLeaf(): the leaf moves, in memory only.
MoveLeaf(id) ==
  /\ running /\ id # leafId
  /\ id = NoEntry \/ \E i \in DOMAIN fileEntries : fileEntries[i].id = id
  /\ leafId' = id
  /\ UNCHANGED <<disk, outdated, running, fileEntries, flushed, entryCount, deaths, files,
                 unwritten, damaged, doubled>>

\* The process ends, in good order or not, between two operations.
Quit ==
  /\ running /\ running' = FALSE
  /\ UNCHANGED <<disk, outdated, fileEntries, leafId, flushed, entryCount, deaths, files,
                 unwritten, damaged, doubled>>

\* Mutant: a file without an assistant message is started over.
StartsOverUnanswered(es) == ~HasAssistant(es)

\* setSessionFile starts over what holds no session.
StartsOver(es) == es = <<>>

\* _buildIndex: what a session manager keeps of entries; a header is no leaf.
Indexed(es) ==
  LET nodes == Without(es, {Header}) IN
  /\ fileEntries' = es
  /\ leafId' = IF nodes = <<>> THEN NoEntry ELSE Last(nodes).id

\* setSessionFile: an old file is migrated, and written again in its place.
OpenSession ==
  LET es == Loaded(disk.lines) IN
  /\ ~running /\ running' = TRUE
  /\ outdated' = FALSE /\ unwritten' = {}
  /\ \/ /\ ~disk.exists
        /\ Indexed(<<Header>>) /\ flushed' = FALSE
        /\ UNCHANGED <<disk, doubled>>
     \/ /\ disk.exists /\ ~StartsOver(es)
        /\ Indexed(es) /\ flushed' = TRUE
        /\ disk' = IF outdated THEN Appended(NoFile, es) ELSE disk
        /\ doubled' = (doubled \/ ~HasAssistant(es))
     \/ /\ disk.exists /\ StartsOver(es)
        /\ Indexed(<<Header>>) /\ flushed' = TRUE
        /\ disk' = Appended(NoFile, <<Header>>)
        /\ doubled' = TRUE
  /\ UNCHANGED <<entryCount, deaths, files, damaged>>

\* _rewriteFile of setSessionFile does not come to its end.
OpenFails ==
  LET es == Loaded(disk.lines) IN
  /\ ~running /\ disk.exists /\ DiskError
  /\ StartsOver(es) \/ outdated
  /\ disk' \in CutShort(NoFile, IF StartsOver(es) THEN <<Header>> ELSE es)
  /\ outdated' = FALSE
  /\ UNCHANGED <<running, fileEntries, leafId, flushed, entryCount, files, unwritten, damaged,
                 doubled>>

\* From here on another file is the session's; the one before is left as it is.
NewFile(content) ==
  /\ files < MaxFiles /\ files' = files + 1
  /\ disk' = content /\ outdated' = FALSE
  /\ UNCHANGED entryCount

\* What a failing write of ls leaves of a new file.
Unfinished(ls) == {NoFile} \cup CutShort(NoFile, ls)

NewSession ==
  /\ running
  /\ NewFile(NoFile)
  /\ Indexed(<<Header>>) /\ flushed' = FALSE
  /\ unwritten' = {} /\ damaged' = FALSE /\ doubled' = FALSE
  /\ UNCHANGED <<running, deaths>>

\* createBranchedSession: the path to an entry becomes a session of its own.  If its
\* write throws, the session goes on in memory as flushed as the one before.
CreateBranchedSession(id) ==
  LET path == PathTo(fileEntries, id)
      es == <<Header>> \o path
      w == IF HasAssistant(es) THEN es ELSE <<>>
  IN /\ running /\ path # <<>>
     /\ \/ /\ NewFile(Appended(NoFile, w))
           /\ Indexed(es) /\ flushed' = HasAssistant(es)
           /\ unwritten' = {} /\ damaged' = FALSE /\ doubled' = FALSE
           /\ UNCHANGED <<running, deaths>>
        \/ /\ w # <<>> /\ DiskError
           /\ \E content \in Unfinished(w) : NewFile(content)
           /\ \/ /\ Indexed(es) /\ UNCHANGED <<running, flushed>>
                 /\ unwritten' = ToSet(es) /\ damaged' = flushed /\ doubled' = ~flushed
              \/ /\ running' = FALSE /\ UNCHANGED <<fileEntries, leafId, flushed>>
                 /\ unwritten' = {} /\ damaged' = FALSE /\ doubled' = FALSE

\* forkFrom: a copy of the file, opened.
ForkFrom ==
  LET es == Loaded(disk.lines)
      copy == <<Header>> \o Without(es, {Header})
  IN /\ ~running /\ es # <<>>
     /\ \/ /\ NewFile(Appended(NoFile, copy))
           /\ Indexed(Loaded(disk'.lines)) /\ flushed' = TRUE /\ running' = TRUE
           /\ doubled' = (doubled \/ ~HasAssistant(es))
           /\ UNCHANGED deaths
        \/ /\ DiskError
           /\ \E content \in Unfinished(copy) : NewFile(content)
           /\ UNCHANGED <<running, fileEntries, leafId, flushed, doubled>>
     /\ unwritten' = {} /\ damaged' = FALSE

SessionFileNext ==
  \/ \E assistant \in BOOLEAN : AppendEntry(assistant)
  \/ \E id \in 0..MaxEntries : MoveLeaf(id) \/ CreateBranchedSession(id)
  \/ Quit \/ OpenSession \/ OpenFails \/ NewSession \/ ForkFrom

SessionFileSpec == SessionFileInit /\ [][SessionFileNext]_sessionFileVars

-----------------------------------------------------------------------------
\* From its first assistant message on the file holds the whole tree, whatever branches,
\* forks, failures and deaths came before (_persist, loadEntriesFromFile).  The exceptions:
\* an entry of which the write threw an error is missing (until the first flush, which then
\* writes everything, has succeeded); and nothing is promised once something was appended to
\* a line that a death or an error had left without its end, or once the write of a branched
\* session failed, whose header may be missing (damaged).
DiskHasTheTree ==
  running /\ HasAssistant(fileEntries) /\ ~damaged
    => LET found == ToSet(Loaded(disk.lines)) IN
       ToSet(fileEntries) \ unwritten \subseteq found /\ found \subseteq ToSet(fileEntries)

\* "Existing entries are not modified or deleted" (session-manager.ts:1121): what a
\* reload finds in terminated lines it finds ever after, in the same order, through writes
\* that fail and deaths; except when the migration of an old file fails, which writes the
\* file anew in its place.
LogOnlyGrows ==
  [][files' = files /\ ~(OpenFails /\ outdated) =>
       LET whole == IF disk.terminated THEN disk.lines ELSE Front(disk.lines)
       IN IsPrefix(Loaded(whole), Loaded(disk'.lines))]_sessionFileVars

\* No entry is written twice: the deferred first flush and the later appends do not overlap,
\* unless the file was opened before it had an assistant message, or an error cut the first
\* flush short, which is made again from the beginning (doubled).
WrittenOnce ==
  ~doubled => \A i, j \in DOMAIN Loaded(disk.lines) :
                Loaded(disk.lines)[i] = Loaded(disk.lines)[j] => i = j

\* At all times the file has the whole tree, every entry once, and what it has it keeps;
\* with the exceptions named above, and no other.
SessionFileKept == [](DiskHasTheTree /\ WrittenOnce) /\ LogOnlyGrows
=============================================================================
