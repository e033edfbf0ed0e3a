------------------------------ MODULE MomEvents ------------------------------
(***************************************************************************)
(* class EventsWatcher (packages/mom/src/events.ts): programs write event     *)
(* files into a directory; mom watches it, reads what changes and executes      *)
(* each event at once, at its time, or on a schedule.  One file name is          *)
(* followed through everything that is written under it; each content is a       *)
(* version.  Reading is asynchronous, and retried when a file does not parse.    *)
(***************************************************************************)
EXTENDS Integers, Sequences, SequencesExt, FiniteSets

CONSTANTS MaxAttempts,    \* MAX_RETRIES
          MaxVersions,    \* bound: times the file is written
          MaxMisfortunes  \* bound: errors of the directory's watcher and deaths of mom
ASSUME MomAssumption ==
  MaxAttempts \in Nat \ {0} /\ MaxVersions \in Nat /\ MaxMisfortunes \in Nat

VARIABLES
  eventFile,  \* the version in the directory, or NoVersion
  event,      \* of each version: its type
  ripe,       \* one-shot versions whose time has come
  mom,        \* "down", "scanned" (start() has looked, not yet watched) or "up"
  watching,   \* watcher is set; else its retry timer runs
  debounce,   \* a change that fs.watch will report or whose debounce timer runs
  handlers,   \* calls of handleFile: a read is ripe, or its content is there
  known,      \* knownFiles has the file
  timer, cron,\* the versions the two maps hold, or NoVersion
  orphans,    \* timers and cron jobs that run but are in no map
  \* history and bounds
  executed,   \* versions execute() was called with
  replaced,   \* versions whose writer changed or deleted them again
  old,        \* versions that were there when mom was started
  raced,      \* mom acted on what the file had held before, or handled a change while
              \* it was still reading
  missed,     \* the file changed between the scan and the watch of start()
  misfortunes
momVars == <<eventFile, event, ripe, mom, watching, debounce, handlers, known, timer,
             cron, orphans, executed, replaced, old, raced, missed, misfortunes>>

Versions == 1..MaxVersions
NoVersion == 0
\* A "distant" one-shot is further off than setTimeout can wait, or its time is none.
EventTypes ==
  {"immediate", "one-shot", "distant", "periodic", "bad schedule", "unparsable"}

MomTypeOK ==
  /\ eventFile \in 0..MaxVersions
  /\ event \in [Versions -> EventTypes \cup {"unwritten"}] /\ ripe \subseteq Versions
  /\ mom \in {"down", "scanned", "up"}
  /\ {watching, debounce, known, raced, missed} \subseteq BOOLEAN
  /\ handlers \in Seq([attempt : 1..MaxAttempts, step : {"read", "parse"},
                       content : 0..MaxVersions])
  /\ timer \in 0..MaxVersions /\ cron \in 0..MaxVersions
  /\ orphans \in [Versions -> Nat]
  /\ executed \subseteq Versions /\ replaced \subseteq Versions /\ old \subseteq Versions
  /\ misfortunes \in 0..MaxMisfortunes

MomInit ==
  /\ eventFile = NoVersion /\ event = [v \in Versions |-> "unwritten"] /\ ripe = {}
  /\ mom = "up" /\ watching = TRUE /\ debounce = FALSE
  /\ handlers = <<>> /\ known = FALSE /\ timer = NoVersion /\ cron = NoVersion
  /\ orphans = [v \in Versions |-> 0]
  /\ executed = {} /\ replaced = {} /\ old = {}
  /\ raced = FALSE /\ missed = FALSE /\ misfortunes = 0

-----------------------------------------------------------------------------
(* The directory.                                                            *)

IsOneShot(v) == event[v] \in {"one-shot", "distant"}

\* setTimeout fires at once if it is given too long a delay, or none.
Due(v) == v \in ripe \/ event[v] = "distant"

Written == {v \in Versions : event[v] # "unwritten"}

\* Whoever changes the file, fs.watch is told if mom watches.
DirectoryChanges(version) ==
  /\ eventFile' = version
  /\ debounce' = (debounce \/ watching)

Write(type) ==
  LET v == 1 + Cardinality(Written) IN
  /\ v \in Versions
  /\ event' = [event EXCEPT ![v] = type]
  /\ DirectoryChanges(v)
  /\ replaced' = IF eventFile = NoVersion THEN replaced ELSE replaced \cup {eventFile}
  /\ missed' = (missed \/ (mom = "scanned" /\ handlers = <<>>))
  /\ UNCHANGED <<ripe, mom, watching, handlers, known, timer, cron, orphans, executed,
                 old, raced, misfortunes>>

TakeBack ==
  /\ eventFile # NoVersion
  /\ DirectoryChanges(NoVersion)
  /\ replaced' = replaced \cup {eventFile}
  /\ UNCHANGED <<event, ripe, mom, watching, handlers, known, timer, cron, orphans,
                 executed, old, raced, missed, misfortunes>>

TimeComes(v) ==
  /\ event[v] = "one-shot" /\ v \notin ripe
  /\ ripe' = ripe \cup {v}
  /\ UNCHANGED <<eventFile, event, mom, watching, debounce, handlers, known, timer,
                 cron, orphans, executed, replaced, old, raced, missed, misfortunes>>

-----------------------------------------------------------------------------
(* What is scheduled.                                                        *)

\* Mutant: a cron job is left running.
OnlyTheTimer == timer' = NoVersion /\ UNCHANGED cron

CancelScheduled == timer' = NoVersion /\ cron' = NoVersion

\* One more call of handleFile.
HandleFile == handlers' = Append(handlers, [attempt |-> 1, step |-> "read", content |-> NoVersion])

\* handleFileChange, with handleDelete; the file is looked up when it runs.
HandleFileChange ==
  /\ raced' = (raced \/ handlers # <<>>)
  /\ IF known THEN CancelScheduled ELSE UNCHANGED <<timer, cron>>
  /\ IF eventFile = NoVersion
     THEN known' = FALSE /\ UNCHANGED handlers
     ELSE HandleFile /\ UNCHANGED known

DebounceEnds ==
  /\ debounce /\ debounce' = FALSE
  /\ HandleFileChange
  /\ UNCHANGED <<eventFile, event, ripe, mom, watching, orphans, executed, replaced, old,
                 missed, misfortunes>>

\* deleteFile: whatever is there now.
DeleteFile ==
  /\ IF eventFile = NoVersion
     THEN UNCHANGED <<eventFile, debounce>>
     ELSE DirectoryChanges(NoVersion)
  /\ known' = FALSE

\* execute(): the event goes to its channel's queue, or is discarded if that is
\* full; the file goes in either case.
ExecuteAndDelete(v) ==
  /\ executed' = executed \cup {v}
  /\ DeleteFile

Displaced(v) == IF v = NoVersion THEN orphans ELSE [orphans EXCEPT ![v] = @ + 1]

\* The event has been read; the rest of handleFile.
Schedule(v) ==
  \/ /\ event[v] = "immediate"
     /\ IF eventFile = NoVersion
        THEN known' = TRUE /\ UNCHANGED <<eventFile, debounce, executed>>
        ELSE IF eventFile \in old THEN DeleteFile /\ UNCHANGED executed
        ELSE ExecuteAndDelete(v)
     /\ UNCHANGED <<timer, cron, orphans>>
  \/ /\ event[v] = "one-shot" /\ v \in ripe
     /\ DeleteFile
     /\ UNCHANGED <<timer, cron, orphans, executed>>
  \/ /\ IsOneShot(v) /\ v \notin ripe
     /\ known' = TRUE /\ timer' = v /\ orphans' = Displaced(timer)
     /\ UNCHANGED <<eventFile, debounce, cron, executed>>
  \/ /\ event[v] = "bad schedule"
     /\ DeleteFile
     /\ UNCHANGED <<timer, cron, orphans, executed>>
  \/ /\ event[v] = "periodic"
     /\ known' = TRUE /\ cron' = v /\ orphans' = Displaced(cron)
     /\ UNCHANGED <<eventFile, debounce, timer, executed>>

-----------------------------------------------------------------------------
(* handleFile.                                                               *)

\* readFile opens the file, or finds none.
ReadsFile(i) ==
  /\ handlers[i].step = "read"
  /\ handlers' = [handlers EXCEPT ![i].step = "parse", ![i].content = eventFile]
  /\ UNCHANGED <<eventFile, event, ripe, mom, watching, debounce, known, timer, cron,
                 orphans, executed, replaced, old, raced, missed, misfortunes>>

\* Its content is parsed: scheduled, read again after a pause, or given up.
Interferes(v) == raced' = (raced \/ eventFile \notin {v, NoVersion})

ParsesFile(i) ==
  LET v == handlers[i].content
      parsed == v # NoVersion /\ event[v] # "unparsable"
  IN /\ handlers[i].step = "parse"
     /\ \/ /\ parsed
           /\ Schedule(v) /\ Interferes(v)
           /\ handlers' = RemoveAt(handlers, i)
        \/ /\ ~parsed /\ handlers[i].attempt < MaxAttempts
           /\ handlers' = [handlers EXCEPT ![i] = [attempt |-> @.attempt + 1, step |-> "read",
                                                   content |-> NoVersion]]
           /\ UNCHANGED <<eventFile, debounce, known, timer, cron, orphans, executed, raced>>
        \/ /\ ~parsed /\ handlers[i].attempt = MaxAttempts
           /\ DeleteFile /\ Interferes(v)
           /\ handlers' = RemoveAt(handlers, i)
           /\ UNCHANGED <<timer, cron, orphans, executed>>
     /\ UNCHANGED <<event, ripe, mom, watching, replaced, old, missed, misfortunes>>

\* A one-shot's timer: it takes the file out of the map, even if the map has
\* another timer by now.
TimerFires(v) ==
  /\ Due(v)
  /\ \/ timer = v /\ UNCHANGED orphans
     \/ /\ orphans[v] > 0
        /\ orphans' = [Displaced(timer) EXCEPT ![v] = @ - 1]
  /\ timer' = NoVersion
  /\ ExecuteAndDelete(v) /\ Interferes(v)
  /\ UNCHANGED <<event, ripe, mom, watching, handlers, cron, replaced, old, missed,
                 misfortunes>>

-----------------------------------------------------------------------------
(* The watcher of the directory, and mom itself.                             *)

\* handleFsWatcherError.
WatcherFails ==
  /\ watching /\ misfortunes < MaxMisfortunes /\ misfortunes' = misfortunes + 1
  /\ watching' = FALSE
  /\ debounce' \in {debounce, FALSE}
  /\ UNCHANGED <<eventFile, event, ripe, mom, handlers, known, timer, cron, orphans,
                 executed, replaced, old, raced, missed>>

\* Mutant: what changed meanwhile is not looked for.
WatchAgain == UNCHANGED <<raced, timer, cron, known, handlers>>

\* rescanExisting: a file that is there has changed, a known one that is not was deleted.
RescanExisting == HandleFileChange

\* The retry timer: watch again, then look.
WatcherRetries ==
  /\ ~watching /\ watching' = TRUE
  /\ RescanExisting
  /\ UNCHANGED <<eventFile, event, ripe, mom, debounce, orphans, executed, replaced, old,
                 missed, misfortunes>>

MomDies ==
  /\ misfortunes < MaxMisfortunes /\ misfortunes' = misfortunes + 1
  /\ mom' = "down"
  /\ watching' = FALSE /\ debounce' = FALSE
  /\ handlers' = <<>> /\ known' = FALSE /\ timer' = NoVersion /\ cron' = NoVersion
  /\ orphans' = [v \in Versions |-> 0]
  /\ UNCHANGED <<eventFile, event, ripe, executed, replaced, old, raced, missed>>

\* start(): scanExisting, ...
Start ==
  /\ mom = "down" /\ mom' = "scanned"
  /\ old' = old \cup ({eventFile} \ {NoVersion})
  /\ IF eventFile = NoVersion THEN UNCHANGED handlers ELSE HandleFile
  /\ UNCHANGED <<eventFile, event, ripe, watching, debounce, known, timer, cron, orphans,
                 executed, replaced, raced, missed, misfortunes>>

\* ... and startFsWatcher, without a pause for anything else of mom.
StartFsWatcher ==
  /\ mom = "scanned" /\ mom' = "up" /\ watching' = TRUE
  /\ UNCHANGED <<eventFile, event, ripe, debounce, handlers, known, timer, cron, orphans,
                 executed, replaced, old, raced, missed, misfortunes>>

MomStep ==
  /\ mom = "up"
  /\ \/ DebounceEnds \/ WatcherRetries
     \/ \E i \in DOMAIN handlers : ReadsFile(i) \/ ParsesFile(i)
     \/ \E v \in Versions : TimerFires(v)

MomNext ==
  \/ \E type \in EventTypes : Write(type)
  \/ TakeBack
  \/ \E v \in Versions : TimeComes(v)
  \/ MomStep
  \/ mom = "up" /\ (WatcherFails \/ MomDies)
  \/ Start \/ StartFsWatcher

MomSpec == MomInit /\ [][MomNext]_momVars

\* mom's timers fire and its reads end; nobody owes mom a start, or a file.
MomFairness == WF_momVars(MomStep) /\ WF_momVars(StartFsWatcher)

-----------------------------------------------------------------------------
\* "Existing file modified: cancel any existing timer/cron for this file, re-parse and
\* set up again.  File deleted: cancel" (mom/docs/events.md:90-96): once every change is
\* handled, exactly what the file says is scheduled, through errors of the watcher and
\* restarts too, unless a change came while mom read or acted on the file (raced), or
\* between the scan and the watch of a start (missed).
ScheduleMatchesFile ==
  /\ mom = "up" /\ watching /\ ~debounce /\ handlers = <<>> /\ ~raced /\ ~missed
  => /\ timer = IF eventFile # NoVersion /\ IsOneShot(eventFile)
                THEN eventFile ELSE NoVersion
     /\ cron = IF eventFile # NoVersion /\ event[eventFile] = "periodic"
               THEN eventFile ELSE NoVersion
     /\ \A v \in Versions : orphans[v] = 0

\* No event is forgotten: in the end the directory holds nothing but what waits for
\* its time, and each immediate event has been executed unless its writer took it
\* back or it is older than mom's start; with the same two exceptions.
EventsTakenUp ==
  []<>(mom = "up" /\ ~raced /\ ~missed =>
         /\ eventFile = NoVersion \/ event[eventFile] = "periodic"
              \/ (event[eventFile] = "one-shot" /\ eventFile \notin ripe)
         /\ \A v \in Versions :
              event[v] = "immediate" => v \in executed \cup replaced \cup old)

\* "If at is in the future, set a setTimeout to execute at the specified time"
\* (docs/events.md:79).
OneShotsWait == \A v \in executed : IsOneShot(v) => v \in ripe

\* "Existing file modified: cancel any existing timer/cron for this file, re-parse and set
\* up again" (docs/events.md:90-92): also while mom reads the file or acts on it.
ScheduleAlwaysMatchesFile ==
  /\ mom = "up" /\ watching /\ ~debounce /\ handlers = <<>> /\ ~missed
  => /\ timer = IF eventFile # NoVersion /\ IsOneShot(eventFile)
                THEN eventFile ELSE NoVersion
     /\ cron = IF eventFile # NoVersion /\ event[eventFile] = "periodic"
               THEN eventFile ELSE NoVersion
     /\ \A v \in Versions : orphans[v] = 0
=============================================================================
