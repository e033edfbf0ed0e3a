------------------------------ MODULE Settings -------------------------------
(***************************************************************************)
(* class SettingsManager over FileSettingsStorage (packages/coding-agent/src/  *)
(* core/settings-manager.ts): several processes change settings in one          *)
(* settings.json.  A setter changes the memory at once and queues a task that    *)
(* merges what the process has modified into the file; the tasks of a process    *)
(* run one after the other, each without a pause but next to other processes.    *)
(*                                                                           *)
(* A field stands for a settings key or a nested one, its value for the set      *)
(* that gave it, and the file for that of one scope.                             *)
(***************************************************************************)
EXTENDS Integers, Sequences

CONSTANTS Managers, Fields,
          MaxSets, MaxReloads, MaxDeadManagers \* bounds: calls of setters and reload(), deaths
Nobody == "nobody"
DeadManager == "dead manager"

ASSUME SettingsAssumption ==
  /\ Fields # {} /\ MaxSets \in Nat /\ MaxReloads \in Nat /\ MaxDeadManagers \in Nat
  /\ Nobody \notin Managers /\ DeadManager \notin Managers

VARIABLES
  settingsFile, \* what settings.json holds
  settingsLock, \* who holds its lock directory; a death leaves it behind
  globalSettings, modifiedFields, loadFailed, \* of each process
  writeQueue,   \* of each process: its tasks, each with its snapshots
  step,         \* of each process: "idle", "lock" or "write" in the first task, "dead"
  read,         \* ... and what that task has read
  reloading,    \* of each process: tasks its reload() still awaits
  \* history and bounds
  sets,         \* set values given so far
  persisted,    \* those a task has written
  due,          \* of each field: the set that was written last
  wiped,        \* fields whose values a death in the middle of a write took away
  repeated,     \* a task wrote a set that an earlier one had written
  overtaken,    \* the file appeared after a task had found none
  reloads, deadManagers
settingsVars == <<settingsFile, settingsLock, globalSettings, modifiedFields, loadFailed,
                  writeQueue, step, read, reloading, sets, persisted, due, wiped, repeated,
                  overtaken, reloads, deadManagers>>

Values == 0..MaxSets  \* 0: not set
NoSettings == [f \in Fields |-> 0]
\* What a file may be that holds no settings: absent, truncated or cut short.
NoSettingsFile == [f \in Fields |-> -1]
EmptySettings == [f \in Fields |-> -2]
TornSettings == [f \in Fields |-> -3]
NoReload == -1

SettingsTypeOK ==
  /\ settingsFile \in [Fields -> Values] \cup {NoSettingsFile, EmptySettings, TornSettings}
  /\ settingsLock \in Managers \cup {Nobody, DeadManager}
  /\ globalSettings \in [Managers -> [Fields -> Values]]
  /\ modifiedFields \in [Managers -> SUBSET Fields] /\ loadFailed \in [Managers -> BOOLEAN]
  /\ writeQueue \in [Managers -> Seq([snapshot : [Fields -> Values], modified : SUBSET Fields])]
  /\ step \in [Managers -> {"idle", "lock", "write", "dead"}]
  /\ read \in [Managers -> [Fields -> Values]]
  /\ reloading \in [Managers -> NoReload..MaxSets]
  /\ sets \in 0..MaxSets /\ persisted \subseteq Values
  /\ due \in [Fields -> Values] /\ wiped \subseteq Fields
  /\ repeated \in BOOLEAN /\ overtaken \in BOOLEAN
  /\ reloads \in 0..MaxReloads /\ deadManagers \in 0..MaxDeadManagers

SettingsInit ==
  /\ settingsFile \in {NoSettingsFile, NoSettings} /\ settingsLock = Nobody
  /\ globalSettings = [m \in Managers |-> NoSettings]
  /\ modifiedFields = [m \in Managers |-> {}] /\ loadFailed = [m \in Managers |-> FALSE]
  /\ writeQueue = [m \in Managers |-> <<>>]
  /\ step = [m \in Managers |-> "idle"] /\ read = [m \in Managers |-> NoSettings]
  /\ reloading = [m \in Managers |-> NoReload]
  /\ sets = 0 /\ persisted = {} /\ due = NoSettings /\ wiped = {}
  /\ repeated = FALSE /\ overtaken = FALSE /\ reloads = 0 /\ deadManagers = 0

-----------------------------------------------------------------------------
\* lockSync: a dead process's lock is taken over when it is ten seconds old.
MayLockSettings == settingsLock \in {Nobody, DeadManager}

\* An empty file is read as one without settings.
Parsed(content) == IF content \in {NoSettingsFile, EmptySettings} THEN NoSettings ELSE content

\* Mutant: a task writes all that the process remembers.
WholeSnapshot(current, task) == task.snapshot

\* persistScopedSettings: the modified fields over what the file holds now.
MergedSettings(current, task) ==
  [f \in Fields |-> IF f \in task.modified THEN task.snapshot[f] ELSE current[f]]

\* The first task of a process is over, and a reload waits for one less.
TaskEnds(m) ==
  /\ step' = [step EXCEPT ![m] = "idle"]
  /\ read' = [read EXCEPT ![m] = NoSettings]
  /\ writeQueue' = [writeQueue EXCEPT ![m] = Tail(@)]
  /\ reloading' = [reloading EXCEPT ![m] = IF @ > 0 THEN @ - 1 ELSE @]

\* A setter, and save(): a file that could not be loaded is left alone.
SetField(m, f) ==
  LET values == [globalSettings[m] EXCEPT ![f] = sets + 1]
      modified == modifiedFields[m] \cup {f}
  IN /\ step[m] = "idle" /\ sets < MaxSets
     /\ sets' = sets + 1
     /\ globalSettings' = [globalSettings EXCEPT ![m] = values]
     /\ modifiedFields' = [modifiedFields EXCEPT ![m] = modified]
     /\ writeQueue' = IF loadFailed[m] THEN writeQueue
                      ELSE [writeQueue EXCEPT ![m] =
                              Append(@, [snapshot |-> values, modified |-> modified])]
     /\ UNCHANGED <<settingsFile, settingsLock, loadFailed, step, read, reloading, persisted,
                    due, wiped, repeated, overtaken, reloads, deadManagers>>

\* withLock: a file that exists is locked and read; one that does not parse fails
\* the task.  A reload that waits no longer goes first.
BeginTask(m) ==
  /\ step[m] = "idle" /\ writeQueue[m] # <<>> /\ reloading[m] # 0
  /\ \/ /\ settingsFile = NoSettingsFile
        /\ step' = [step EXCEPT ![m] = "lock"] /\ read' = [read EXCEPT ![m] = NoSettings]
        /\ UNCHANGED <<settingsLock, writeQueue, reloading>>
     \/ /\ settingsFile \notin {NoSettingsFile, TornSettings} /\ MayLockSettings
        /\ step' = [step EXCEPT ![m] = "write"]
        /\ read' = [read EXCEPT ![m] = Parsed(settingsFile)]
        /\ settingsLock' = m
        /\ UNCHANGED <<writeQueue, reloading>>
     \/ /\ settingsFile = TornSettings /\ MayLockSettings
        /\ settingsLock' = Nobody
        /\ TaskEnds(m)
  /\ UNCHANGED <<settingsFile, globalSettings, modifiedFields, loadFailed, sets, persisted, due,
                 wiped, repeated, overtaken, reloads, deadManagers>>

\* A file that did not exist is locked only to be written.
LockNewFile(m) ==
  /\ step[m] = "lock" /\ MayLockSettings
  /\ settingsLock' = m
  /\ step' = [step EXCEPT ![m] = "write"]
  /\ overtaken' = (overtaken \/ settingsFile # NoSettingsFile)
  /\ UNCHANGED <<settingsFile, globalSettings, modifiedFields, loadFailed, writeQueue, read,
                 reloading, sets, persisted, due, wiped, repeated, reloads, deadManagers>>

\* Ten attempts do not outlast the lock of a dead process: the modified fields stay
\* marked for the next save.
LockSettingsFails(m) ==
  /\ settingsLock = DeadManager
  /\ \/ step[m] = "lock"
     \/ /\ step[m] = "idle" /\ writeQueue[m] # <<>> /\ reloading[m] # 0
        /\ settingsFile # NoSettingsFile
  /\ TaskEnds(m)
  /\ UNCHANGED <<settingsFile, settingsLock, globalSettings, modifiedFields, loadFailed, sets,
                 persisted, due, wiped, repeated, overtaken, reloads, deadManagers>>

\* writeFileSync and the release; then clearModifiedScope.
WriteSettings(m) ==
  LET task == writeQueue[m][1]
      written == {task.snapshot[f] : f \in task.modified}
  IN /\ step[m] = "write"
     /\ settingsFile' = MergedSettings(read[m], task)
     /\ settingsLock' = Nobody
     /\ modifiedFields' = [modifiedFields EXCEPT ![m] = {}]
     /\ TaskEnds(m)
     /\ persisted' = persisted \cup written
     /\ due' = [f \in Fields |-> IF f \in task.modified /\ task.snapshot[f] \notin persisted
                                 THEN task.snapshot[f] ELSE due[f]]
     /\ wiped' = wiped \ task.modified
     /\ repeated' = (repeated \/ written \cap persisted # {})
     /\ UNCHANGED <<globalSettings, loadFailed, sets, overtaken, reloads, deadManagers>>

\* What a process that starts or dies has in memory, beside the settings.
Blank(m) ==
  /\ modifiedFields' = [modifiedFields EXCEPT ![m] = {}]
  /\ writeQueue' = [writeQueue EXCEPT ![m] = <<>>]
  /\ reloading' = [reloading EXCEPT ![m] = NoReload]
  /\ read' = [read EXCEPT ![m] = NoSettings]

\* The process dies in a task, with its lock; in the middle of its write the file is
\* left empty or torn, and what it held is gone.
DieInTask(m) ==
  /\ step[m] \in {"lock", "write"} /\ deadManagers < MaxDeadManagers
  /\ deadManagers' = deadManagers + 1
  /\ step' = [step EXCEPT ![m] = "dead"]
  /\ settingsLock' = IF settingsLock = m THEN DeadManager ELSE settingsLock
  /\ Blank(m)
  /\ globalSettings' = [globalSettings EXCEPT ![m] = NoSettings]
  /\ loadFailed' = [loadFailed EXCEPT ![m] = FALSE]
  /\ \/ UNCHANGED <<settingsFile, wiped>>
     \/ /\ step[m] = "write"
        /\ settingsFile' \in {EmptySettings, TornSettings} /\ wiped' = Fields
  /\ UNCHANGED <<sets, persisted, due, repeated, overtaken, reloads>>

\* tryLoadFromStorage: a file that cannot be locked or parsed leaves `fallback`.
Load(m, fallback) ==
  \/ /\ settingsFile = NoSettingsFile \/ (MayLockSettings /\ settingsFile # TornSettings)
     /\ settingsLock' = IF settingsFile = NoSettingsFile THEN settingsLock ELSE Nobody
     /\ globalSettings' = [globalSettings EXCEPT ![m] = Parsed(settingsFile)]
     /\ loadFailed' = [loadFailed EXCEPT ![m] = FALSE]
  \/ /\ settingsFile # NoSettingsFile
     /\ \/ settingsLock = DeadManager /\ UNCHANGED settingsLock
        \/ settingsFile = TornSettings /\ MayLockSettings /\ settingsLock' = Nobody
     /\ globalSettings' = [globalSettings EXCEPT ![m] = fallback]
     /\ loadFailed' = [loadFailed EXCEPT ![m] = TRUE]

\* SettingsManager.create, in a new process.
StartManager(m) ==
  /\ step[m] = "dead"
  /\ Load(m, NoSettings) /\ Blank(m)
  /\ step' = [step EXCEPT ![m] = "idle"]
  /\ UNCHANGED <<settingsFile, sets, persisted, due, wiped, repeated, overtaken, reloads,
                 deadManagers>>

\* reload() waits for the tasks queued so far; setters may be called meanwhile.
StartReload(m) ==
  /\ step[m] = "idle" /\ reloading[m] = NoReload /\ reloads < MaxReloads
  /\ reloads' = reloads + 1
  /\ reloading' = [reloading EXCEPT ![m] = Len(writeQueue[m])]
  /\ UNCHANGED <<settingsFile, settingsLock, globalSettings, modifiedFields, loadFailed,
                 writeQueue, step, read, sets, persisted, due, wiped, repeated, overtaken,
                 deadManagers>>

\* Then the settings of the file take the place of those in memory, and nothing
\* counts as modified any more.
Reload(m) ==
  /\ step[m] = "idle" /\ reloading[m] = 0
  /\ Load(m, globalSettings[m])
  /\ reloading' = [reloading EXCEPT ![m] = NoReload]
  /\ modifiedFields' = [modifiedFields EXCEPT ![m] = {}]
  /\ UNCHANGED <<settingsFile, writeQueue, step, read, sets, persisted, due, wiped, repeated,
                 overtaken, reloads, deadManagers>>

SettingsNext ==
  \E m \in Managers :
    \/ \E f \in Fields : SetField(m, f)
    \/ BeginTask(m) \/ LockNewFile(m) \/ LockSettingsFails(m) \/ WriteSettings(m) \/ DieInTask(m)
    \/ StartManager(m) \/ StartReload(m) \/ Reload(m)

SettingsSpec == SettingsInit /\ [][SettingsNext]_settingsVars

-----------------------------------------------------------------------------
\* A save keeps what others have put into the file since it was read ("should
\* preserve external project settings changes when updating unrelated project
\* field", test/settings-manager-bug.test.ts:103): every field has the value that
\* was written last as a new one, after failed tasks, failed reloads and deaths too.
\* Three things undo that: two first writers both found no file; a task repeated a
\* set that the one queued before it had written already; a process died in the
\* middle of a write.  Such a death takes the whole file: it stays unreadable, or
\* every field is unset until it is written anew, and nothing else comes back.
SettingsKept ==
  \/ overtaken \/ repeated
  \/ IF settingsFile = TornSettings THEN wiped = Fields
     ELSE Parsed(settingsFile) = [f \in Fields |-> IF f \in wiped THEN 0 ELSE due[f]]
=============================================================================
