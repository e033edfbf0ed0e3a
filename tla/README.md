# Formal models of BlenderAgent

TLA+ modules for the concurrent core of this repository, the TLC
configurations that model-check them, and theorems about them that TLAPS
checks. Every definition is translated from the source named beside it in
`PROJECT.json` (`map`).

Run a check with `tlc -workers 2 -config MCAgentLoop.cfg MCAgentLoop.tla`, a
proof with `tlapm AgentLoopProofs.tla`.

## 1. The system

BlenderAgent is a monorepo: a coding agent (forked from a general agent CLI)
with tools that drive a Blender process through files. Paths below are relative
to `src/packages/`.

| component | where | state it keeps | operations | module |
|---|---|---|---|---|
| Agent runtime | `agent/src/agent.ts`, `agent-loop.ts` | transcript, steering and follow-up queue, active run, pending tool calls; the loop's own context and locals | prompt, continue, steer, followUp, clear, abort, reset; turn, tool batch, failure | `AgentLoop`, `Conversation` |
| Live Blender bridge | `coding-agent/src/blender/bridge.ts`, `live-bridge.py` | request and response files; Blender's open file, scene and dirty bit | submit, poll, time out, abort; poll, handle, save, answer, remove | `BlenderBridge` |
| Blender workspace tools | `coding-agent/src/blender/workspace.ts`, `execute.ts`, `save-view.ts`, `render.ts` | `manifest.json`, `model.blend`, `script.py`, iteration folders | init, execute-python, save-view, render | `BlenderWorkspace` |
| Blender scene info, session context, critique | `coding-agent/src/blender/` | an append-only log | read and append | their request kind only |
| Blender launch | `coding-agent/src/cli.ts`, `blender/runtime.ts`, `extension.ts` | none | spawn Blender, register tools | `StartBlender` only |
| AgentSession | `coding-agent/src/core/agent-session.ts` | event queue behind the agent, mirrored queues, retry and compaction state, pending bash output, entries | prompt, steer, followUp, clearQueue, abort, compact, bash; processing of events, retry, automatic compaction | `AgentSession` |
| Session runtime and services | `agent-session-runtime.ts`, `agent-session-services.ts` | the current session | new, switch, fork, clone, import, dispose | `SessionRuntime` |
| SessionManager | `session-manager.ts` | tree of entries, leaf, JSONL file, `flushed` | append, branch, new, fork, load | `SessionFile` |
| Compaction | `compaction/` | none (pure, plus a model call) | cut point, preparation | `Compaction` |
| File mutation queue, edit, write | `core/tools/` | a promise chain per real path | serialised read-modify-write, abort | `FileMutationQueue` |
| Credentials | `auth-storage.ts` | `auth.json`, a lock directory | set, reload, refresh of an expired login | `AuthStorage` |
| Settings | `settings-manager.ts` | a JSON file, modified fields, a queue of writes | set, merge under lock, reload | `Settings` |
| Event stream | `ai/src/utils/event-stream.ts`, `providers/register-builtins.ts` | queue, waiter, final result | push, end, iterate, result, forward | `EventStream`, `ProviderStream`, `EventChannel` |
| mom's event watcher | `mom/src/events.ts` | known files, timers, cron jobs, debounce | write, delete, read with retries, schedule, execute, watch again | `MomEvents` |
| A channel of mom | `mom/src/slack.ts`, `main.ts`, `agent.ts`, `context.ts` | queue, two busy flags, `log.jsonl`, `context.jsonl`, the state of the run | log, trigger, stop, queue events, run the agent, backfill | `MomChannel` |
| Other tools, truncation | `core/tools/` | none | one child process or file access | no |
| Extensions | `core/extensions/` | handlers | dispatch | no |
| Resource and model registries | `core/` | start-up tables | look-up | no |
| Modes: interactive, print, RPC | `modes/` | UI state, RPC pending table, the session RPC is bound to | user interface over AgentSession | RPC's prompts and replacements: `SessionRuntime` |
| Providers | `ai/src/providers/` | none | wire formats | no |
| Terminal UI | `tui/` | screen, input buffer, undo | render, decode keys | no |
| pods | `pods/` | a config file | ssh commands | no |
| web-ui | `web-ui/` | IndexedDB | views | no |

### How they interact

A mode calls `AgentSession.prompt`; that calls `Agent.prompt`, which opens a run
and drives `runLoop`. The loop alternates between the provider's stream and the
tool batch of its answer, and reports every step as an event to the listeners
it *awaits*: the agent's own reducer (`processEvents`), then AgentSession
(persistence, UI queues, retry, compaction) and extensions. While the loop is at an
`await`, any other caller may steer, queue, clear, abort or reset. Blender tools
run inside that batch: they read the workspace manifest, put a request file in
the bridge directory, poll for the response, and write the manifest back. On
the other side a timer inside Blender's UI thread polls the same directory.
Agent and Blender share nothing but files, and either may die.

Beside that, several processes of the command line share `settings.json` and
`auth.json` under lock directories; one process at a time appends to a session
file; edits and writes of one batch meet in the mutation queue; other programs drop
event files into a directory that mom watches.

### What is hard

* The loop's queues are drained into local variables while others add to them
  or clear them; a message can fall between queue, local and transcript.
* Two transcripts, the Agent's and the loop's, grow at different moments.
* A batch runs its tools at the same time, but answers are owed in call order.
* A listener that throws ends the run at whatever point it has reached: tools keep running
  ("zombies") into the next run.
* Both ends of the bridge poll; a deadline, an abort or a death may fall between
  any two of their file operations.
* A manifest is read, used across minutes of work, and rewritten in place.
* AgentSession works through the agent's events *behind* the loop: by the time it
  sees the end of a run, a timer, a prompt or a compaction may have begun another.
* Retry, overflow recovery and threshold compaction each restart the agent from
  timers, and each takes messages out of the transcript.
* A process may die inside a write of the session file, `settings.json` or the
  manifest; the next one starts from what is left.
* Locks of different kinds (synchronous, asynchronous, through a link or not) guard one file,
  with different ideas of when a lock is stale.
* An aborted tool call is over for its caller while its body still writes.
* `fs.watch` reports late and in bursts, and reading the file it names takes time.
* The RPC mode handles its lines side by side: sessions are replaced, prompted and
  closed while handlers of extensions are waited for, and three variables name "the" session.
* Slack delivers messages late, twice or in another order; mom may be away, busy or dying.

`PROJECT.json` (`hazards`) lists these at their lines, each with the
properties that would catch it.

### What makes each component correct

* **Agent runtime.** Every message is in exactly one place; the model is sent
  what the user sees; tool calls are all answered, in order, before anybody else
  speaks; a sequential tool is alone; pending calls are exact; an aborted run
  ends; steering is not forgotten.
* **Bridge.** A request runs once per life of Blender; an `ok` stays on disk; a
  timed-out request never begins; nothing starves; no response is left over.
* **Workspace.** What a call recorded stays recorded; an iteration folder shows the
  script that ran; init never blanks finished work.
* **AgentSession.** What the user is shown as queued is what is queued; a reload of the
  session gives the transcript; a failing provider is asked a bounded number of times;
  `prompt()` returns.
* **SessionManager.** From the first answer on the file has the whole tree, each entry
  once, and what a reload finds it finds ever after.
* **Compaction.** No tool result is kept without its call; about the budget is kept.
* **File mutation queue.** One call inside per key, edits compose, every call returns, the
  map of queues does not grow.
* **Credentials, settings.** A refresh token is sent once; nobody's key or setting is
  lost to another process.
* **Event stream.** The loop hears what the provider said, in order, and its last word.
* **mom's events.** What is scheduled is what the file says; no event is forgotten.
* **Session runtime.** The client commands and hears the current session; every other is
  told of its end and disposed of; an undisturbed prompt is heard to its end.
* **mom's channel.** One run at a time; what was said is known, once, when the agent answers;
  answers go to their askers; the channel comes to rest.

## 2. The modules

| module | content |
|---|---|
| `Conversation` | abstract: what a provider demands of a transcript |
| `AgentLoop` | class Agent and the agent loop, its properties, and the refinement mapping to `Conversation` |
| `AgentLoopProofs` | its types, sequential tools, context, pending calls, each message once; `AgentLoop` implements `Conversation`; its batches, aborted runs and steered messages go on |
| `BlenderBridge` | client and Blender over the bridge directory |
| `BlenderBridgeProofs` | its types, withdrawal on timeout, what holds with one Blender; polls go on |
| `BlenderWorkspace` | the workspace tools over manifest, model and iteration folders |
| `BlenderWorkspaceProofs` | its types, and the safety of calls that run one at a time |
| `AgentSession` | AgentSession around one agent |
| `AgentSessionProofs` | its types; the queues shown to the user are the agent's; a failing provider is asked a bounded number of times; what a call of `prompt()` waits for comes |
| `EventChannel` | abstract: what a stream of events promises its reader |
| `EventStream` | class EventStream as operators on a value |
| `ProviderStream` | provider, forwarder and loop over two such streams; refines `EventChannel` |
| `FileMutationQueue` | the queue with the bodies of edit and write |
| `Lists` | a filter of sequences, for `AgentSession` and `SessionFile` |
| `ListProofs` | what that filter and the library's recursive definitions return, by induction; lemmas on lists without repetition; the order in which lists of numbers go down |
| `SessionFile` | the session tree and its file |
| `AuthStorage` | credentials of several processes |
| `Settings` | settings of several processes |
| `Compaction` | the cut point, over every branch an agent can write |
| `MomEvents` | the watcher of event files |
| `SessionRuntime` | the session runtime under the RPC mode |
| `SessionProofs` | the client ends up with the current session, hears its prompts, and every other session is gone; no cut of `Compaction` parts a result from its call or keeps much more than the budget; the file of `SessionFile` has the whole tree and keeps it |
| `MomChannel` | one Slack channel of mom |
| `MomProofs` | its runs are kept apart and the agent is told everything once; what `MomEvents` has scheduled is what the file says; both come to rest |
| `MCServices` | nine components side by side (stream, mutation queue, session file, credentials, settings, compaction, events, runtime, channel): a behaviour is one of theirs |
| `ServicesProofs` | edits compose, logins are kept and no save is undone, for any number of calls and processes; `ProviderStream` implements `EventChannel`; the composition implements each of its nine components and keeps what they promise |
| other `MC...` | the instances for TLC |

Definitions whose comment starts with "Mutant:" are plausible mistakes in the
definition that follows them. Putting one in place of it makes TLC report the
property `PROJECT.json` (`mutants`) names; they are part of no specification.

### AgentLoop and the code

One action is the code between two `await`s at which another caller can run.

* `activeRun`, `isStreaming`, `messages`, the queues and `pendingToolCalls` are
  the fields of Agent and its state; `activeRun` also holds the abort signal of
  the run. `ctx`, `pendingMessages`, `hasMoreToolCalls`, `prompts` and
  `skipPoll` are the locals and parameters of `runLoop`; `pc` is where it stands.
* `Prompt`, `ContinueFromQueue`, `ContinueFromContext`, `Steer`, `FollowUp`, the
  clears, `Abort` and `Reset` are the methods. `StartRun` is `runWithLifecycle`
  and the snapshot of the transcript.
* `AnnouncePrompt`, `PollSteering`, `PollFollowUp`, `InjectMessage`,
  `RequestStream`, `StreamEnds` are `runLoop`. Under an aborted signal a request
  can only come back aborted, so it is `"doomed"`.
* `PrepareCall`, `RejectCall`, `Launch`, `ToolEnds`, `EmitResult`, `EndBatch` are
  `executeToolCalls`, sequential and parallel; a call has one of four statuses.
* `RunThrows` and the failing branch of `ToolEnds` are a listener (or the stream
  function) that throws; `HandleRunFailure` and `FinishRun` are what Agent does then. Tools that
  still run become `zombies`; `ZombieEnds` is their `tool_execution_end`, which
  reaches the reducer of whatever run is on.
* `fresh`, `gone`, `torn`, `agentEnds` and `throws` are history and bounds.

Message texts, partial messages of a stream and tool arguments are left out: an
answer of the model is its stop reason and its list of tools.

### BlenderBridge and the code

`Submit`, `TakeResponse`, `TimeOut`, `AbortCall` are `requestLiveBlenderBridge`.
Requests are written under a temporary name and renamed, so they appear whole;
responses are not, hence `"partial"` between `OpenResponse` and `FillResponse`.
`Poll`, `LoadRequest`, `RefuseRequest`, `HandleRequest`, `ReportContext`,
`SaveMainfile`, `OpenResponse`, `FillResponse`, `RemoveRequest` are `poll_requests` and
`process_request_file`. A client may run between any two of them, because it is
another process; the user may not, because the timer holds Blender's UI
thread: `UserEdits`, `UserSaves`, `UserOpens` need an idle Blender. A scene, in
memory or on disk, is the set of requests it shows. Whether a script raises
Blender's dirty bit is left open.

### BlenderWorkspace and the code

The four tools share one life: `Begin`, `ReadManifest`, then `CreateBlend`
(init) or `ArchiveScript` and `SubmitExecution` (execute), then waiting, then
`TakeAnswer`, `TimeOut` or `AbortCall`, then `TruncateManifest` and
`FillManifest`. `writeManifest` rewrites in place, so there is a moment with a torn
manifest. `BlenderRuns` is the other end of the bridge, reduced to what
`BlenderBridge` establishes: at most once, never after a timeout, possibly
after an abort. It reads the archived script when it runs, not when it was
requested. `ToolExecution` says whether the calls of a batch overlap; the
agent's default is `"parallel"`. `Updated` is what a call makes of the manifest it
read, `AfterReading` the way a call takes once there is one.

### AgentSession and the code

The agent's listener returns at once and only appends to `agentEventQueue`; the
session works through that queue and waits for extensions in between. So the
agent appears here at a coarser grain than in `AgentLoop`: everything between an answer (`Answers`), the
end of its tools (`ToolsEnd`) or a rejected stream (`StreamThrows`) and the next
request is one step, `StartRun` and `EndRun` being its beginning and end.

* `ProcessMessage`, `ProcessRetry` and `ProcessEnd` are `_processAgentEvent` for
  one event; `BackoffEnds` and `TimerFires` are the sleep and the `setTimeout`
  behind a retry or a compaction.
* `CheckCompaction`, `CompactionEnds`, `CompactionFails` are `_checkCompaction`
  and `_runAutoCompaction`; `Compact` and `CompactBegins` are `compact()`, which
  stops listening before it aborts. A job belongs to whoever waits for it
  (`Owners`): the handler of the run's end, a call of `prompt()`, or `compact()`.
* `Prompt` and `SendPrompt` are the two halves of `prompt()` around its awaits;
  `Steer`, `FollowUp`, `ClearQueue`, `Abort`, `RecordBash` are the methods.
* `ListenerThrows` is a listener of the session that throws an error at an event: what was to
  follow for that event, such as the entry of a message, is dropped, and the queue goes on.
* An answer may overflow the context openly (an error) or unsaid (`"silent"`, a good answer whose
  usage is beyond the window): `CompactionReasons` treats both as overflows, and the answer is
  taken out of the agent's messages before the compaction that may fail.
* `Context` is what `buildSessionContext` makes of the entries.

`missed`, `outOfStep`, `displaced`, `budget` and `removed` are history. `missed` marks
an event that fell into the gap `compact()` leaves, `outOfStep` that a run began, a
compaction ended or bash output was recorded while events still waited, or that a listener threw, `displaced` that a
compaction replaced messages under a run or its retry: in these
cases the code has no rule for what should hold, and the properties except them by name.

Abstracted: the model is never changed, so that `sameModel` holds; sizes are those of the answers, and what
`estimateContextTokens` adds for messages behind the last one counts as part of it; what is known of the size of an
aborted answer, of which only `prompt()` asks, is left open; the message of a failed run matches no pattern of an overflow. That `prompt()` is refused without a
model or a key is in `SessionRuntime` alone. A listener that throws at an event the session makes itself (the end of a
retry, the start of a compaction) is left out.

### EventStream, ProviderStream and the code

A stream is a record and `Push`, `End`, `Taken`, `Wait` are its methods; a promise
that is resolved but whose waiter has not run yet keeps its value in `woken`.
`ProviderStream` chains two of them: `ProviderPushes` (the provider's own stream),
`Forward` (`forwardStream` of a lazily loaded provider) and `LoopReads`
(`streamAssistantResponse`), three tasks of one event loop in any order.
`ModuleFails` is a failing import, `ProviderQuits` a provider that ends its
stream without a last word, `ListenerThrows` a loop that stops reading.

### FileMutationQueue and the code

`Mutate` is a call up to `await currentQueue`, `Enter` its turn, `Prepares`,
`Reads`, `Opens`, `Fills`, `WriteFails` the awaits of the bodies of `edit` and
`write`, `AbortMutations` the signal. The file's content is the sequence of calls
whose work is in it, so that a lost edit shows. `KeyOf` is
`getMutationQueueKey`: a file that does not exist yet has no real path, hence two keys
for one file if it is reached through a link. `escaped` marks a call that worked
under another key than a running one, or beside the write of an aborted one.

### SessionFile and the code

`AppendEntry` is `_appendEntry` with `_persist` (nothing is written before the
first assistant message, then everything, then line by line), `MoveLeaf`
`branch` and `resetLeaf`, `OpenSession` `setSessionFile`, `NewSession`,
`CreateBranchedSession` and `ForkFrom` their methods. Any write may throw an error or be cut short by a death
(`DiskError`, `CutShort`), leaving a part of a line or one without its end; after an error the process goes on, with
the entry in memory. A file may also be one of an older version (`OldFile`, `outdated`), which `OpenSession` migrates and
writes again in its place; `OpenFails` is that rewrite cut short.

`unwritten` holds the entries of which a write failed and no later one made up for it. `damaged` marks a line appended to one
without its end, and a branched session whose first write failed: it goes on as flushed as the
session before, so that its appends may land in a file without a header. `doubled` marks a file that is going to be flushed
once more: opened before it had an assistant message, which `setSessionFile` takes for flushed, or left by a first
flush that an error cut short. What a migration does to ids is left out, and with it that `forkFrom` copies the
entries of a version-1 file as they are under a header of the current version.

### AuthStorage and the code

An action ends at each file operation, since other processes only come in
there. `EnsureFileExists`, `CreateFile`, `LockSync`, `WriteSync` are `withLock`;
`StartLocking`, `LockAndAsk`, `Refreshed`, `LockAsyncFails` are
`refreshOAuthTokenWithLock`; `LockAges` and `LockUpdate` are the passage of time for
proper-lockfile, which is external, as is the provider (`serverToken`,
`Expires`): it exchanges a refresh token once. `stolen` (a lock taken
over while its holder refreshes), `blanked` (`ensureFileExists` overwrote a file that
had appeared), `lost` (the provider's answer never came) and a symbolic link
(the two kinds of lock then have different names) are what the locks do not prevent.

### Settings and the code

`SetField` is a setter with `save()`; `BeginTask`, `LockNewFile`,
`WriteSettings` and `LockSettingsFails` are one queued task under `withLock`,
which reads, merges (`MergedSettings`, `persistScopedSettings`) and writes;
`StartReload` and `Reload` are `reload()`; `DieInTask` and `StartManager` a death
with the lock held and the next process. `overtaken` marks two first writers that
both found no file, `repeated` a task that wrote a field the task before it had
written already, over what another process put there in between, and `wiped` the fields a
death in the middle of a write took out of the file: all that it had, until they are set again.

### Compaction and the code

`FindCutPoint`, `TurnStart` and `Prepared` are `findCutPoint`,
`findTurnStartIndex` and `prepareCompaction`, as operators on a branch; the
actions write every branch an agent can write, compactions included.

### MomEvents and the code

One file name is followed through all that is written under it; each content is a
version. `DebounceEnds` is `handleFileChange`, `ReadsFile` and `ParsesFile` the
two halves of `handleFile` (it reads, parses, and retries), `Schedule` its three
kinds of event, `TimerFires` a one-shot's timer, `WatcherFails` and
`WatcherRetries` the watcher's error and rescan, `MomDies`, `Start`, `StartFsWatcher`
a restart. A one-shot is past, to come, or `"distant"`: so far away that the delay
does not fit `setTimeout`, which then fires at once (`Due`). `raced` marks a change handled while an earlier one was still being read,
or an action on a content that was no longer there; `missed` a change
between `scanExisting` and `startFsWatcher`.

### SessionRuntime and the code

Every line of the client is handled at once up to its first wait
(`handleInputLine` is not awaited), so the actions are the stretches between
waits. `SendCommand` to `Apply` are a method of `AgentSessionRuntime`
(new, switch, fork and import wait alike): `session_before_switch`, `session_shutdown`
(`TearDown`), the creation of the next session (`DisposeCurrent`), `apply` with
`rebindSession` (`Apply`), `HookDone` when its handlers have run. Commands of the client, unlike
those of extensions (`byClient`), rebind once more, till `HandlerDone`; an extension may ask for a new session with a
setup of its own, which is awaited between the two (`SetupDone`). `ReplacementFails` is a creation, a setup or a
`bindExtensions` that throws. `session`,
`rpcSession` and `listening` are the runtime's field, the variable of `runRpcMode`
and the session `unsubscribe` belongs to. `Shutdown` and `Exit` are `shutdown()`.
A prompt (`SendPrompt`, `Handled`, `CheckStreaming`, `Accept`, `RunEnds`) is reduced to its
waits: it is taken by an extension, turned away as busy, refused without a model or a key, or accepted; what the agent does
is `AgentSession`. A compaction, before a prompt or after a run, may set a timer that calls `agent.continue()`
(`TimerContinues`, `ContinuationEnds`).

`overlapped` marks a replacement or a quit that began during another, `failed` the sessions at which
a replacement stopped after the teardown, `disturbed` the prompts that had company, be it a timer's.

### MomChannel and the code

`posted` is the channel, mom's status messages included, and `ts` a place in it.
`Post`, `Acknowledged` and the choice in `Connect` are Slack. `Deliver` is the
handler of `app_mention` and `message`: it logs, and stops, triggers or neither (`"chat"`
stands for a message not meant for mom). `Enqueue`, `ProcessNext` and
`EventComes` are `ChannelQueue` and `enqueueEvent`; the event itself comes from `MomEvents`. `Call`,
`PostStatus`, `Prepare`, `Prompt`, `AgentEnds` and `HandleEventEnds` are `handleEvent` and `run()`
between their waits; `Sync` is `syncLogToSessionManager`, which compares texts:
words stand for a text with the name in front of it, and `Strangers` for words
whose name is "unknown" in the prompt but an id in the log. `Recover` and `RecoveryEnds` are
what `AgentSession` does after an overflow: it continues the agent from a timer, when
`run()` is over. `BotDies`, `Backfill`, `Connect` and `RecordStartup` are a restart, as whose first step
events may already run, since their watcher starts before the bot does. A backfill reads the pages it is allowed
(`BackfillLimit`, the newest messages first) or fails, which is only logged; it is one step here. The prompt of a run is assumed to return;
`context.jsonl` is only written from the first answer on (`answered`, see `SessionFile`).

`passedOver` marks messages a backfill passed over, because a later line was in the
log or they were beyond its pages, `again` messages delivered to a mom that had them, `background` answers of a
recovery.

## 3. The runs

Checked on a small instance, every run to the end of its state space unless it
is meant to find a violation.

| run | cfg | bounds | what it shows |
|---|---|---|---|
| `agent_loop` | `MCAgentLoop` | 3 messages, 2 answered turns, batches of 0 or 2 parallel calls, 1 exception, steering one at a time, follow-ups all at once; messages symmetric | `TypeOK`, `ContextInSync`, `EachMessageOnce`, `PendingCallsExact`, and the refinement of `Conversation` |
| `agent_loop_live` | `MCAgentLoopLive` | 2 messages, 2 turns, batches of 0 or a parallel and a sequential call, 1 exception, fairness, no symmetry | `SequentialToolRunsAlone`, `AbortSettles`, `SteeringTakenUp` |
| `agent_zombie` | `AgentLoopZombie` | 2 messages, a parallel pair and a single sequential call | violation: a tool of a failed run runs next to a sequential one |
| `agent_end` | `AgentLoopEnd` | as above | violation: `agent_end` twice in one run |
| `bridge` | `MCBlenderBridge` | 2 requests, 2 `.blend` files, 1 Blender, 1 death; script with and without save, capture, context | `TypeOK`, `OncePerLife`, `OkIsDurable`, `AnswerConsumed`, `TimeoutWithdraws`, `RequestConsumed` |
| `bridge_two_blenders` | `BlenderBridgeTwoBlenders` | 2 requests, 1 file, 2 Blenders | violation: an `ok` is overwritten |
| `workspace_serial` | `MCBlenderWorkspace` | 4 calls of any kind one at a time, 2 scripts, 1 death of the agent; calls and scripts symmetric | `TypeOK`, `NothingLost`, `FolderShowsWhatRan`, `WorkKept` |
| `workspace_parallel` | `BlenderWorkspaceParallel` | 3 calls at once | violation: a recorded view or iteration is dropped |
| `workspace_stale` | `BlenderWorkspaceStale` | 3 calls one at a time | violation: Blender runs a script the call did not send |
| `session` | `MCAgentSession` | 2 texts, 1 retry, four scripts of answers (four overflows; an overflow that goes unsaid and two retryable errors; a large answer, a retryable error and an overflow; tool use and a large answer), 1 user call among clear, abort, compact and bash, 1 rejected stream or throwing listener, fairness | `TypeOK`, `MirrorShowsQueue`, `ReloadIsFaithful`, `FailuresBounded`, `PromptReturnsUndisturbed` |
| `session_hang` | `AgentSessionHang` | 1 text, a stream that rejects, fairness | violation: a call of `prompt()` that never returns |
| `services` | `MCServices` | the nine parts below, fairness per part | `ServicesTypeOK`, the properties of each part |

The parts of `services` share no state; the first state chooses one.

| part | bounds | states | properties |
|---|---|---|---|
| stream | 4 events | 700 | `EverythingIsHeard` (the refinement of `EventChannel`, and that a last word ends the reading) |
| mutation | 3 calls of any tool, 2 names of the file, any aborts and failures | 101,000 | `MutationsQueued` (`OneInside`, `QueuesForgotten`), `EditsCompose`, `EveryMutationReturns` |
| session file | 3 entries, a new file or one of an older version, 1 death or failing write, 2 files | 29,000 | `SessionFileKept` (`DiskHasTheTree`, `WrittenOnce`, `LogOnlyGrows`) |
| auth | 2 processes, 2 refresh tokens, 2 calls of `set` | 41,000 | `LoginsKept` (`NoSpentTokenSent`, `CredentialsKept`) |
| settings | 2 processes, 2 fields, 3 sets, 1 reload, 1 death | 86,000 | `SettingsKept` |
| compaction | 5 entries, messages of 1 or 3 tokens, a budget of 3 | 111,000 | `CutIsSound` (`CutKeepsCalls`, `CutKeepsAboutTheBudget`) |
| mom | 2 versions of the file, 2 attempts to read it, 1 death or watcher error | 134,000 | `ScheduleMatchesFile`, `EventsTakenUp` |
| runtime | 2 requests, each a command that replaces the session, of the client or an extension, or a prompt; timers of compactions; quitting | 46,000 | `ClientHearsCurrent`, `OldSessionsGone`, `PromptHeard` |
| channel | 3 arrivals, at most 2 of them messages, of 2 texts, one of a stranger, the others events; a queue of 1; backfills of 1 message; 1 misfortune (death, lost acknowledgement, failed prompt or overflow) | 305,000 | `RunsKeptApart`, `EverythingSaidIsSeenOnce`, `ChannelComesToRest` |

The largest runs, `agent_loop` and `bridge`, have about 0.9 million distinct states
each, `session` and `services` too, `agent_loop_live` 0.2 million,
`workspace_serial` 40 thousand; each takes about two minutes at most.

**Why the bounds are enough.** In the agent, three messages let one be a
prompt, one steered and one queued, or two wait in one queue while a third is
taken; two turns let a batch follow a batch and a failed run be followed by
another; two calls are the least that can end out of order; one exception
reaches every `await`, and the run after it meets its leftovers. (A second
exception would hit a state machine that has already forgotten the first,
except for its zombies, which only `pendingToolCalls` and `zombies` see.) On the bridge
two requests suffice for one to be behind, before or in the way of the other,
two files for a switch between them, one death for every half-finished state.
`MCBlenderBridge` leaves out the kinds `render` and `open`: `render` does what
`capture` does without the save, `open` what the beginning of every request
does. In the workspace, four calls let an init, two iterations and a retry
or a view follow each other.

In the session, two texts let one be sent while the other's run, retry or
compaction is on, or be queued behind it; the scripts hold more errors than one retry and one
recovery absorb, in both orders; one call of the user meets every state
of all that. (The session's invariants also hold over longer scripts: six answers with tool use, a large answer, three retryable
errors and an overflow, 0.5 million states; overflows that go unsaid around a retryable error, 1.2 million; these and
those of the run together, 2.1 million.) Three calls of the mutation queue are the least for which a call waits behind
a waiting one. In the session file, three entries make a branch and an answer
before and after the first flush, and one death or error every kind of line that is torn or missing (two, with which a
torn line is torn again, were checked apart: 121,000 states).
Two processes suffice for a lock: a third would only wait. Two refresh tokens let
one be spent, three sets one process go over another's and back. Five
entries hold two compactions with something between them, and a call with two results;
two versions are what it takes to change a file that is being read.

Two commands meet in every pair of stages, and the second finds whatever the first left; two prompts
are one in preflight next to one that runs. Two messages of a channel let one be missed, or delivered,
behind the other; of three arrivals one is handled, one waits and one is turned away
from a queue of one (the code's limit is five, which is as much a number as any). The invariants
of the runtime were also checked on larger instances, with its own specification:
three requests, of which at most two are commands and one a prompt (0.4 million states), one a command and two prompts
(0.1 million), or two of each (1.2 million).

**Deadlock** is not checked: an agent with no callers left, a bridge with
every request settled, a workspace with every call over, a session with no
user, a client or a channel with nothing more to say and a part of `services` at its bounds have really stopped.

**Fairness.** `AgentLoop`: the event loop runs on (`LoopStep`), a provider's
stream ends in some message (`Stream`; providers turn errors and aborts into a
final message), and a tool returns or throws (`ToolReturns`). Nothing obliges a
caller to do anything. `BlenderBridge`: Blender's timer keeps firing and each
handler returns; a Blender that died is started again, as every start of the
command line does. Clients, users and crashes have no fairness. `AgentSession`: the event loop
runs on (`SystemStep`: answers come, summaries come or fail, timers fire, handlers
go on); users owe nothing, and no stream need reject. In `services` each part asks for its own: the forwarder and the
loop read what is there (`Forward`, `LoopReads`; a provider owes nothing), promises
that are resolved run and file operations end (`Enter(c) \/ BodyStep(c)`, per call), mom's timers
fire and its reads end (`MomStep`, `StartFsWatcher`; nobody need start mom again). In `MomChannel` the
agent, Slack's answers and mom's files come to an end (`RunStep`, `RecoveryEnds`); nothing need be posted or
delivered, and nobody need start mom again. `BlenderWorkspace`,
`SessionFile`, `AuthStorage`, `Settings`, `Compaction` and `SessionRuntime` are checked for safety only.

**Exceptions.** Some properties name a history flag under which they say nothing:
`missed`, `outOfStep` and `displaced` (session), `escaped` (mutation queue), `unwritten`, `damaged` and `doubled`
(session file, with the migration that fails), `stolen`, `blanked`, `lost` and the symbolic link
(credentials, but for the login itself), `overtaken`, `repeated` and `wiped` (settings), `raced` and `missed` (mom's events),
`overlapped`, `failed` and `disturbed` (session runtime), `passedOver`, `again`, `background`, the
strangers and those who repeat themselves (mom's channel).
Each flag marks one precisely described event, listed above with its
module, which the code does not guard against; without the exception TLC finds a
behaviour in which the property fails (for `FailuresBounded` this takes longer scripts
than the run's, such as an overflow and five retryable errors; for `displaced` three texts and two retries). What happens under a flag is shown by the model and not caught by the
property. Most of these races no document of the repository denies. Documents do deny `raced`
(`mom/docs/events.md:90`), the runtime's `overlapped` (`coding-agent/docs/extensions.md:449`),
`escaped` (`file-mutation-queue.ts:17`) and `stolen` (`auth-storage.ts:5` and `:397`), and the words of mom's own
README the repetition of a text: what they say is written out as a property too, and
refuted (below). Two of mom's deserve a word: two overlapping calls of
`handleFile` for one file can each set a timer, and the first is then in
no map and cannot be cancelled; and a deletion reported while the file is
being read is forgotten, so that the event is scheduled all the same.

### Findings

Six runs show the code doing other than its documentation says; `PROJECT.json`
(`findings`) quotes the lines.

1. `agent_zombie`: in a parallel batch the first exception out of a listener
   ends the run while other tools are still executing; the next run may
   start a tool declared `"sequential"` next to them.
2. `agent_end`: a listener that throws on `agent_end` makes Agent emit a second one.
3. `bridge_two_blenders`: every session starts its own Blender on one bridge
   directory; the second saves its older copy over the first one's work.
4. `workspace_parallel`: tools of one batch each write back the whole manifest they read.
5. `workspace_stale`: an abort leaves the request on disk, and a retry reuses the
   folder whose script that request names.
6. `session_hang`: a stream function that rejects ends the run with `agent_end` alone; the
   session makes a promise for the retry, finds no answer to retry, and never resolves it:
   `prompt()` does not return.

**Refuted besides.** Twelve more statements of the documentation, or of comments in the code, are written as properties and are false of
the model; TLC finds a behaviour within the bounds above when one is checked. They belong to no run.

* `StartedOnce` (`SessionRuntime`): the command of a client and the runtime's hook both rebind a
  replaced session (`rpc-mode.ts:417`), so its extensions get `session_start` twice;
  `docs/extensions.md:383` tells of one.
* `AcceptedPromptRuns`: of two prompts in preflight at once both are answered with success, the
  second is refused by the agent, and nobody is told (`agent-session.ts:1083`);
  `docs/rpc.md:75` says "Failures after acceptance are reported through the normal event and
  message stream".
* `DisposedAcceptsNone`: a prompt that arrives while the next session is being created is accepted by
  the one just disposed of (`rpc-mode.ts:378`), and nothing of it is heard; `docs/rpc.md:44`
  says "Events continue streaming asynchronously after acceptance".
* `EveryAnswerIsPosted` (`MomChannel`): after an overflow the answer comes when `run()` has let go of its
  context (`mom/src/agent.ts:501`), and is posted nowhere; see mom's `README.md:131` and `:141`.
* `StopIsKept`: a stop before the agent has begun is acknowledged and lost
  (`mom/src/main.ts:291`); mom's `CHANGELOG.md:402` says it "can interrupt running tasks".
* `EveryMessageIsTold`: the sync goes by the text of a message (`mom/src/context.ts:113`), so a message that repeats an earlier one
  of its sender word by word is not told; mom's `README.md:129` says "Syncs all unseen messages".
* `ScheduleAlwaysMatchesFile` (`MomEvents`): a change that comes while the file is being read leaves a timer that nobody
  cancels, or one for a file that is gone; `mom/docs/events.md:90` says that it is cancelled and set up again.
* `OneShotsWait`: a one-shot more than 2^31 ms away is executed at once (`mom/src/events.ts:355`);
  `mom/docs/events.md:79` says "execute at the specified time".
* `ShutdownComesFirst` (`SessionRuntime`): of two replacements that overlap, one disposes of a session whose extensions were told of
  nothing (`agent-session-runtime.ts:156`); `docs/extensions.md:449` says `session_shutdown` is "Fired before an
  extension runtime is torn down".
* `EachFileSerialized` (`FileMutationQueue`): the next call writes beside the write of an aborted one, or reaches a file
  that does not exist yet through a link; `file-mutation-queue.ts:17` says "Serialize file mutation operations
  targeting the same file".
* `LocksPreventRaces` (`AuthStorage`): a synchronous call takes over the lock of a refresh that is ten seconds old
  (`auth-storage.ts:148`), and a refresh token is sent twice; `auth-storage.ts:5` says the locks prevent that.
* `OnlyErrorsTakenOut` (`AgentSession`): an answer whose overflow goes unsaid is a good one, and is taken out of the agent's
  messages like an error (`agent-session.ts:1801`), to be in the file only if the compaction then fails; the comment at
  `:1797` speaks of "the error message" alone.

## 4. The proofs

For every value of the constants, from the assumptions the modules name:
`ToolsAssumption` (sequential tools are tools, batches are sequences of tools, the
execution mode is one of two) and `BoundsAssumption` for the agent,
`BridgeAssumption`, `WorkspaceAssumption`, `SessionAssumption`, `MutationAssumption`,
`SettingsAssumption`, `AuthAssumption`, `StreamAssumption`, `RuntimeAssumption`, `CompactionAssumption`,
`SessionFileAssumption`, `MomAssumption` and `ChannelAssumption` for the others (the bounds are natural numbers, at least one
session file may be made, messages have one of finitely many sizes, all of them positive, and special values are no requests, files
or processes). What more a theorem assumes is in its statement.

| theorem | module | statement |
|---|---|---|
| `TypeInvariant` | `AgentLoopProofs` | `Spec => []TypeInv` |
| `TypeCorrect` | `AgentLoopProofs` | `Spec => []TypeOK` |
| `ConversationImplemented` | `AgentLoopProofs` | `Spec => ImplementsConversation` |
| `BatchInvariant` | `AgentLoopProofs` | `Spec => []BatchInv` |
| `SequentialToolsAlone` | `AgentLoopProofs` | `Spec => []SequentialToolRunsAlone` |
| `ContextAlwaysInSync` | `AgentLoopProofs` | `Spec => []ContextInSync` |
| `PendingCallsAlwaysExact` | `AgentLoopProofs` | `Spec => []PendingCallsExact` |
| `EachMessageIsOnce` | `AgentLoopProofs` | `Spec => []EachMessageOnce` |
| `BatchIsNeverStuck` | `AgentLoopProofs` | `Spec => []BatchNeverStuck` |
| `AbortAlwaysWindsDown` | `AgentLoopProofs` | `Spec => [](Left \in [1..7 -> Nat]) /\ AbortWindsDown` |
| `SteeringAlwaysHeld` | `AgentLoopProofs` | `Spec => SteeringHeld` |
| `TypeCorrect` | `BlenderBridgeProofs` | `Spec => []TypeOK` |
| `TimeoutsWithdraw` | `BlenderBridgeProofs` | `Spec => TimeoutWithdraws`, for any number of Blenders |
| `RunsOncePerLife` | `BlenderBridgeProofs` | with one Blender: `Spec => []OncePerLife` |
| `AnswersConsumed` | `BlenderBridgeProofs` | with one Blender: `Spec => []AnswerConsumed` |
| `OkIsForGood` | `BlenderBridgeProofs` | with one Blender: `Spec => []OkIsDurable` |
| `BlenderIsNeverStuck` | `BlenderBridgeProofs` | `Spec => []BlenderNeverStuck` |
| `RequestsAreTaken` | `BlenderBridgeProofs` | `Spec => TakenUntilGone` |
| `AgendaAlwaysWindsDown` | `BlenderBridgeProofs` | `Spec => AgendaWindsDown` |
| `TypeCorrect` | `BlenderWorkspaceProofs` | with finitely many calls: `Spec => []TypeOK` |
| `NothingIsLost` | `BlenderWorkspaceProofs` | finitely many calls, one at a time: `Spec => []NothingLost` |
| `WorkIsKept` | `BlenderWorkspaceProofs` | the same: `Spec => []WorkKept` |
| `FoldersShowWhatRan` | `BlenderWorkspaceProofs` | the same: `Spec => []FolderShowsWhatRan` |
| `MutationTypes` | `ServicesProofs` | `MutationSpec => []MutationTypeOK` |
| `OneInsideAlways` | `ServicesProofs` | `MutationSpec => []OneInside` |
| `QueuesAreForgotten` | `ServicesProofs` | `MutationSpec => []QueuesForgotten` |
| `MutationsAreQueued` | `ServicesProofs` | `MutationSpec => []MutationsQueued` |
| `EditsAlwaysCompose` | `ServicesProofs` | `MutationSpec => []EditsCompose` |
| `SettingsTypes` | `ServicesProofs` | `SettingsSpec => []SettingsTypeOK` |
| `SettingsAreKept` | `ServicesProofs` | `SettingsSpec => []SettingsKept` |
| `AuthTypesHold` | `ServicesProofs` | `AuthSpec => []AuthTypeOK` |
| `LoginsAreKept` | `ServicesProofs` | `AuthSpec => []LoginsKept` |
| `StreamTypes` | `ServicesProofs` | `StreamSpec => []StreamTypeOK` |
| `ChannelImplemented` | `ServicesProofs` | `StreamSpec => ImplementsChannel` |
| `NobodyAlwaysWaits` | `ServicesProofs` | `MutationSpec => []NobodyWaitsForEver` |
| `CallsAlwaysComeCloser` | `ServicesProofs` | `MutationSpec => CallsComeCloser` |
| `LastWordAlwaysOnItsWay` | `ServicesProofs` | `StreamSpec => []LastWordOnItsWay` |
| `LastWordAlwaysComesCloser` | `ServicesProofs` | `StreamSpec => LastWordComesCloser` |
| `SessionTypes` | `AgentSessionProofs` | `Spec => []TypeOK` |
| `MirrorAlwaysShowsQueue` | `AgentSessionProofs` | `Spec => []MirrorShowsQueue` |
| `FailuresAreBounded` | `AgentSessionProofs` | `Spec => []FailuresBounded` |
| `ReloadAlwaysFaithful` | `AgentSessionProofs` | `Spec => []ReloadIsFaithful` |
| `PromptsAreServed` | `AgentSessionProofs` | `Spec => [](WaitersServed /\ (Undisturbed /\ retryPromise => RetryComes))` |
| `RuntimeClientHearsCurrent` | `SessionProofs` | `RuntimeSpec => []ClientHearsCurrent` |
| `RuntimeTypes` | `SessionProofs` | `RuntimeSpec => []RuntimeTypeInv` |
| `OldSessionsAreGone` | `SessionProofs` | `RuntimeSpec => []OldSessionsGone` |
| `PromptsAreHeard` | `SessionProofs` | `RuntimeSpec => []PromptHeard` |
| `CutsKeepCalls` | `SessionProofs` | `CompactionSpec => []CutKeepsCalls`, half of `CutIsSound` |
| `CutsAreSound` | `SessionProofs` | `CompactionSpec => []CutIsSound` |
| `CompactionTypes` | `SessionProofs` | `CompactionSpec => []CompactionTypeOK` |
| `SessionFileIsKept` | `SessionProofs` | `SessionFileSpec => SessionFileKept` |
| `SessionFileTypes` | `SessionProofs` | `SessionFileSpec => []SessionFileTypeOK` |
| `RunsAreKeptApart` | `MomProofs` | `SlackSpec => []RunsKeptApart` |
| `EverythingIsSeenOnce` | `MomProofs` | `SlackSpec => []EverythingSaidIsSeenOnce` |
| `ChannelTypes` | `MomProofs` | `SlackSpec => []ChannelTypeOK` |
| `ScheduleAlwaysMatches` | `MomProofs` | `MomSpec => []ScheduleMatchesFile` |
| `MomTypes` | `MomProofs` | `MomSpec => []MomTypeOK` |
| `QuietIsAlwaysTakenUp` | `MomProofs` | `MomSpec => []QuietIsTakenUp` |
| `MomAlwaysWindsDown` | `MomProofs` | `MomSpec => [](MomLeft \in [1..4 -> Nat]) /\ MomWindsDown` |
| `NothingIsLeftWaiting` | `MomProofs` | `SlackSpec => []NothingWaitsUnattended` |
| `RunsAlwaysWindDown` | `MomProofs` | `SlackSpec => [](RunLeft \in [1..2 -> Nat]) /\ RunsWindDown` |
| `PartsImplemented` | `ServicesProofs` | `ServicesSpec` implies the specifications of all nine parts |
| `ServicesTypes` | `ServicesProofs` | `ServicesSpec => []ServicesTypeOK` |
| `ServicesKeepPromises` | `ServicesProofs` | `ServicesSpec` implies every safety property proved of a part |
| `ServicesGoOn` | `ServicesProofs` | `ServicesSpec` implies all that is proved of the progress of a part |

**The agent.** `TypeOK` is not inductive: that a run emits at most two
`agent_end` needs to know where the first can be, and that `results` stays
within the batch needs to know that a closed batch is empty. `TypeInv` adds
`RunRegistered` (a run is registered exactly while the loop is somewhere),
`BatchClosed` (no calls, statuses or results outside a batch) and
`EndsBounded`. `BatchInv` adds the order inside a batch: calls are announced
in order and results are of finished calls (`BatchOrdered`), a sequential batch
has at most one call past its announcement (`OneAtATime`: the next one may only be
announced when the result of the one before is out, and results are in order), and
zombies come from earlier assistant messages (`ZombiesOlder`). The last is what
makes a late end of a dead tool harmless to `pendingToolCalls`: its id belongs
to no open call. `ContextInSync` follows from `ContextCopied`, which also says
how the two transcripts differ where they do: by the prompts not yet announced,
or by the results of the open batch. `PendingCallsExact` is strengthened to hold between
runs even after a `reset()`, since a run starts from what the one before left.

`EachMessageOnce` is a sum over six places, and inductive but for one thing: a poll puts what it
drains into a local that must be empty, or what was there would be gone (`LocalsEmpty`). The rest is counting:
lemmas say what appending, taking the first, joining and emptying do to the
number of places a message has in a sequence (`CountAppend`, `CountTail`, `CountDrain`, ...), so that each action
adds on one side what it takes from the other.

The refinement maps `Conversation`'s `owed` to the calls of the batch without a
result. Every action but five kinds stutters (`Stutters`); announcing a message,
the end of a stream, a result, a failure and a reset are each one step of the
abstract module, and `ClosedBatch` gives what they need: nothing is owed outside a batch.

**The bridge.** Types need `Working`: a Blender in the middle of a request has
one. `Withdrawn` (a request that timed out has no file) gives `TimeoutWithdraws` for any number of
Blenders, since only `LoadRequest` begins with a request and it needs the file.
The other three need one Blender, and `bridge_two_blenders` shows why. `Unsent`
(a request nobody has sent is nowhere), `Idle` and `Counted` (a request
whose file is there, and which is not being finished, was only executed by Blenders that
died) give `OncePerLife`: the file is removed after the execution, so it takes a
death to meet it again. `Away` and `AnsweredOnce` say the same of answers.
`OkIsDurable` rests on `SceneCovers` (the scene in memory shows at least
what the file it came from shows), from which no step takes anything out of a file on disk
(`DiskGrows`), and on `SavedBeforeOk` (from the save on, an ok means that the disk
has it).

**The workspace.** That the number of an iteration is within bounds is not a matter
of types: `Counts` says that the manifest, and every copy of it a call holds, counts no more
iterations than executions have finished, and an unfinished one leaves room for
its own. `Stages` ties each step of a call to its kind and to
what Blender can have answered. For calls that run one at a time `Alone` holds, hence
`InHand`: the call under way holds the manifest as it is, or has torn it and
holds all that was recorded (`Recorded`). That gives `NothingLost`, and, with
`Work` (nothing is asked of Blender while there is no manifest) and `Folders`
(folders hold what was sent), that neither the scene nor the folder of a finished iteration
is touched again: the next iteration's number is higher than every recorded one.
`workspace_parallel` shows that `NothingLost` fails for overlapping calls.

**The mutation queue.** The calls of a key form a chain: each waits for the one before
(`Chained`), the map holds the last as long as one of them is live (`MapHoldsLast`,
`MapHoldsLive`), and whoever has stopped waiting has only settled calls before it
(`FirstCome`). With `CalledInOrder` these are inductive, and of two calls of a key that
were both inside, the earlier would be settled.

What a call makes of the file is another matter. `EditInv` says that, while no call has worked
beside another one (`escaped`), there is at most one writer (`OneWriter`), that no call
is inside next to it (`AloneInside`), and that an edit which has read but not written holds what
the file should hold (`TextIsCurrent`); a file that is being filled is empty, any other is as it
should be. `EditsCompose` is the last of these when nobody writes.

**Credentials.** `LoginsKept` rests on the lock as long as nothing makes it loose (a takeover, a
symbolic link): whoever writes or waits for the provider holds it, synchronously or not
(`HolderHasLock`), and what it has read is what the file holds and the provider accepts (`ReadUnderLock`). So a
token is sent that nobody has exchanged, and a write replaces what it was made from. However loose the lock, every copy
a process holds was read from a file with the login (`loggedIn`), so none writes it without. That the
provider's new token is for a while in no file (`TokenIsGood`) is why an answer that never comes
is an exception. When the lock is loose, `NoSpentTokenSent` and `CredentialsKept` name it.

**Settings.** Whoever is about to write holds the lock (`WriterHasLock`), and what it
has read is what the file still holds unless the file appeared in between
(`ReadIsFresh`). So a merge changes the modified fields of the task and no others. A death
in the middle of a write empties or tears the file: `Owed` is what was saved without the fields it `wiped`, which stay out of the file until they are
set again.

**The event stream.** The refinement maps the channel's `said` to what was pushed and `heard` to what the loop
has seen. `Flow` is the heart: what was pushed is what was seen, then what the outer stream still
holds, then what the inner one does; every method of `EventStream` keeps that row. `LastIsLast` and `DoneInTurn`
(a stream is done once its producer is, the outer one not before the inner is empty) make the
completing event the last; and `ResultIsFinal` (the result the loop will fetch is
the completing event it has yet to read) gives the channel's answer.

**The session.** `MirrorShowsQueue` relates the texts AgentSession shows to the agent's queues. A text joins
both at the end, and leaves the agent's queue at the front long before the session comes to its event, so
`Mirrors` says: the queue is the end of what is shown, what is shown beyond it is announced and
not yet processed (`Leaving`), and nothing is shown twice. RemoveFirst looks for a text, not
for a place, so it takes `TextsApart` (a text is in one mirror, no `prompt()` sends it, and what is announced is
queued no more) and `JobsOfPrompts` to know that it is the right one.

`FailuresBounded` is about a potential. The property counts down a `budget` with every failed answer,
and says that it never runs out before the user acts or an answer succeeds, which set it anew; the invariant says how much of it can still be
spent. Whatever can ask once more is a unit of `Load`: a run, the end of one still to be processed, a timer, a retry
that sleeps, a compaction under way that will go on from its end, and one that is due. Each is worth `MaxRetries + 1`
failures; `Standing` adds the one recovery from an overflow and takes off the retries already made and the error
just heard of, all of it as it will be when the session has worked through the events it was sent. `Bounded`
is `budget >= Worst`, and every action leaves `Worst` at most as far from the budget as it was (`Moves` has the cases): a
retry trades the end of a run for a sleep with one attempt more, a compaction that is over trades
itself for a timer, and an answer that succeeds sets the counters back and the budget with them. The counters are set
back when the session *processes* the answer, so the order of events matters: an error is the last message before
`agent_end`, and the session is done with the run before when the next one fails (`InOrder`); a retry and a
compaction of the handler exclude each other (`OneWait`). `Known` keeps the identities of answers apart. TLC checked
`BoundInv` on the run's instance and on longer scripts before it was proved.

`ReloadIsFaithful` compares two lists that the session filters and extends at different times: the agent has a message at
once, the session records it when it comes to the event. `Agree` says where each message is meanwhile: what the agent
has is what a reload gives, followed by the events still waited for, on each side without what the property leaves
out. An event that is processed moves from the one list to the other, a compaction replaces the
messages by what a reload gives, and bash output and prompts join both ends. The hard steps are those that take the last
answer off the agent's messages: it must be the error the session means. `Spoken` says so for every error the session has not
dealt with (it ends the messages, behind something that calls for an answer, unless an overflow was taken off early
or the error is older than the last compaction), `TurnOpen` makes it true of the next answer, and since answers ascend in
the entries and the events (`Sorted`) and none is younger than the last (`Dated`), leaving out one
identity takes out one message, the last. What is taken out need not be an error: a good answer whose overflow goes unsaid
is, too, so `Voices` says where such an answer may be when the session comes to its end. Where a listener throws nothing is
promised (`outOfStep`). The proof corrected the model: the
history variable `removed` named an overflow even when there was no answer at the end of the messages to take off, so that the property
excused more than is taken out.

`PromptsAreServed` is the safe part of `PromptReturnsUndisturbed`. A call of `prompt()` waits for a compaction, a
run or the promise of a retry, and that is there (`WaitersServed`). A promise is kept if a run is on, if the end of one
is still to be processed, or if a sleep or a timer is on its way *and* `agent.continue()` will find messages that
call for an answer (`RetryComes`). The last is what takes work: the error to be retried must be the last message and what is before it
must call for an answer (`Resumable`), for every error of which the session has not heard yet. `Spoken` and `TurnOpen` say this
but for what a compaction makes of the messages. An attempt to prove it without that exception
found what TLC had not met within the bounds of `session`: a prompt that is sent while a retry sleeps compacts first, the
compaction makes the messages anew from the entries and so brings the error back, which only the agent had dropped, and
after the next error one of the two is taken off and the other is left, so that `agent.continue()` throws in its timer and the
call that waits for the retry never returns (three texts, two retries, and a large answer before two
retryable errors; `agent-session.ts:1024`, `:2488`). The property had claimed too much and now excepts
`displaced`. TLC checked the invariant on the run's instance and on longer scripts before it was proved.

**The session file.** `FileInv` relates three things: the lines on disk, the entries in memory and the flag
`flushed`. What parses on disk is part of the tree, and all of it but the `unwritten` entries as soon as the session is flushed; an
assistant message without the flag means that the first flush failed, and then nothing is promised of any entry (`Same`, which
`damaged` suspends). Before there is an assistant message nothing is written, and each entry is written once (`Single`, which `doubled`
suspends). A death or an error leaves a prefix of what a write had
to add, with perhaps a part of a line (`Piece`, `Grown`): that is why only terminated lines are
promised to stay. `LogOnlyGrows` then is that every write begins with the terminated lines (`WholeLines`). A branch is
walked from its leaf to the root, and the walk of `PathTo` ends and names no entry twice because a parent is always older
than its children (`Rising`); the branched file thus has each entry once as well. The types follow from `FileInv` and the bounds
it does not mention (`FileBounds`).

What `Without`, `PathTo` and the folds of the library compute is defined by recursion. `ListProofs` proves what is needed
of them by induction: the induction theorems of the library take a predicate, which the provers cannot
instantiate, so the lemmas speak of *sets* closed under the step (`UpTo`, `EveryList`, `Iterates`) and each use
names the set of the values that have the property.

**Compaction.** An agent writes the results of a message before anything else but settings (`CallsOpen`), so
a result and its call have nothing between them at which a cut may be (`Calls`). A cut is at such a place,
or moved back from one over entries that are no messages (`CutPlace`), or is where the last compaction began to
keep, which was a cut itself: `KeptWhole` says that of every compaction in the branch.

The other half of `CutIsSound` is about sums of tokens. The library's fold over a set picks its elements
in an order nobody knows, so the lemmas first give the sums a function (`SumsExist`), show that it matters not which element comes first
(`SumsWithout`) and that a larger set has the larger sum (`SumsGrow`), all by induction over the subsets of a
finite set (`BySize`), and then that `Tokens` is such a sum. The scan from the end stops at the first message with which the
budget is reached; behind it there is less than the budget (`LessThanTheBudget`), and the cut is at the next place from there on. So
what is kept is short of the budget and that one message, which is no larger than the largest there is. Sizes are
positive; a message that is estimated at nothing (`compaction.ts:247`) is not covered.

**The session runtime.** `Bound` says who owes what: the variable of the RPC mode is the runtime's
session unless some command waits for the setup of its new session; while the subscription belongs to another one, some command is
in that setup or in `rebindSession` and will renew it; while the session is disposed of, some command is creating
the next; or, in each case, a replacement has `failed` at that session. A command only leaves such a stage by doing what it owes
(`StagesStay` for the others), so that with none under way and none failed nothing is owed. That the number of a session is within bounds
(`RuntimeTypeInv`) takes counting: `Counted` compares it with the commands that are past their creation.
`OldSessionsGone` rests on `GoneInv`, which speaks of commands that come one after the other
(`InTurn`): what such a command finds has been told of nothing yet, what it leaves is told
(`Told`) and disposed of (`OthersDisposed`); once, but for a session at which a replacement failed, which the next
command tells again (`ToldOnce`).
For `PromptHeard`, `HeardInv` says that an undisturbed prompt, while it is open, is alone, no timer has continued the agent, and its
session is the current one and no replacement failed at it (`HasItAll`): by `Bound` the client then listens to it. It may still be taken by an
extension or refused without a model or a key, and the client is told so in the answer.

**mom's channel.** `OneCall` says that the two flags, the queue and the list of calls agree, which each of
`Enqueue` and `ProcessNext` needs to find and leaves behind. `CtxIsCurrent` ties the shared `runState` to the call:
a run that throws leaves it as it is, but the next one sets it before it prompts the agent, and a
recovery in the background only starts on an idle agent, so what answers a call is the agent working for it.

`EverythingSaidIsSeenOnce` follows the messages from Slack to the context. What was delivered, and what was there at a backfill
and not passed over (all of it, if the backfill failed), is in the log (`LogIsComplete`); what is in the context is from the
log (`ContextFromLog`); and a message the agent has not been prompted with is not in the context
(`NewsIsNew`), since the sync leaves out the message of the call. So after the sync everything in the log is known but for that message
(`AgentTold`), and the prompt adds it. `KnownOnce` needs the sync to add no line twice:
it adds the first of the unseen lines for every text, in ascending order (`Synced`). The module says so by
quantifying over ascending enumerations, of which there is one; that a set of numbers has a least element comes from the
well-foundedness of the natural numbers. (TLC checked the invariant on the run's instance before it was proved.) "Known" is by the text: whoever says the
same again word by word is not told of, which is the exception the statement names and `EveryMessageIsTold` shows.

For the types the hard bound is that on what mom posts. `CountInv` counts what is still to come with what is there: each call posts
its status once, and a call is an event's or follows from a delivery, of which there is one for each message of a user.
`RestInv` has the remaining variables, each within what was posted.

**mom's events.** `ScheduleMatchesFile` is what remains when nothing is going on. `ScheduleInv` says what holds in
between, while no change was handled during another's reading (`raced`): one call of `handleFile` at a time,
with the content of the file unless a change is to come (`OneReader`); what is scheduled is
known, on one of the two maps, and no timer is orphaned (`OneSchedule`); at rest, mom is going to
look again, has missed a change between scan and watch, or has scheduled what the file says (`AtRest`).

**The composition.** A step of `MCServices` is a step of one part and leaves the others as they are
(`ServicesStep`), so the composition implements each of the nine specifications (`PartsImplemented`) and
inherits their theorems (`ServicesKeepPromises`, `ServicesGoOn`). `ServicesTypeOK`, which speaks of
the part under way alone, is the types of all nine and that one of them is chosen.

**Progress.** A liveness property has two ingredients that are no matter of fairness: whoever is to go on can, and
each step takes it closer. Both are invariants or step properties, and are proved where a run
checks the liveness itself.

* `AbortSettles`: a batch is never stuck on its own bookkeeping (`BatchNeverStuck`), and with every step of its own an aborted run is `Below`
  where it was, in the lexicographic order of seven numbers (`Left`): the point it stands at, the prompts and messages to
  announce, the calls in each status, the results to come. Callers and tools of dead runs leave `Left` as it is.
* `SteeringTakenUp`: a message steered during a turn is in the queue when the next poll comes, or
  was taken, cleared, or lost its run (`SteeringHeld`).
* `RequestConsumed`: a poll has a request to load or one in its hands, keeps what it has seen until
  its file is gone, and takes up nothing else before it is through (`BlenderNeverStuck`, `TakenUntilGone`, `AgendaWindsDown`).
* `EveryMutationReturns`: of the calls that are not settled the first may go on (`NobodyWaitsForEver`), and none is set back
  (`CallsComeCloser`).
* `EverythingIsHeard`: after the last word one of the two readers has an event, and fewer moves remain after
  each (`LastWordOnItsWay`, `LastWordComesCloser`). A wake-up lost between `push` and `next()` would break the first.
* `EventsTakenUp`: if mom has nothing to do, there is nothing to be done (`QuietIsTakenUp`), and it comes to that, since every
  step lowers the four numbers of `MomLeft` (`MomWindsDown`) unless a change overtakes a read.
* `ChannelComesToRest`: an event that waits has a call before it, whose agent is at work (`NothingWaitsUnattended`), and the
  call's steps lower `RunLeft` (`RunsWindDown`).
* `PromptReturnsUndisturbed`: `PromptsAreServed`, above.

`EventsTakenUp` counts an event as executed when its file's turn has come, also when a channel's full queue turns it away: what becomes of it there
is `MomChannel`'s matter. `ChannelComesToRest` assumes that `session.prompt()` returns, which `session_hang` shows it need not.

`NoEndlessDescent` (`ListProofs`) says that `Below` has no infinite descent, for lists of any length: of the lists in a set one is least
(`BelowHasLeast`), by induction on the places compared. TLC checked each of these formulas on the run's instance before it was proved.
What is missing for the liveness properties themselves is that a fair action is enabled where its guard holds, and the induction over time.

**Only model-checked.** Liveness under fairness (`AbortSettles`, `SteeringTakenUp`,
`RequestConsumed`, `PromptReturnsUndisturbed`, `EveryMutationReturns`,
`EventsTakenUp`, `ChannelComesToRest`, the second half of `EverythingIsHeard`): it
needs ENABLED, which the prover does not handle. Every other property of a passing run is a theorem. No module uses recursive operators.

## 5. What comes next

1. `BlenderSession`: workspace and bridge composed, in place of `BlenderRuns`.
2. The request table of the RPC client, with its timeouts, and the dialogs of extensions.
3. `MomEvents` in front of `MomChannel`, in place of `EventComes`.
4. Theorems: progress of the workspace's calls, and a bound on the steps a call of `prompt()` still needs.

**Not modelled, and why.** Providers, the terminal and web interfaces, pods and
resource loading are wire formats, rendering and sequential start-up code with
no state that several actors share. Partial assistant messages affect display
only. Blender's own behaviour (what a script does to a scene) is outside this repository. Within
the modelled parts: setters of model, tools and system prompt, `subscribe`, the
stand-alone stream wrappers of the loop, executions with `saveAfter` off in the
workspace (the bridge has them) and the render and log files of an iteration;
custom and next-turn messages, tree navigation and extension commands of
AgentSession; labels and listing of sessions, what a migration does to an entry, `withSession`; the matching of the text an edit
replaces; login, logout and environment variables among the credentials; the merge of
global and project settings; summaries, branch summaries and the estimate of tokens;
mom's threads, status texts, attachments and containers; the services a session is created
from, `reload`, the queries and dialogs of the RPC mode and the library of its clients.
