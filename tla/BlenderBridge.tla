---------------------------- MODULE BlenderBridge ----------------------------
(***************************************************************************)
(* The file-based bridge between the agent and a live Blender.              *)
(*                                                                          *)
(* A client (requestLiveBlenderBridge in blender/bridge.ts) publishes       *)
(* requests/<id>.json and polls for responses/<id>.json until a deadline or *)
(* an abort.  A Blender (blender/live-bridge.py) polls the request          *)
(* directory from a timer, handles each request against the scene in its    *)
(* memory, writes the response and removes the request.  The two share only *)
(* those two directories and the .blend files.                              *)
(*                                                                          *)
(* What a request does to the scene is abstracted to the request's own      *)
(* name: a scene, in memory or on disk, is the set of requests it shows.    *)
(***************************************************************************)
EXTENDS Naturals, FiniteSets

CONSTANTS Requests,   \* request ids (randomUUID), one per bridge call
          Blenders,   \* Blender processes started on the bridge directory
          Blends,     \* .blend files that requests are about
          Payloads,   \* pairs <<kind, .blend>> a request may carry
          NoBlend,    \* the unsaved scene a fresh Blender shows
          NoRequest,
          MaxCrashes  \* bound: deaths of a Blender process

VARIABLES
  requestFiles,  \* ids with a published requests/<id>.json
  response,      \* responses/<id>.json: absent, half written, or what it says
  client,        \* how far each bridge call has come
  kind, target   \* the payload: what to do and to which .blend

VARIABLES
  phase,         \* where poll_requests stands, per Blender
  agenda,        \* what is left of its listdir snapshot
  current,       \* the request it is processing
  reply,         \* what it is going to answer
  opened,        \* bpy.data.filepath
  scene,         \* what the scene in memory shows
  dirty,         \* bpy.data.is_dirty
  disk           \* what each .blend file shows

VARIABLES executions, crashes

clientVars == <<client, kind, target>>
pollVars == <<phase, agenda, current, reply>>
sceneVars == <<opened, scene, dirty>>
vars == <<requestFiles, response, clientVars, pollVars, sceneVars, disk, executions, crashes>>

\* "scratch" is execute-python with saveAfter off, "context" get-session-context.
Kinds == {"execute", "scratch", "capture", "render", "open", "context"}
Replies == {"ok", "exit1", "error"}
Settled == {"ok", "exit1", "error", "timeout", "aborted"}
\* Requests whose handler ends in save_mainfile when nothing goes wrong.
Saves == {"execute", "capture"}

ASSUME BridgeAssumption == 
  /\ Payloads \subseteq Kinds \X Blends
  /\ NoBlend \notin Blends /\ NoRequest \notin Requests /\ MaxCrashes \in Nat

Init ==
  /\ requestFiles = {} /\ response = [r \in Requests |-> "none"]
  /\ client = [r \in Requests |-> "new"]
  /\ \E payload \in [Requests -> Payloads] :
       /\ kind = [r \in Requests |-> payload[r][1]]
       /\ target = [r \in Requests |-> payload[r][2]]
  /\ phase = [b \in Blenders |-> "off"] /\ agenda = [b \in Blenders |-> {}]
  /\ current = [b \in Blenders |-> NoRequest] /\ reply = [b \in Blenders |-> "error"]
  /\ opened = [b \in Blenders |-> NoBlend] /\ scene = [b \in Blenders |-> {}]
  /\ dirty = [b \in Blenders |-> FALSE] /\ disk = [f \in Blends |-> {}]
  /\ executions = [r \in Requests |-> 0] /\ crashes = 0

-----------------------------------------------------------------------------
(***************************************************************************)
(* The client.                                                              *)
(***************************************************************************)

\* Write <id>.tmp, then rename: the request appears whole.
Submit(r) ==
  /\ client[r] = "new"
  /\ client' = [client EXCEPT ![r] = "waiting"]
  /\ requestFiles' = requestFiles \cup {r}
  /\ UNCHANGED <<response, kind, target, pollVars, sceneVars, disk, executions, crashes>>

\* Mutant: a half-written response is passed on as it is.
TakeResponseUnparsed(r) ==
  /\ client[r] = "waiting" /\ response[r] # "none"
  /\ client' = [client EXCEPT ![r] = response[r]]
  /\ response' = [response EXCEPT ![r] = "none"]
  /\ UNCHANGED <<requestFiles, kind, target, pollVars, sceneVars, disk, executions, crashes>>

\* Mutant: the response file stays.
TakeResponseCopy(r) ==
  /\ client[r] = "waiting" /\ response[r] # "none"
  /\ client' = [client EXCEPT ![r] = IF response[r] = "partial" THEN "error" ELSE response[r]]
  /\ UNCHANGED <<requestFiles, response, kind, target, pollVars, sceneVars, disk,
                 executions, crashes>>

\* The response file exists: read whatever is in it, then remove it.  Half a
\* JSON document does not parse, so the call fails whatever Blender did.
TakeResponse(r) ==
  /\ client[r] = "waiting" /\ response[r] # "none"
  /\ client' = [client EXCEPT ![r] = IF response[r] = "partial" THEN "error" ELSE response[r]]
  /\ response' = [response EXCEPT ![r] = "none"]
  /\ UNCHANGED <<requestFiles, kind, target, pollVars, sceneVars, disk, executions, crashes>>

\* Mutant: the request is left for Blender.
TimeOutAndLeave(r) ==
  /\ client[r] = "waiting"
  /\ client' = [client EXCEPT ![r] = "timeout"]
  /\ UNCHANGED <<requestFiles, response, kind, target, pollVars, sceneVars, disk, executions,
                 crashes>>

\* The deadline passes at the head of the polling loop: withdraw the request.
TimeOut(r) ==
  /\ client[r] = "waiting"
  /\ client' = [client EXCEPT ![r] = "timeout"]
  /\ requestFiles' = requestFiles \ {r}
  /\ UNCHANGED <<response, kind, target, pollVars, sceneVars, disk, executions, crashes>>

\* delay() rejects on the abort signal, or the agent exits: the call is over, the
\* request stays.
AbortCall(r) ==
  /\ client[r] = "waiting"
  /\ client' = [client EXCEPT ![r] = "aborted"]
  /\ UNCHANGED <<requestFiles, response, kind, target, pollVars, sceneVars, disk,
                 executions, crashes>>

-----------------------------------------------------------------------------
(***************************************************************************)
(* Blender: poll_requests and process_request_file.                         *)
(***************************************************************************)
StartBlender(b) ==
  /\ phase[b] = "off"
  /\ phase' = [phase EXCEPT ![b] = "idle"]
  /\ UNCHANGED <<requestFiles, response, clientVars, agenda, current, reply, sceneVars, disk,
                 executions, crashes>>

\* The timer fires: snapshot the directory.
Poll(b) ==
  /\ phase[b] = "idle" /\ requestFiles # {}
  /\ agenda' = [agenda EXCEPT ![b] = requestFiles]
  /\ phase' = [phase EXCEPT ![b] = "polling"]
  /\ UNCHANGED <<requestFiles, response, clientVars, current, reply, sceneVars, disk,
                 executions, crashes>>

\* Open the next file of the snapshot, in the order of the random ids.  A file
\* that is gone by now (timed out) is answered with an error all the same.
LoadRequest(b, r) ==
  /\ phase[b] = "polling" /\ r \in agenda[b]
  /\ agenda' = [agenda EXCEPT ![b] = @ \ {r}]
  /\ current' = [current EXCEPT ![b] = r]
  /\ phase' = [phase EXCEPT ![b] = IF r \in requestFiles THEN "loaded" ELSE "handled"]
  /\ UNCHANGED <<requestFiles, response, clientVars, reply, sceneVars, disk, executions,
                 crashes>>

\* ensure_requested_blend_open, when it succeeds: already open, or opened now
\* in place of a file with nothing unsaved.
CanOpen(b, f) == opened[b] = f \/ ~dirty[b]
\* Mutant: the file is not opened, its name is only assumed.
SceneAsItIs(b, f) == scene[b]
SceneAfterOpen(b, f) == IF opened[b] = f THEN scene[b] ELSE disk[f]

\* The handler raises: another file has unsaved changes, or the right file is
\* open but has no viewport or no camera to capture or render from.
RefuseRequest(b) ==
  LET f == target[current[b]]
  IN  /\ phase[b] = "loaded" /\ kind[current[b]] # "context"
      /\ \/ ~CanOpen(b, f) /\ UNCHANGED sceneVars
         \/ /\ CanOpen(b, f) /\ kind[current[b]] \in {"capture", "render"}
            /\ scene' = [scene EXCEPT ![b] = SceneAfterOpen(b, f)]
            /\ opened' = [opened EXCEPT ![b] = f]
            /\ UNCHANGED dirty
      /\ phase' = [phase EXCEPT ![b] = "handled"]
      /\ UNCHANGED <<requestFiles, response, clientVars, agenda, current, reply, disk,
                     executions, crashes>>

\* The handler does its work in memory, after the optional save of saveBefore.
\* A script that raises leaves part of that work behind, is answered with exit
\* code 1 and is never saved.  Whether changes made from Python raise
\* bpy.data.is_dirty depends on the operators the script called.  Render
\* settings are not part of the scene's abstraction.
HandleRequest(b, answer, saveBefore, leavesDirty) ==
  LET r == current[b]
      f == target[r]
      changes == kind[r] \in {"execute", "scratch", "capture"}
  IN  /\ phase[b] = "loaded" /\ kind[r] # "context" /\ CanOpen(b, f)
      /\ answer = "exit1" \/ saveBefore => kind[r] \in {"execute", "scratch"}
      /\ leavesDirty => changes
      /\ opened' = [opened EXCEPT ![b] = f]
      /\ disk' = IF saveBefore THEN [disk EXCEPT ![f] = SceneAfterOpen(b, f)] ELSE disk
      /\ scene' = [scene EXCEPT ![b] = SceneAfterOpen(b, f) \cup IF changes THEN {r} ELSE {}]
      /\ dirty' = [dirty EXCEPT ![b] = leavesDirty \/ (@ /\ ~saveBefore)]
      /\ reply' = [reply EXCEPT ![b] = answer]
      /\ executions' = [executions EXCEPT ![r] = @ + 1]
      /\ phase' = [phase EXCEPT ![b] =
                     IF kind[r] \in Saves /\ answer = "ok" THEN "unsaved" ELSE "handled"]
      /\ UNCHANGED <<requestFiles, response, clientVars, agenda, current, crashes>>

\* get-session-context looks at whatever is open and never fails.
ReportContext(b) ==
  /\ phase[b] = "loaded" /\ kind[current[b]] = "context"
  /\ reply' = [reply EXCEPT ![b] = "ok"]
  /\ executions' = [executions EXCEPT ![current[b]] = @ + 1]
  /\ phase' = [phase EXCEPT ![b] = "handled"]
  /\ UNCHANGED <<requestFiles, response, clientVars, agenda, current, sceneVars, disk, crashes>>

\* bpy.ops.wm.save_mainfile().
SaveMainfile(b) ==
  /\ phase[b] = "unsaved"
  /\ disk' = [disk EXCEPT ![opened[b]] = scene[b]]
  /\ dirty' = [dirty EXCEPT ![b] = FALSE]
  /\ phase' = [phase EXCEPT ![b] = "handled"]
  /\ UNCHANGED <<requestFiles, response, clientVars, agenda, current, reply, opened, scene,
                 executions, crashes>>

\* write_response: open(..., "w") creates or truncates the file ...
OpenResponse(b) ==
  /\ phase[b] = "handled"
  /\ response' = [response EXCEPT ![current[b]] = "partial"]
  /\ phase' = [phase EXCEPT ![b] = "answering"]
  /\ UNCHANGED <<requestFiles, clientVars, agenda, current, reply, sceneVars, disk,
                 executions, crashes>>

\* ... and json.dump fills it, in vain if the client has removed it meanwhile.
FillResponse(b) ==
  /\ phase[b] = "answering"
  /\ response' = [response EXCEPT ![current[b]] = IF @ = "none" THEN "none" ELSE reply[b]]
  /\ phase' = [phase EXCEPT ![b] = "answered"]
  /\ UNCHANGED <<requestFiles, clientVars, agenda, current, reply, sceneVars, disk,
                 executions, crashes>>

\* Mutant: a request is only removed when it succeeded.
RemoveIfOk(b) ==
  /\ phase[b] = "answered"
  /\ requestFiles' = IF reply[b] = "ok" THEN requestFiles \ {current[b]} ELSE requestFiles
  /\ phase' = [phase EXCEPT ![b] = IF agenda[b] = {} THEN "idle" ELSE "polling"]
  /\ current' = [current EXCEPT ![b] = NoRequest] /\ reply' = [reply EXCEPT ![b] = "error"]
  /\ UNCHANGED <<response, clientVars, agenda, sceneVars, disk, executions, crashes>>

\* finally: os.remove(request_path); then the next file of the snapshot.
RemoveRequest(b) ==
  /\ phase[b] = "answered"
  /\ requestFiles' = requestFiles \ {current[b]}
  /\ phase' = [phase EXCEPT ![b] = IF agenda[b] = {} THEN "idle" ELSE "polling"]
  /\ current' = [current EXCEPT ![b] = NoRequest] /\ reply' = [reply EXCEPT ![b] = "error"]
  /\ UNCHANGED <<response, clientVars, agenda, sceneVars, disk,
                 executions, crashes>>

-----------------------------------------------------------------------------
(***************************************************************************)
(* The user and the operating system.                                       *)
(***************************************************************************)

\* The user's own edits reach a Blender only between two timer calls.
UserEdits(b) ==
  /\ phase[b] = "idle" /\ ~dirty[b]
  /\ dirty' = [dirty EXCEPT ![b] = TRUE]
  /\ UNCHANGED <<requestFiles, response, clientVars, pollVars, opened, scene, disk,
                 executions, crashes>>

UserSaves(b) ==
  /\ phase[b] = "idle" /\ opened[b] # NoBlend /\ dirty[b]
  /\ disk' = [disk EXCEPT ![opened[b]] = scene[b]]
  /\ dirty' = [dirty EXCEPT ![b] = FALSE]
  /\ UNCHANGED <<requestFiles, response, clientVars, pollVars, opened, scene,
                 executions, crashes>>

UserOpens(b, f) ==
  /\ phase[b] = "idle"
  /\ opened' = [opened EXCEPT ![b] = f] /\ scene' = [scene EXCEPT ![b] = disk[f]]
  /\ dirty' = [dirty EXCEPT ![b] = FALSE]
  /\ UNCHANGED <<requestFiles, response, clientVars, pollVars, disk, executions, crashes>>

\* The process dies: the files stay as they are, half written or not.
Crash(b) ==
  /\ phase[b] # "off" /\ crashes < MaxCrashes
  /\ crashes' = crashes + 1
  /\ phase' = [phase EXCEPT ![b] = "off"]
  /\ agenda' = [agenda EXCEPT ![b] = {}]
  /\ current' = [current EXCEPT ![b] = NoRequest] /\ reply' = [reply EXCEPT ![b] = "error"]
  /\ opened' = [opened EXCEPT ![b] = NoBlend]
  /\ scene' = [scene EXCEPT ![b] = {}]
  /\ dirty' = [dirty EXCEPT ![b] = FALSE]
  /\ UNCHANGED <<requestFiles, response, clientVars, disk, executions>>

-----------------------------------------------------------------------------
ClientStep(r) == Submit(r) \/ TakeResponse(r) \/ TimeOut(r) \/ AbortCall(r)

BlenderStep(b) ==
  \/ StartBlender(b) \/ Poll(b)
  \/ \E r \in Requests : LoadRequest(b, r)
  \/ RefuseRequest(b) \/ ReportContext(b)
  \/ \E answer \in {"ok", "exit1"}, saveBefore, leavesDirty \in BOOLEAN :
       HandleRequest(b, answer, saveBefore, leavesDirty)
  \/ SaveMainfile(b) \/ OpenResponse(b) \/ FillResponse(b) \/ RemoveRequest(b)

Environment(b) ==
  \/ UserEdits(b) \/ UserSaves(b) \/ Crash(b)
  \/ \E f \in Blends : UserOpens(b, f)

Next ==
  \/ \E r \in Requests : ClientStep(r)
  \/ \E b \in Blenders : BlenderStep(b) \/ Environment(b)

Spec == Init /\ [][Next]_vars

\* Blender's timer keeps firing, and a Blender that died is started again (the
\* command-line entry starts one with every session).
FairSpec == Spec /\ \A b \in Blenders : WF_vars(BlenderStep(b))

-----------------------------------------------------------------------------
(***************************************************************************)
(* Properties.                                                              *)
(***************************************************************************)

\* Every variable keeps its type.
TypeOK ==
  /\ requestFiles \subseteq Requests
  /\ response \in [Requests -> Replies \cup {"none", "partial"}]
  /\ client \in [Requests -> Settled \cup {"new", "waiting"}]
  /\ kind \in [Requests -> Kinds] /\ target \in [Requests -> Blends]
  /\ phase \in [Blenders -> {"off", "idle", "polling", "loaded", "unsaved", "handled",
                             "answering", "answered"}]
  /\ agenda \in [Blenders -> SUBSET Requests]
  /\ current \in [Blenders -> Requests \cup {NoRequest}] /\ reply \in [Blenders -> Replies]
  /\ opened \in [Blenders -> Blends \cup {NoBlend}]
  /\ scene \in [Blenders -> SUBSET Requests] /\ dirty \in [Blenders -> BOOLEAN]
  /\ disk \in [Blends -> SUBSET Requests]
  /\ executions \in [Requests -> Nat] /\ crashes \in 0..MaxCrashes

\* A request is executed once, and once more for every death of Blender between
\* its execution and the removal of its file: polls, errors, timeouts and aborts
\* never repeat it.
OncePerLife == \A r \in Requests : executions[r] <= 1 + crashes

\* A script or capture that was answered ok is in its .blend file for good: no
\* later request, refusal, file switch, user save or death of Blender undoes it.
OkIsDurable ==
  \A r \in Requests :
    client[r] = "ok" /\ kind[r] \in Saves => r \in disk[target[r]]

\* A call that timed out has withdrawn its request: a Blender that had not begun
\* with it by then never will, not even one started later.
TimeoutWithdraws ==
  [][\A r \in Requests, b \in Blenders :
       client[r] = "timeout" /\ phase[b] # "loaded" =>
         ~(phase'[b] = "loaded" /\ current'[b] = r)]_vars

\* A call that got its answer leaves no response behind, unless Blender died and
\* answered again.
AnswerConsumed ==
  \A r \in Requests :
    client[r] \in {"ok", "exit1", "error"} /\ response[r] # "none" => crashes > 0

\* No request starves, however many others arrive: its file goes away.
RequestConsumed == \A r \in Requests : r \in requestFiles ~> r \notin requestFiles

=============================================================================
