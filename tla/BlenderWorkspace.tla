-------------------------- MODULE BlenderWorkspace --------------------------
(***************************************************************************)
(* The workspace of the Blender tools (packages/coding-agent/src/blender):  *)
(* blender_workspace_init, blender_execute_python, blender_save_view and    *)
(* blender_render each read manifest.json, do slow work with Blender and    *)
(* write the whole manifest back.                                           *)
(*                                                                          *)
(* The bridge is reduced to what BlenderBridge.tla says of it: a request is *)
(* run at most once, a timeout withdraws it, an abort leaves it on disk.    *)
(* Every execution keeps saveAfter on, its default.                         *)
(***************************************************************************)
EXTENDS Naturals, FiniteSets

CONSTANTS Calls,          \* tool calls; each saves a view of its own name
          Kinds,          \* kinds of calls the model may make
          Scripts,        \* contents the workspace script may have
          ToolExecution,  \* "sequential": one call at a time; "parallel"
          MaxCrashes      \* bound: deaths of the agent process

ASSUME WorkspaceAssumption ==
  /\ Kinds \subseteq {"init", "execute", "saveView", "render"}
  /\ ToolExecution \in {"parallel", "sequential"}
  /\ MaxCrashes \in Nat

VARIABLES
  manifest,    \* the manifest file: Missing, Torn, or the record it holds
  blend,       \* scripts whose effects model.blend shows, by call
  rootScript,  \* <workspace>/script.py
  archive,     \* iteration_NN/script.py, by iteration
  requests     \* execute-python request files no Blender has handled yet
fileVars == <<manifest, blend, rootScript, archive, requests>>

VARIABLES
  pc, kind,
  copy,        \* the manifest as the call read it
  answer       \* what Blender answered to its execute-python request
callVars == <<pc, kind, copy, answer>>

VARIABLES
  sent,        \* the script the call put into its iteration folder
  ran,         \* the script Blender ran for the call
  crashes
ghostVars == <<sent, ran, crashes>>

vars == <<fileVars, callVars, ghostVars>>

-----------------------------------------------------------------------------
NoScript == "none"
Empty(status) == [latest |-> 0, views |-> {}, renders |-> {}, status |-> status]
Missing == Empty("missing")
Torn == Empty("torn")
FreshManifest == Empty("ok")

Iterations == 1..Cardinality(Calls)
Iteration(c) == copy[c].latest + 1

InProgress(c) == pc[c] \notin {"new", "ok", "failed"}

Init ==
  /\ manifest = Missing /\ blend = {} /\ requests = {}
  /\ rootScript \in Scripts /\ archive = [i \in Iterations |-> NoScript]
  /\ pc = [c \in Calls |-> "new"] /\ kind \in [Calls -> Kinds]
  /\ copy = [c \in Calls |-> Missing] /\ answer = [c \in Calls |-> "none"]
  /\ sent = [c \in Calls |-> NoScript] /\ ran = [c \in Calls |-> NoScript]
  /\ crashes = 0

-----------------------------------------------------------------------------
\* The agent loop starts a call: Promise.all starts them all, sequential mode
\* waits for the one before.
Begin(c) ==
  /\ pc[c] = "new"
  /\ ToolExecution = "sequential" => \A d \in Calls : ~InProgress(d)
  /\ pc' = [pc EXCEPT ![c] = "reading"]
  /\ UNCHANGED <<fileVars, kind, copy, answer, ghostVars>>

\* Mutant: init creates the workspace whether or not there is one.
ReadForInit(c) ==
  /\ pc[c] = "reading"
  /\ copy' = [copy EXCEPT ![c] = manifest]
  /\ pc' = [pc EXCEPT ![c] =
       CASE kind[c] = "init" -> "creating"
         [] kind[c] # "init" /\ manifest \in {Torn, Missing} -> "failed"
         [] OTHER -> IF kind[c] = "execute" THEN "copying" ELSE "waiting"]
  /\ UNCHANGED <<fileVars, kind, answer, ghostVars>>

\* What comes after a manifest that could be read.
AfterReading(k) ==
  CASE k = "init" -> "ok" [] k = "execute" -> "copying" [] OTHER -> "waiting"

\* readManifest.  Every tool but init needs a manifest; half a JSON document
\* does not parse; an init that finds one is done.
ReadManifest(c) ==
  /\ pc[c] = "reading"
  /\ copy' = [copy EXCEPT ![c] = manifest]
  /\ pc' = [pc EXCEPT ![c] =
       CASE manifest = Torn -> "failed"
         [] manifest = Missing -> IF kind[c] = "init" THEN "creating" ELSE "failed"
         [] OTHER -> AfterReading(kind[c])]
  /\ UNCHANGED <<fileVars, kind, answer, ghostVars>>

\* createBlankBlend or copyFile of the source blend: whatever was there is gone.
CreateBlend(c) ==
  /\ pc[c] = "creating"
  /\ blend' = {}
  /\ copy' = [copy EXCEPT ![c] = FreshManifest]
  /\ pc' = [pc EXCEPT ![c] = "committing"]
  /\ UNCHANGED <<manifest, rootScript, archive, requests, kind, answer, ghostVars>>

\* The workspace script is copied into the folder of the iteration to come.
ArchiveScript(c) ==
  /\ pc[c] = "copying"
  /\ archive' = [archive EXCEPT ![Iteration(c)] = rootScript]
  /\ sent' = [sent EXCEPT ![c] = rootScript]
  /\ pc' = [pc EXCEPT ![c] = "submitting"]
  /\ UNCHANGED <<manifest, blend, rootScript, requests, kind, copy, answer, ran, crashes>>

\* requestLiveBlenderExecutePython: the request names the archived script.
SubmitExecution(c) ==
  /\ pc[c] = "submitting"
  /\ requests' = requests \cup {c}
  /\ pc' = [pc EXCEPT ![c] = "waiting"]
  /\ UNCHANGED <<manifest, blend, rootScript, archive, kind, copy, answer, ghostVars>>

\* Blender handles a request, whether or not its call still waits: it reads the
\* archived script now, runs it and saves model.blend if nothing was raised.
BlenderRuns(c, a) ==
  /\ c \in requests
  /\ requests' = requests \ {c}
  /\ answer' = [answer EXCEPT ![c] = a]
  /\ ran' = [ran EXCEPT ![c] = IF a = "error" THEN @ ELSE archive[Iteration(c)]]
  /\ blend' = IF a = "ok" THEN blend \cup {c} ELSE blend
  /\ UNCHANGED <<manifest, rootScript, archive, pc, kind, copy, sent, crashes>>

\* Mutant: the answer is taken for an outcome.
TakeAnyAnswer(c, succeeded) ==
  /\ pc[c] = "waiting"
  /\ kind[c] = "execute" => answer[c] # "none" /\ succeeded = (answer[c] = "ok")
  /\ pc' = [pc EXCEPT ![c] = IF succeeded THEN "committing" ELSE answer[c]]
  /\ UNCHANGED <<fileVars, kind, copy, answer, ghostVars>>

\* The call has its answer: an execution its own, a capture or render any.
TakeAnswer(c, succeeded) ==
  /\ pc[c] = "waiting"
  /\ kind[c] = "execute" => answer[c] # "none" /\ succeeded = (answer[c] = "ok")
  /\ pc' = [pc EXCEPT ![c] = IF succeeded THEN "committing" ELSE "failed"]
  /\ UNCHANGED <<fileVars, kind, copy, answer, ghostVars>>

\* The deadline passes and the request, if it is still there, is withdrawn.
TimeOut(c) ==
  /\ pc[c] = "waiting"
  /\ requests' = requests \ {c}
  /\ pc' = [pc EXCEPT ![c] = "failed"]
  /\ UNCHANGED <<manifest, blend, rootScript, archive, kind, copy, answer, ghostVars>>

\* The abort signal ends the call and nothing else.
AbortCall(c) ==
  /\ pc[c] = "waiting"
  /\ pc' = [pc EXCEPT ![c] = "failed"]
  /\ UNCHANGED <<fileVars, kind, copy, answer, ghostVars>>

\* Mutant: a saved view replaces the views there were.
UpdatedAlone(c) ==
  CASE kind[c] = "execute" -> [copy[c] EXCEPT !.latest = Iteration(c)]
    [] kind[c] = "saveView" -> [copy[c] EXCEPT !.views = {c}]
    [] kind[c] = "render" -> [copy[c] EXCEPT !.renders = @ \cup {c}]
    [] OTHER -> copy[c]

\* Mutant: an execution does not advance the iteration.
UpdatedInPlace(c) ==
  CASE kind[c] = "saveView" -> [copy[c] EXCEPT !.views = @ \cup {c}]
    [] kind[c] = "render" -> [copy[c] EXCEPT !.renders = @ \cup {c}]
    [] OTHER -> copy[c]

\* What the call makes of the manifest it read before.
Updated(c) ==
  CASE kind[c] = "execute" -> [copy[c] EXCEPT !.latest = Iteration(c)]
    [] kind[c] = "saveView" -> [copy[c] EXCEPT !.views = @ \cup {c}]
    [] kind[c] = "render" -> [copy[c] EXCEPT !.renders = @ \cup {c}]
    [] OTHER -> copy[c]

\* writeManifest opens the file, which truncates it ...
TruncateManifest(c) ==
  /\ pc[c] = "committing"
  /\ manifest' = Torn
  /\ pc' = [pc EXCEPT ![c] = "writing"]
  /\ UNCHANGED <<blend, rootScript, archive, requests, kind, copy, answer, ghostVars>>

\* ... and writes the whole document.
FillManifest(c) ==
  /\ pc[c] = "writing"
  /\ manifest' = Updated(c)
  /\ pc' = [pc EXCEPT ![c] = "ok"]
  /\ UNCHANGED <<blend, rootScript, archive, requests, kind, copy, answer, ghostVars>>

\* The write and edit tools, or the user, change the workspace script.
EditScript(s) ==
  /\ rootScript # s
  /\ rootScript' = s
  /\ UNCHANGED <<manifest, blend, archive, requests, callVars, ghostVars>>

\* The agent process dies; the files stay as they are.
AgentDies ==
  /\ crashes < MaxCrashes /\ \E c \in Calls : InProgress(c)
  /\ crashes' = crashes + 1
  /\ pc' = [c \in Calls |-> IF InProgress(c) THEN "failed" ELSE pc[c]]
  /\ UNCHANGED <<fileVars, kind, copy, answer, sent, ran>>

Next ==
  \/ \E c \in Calls :
       \/ Begin(c) \/ ReadManifest(c) \/ CreateBlend(c) \/ ArchiveScript(c)
       \/ SubmitExecution(c) \/ TimeOut(c) \/ AbortCall(c)
       \/ \E succeeded \in BOOLEAN : TakeAnswer(c, succeeded)
       \/ \E a \in {"ok", "exit1", "error"} : BlenderRuns(c, a)
       \/ TruncateManifest(c) \/ FillManifest(c)
  \/ \E s \in Scripts : EditScript(s)
  \/ AgentDies

Spec == Init /\ [][Next]_vars

-----------------------------------------------------------------------------
\* Every variable keeps its type.
TypeOK ==
  LET Manifest == [latest : 0..Cardinality(Calls), views : SUBSET Calls,
                   renders : SUBSET Calls, status : {"missing", "torn", "ok"}]
  IN  /\ manifest \in Manifest /\ blend \subseteq Calls /\ requests \subseteq Calls
      /\ rootScript \in Scripts
      /\ archive \in [Iterations -> Scripts \cup {NoScript}]
      /\ pc \in [Calls -> {"new", "reading", "creating", "copying", "submitting", "waiting",
                           "committing", "writing", "ok", "failed"}]
      /\ kind \in [Calls -> Kinds] /\ copy \in [Calls -> Manifest]
      /\ answer \in [Calls -> {"none", "ok", "exit1", "error"}]
      /\ sent \in [Calls -> Scripts \cup {NoScript}]
      /\ ran \in [Calls -> Scripts \cup {NoScript}] /\ crashes \in 0..MaxCrashes

\* What a successful call recorded is in the manifest.
InManifest(c) ==
  CASE kind[c] = "saveView" -> c \in manifest.views
    [] kind[c] = "render" -> c \in manifest.renders
    [] kind[c] = "execute" -> manifest.latest >= Iteration(c)
    [] OTHER -> manifest # Missing

\* What a successful call recorded stays in the manifest: views and renders are not
\* dropped, iterations do not go back.  Only the death of the agent while it writes
\* leaves a manifest nobody can read.
NothingLost ==
  /\ manifest = Torn => crashes > 0 \/ \E c \in Calls : pc[c] = "writing"
  /\ manifest # Torn => \A c \in Calls : pc[c] = "ok" => InManifest(c)

\* The folder of a finished iteration holds, for good, the script that Blender
\* ran for it, whatever aborted, timed out or died before or after.
FolderShowsWhatRan ==
  \A c \in Calls : pc[c] = "ok" /\ kind[c] = "execute" =>
    archive[Iteration(c)] = ran[c] /\ ran[c] = sent[c]

\* A finished iteration is in model.blend for good: no later init blanks it.
WorkKept ==
  \A c \in Calls : pc[c] = "ok" /\ kind[c] = "execute" => c \in blend

\* blender_execute_python runs the script it copied into the iteration folder
\* ("Path to the existing Blender Python script to snapshot and execute").
RunsItsSnapshot == \A c \in Calls : ran[c] \in {NoScript, sent[c]}

=============================================================================
