---------------------------- MODULE SessionProofs ----------------------------
(***************************************************************************)
(* Proofs about what lies over and under a session: that the client ends up     *)
(* with the runtime's session and every other session is gone (SessionRuntime), *)
(* for any number of commands and prompts, that no cut of any number of          *)
(* compactions leaves a tool result without its call or keeps much more than    *)
(* the budget (Compaction), and that the session's file has the whole tree,      *)
(* once, and loses nothing (SessionFile).                                        *)
(***************************************************************************)
EXTENDS SessionRuntime, Compaction, SessionFile, ListProofs, FiniteSetTheorems, SequenceTheorems, TLAPS

Attaching == {"rebinding", "rebinding again"}

\* What the proof needs to know of the values.
Numbered ==
  /\ created \in Nat /\ created >= 1
  /\ session \in 1..created /\ disposed \subseteq 1..created /\ failed \subseteq 1..created
  /\ stage \in [Commands -> {"unsent", "answered"} \cup Under]

\* One variable of runRpcMode follows the runtime when the setup is done, the other when the
\* command that replaced the session is done with its handlers; the session is disposed of
\* only while a command creates the next one.
Bound ==
  /\ rpcSession # session => session \in failed \/ \E c \in Commands : stage[c] = "setup"
  /\ quitting = "no" /\ listening # session
     => session \in failed \/ \E c \in Commands : stage[c] \in {"setup", "rebinding"}
  /\ quitting = "no" /\ session \in disposed
     => session \in failed \/ \E c \in Commands : stage[c] = "creating"

RuntimeInv == Numbered /\ Bound

LEMMA RuntimeInitially == ASSUME RuntimeInit PROVE RuntimeInv
BY DEF RuntimeInit, RuntimeInv, Numbered, Bound, Under, Commands

\* A command moves on: those in other stages are still there.
LEMMA OthersStay ==
  ASSUME NEW c \in Commands, NEW from, NEW to, Numbered, Goes(c, from, to),
         NEW stages, from \notin stages,
         \E d \in Commands : stage[d] \in stages
  PROVE  \E d \in Commands : stage'[d] \in stages
<1>1. PICK d \in Commands : stage[d] \in stages
  OBVIOUS
<1>2. d # c /\ stage'[d] = stage[d]
  BY <1>1 DEF Goes, Numbered
<1> QED BY <1>1, <1>2

LEMMA StageTyped ==
  ASSUME NEW c \in Commands, NEW from, NEW to \in {"answered"} \cup Under, Numbered,
         Goes(c, from, to)
  PROVE  /\ stage' \in [Commands -> {"unsent", "answered"} \cup Under]
         /\ stage'[c] = to
BY DEF Goes, Numbered

-----------------------------------------------------------------------------
(* What a step of a command changes, case by case.                           *)

\* The three sets of stages that Bound speaks of survive the step of a command that is in
\* none of them.
LEMMA StagesStay ==
  ASSUME NEW c \in Commands, NEW from, NEW to, Numbered, Goes(c, from, to)
  PROVE  /\ from # "setup" /\ (\E d \in Commands : stage[d] = "setup")
            => \E d \in Commands : stage'[d] = "setup"
         /\ from # "creating" /\ (\E d \in Commands : stage[d] = "creating")
            => \E d \in Commands : stage'[d] = "creating"
         /\ from \notin {"setup", "rebinding"}
            /\ (\E d \in Commands : stage[d] \in {"setup", "rebinding"})
            => \E d \in Commands : stage'[d] \in {"setup", "rebinding"}
<1>1. ASSUME from # "setup", \E d \in Commands : stage[d] = "setup"
      PROVE  \E d \in Commands : stage'[d] = "setup"
  BY <1>1, OthersStay, from \notin {"setup"}
<1>2. ASSUME from # "creating", \E d \in Commands : stage[d] = "creating"
      PROVE  \E d \in Commands : stage'[d] = "creating"
  BY <1>2, OthersStay, from \notin {"creating"}
<1>3. ASSUME from \notin {"setup", "rebinding"},
             \E d \in Commands : stage[d] \in {"setup", "rebinding"}
      PROVE  \E d \in Commands : stage'[d] \in {"setup", "rebinding"}
  BY <1>3, OthersStay
<1> QED BY <1>1, <1>2, <1>3

LEMMA QuietStep ==
  ASSUME RuntimeInv, NEW c \in Commands,
         NEW from \in {"unsent", "before"},
         NEW to \in {"before", "answered", "shutdown"},
         Goes(c, from, to), UNCHANGED <<session, rpcSession, listening, created, disposed>>,
         quitting' = quitting, failed' = failed
  PROVE  RuntimeInv'
<1>1. to \in {"answered"} \cup Under
  BY DEF Under
<1>2. Numbered'
  BY <1>1, StageTyped DEF RuntimeInv, Numbered
<1> QED BY <1>2, StagesStay DEF RuntimeInv, Bound

LEMMA DisposeStep ==
  ASSUME RuntimeInv, NEW c \in Commands, DisposeCurrent(c)
  PROVE  RuntimeInv'
<1>1. Goes(c, "shutdown", "creating") /\ disposed' = disposed \cup {session}
      /\ UNCHANGED <<session, rpcSession, listening, created, quitting, failed>>
  BY DEF DisposeCurrent, Dispose, historyVars
<1>2. stage'[c] = "creating" /\ Numbered'
  BY <1>1, StageTyped DEF RuntimeInv, Numbered, Under
<1> QED BY <1>1, <1>2, StagesStay DEF RuntimeInv, Bound

\* Once the client is attached again there is nothing left for the command to do, and a
\* replacement that stops before counts as failed.
LEMMA ReplacementFailsStep ==
  ASSUME RuntimeInv, NEW c \in Commands, ReplacementFails(c)
  PROVE  RuntimeInv'
<1>1. PICK from \in {"creating", "setup", "rebinding", "rebinding again"} :
        /\ Goes(c, from, "answered")
        /\ failed' = IF from = "rebinding again" THEN failed ELSE failed \cup {session}
        /\ UNCHANGED <<session, rpcSession, listening, created, disposed, quitting>>
  BY DEF ReplacementFails
<1>2. Numbered'
  BY <1>1, StageTyped DEF RuntimeInv, Numbered
<1>3. CASE from = "rebinding again"
  BY <1>1, <1>2, <1>3, StagesStay DEF RuntimeInv, Bound
<1>4. CASE from # "rebinding again"
  BY <1>1, <1>2, <1>4 DEF RuntimeInv, Bound
<1> QED BY <1>3, <1>4

LEMMA ApplyStep ==
  ASSUME RuntimeInv, NEW c \in Commands, Apply(c)
  PROVE  RuntimeInv'
<1>1. PICK to \in {"rebinding", "setup"} :
        /\ Goes(c, "creating", to) /\ created' = created + 1 /\ session' = created + 1
        /\ to = "rebinding" => rpcSession' = created + 1
        /\ UNCHANGED <<disposed, failed>>
  BY DEF Apply, Rebind
<1>2. stage'[c] = to /\ stage' \in [Commands -> {"unsent", "answered"} \cup Under]
  BY <1>1, StageTyped DEF RuntimeInv, Under
<1>3. Numbered' /\ session' \notin disposed'
  BY <1>1, <1>2 DEF RuntimeInv, Numbered
<1> QED BY <1>1, <1>2, <1>3 DEF RuntimeInv, Bound

LEMMA SetupDoneStep ==
  ASSUME RuntimeInv, NEW c \in Commands, SetupDone(c)
  PROVE  RuntimeInv'
<1>1. /\ Goes(c, "setup", "rebinding") /\ rpcSession' = session
      /\ UNCHANGED <<session, listening, created, disposed, quitting, failed>>
  BY DEF SetupDone, Rebind
<1>2. stage'[c] = "rebinding" /\ Numbered'
  BY <1>1, StageTyped DEF RuntimeInv, Numbered, Under
<1> QED BY <1>1, <1>2, StagesStay DEF RuntimeInv, Bound

\* The client is attached to what rpcSession is; if that is not the runtime's session,
\* another command is about to bind that one.
LEMMA AttachStep ==
  ASSUME RuntimeInv, NEW c \in Commands, HookDone(c) \/ HandlerDone(c)
  PROVE  RuntimeInv'
<1>1. PICK from \in Attaching, to \in {"rebinding again", "answered"} : Goes(c, from, to)
  BY DEF HookDone, HandlerDone, Attaching
<1>2. /\ UNCHANGED <<session, created, disposed, quitting, failed>>
      /\ rpcSession' \in {rpcSession, session} /\ listening' = rpcSession
  BY DEF HookDone, HandlerDone, Subscribe, Rebind, historyVars
<1>3. Numbered'
  BY <1>1, <1>2, StageTyped DEF RuntimeInv, Numbered, Under
<1>4. /\ (\E d \in Commands : stage[d] = "setup") => \E d \in Commands : stage'[d] = "setup"
      /\ (\E d \in Commands : stage[d] = "creating") => \E d \in Commands : stage'[d] = "creating"
  BY <1>1, StagesStay DEF RuntimeInv, Attaching
<1> QED BY <1>2, <1>3, <1>4 DEF RuntimeInv, Bound

LEMMA RuntimeStep ==
  ASSUME RuntimeInv, RuntimeNext PROVE RuntimeInv'
<1>1. ASSUME NEW c \in Commands, SendCommand(c) \/ Refuse(c) \/ TearDown(c) PROVE RuntimeInv'
  BY <1>1, QuietStep DEF SendCommand, Refuse, TearDown, historyVars
<1>2. ASSUME NEW p \in Prompts,
             \/ SendPrompt(p) \/ Handled(p) \/ CheckStreaming(p) \/ Accept(p) \/ RunEnds(p)
      PROVE  RuntimeInv'
  BY <1>2 DEF SendPrompt, Handled, CheckStreaming, Accept, RunEnds, historyVars, RuntimeInv,
              Numbered, Bound
<1>3. ASSUME NEW s \in Sessions, TimerContinues(s) \/ ContinuationEnds(s) PROVE RuntimeInv'
  BY <1>3 DEF TimerContinues, ContinuationEnds, historyVars, RuntimeInv, Numbered, Bound
<1>4. CASE Shutdown
  BY <1>4 DEF Shutdown, RuntimeInv, Numbered, Bound
<1>5. CASE Exit
  BY <1>5 DEF Exit, Dispose, historyVars, RuntimeInv, Numbered, Bound
<1> QED BY <1>1, <1>2, <1>3, <1>4, <1>5, DisposeStep, ReplacementFailsStep, ApplyStep,
           SetupDoneStep, AttachStep
        DEF RuntimeNext

LEMMA RuntimeInvariant == RuntimeSpec => []RuntimeInv
<1>1. RuntimeInv /\ UNCHANGED allRuntimeVars => RuntimeInv'
  BY DEF allRuntimeVars, runtimeVars, historyVars, RuntimeInv, Numbered, Bound
<1>2. RuntimeInv /\ [RuntimeNext]_allRuntimeVars => RuntimeInv'
  BY <1>1, RuntimeStep
<1> QED BY <1>2, RuntimeInitially, PTL DEF RuntimeSpec

\* Once no command is under way, whatever their number and the order their waits ended in,
\* the client's commands and its subscription go to the runtime's session, and that one is
\* alive, unless it is the one at which a replacement stopped (replaceCurrent, newSession's
\* setup, rebindSession).
THEOREM RuntimeClientHearsCurrent == RuntimeSpec => []ClientHearsCurrent
<1>1. RuntimeInv => ClientHearsCurrent
  BY DEF RuntimeInv, Bound, ClientHearsCurrent, UnderWay, Under, Attaching
<1> QED BY <1>1, RuntimeInvariant, PTL

-----------------------------------------------------------------------------
(* Types.  That the number of a session is within bounds needs counting: each  *)
(* session but the first was created by a command of its own.                    *)

Finished == {"setup", "rebinding", "rebinding again", "answered"}
CommandsPast == {c \in Commands : stage[c] \in Finished}
Counted == created <= 1 + Cardinality(CommandsPast)

\* A prompt that was sent was given to a session.
Targeted == \A p \in Prompts : prompt[p] # "unsent" => target[p] \in Sessions

RuntimeTypeInv ==
  /\ RuntimeTypeOK /\ Counted /\ Targeted
  /\ session = created /\ failed \subseteq 1..created

LEMMA CommandsFinite ==
  ASSUME NEW S \in SUBSET Commands
  PROVE  IsFiniteSet(S) /\ Cardinality(S) \in Nat /\ Cardinality(S) <= MaxCommands
<1>1. MaxCommands \in Nat
  BY RuntimeAssumption
<1>2. IsFiniteSet(Commands) /\ Cardinality(Commands) = MaxCommands
  BY <1>1, FS_Interval DEF Commands
<1> QED BY <1>1, <1>2, FS_Subset, FS_CardinalityType

\* A command never falls back behind the creation of its session.
LEMMA PastGrows ==
  ASSUME RuntimeTypeInv, NEW c \in Commands, NEW from, NEW to,
         Goes(c, from, to), from \in Finished => to \in Finished, created' = created
  PROVE  Counted'
<1>1. CommandsPast \subseteq CommandsPast' /\ CommandsPast' \in SUBSET Commands
  BY DEF CommandsPast, Goes, RuntimeTypeInv, RuntimeTypeOK
<1>2. IsFiniteSet(CommandsPast') /\ Cardinality(CommandsPast') \in Nat
  BY <1>1, CommandsFinite
<1>3. Cardinality(CommandsPast) \in Nat /\ Cardinality(CommandsPast) <= Cardinality(CommandsPast')
  BY <1>1, <1>2, FS_Subset, FS_CardinalityType
<1>4. created \in Int
  BY RuntimeAssumption DEF RuntimeTypeInv, RuntimeTypeOK, Sessions
<1> QED BY <1>2, <1>3, <1>4 DEF RuntimeTypeInv, Counted

\* A session more, and a command more that is past its creation.
LEMMA ApplyCounts ==
  ASSUME RuntimeTypeInv, NEW c \in Commands, Apply(c)
  PROVE  Counted' /\ created' \in Sessions
<1>1. PICK to \in {"rebinding", "setup"} : Goes(c, "creating", to) /\ created' = created + 1
  BY DEF Apply
<1>2. CommandsPast' = CommandsPast \cup {c} /\ c \notin CommandsPast
  BY <1>1 DEF CommandsPast, Finished, Goes, RuntimeTypeInv, RuntimeTypeOK
<1>3. IsFiniteSet(CommandsPast) /\ Cardinality(CommandsPast) \in Nat
  BY CommandsFinite DEF CommandsPast
<1>4. Cardinality(CommandsPast') = Cardinality(CommandsPast) + 1
  BY <1>2, <1>3, FS_AddElement
<1>5. Cardinality(CommandsPast') <= MaxCommands
  BY CommandsFinite DEF CommandsPast
<1>6. created \in Int /\ created >= 1 /\ MaxCommands \in Nat
  BY RuntimeAssumption DEF RuntimeTypeInv, RuntimeTypeOK, Sessions
<1> QED BY <1>1, <1>3, <1>4, <1>5, <1>6 DEF RuntimeTypeInv, Counted, Sessions

LEMMA CountsUp ==
  ASSUME NEW count \in [Sessions -> Nat], NEW s \in Sessions
  PROVE  [count EXCEPT ![s] = @ + 1] \in [Sessions -> Nat]
<1>1. count[s] + 1 \in Nat
  OBVIOUS
<1> QED BY <1>1

LEMMA RuntimeTypeStep ==
  ASSUME RuntimeTypeInv, RuntimeNext PROVE RuntimeTypeInv'
<1> USE DEF RuntimeTypeInv
<1>0. session \in 1..created /\ created \in Nat
  BY RuntimeAssumption DEF RuntimeTypeOK, Sessions
<1>1. ASSUME NEW c \in Commands,
             SendCommand(c) \/ Refuse(c) \/ TearDown(c) \/ ReplacementFails(c)
      PROVE  RuntimeTypeInv'
  <2>1. Counted'
    BY <1>1, PastGrows DEF SendCommand, Refuse, TearDown, ReplacementFails, Finished
  <2>2. shutdowns' \in [Sessions -> Nat]
    <3>1. shutdowns' \in {shutdowns, [shutdowns EXCEPT ![session] = @ + 1]}
      BY <1>1 DEF SendCommand, Refuse, TearDown, TellShutdown, ReplacementFails, historyVars
    <3> QED BY <3>1, CountsUp DEF RuntimeTypeOK
  <2>3. stage' \in [Commands -> {"unsent", "answered"} \cup Under]
    <3>1. \E to \in {"answered"} \cup Under : stage' = [stage EXCEPT ![c] = to]
      BY <1>1 DEF SendCommand, Refuse, TearDown, ReplacementFails, Goes, Under
    <3> QED BY <3>1 DEF RuntimeTypeOK
  <2>4. failed' \in {failed, failed \cup {session}} /\ UNCHANGED <<session, created>>
    BY <1>1 DEF SendCommand, Refuse, TearDown, ReplacementFails, historyVars
  <2>5. failed' \subseteq 1..created' /\ failed' \subseteq Sessions
    BY <1>0, <2>4 DEF RuntimeTypeOK
  <2>6. RuntimeTypeOK'
    BY <1>1, <2>2, <2>3, <2>5
       DEF RuntimeTypeOK, SendCommand, Refuse, TearDown, ReplacementFails, Open, historyVars
  <2>7. Targeted'
    BY <1>1 DEF Targeted, SendCommand, Refuse, TearDown, ReplacementFails
  <2> QED BY <2>1, <2>4, <2>5, <2>6, <2>7
<1>2. ASSUME NEW c \in Commands, DisposeCurrent(c) PROVE RuntimeTypeInv'
  <2>1. Counted'
    BY <1>2, PastGrows DEF DisposeCurrent, Finished
  <2>2. disposed' \subseteq 1..created'
    BY <1>2, RuntimeAssumption DEF RuntimeTypeOK, DisposeCurrent, Dispose, Sessions
  <2>3. RuntimeTypeOK'
    BY <1>2, <2>2 DEF RuntimeTypeOK, DisposeCurrent, Goes, Under, historyVars
  <2> QED BY <1>2, <2>1, <2>3 DEF DisposeCurrent, Targeted, historyVars
<1>3. ASSUME NEW c \in Commands, Apply(c) PROVE RuntimeTypeInv'
  <2>1. Counted' /\ created' \in Sessions
    BY <1>3, ApplyCounts
  <2>2. /\ created' = created + 1 /\ session' = created + 1
        /\ starts' \in {starts, [starts EXCEPT ![created + 1] = @ + 1]}
        /\ rpcSession' \in {rpcSession, created + 1}
        /\ stage' \in {[stage EXCEPT ![c] = "rebinding"], [stage EXCEPT ![c] = "setup"]}
    BY <1>3 DEF Apply, Rebind, Goes
  <2>3. disposed' \subseteq 1..created' /\ failed' \subseteq 1..created'
    BY <1>0, <1>3 DEF RuntimeTypeOK, Apply
  <2>4. starts' \in [Sessions -> Nat]
    <3>1. created + 1 \in Sessions /\ starts \in [Sessions -> Nat]
      BY <2>1, <2>2 DEF RuntimeTypeOK
    <3>2. [starts EXCEPT ![created + 1] = @ + 1] \in [Sessions -> Nat]
      BY <3>1, CountsUp
    <3> QED BY <2>2, <3>1, <3>2
  <2>5. RuntimeTypeOK'
    <3>1. stage' \in [Commands -> {"unsent", "answered"} \cup Under]
      BY <2>2 DEF RuntimeTypeOK, Under
    <3>2. session' \in Sessions /\ rpcSession' \in Sessions
      BY <2>1, <2>2 DEF RuntimeTypeOK
    <3>3. UNCHANGED <<listening, disposed, byClient, prompt, target, continueTimers, continued,
                      quitting, shutdowns, overlapped, failed, heardOut, disturbed>>
      BY <1>3 DEF Apply
    <3> QED BY <2>1, <2>3, <2>4, <3>1, <3>2, <3>3 DEF RuntimeTypeOK
  <2>6. Targeted'
    BY <1>3 DEF Targeted, Apply
  <2> QED BY <2>1, <2>2, <2>3, <2>5, <2>6
<1>4. ASSUME NEW c \in Commands, SetupDone(c) \/ HookDone(c) \/ HandlerDone(c)
      PROVE  RuntimeTypeInv'
  <2>1. Counted'
    BY <1>4, PastGrows DEF SetupDone, HookDone, HandlerDone, Finished
  <2>2. starts' \in [Sessions -> Nat]
    <3>1. starts' = starts \/ starts' = [starts EXCEPT ![session] = @ + 1]
      BY <1>4 DEF SetupDone, HookDone, HandlerDone, Rebind, historyVars
    <3> QED BY <3>1, CountsUp DEF RuntimeTypeOK
  <2>3. rpcSession' \in {rpcSession, session} /\ listening' \in {listening, rpcSession}
    BY <1>4 DEF SetupDone, HookDone, HandlerDone, Rebind, Subscribe
  <2>4. UNCHANGED <<session, created, failed>>
    BY <1>4 DEF SetupDone, HookDone, HandlerDone, historyVars
  <2>5. stage' \in [Commands -> {"unsent", "answered"} \cup Under]
    BY <1>4 DEF RuntimeTypeOK, SetupDone, HookDone, HandlerDone, Goes, Under
  <2>6. RuntimeTypeOK'
    BY <1>4, <2>2, <2>3, <2>4, <2>5
       DEF RuntimeTypeOK, SetupDone, HookDone, HandlerDone, historyVars
  <2>7. Targeted'
    BY <1>4 DEF Targeted, SetupDone, HookDone, HandlerDone
  <2> QED BY <2>1, <2>4, <2>6, <2>7
<1>5. ASSUME UNCHANGED <<created, stage>> PROVE Counted'
  BY <1>5 DEF Counted, CommandsPast
<1>6. ASSUME NEW p \in Prompts,
             \/ SendPrompt(p) \/ Handled(p) \/ CheckStreaming(p) \/ Accept(p) \/ RunEnds(p)
      PROVE  RuntimeTypeInv'
  <2>1. prompt' \in [Prompts -> {"unsent", "input", "preflight", "running", "ended", "handled",
                                 "refused", "rejected", "dropped"}]
    BY <1>6 DEF RuntimeTypeOK, SendPrompt, Handled, CheckStreaming, Accept, RunEnds
  <2>2. target' \in [Prompts -> Sessions \cup {NoSession}]
    BY <1>6 DEF RuntimeTypeOK, SendPrompt, Handled, CheckStreaming, Accept, RunEnds, historyVars
  <2>3. continueTimers' \subseteq Sessions
    <3>1. CASE SendPrompt(p) \/ Handled(p) \/ Accept(p)
      BY <3>1 DEF RuntimeTypeOK, SendPrompt, Handled, Accept
    <3>2. CASE CheckStreaming(p) \/ RunEnds(p)
      <4>1. target[p] \in Sessions
        BY <1>6, <3>2 DEF CheckStreaming, RunEnds, RuntimeTypeOK, Targeted
      <4> QED BY <3>2, <4>1 DEF RuntimeTypeOK, CheckStreaming, RunEnds
    <3> QED BY <1>6, <3>1, <3>2
  <2>4. heardOut' \subseteq Prompts /\ disturbed' \subseteq Prompts
    BY <1>6 DEF RuntimeTypeOK, SendPrompt, Handled, CheckStreaming, Accept, RunEnds, Open,
                historyVars
  <2>5. UNCHANGED <<session, rpcSession, listening, created, disposed, stage, byClient, continued,
                    quitting, starts, shutdowns, overlapped, failed>>
    BY <1>6 DEF SendPrompt, Handled, CheckStreaming, Accept, RunEnds, historyVars
  <2>6. RuntimeTypeOK'
    BY <2>1, <2>2, <2>3, <2>4, <2>5 DEF RuntimeTypeOK
  <2>7. Targeted'
    BY <1>6 DEF Targeted, RuntimeTypeOK, SendPrompt, Handled, CheckStreaming, Accept, RunEnds,
                historyVars
  <2> QED BY <1>5, <2>5, <2>6, <2>7
<1>7. ASSUME NEW s \in Sessions, TimerContinues(s) \/ ContinuationEnds(s) PROVE RuntimeTypeInv'
  <2>1. /\ continueTimers' \subseteq Sessions /\ continued' \subseteq Sessions
        /\ disturbed' \subseteq Prompts
    BY <1>7 DEF RuntimeTypeOK, TimerContinues, ContinuationEnds, Open, historyVars
  <2> QED BY <1>5, <1>7, <2>1 DEF RuntimeTypeOK, Targeted, TimerContinues, ContinuationEnds, historyVars
<1>8. CASE Shutdown
  BY <1>5, <1>8 DEF RuntimeTypeOK, Targeted, Shutdown, TellShutdown, Open
<1>9. CASE Exit
  <2>1. disposed' \subseteq 1..created'
    <3>1. session \in 1..created /\ created' = created
      BY <1>9, RuntimeAssumption DEF RuntimeTypeOK, Exit, Sessions
    <3> QED BY <1>9, <3>1 DEF RuntimeTypeOK, Exit, Dispose
  <2> QED BY <1>5, <1>9, <2>1 DEF RuntimeTypeOK, Targeted, Exit, historyVars
<1>10. ASSUME NEW c \in Commands,
              \/ SendCommand(c) \/ Refuse(c) \/ TearDown(c) \/ ReplacementFails(c)
              \/ DisposeCurrent(c) \/ Apply(c)
              \/ SetupDone(c) \/ HookDone(c) \/ HandlerDone(c)
       PROVE  RuntimeTypeInv'
  BY <1>1, <1>2, <1>3, <1>4, <1>10
<1> QED BY <1>6, <1>7, <1>8, <1>9, <1>10 DEF RuntimeNext

\* Every variable of the session runtime keeps its type: no more sessions are created than
\* commands ask for (AgentSessionRuntime, runRpcMode).
THEOREM RuntimeTypes == RuntimeSpec => []RuntimeTypeInv
<1>1. RuntimeInit => RuntimeTypeInv
  <2>1. ASSUME RuntimeInit PROVE CommandsPast = {} /\ Counted
    <3>1. CommandsPast = {}
      BY <2>1 DEF RuntimeInit, CommandsPast, Finished
    <3> QED BY <2>1, <3>1, FS_EmptySet DEF RuntimeInit, Counted
  <2>2. ASSUME RuntimeInit PROVE 1 \in Sessions
    BY RuntimeAssumption DEF Sessions
  <2>3. ASSUME RuntimeInit PROVE /\ starts \in [Sessions -> Nat]
                                 /\ shutdowns \in [Sessions -> Nat]
                                 /\ disposed \subseteq 1..created
    BY <2>3 DEF RuntimeInit
  <2>4. ASSUME RuntimeInit PROVE /\ stage \in [Commands -> {"unsent", "answered"} \cup Under]
                                 /\ target \in [Prompts -> Sessions \cup {NoSession}]
                                 /\ byClient \in [Commands -> BOOLEAN]
    BY <2>4 DEF RuntimeInit
  <2> QED BY <2>1, <2>2, <2>3, <2>4 DEF RuntimeInit, RuntimeTypeInv, RuntimeTypeOK, Targeted
<1>2. RuntimeTypeInv /\ UNCHANGED allRuntimeVars => RuntimeTypeInv'
  BY DEF allRuntimeVars, runtimeVars, historyVars, RuntimeTypeInv, RuntimeTypeOK, Counted,
         CommandsPast, Targeted
<1>3. RuntimeTypeInv /\ [RuntimeNext]_allRuntimeVars => RuntimeTypeInv'
  BY <1>2, RuntimeTypeStep
<1> QED BY <1>1, <1>3, PTL DEF RuntimeSpec

-----------------------------------------------------------------------------
(* The end of the other sessions, while no two commands overlap.              *)

Ending == {"shutdown", "creating"}

\* A command that replaces the session has the runtime to itself.
InTurn ==
  /\ \A c, d \in UnderWay : c = d
  /\ quitting # "no" => UnderWay = {}

\* Only the current session may be alive, and a command that creates the next one has
\* disposed of it.
OthersDisposed ==
  /\ \A s \in 1..created : s # session => s \in disposed
  /\ \A c \in Commands : stage[c] = "creating" => session \in disposed
  /\ session \in disposed
     => session \in failed \/ quitting # "no" \/ \E c \in Commands : stage[c] = "creating"

\* Who is told of the end: the sessions before, and the current one from the beginning of
\* its teardown on.
Told ==
  /\ \A s \in disposed : shutdowns[s] >= 1
  /\ quitting # "no" => shutdowns[session] >= 1
  /\ \A c \in Commands : stage[c] \in Ending => shutdowns[session] >= 1

\* ... and once each, unless a replacement stopped at it.
ToldOnce ==
  /\ \A s \in Sessions : s > created => shutdowns[s] = 0
  /\ \A s \in Sessions : s < created => s \in failed \/ shutdowns[s] = 1
  /\ session \notin failed
     => /\ shutdowns[session] <= 1
        /\ shutdowns[session] = 1
           => quitting # "no" \/ \E c \in Commands : stage[c] \in Ending

GoneInv == ~overlapped => InTurn /\ OthersDisposed /\ Told /\ ToldOnce

\* No command but the one that makes a step is under way, before it or after.
LEMMA AloneInTurn ==
  ASSUME RuntimeTypeInv, GoneInv, ~overlapped, NEW c \in Commands, NEW from \in Under,
         NEW to \in {"answered"} \cup Under, Goes(c, from, to)
  PROVE  /\ quitting = "no"
         /\ stage[c] = from /\ stage'[c] = to
         /\ \A d \in Commands \ {c} : stage[d] \notin Under /\ stage'[d] = stage[d]
         /\ quitting' = quitting => InTurn'
<1>1. c \in UnderWay /\ stage[c] = from /\ stage'[c] = to
  BY DEF UnderWay, Goes, RuntimeTypeInv, RuntimeTypeOK
<1>2. quitting = "no"
  BY <1>1 DEF GoneInv, InTurn
<1>3. \A d \in Commands \ {c} : stage[d] \notin Under /\ stage'[d] = stage[d]
  BY <1>1 DEF GoneInv, InTurn, UnderWay, Goes, RuntimeTypeInv, RuntimeTypeOK
<1>4. quitting' = quitting => InTurn'
  BY <1>1, <1>2, <1>3 DEF InTurn, UnderWay
<1> QED BY <1>1, <1>2, <1>3, <1>4

LEMMA GoneStep ==
  ASSUME RuntimeTypeInv, RuntimeNext, GoneInv, ~overlapped'
  PROVE  InTurn' /\ OthersDisposed' /\ Told' /\ ToldOnce'
<1>1. ~overlapped
  BY DEF RuntimeNext, SendCommand, Refuse, TearDown, DisposeCurrent, ReplacementFails, Apply,
         SetupDone, HookDone, HandlerDone, SendPrompt, Handled, CheckStreaming, Accept, RunEnds,
         TimerContinues, ContinuationEnds, Shutdown, Exit, historyVars
<1>2. InTurn /\ OthersDisposed /\ Told /\ ToldOnce
  BY <1>1 DEF GoneInv
<1>3. /\ session \in Sessions /\ session = created /\ created \in Nat /\ created >= 1
      /\ shutdowns \in [Sessions -> Nat] /\ disposed \subseteq 1..created
      /\ 1..created \subseteq Sessions /\ failed \subseteq 1..created
  BY RuntimeAssumption DEF RuntimeTypeInv, RuntimeTypeOK, Sessions
<1>4. ASSUME NEW c \in Commands, SendCommand(c)
      PROVE  InTurn' /\ OthersDisposed' /\ Told' /\ ToldOnce'
  <2>1. UnderWay = {} /\ quitting = "no"
    BY <1>4 DEF SendCommand
  <2>2. stage'[c] = "before" /\ \A d \in Commands \ {c} : stage'[d] = stage[d]
    BY <1>4 DEF SendCommand, Goes, RuntimeTypeInv, RuntimeTypeOK
  <2>3. InTurn'
    BY <1>4, <2>1, <2>2 DEF InTurn, UnderWay, SendCommand
  <2>4. \A d \in Commands : stage[d] \notin Ending /\ stage'[d] \notin Ending
    BY <2>1, <2>2 DEF UnderWay, Under, Ending
  <2> QED BY <1>2, <1>4, <2>1, <2>3, <2>4 DEF OthersDisposed, Told, ToldOnce, SendCommand, Ending
<1>5. ASSUME NEW c \in Commands, Refuse(c)
      PROVE  InTurn' /\ OthersDisposed' /\ Told' /\ ToldOnce'
  <2>1. Goes(c, "before", "answered")
        /\ UNCHANGED <<session, created, disposed, quitting, shutdowns, failed>>
    BY <1>5 DEF Refuse, historyVars
  <2>2. /\ InTurn'
        /\ \A d \in Commands : stage[d] \notin Ending /\ stage'[d] \notin Ending
    BY <1>1, <2>1, AloneInTurn DEF Under, Ending
  <2> QED BY <1>2, <2>1, <2>2 DEF OthersDisposed, Told, ToldOnce, Ending
<1>6. ASSUME NEW c \in Commands, TearDown(c)
      PROVE  InTurn' /\ OthersDisposed' /\ Told' /\ ToldOnce'
  <2>1. Goes(c, "before", "shutdown")
        /\ UNCHANGED <<session, created, disposed, quitting, failed>>
        /\ shutdowns' = [shutdowns EXCEPT ![session] = @ + 1]
    BY <1>6 DEF TearDown, TellShutdown
  <2>2. /\ InTurn' /\ quitting = "no" /\ stage'[c] = "shutdown"
        /\ \A d \in Commands : stage[d] \notin Ending
        /\ \A d \in Commands : stage'[d] # "creating"
    BY <1>1, <2>1, AloneInTurn DEF Under, Ending
  <2>3. OthersDisposed'
    BY <1>2, <2>1, <2>2 DEF OthersDisposed, Ending
  <2>4. /\ shutdowns'[session] = shutdowns[session] + 1 /\ shutdowns[session] \in Nat
        /\ \A s \in Sessions : s # session => shutdowns'[s] = shutdowns[s]
    BY <1>3, <2>1
  <2>5. Told'
    BY <1>2, <1>3, <2>1, <2>2, <2>4 DEF Told
  <2>6. ToldOnce'
    BY <1>2, <1>3, <2>1, <2>2, <2>4 DEF ToldOnce, Ending
  <2> QED BY <2>2, <2>3, <2>5, <2>6
<1>7. ASSUME NEW c \in Commands, DisposeCurrent(c)
      PROVE  InTurn' /\ OthersDisposed' /\ Told' /\ ToldOnce'
  <2>1. Goes(c, "shutdown", "creating") /\ disposed' = disposed \cup {session}
        /\ UNCHANGED <<session, created, quitting, shutdowns, failed>>
    BY <1>7 DEF DisposeCurrent, Dispose, historyVars
  <2>2. InTurn' /\ stage[c] = "shutdown" /\ stage'[c] = "creating"
    BY <1>1, <2>1, AloneInTurn DEF Under
  <2> QED BY <1>2, <2>1, <2>2 DEF OthersDisposed, Told, ToldOnce, Ending
<1>8. ASSUME NEW c \in Commands, ReplacementFails(c)
      PROVE  InTurn' /\ OthersDisposed' /\ Told' /\ ToldOnce'
  <2>1. PICK from \in {"creating", "setup", "rebinding", "rebinding again"} :
          /\ Goes(c, from, "answered")
          /\ failed' = IF from = "rebinding again" THEN failed ELSE failed \cup {session}
          /\ UNCHANGED <<session, created, disposed, quitting, shutdowns>>
    BY <1>8 DEF ReplacementFails
  <2>2. /\ InTurn' /\ \A d \in Commands : stage'[d] \notin Ending
        /\ \A d \in Commands : stage[d] \in Ending => d = c /\ from \in Ending
        /\ stage[c] = from
    <3>1. from \in Under /\ "answered" \in {"answered"} \cup Under
      BY <2>1 DEF Under
    <3>2. /\ quitting = "no" /\ stage[c] = from /\ stage'[c] = "answered"
          /\ \A d \in Commands \ {c} : stage[d] \notin Under /\ stage'[d] = stage[d]
          /\ quitting' = quitting => InTurn'
      BY <1>1, <2>1, <3>1, AloneInTurn
    <3>3. Ending \subseteq Under /\ "answered" \notin Under
      BY DEF Ending, Under
    <3> QED BY <2>1, <3>2, <3>3
  <2>3. CASE from = "rebinding again"
    <3>1. failed' = failed /\ \A d \in Commands : stage[d] \notin Ending
      BY <2>1, <2>2, <2>3 DEF Ending
    <3> QED BY <1>2, <2>1, <2>2, <3>1 DEF OthersDisposed, Told, ToldOnce, Ending
  <2>4. CASE from # "rebinding again"
    BY <1>2, <2>1, <2>2, <2>4 DEF OthersDisposed, Told, ToldOnce, Ending
  <2> QED BY <2>3, <2>4
<1>9. ASSUME NEW c \in Commands, Apply(c)
      PROVE  InTurn' /\ OthersDisposed' /\ Told' /\ ToldOnce'
  <2>1. PICK to \in {"rebinding", "setup"} :
          /\ Goes(c, "creating", to) /\ session' = created + 1 /\ created' = created + 1
          /\ UNCHANGED <<disposed, quitting, shutdowns, failed>>
    BY <1>9 DEF Apply
  <2>2. /\ InTurn' /\ quitting = "no" /\ stage[c] = "creating"
        /\ \A d \in Commands : stage'[d] \notin Ending
    BY <1>1, <2>1, AloneInTurn DEF Under, Ending
  <2>3. created' \in Sessions /\ session \in disposed
    BY <1>2, <1>9, <2>2, ApplyCounts DEF OthersDisposed
  <2>4. OthersDisposed'
    BY <1>2, <1>3, <2>1, <2>2, <2>3 DEF OthersDisposed, Ending
  <2>5. Told'
    BY <1>2, <2>1, <2>2 DEF Told
  <2>6. (created \in failed \/ shutdowns[created] = 1) /\ shutdowns[created + 1] = 0
    BY <1>2, <1>3, <2>1, <2>2, <2>3 DEF Told, ToldOnce, Ending
  <2>7. ToldOnce'
    BY <1>2, <1>3, <2>1, <2>2, <2>3, <2>6, RuntimeAssumption DEF ToldOnce, Sessions
  <2> QED BY <2>2, <2>4, <2>5, <2>7
<1>10. ASSUME NEW c \in Commands, SetupDone(c) \/ HookDone(c) \/ HandlerDone(c)
       PROVE  InTurn' /\ OthersDisposed' /\ Told' /\ ToldOnce'
  <2>1. PICK from \in Attaching \cup {"setup"}, to \in Attaching \cup {"answered"} :
          Goes(c, from, to)
    BY <1>10 DEF SetupDone, HookDone, HandlerDone, Attaching
  <2>2. UNCHANGED <<session, created, disposed, quitting, shutdowns, failed>>
    BY <1>10 DEF SetupDone, HookDone, HandlerDone, historyVars
  <2>3. /\ InTurn'
        /\ \A d \in Commands : stage[d] \notin Ending /\ stage'[d] \notin Ending
    BY <1>1, <2>1, <2>2, AloneInTurn DEF Under, Ending, Attaching
  <2> QED BY <1>2, <2>2, <2>3 DEF OthersDisposed, Told, ToldOnce, Ending
<1>11. ASSUME UNCHANGED <<session, created, disposed, quitting, shutdowns, failed, stage>>
       PROVE  InTurn' /\ OthersDisposed' /\ Told' /\ ToldOnce'
  BY <1>2, <1>11 DEF InTurn, UnderWay, OthersDisposed, Told, ToldOnce
<1>14. ASSUME NEW p \in Prompts,
              \/ SendPrompt(p) \/ Handled(p) \/ CheckStreaming(p) \/ Accept(p) \/ RunEnds(p)
       PROVE  InTurn' /\ OthersDisposed' /\ Told' /\ ToldOnce'
  BY <1>11, <1>14 DEF SendPrompt, Handled, CheckStreaming, Accept, RunEnds, historyVars
<1>15. ASSUME NEW s \in Sessions, TimerContinues(s) \/ ContinuationEnds(s)
       PROVE  InTurn' /\ OthersDisposed' /\ Told' /\ ToldOnce'
  BY <1>11, <1>15 DEF TimerContinues, ContinuationEnds, historyVars
<1>12. CASE Shutdown
  <2>1. /\ UnderWay = {} /\ quitting = "no" /\ quitting' = "handlers"
        /\ UNCHANGED <<session, created, disposed, failed, stage>>
        /\ shutdowns' = [shutdowns EXCEPT ![session] = @ + 1]
    BY <1>12 DEF Shutdown, TellShutdown
  <2>2. \A d \in Commands : stage[d] \notin Ending
    BY <2>1 DEF UnderWay, Under, Ending
  <2>3. /\ shutdowns'[session] = shutdowns[session] + 1 /\ shutdowns[session] \in Nat
        /\ \A s \in Sessions : s # session => shutdowns'[s] = shutdowns[s]
    BY <1>3, <2>1
  <2>4. InTurn' /\ OthersDisposed'
    BY <1>2, <2>1 DEF InTurn, UnderWay, OthersDisposed
  <2>5. Told'
    BY <1>2, <1>3, <2>1, <2>2, <2>3 DEF Told
  <2>6. ToldOnce'
    BY <1>2, <1>3, <2>1, <2>2, <2>3 DEF ToldOnce
  <2> QED BY <2>4, <2>5, <2>6
<1>13. CASE Exit
  <2>1. /\ quitting = "handlers" /\ quitting' = "exited"
        /\ disposed' \in {disposed, disposed \cup {session}}
        /\ UNCHANGED <<session, created, shutdowns, failed, stage>>
    BY <1>13 DEF Exit, Dispose, historyVars
  <2> QED BY <1>2, <2>1 DEF InTurn, UnderWay, OthersDisposed, Told, ToldOnce
<1>16. ASSUME NEW c \in Commands,
              \/ SendCommand(c) \/ Refuse(c) \/ TearDown(c) \/ DisposeCurrent(c)
              \/ ReplacementFails(c) \/ Apply(c)
              \/ SetupDone(c) \/ HookDone(c) \/ HandlerDone(c)
       PROVE  InTurn' /\ OthersDisposed' /\ Told' /\ ToldOnce'
  BY <1>4, <1>5, <1>6, <1>7, <1>8, <1>9, <1>10, <1>16
<1> QED BY <1>12, <1>13, <1>14, <1>15, <1>16 DEF RuntimeNext

\* While commands that replace the session come one after the other, every session but the
\* current one has been told of its end and is disposed of, and was told only once unless a
\* replacement stopped at it (teardownCurrent, shutdown), for any number of commands and
\* prompts.
THEOREM OldSessionsAreGone == RuntimeSpec => []OldSessionsGone
<1>1. RuntimeInit => GoneInv
  <2> SUFFICES ASSUME RuntimeInit PROVE InTurn /\ OthersDisposed /\ Told /\ ToldOnce
    BY DEF GoneInv
  <2>1. \A c \in Commands : stage[c] = "unsent"
    BY DEF RuntimeInit
  <2>2. InTurn
    BY <2>1 DEF RuntimeInit, InTurn, UnderWay, Under
  <2>3. OthersDisposed /\ Told
    BY <2>1 DEF RuntimeInit, OthersDisposed, Told, Ending
  <2>4. 1 \in Sessions /\ \A s \in Sessions : ~(s < 1) /\ shutdowns[s] = 0
    BY RuntimeAssumption DEF RuntimeInit, Sessions
  <2>5. ToldOnce
    BY <2>4 DEF RuntimeInit, ToldOnce
  <2> QED BY <2>2, <2>3, <2>5
<1>2. RuntimeTypeInv /\ GoneInv /\ UNCHANGED allRuntimeVars => GoneInv'
  BY DEF allRuntimeVars, runtimeVars, historyVars, GoneInv, InTurn, OthersDisposed, Told, ToldOnce,
         UnderWay
<1>3. RuntimeTypeInv /\ GoneInv /\ [RuntimeNext]_allRuntimeVars => GoneInv'
  BY <1>2, GoneStep DEF GoneInv
<1>4. RuntimeTypeInv /\ GoneInv => OldSessionsGone
  <2> SUFFICES ASSUME RuntimeTypeInv, GoneInv, ~overlapped PROVE OldSessionsGone
    BY DEF OldSessionsGone
  <2>1. OthersDisposed /\ Told /\ ToldOnce
    BY DEF GoneInv
  <2>2. disposed \subseteq 1..created /\ session = created /\ created \in Nat
        /\ 1..created \subseteq Sessions /\ shutdowns \in [Sessions -> Nat]
    BY RuntimeAssumption DEF RuntimeTypeInv, RuntimeTypeOK, Sessions
  <2>3. UnderWay = {} /\ session \notin failed /\ quitting = "no"
        => disposed = (1..created) \ {session}
    BY <2>1, <2>2 DEF OthersDisposed, UnderWay, Under
  <2>4. \A s \in disposed : shutdowns[s] >= 1 /\ (s \notin failed => shutdowns[s] = 1)
    BY <2>1, <2>2 DEF Told, ToldOnce
  <2> QED BY <2>1, <2>3, <2>4 DEF OldSessionsGone, OthersDisposed
<1> QED BY <1>1, <1>3, <1>4, RuntimeTypes, PTL DEF RuntimeSpec
-----------------------------------------------------------------------------
(* Prompts next to which nothing comes.                                      *)

\* Such a prompt has the runtime to itself for as long as it is open, and was given to the
\* session the client listens to.
HasItAll(p) ==
  /\ UnderWay = {} /\ Open = {p} /\ quitting = "no" /\ continued = {}
  /\ target[p] = session /\ session \notin failed

HeardInv ==
  \A p \in Prompts \ disturbed :
    /\ prompt[p] \notin {"rejected", "dropped"}
    /\ p \in Open => HasItAll(p)
    /\ prompt[p] = "ended" => p \in heardOut

\* A step next to which no undisturbed prompt is open.
LEMMA NobodyDisturbed ==
  ASSUME HeardInv, UNCHANGED <<prompt, target>>,
         heardOut \subseteq heardOut', disturbed \subseteq disturbed',
         \A p \in Prompts \ disturbed' : p \notin Open
  PROVE  HeardInv'
BY DEF HeardInv, Open

\* A command under way, a shutdown or a run of a timer leaves no open prompt undisturbed.
LEMMA NoneWhileUnderWay ==
  ASSUME HeardInv, UnderWay # {} \/ quitting # "no" \/ continued # {}
  PROVE  \A p \in Prompts \ disturbed : p \notin Open
BY DEF HeardInv, HasItAll

LEMMA CommandStepHeard ==
  ASSUME RuntimeTypeInv, HeardInv, NEW c \in Commands,
         \/ SendCommand(c) \/ Refuse(c) \/ TearDown(c) \/ DisposeCurrent(c)
         \/ ReplacementFails(c) \/ Apply(c) \/ SetupDone(c) \/ HookDone(c) \/ HandlerDone(c)
  PROVE  HeardInv'
<1>1. CASE SendCommand(c)
  <2>1. /\ UNCHANGED <<prompt, target, heardOut>>
        /\ disturbed' = disturbed \cup Open
    BY <1>1 DEF SendCommand
  <2> QED BY <2>1, NobodyDisturbed
<1>2. CASE ~SendCommand(c)
  <2>1. stage[c] \in Under
    BY <1>2 DEF Refuse, TearDown, DisposeCurrent, ReplacementFails, Apply, SetupDone, HookDone,
                HandlerDone, Goes, Under
  <2>2. \A p \in Prompts \ disturbed : p \notin Open
    BY <2>1, NoneWhileUnderWay DEF UnderWay
  <2>3. UNCHANGED <<prompt, target, heardOut, disturbed>>
    BY <1>2 DEF Refuse, TearDown, DisposeCurrent, ReplacementFails, Apply, SetupDone, HookDone,
                HandlerDone, historyVars
  <2> QED BY <2>2, <2>3, NobodyDisturbed
<1> QED BY <1>1, <1>2

LEMMA SendPromptHeard ==
  ASSUME RuntimeInv, RuntimeTypeInv, HeardInv, NEW p \in Prompts, SendPrompt(p)
  PROVE  HeardInv'
<1>1. /\ prompt[p] = "unsent" /\ prompt' = [prompt EXCEPT ![p] = "input"]
      /\ target' = [target EXCEPT ![p] = rpcSession]
      /\ disturbed \subseteq disturbed'
      /\ UNCHANGED <<session, stage, quitting, continued, failed, heardOut>>
      /\ (UnderWay \cup Open \cup continued # {} \/ quitting # "no")
         => Open \cup {p} \subseteq disturbed'
      /\ session \in failed => p \in disturbed'
  BY DEF SendPrompt
<1>2. /\ prompt'[p] = "input" /\ target'[p] = rpcSession
      /\ \A q \in Prompts \ {p} : prompt'[q] = prompt[q] /\ target'[q] = target[q]
  BY <1>1 DEF RuntimeTypeInv, RuntimeTypeOK
<1>3. ASSUME NEW q \in Prompts \ disturbed', q # p
      PROVE  q \notin Open'
  BY <1>1, <1>2, <1>3 DEF Open
<1>4. ASSUME p \notin disturbed' PROVE HasItAll(p)'
  <2>1. /\ UnderWay = {} /\ Open = {} /\ quitting = "no" /\ continued = {}
        /\ session \notin failed
    BY <1>1, <1>4
  <2>2. rpcSession = session
    BY <2>1 DEF RuntimeInv, Bound, UnderWay, Under
  <2> QED BY <1>1, <1>2, <2>1, <2>2 DEF HasItAll, UnderWay, Open
<1> QED BY <1>1, <1>2, <1>3, <1>4 DEF HeardInv

\* An open prompt next to an undisturbed one is that one, and its session streams for
\* nobody else.
LEMMA AloneOpen ==
  ASSUME HeardInv, NEW p \in Prompts, p \in Open
  PROVE  /\ \A q \in Prompts \ disturbed : q # p => q \notin Open
         /\ p \notin disturbed =>
              HasItAll(p) /\ (prompt[p] # "running" => ~Streaming(target[p]))
<1>1. \A q \in Prompts \ disturbed : q # p => q \notin Open
  BY DEF HeardInv, HasItAll
<1>2. ASSUME p \notin disturbed PROVE HasItAll(p)
  BY <1>2 DEF HeardInv
<1>3. ASSUME p \notin disturbed, prompt[p] # "running" PROVE ~Streaming(target[p])
  BY <1>2, <1>3 DEF HasItAll, Streaming, Open
<1> QED BY <1>1, <1>2, <1>3

LEMMA OpenStepHeard ==
  ASSUME RuntimeInv, RuntimeTypeInv, HeardInv, NEW p \in Prompts,
         Handled(p) \/ CheckStreaming(p) \/ Accept(p) \/ RunEnds(p)
  PROVE  HeardInv'
<1>1. /\ p \in Open
      /\ prompt'[p] \in {"handled", "refused", "rejected", "preflight", "dropped", "running",
                         "ended"}
      /\ \A q \in Prompts \ {p} : prompt'[q] = prompt[q]
      /\ UNCHANGED <<session, listening, disposed, stage, target, continued, quitting, failed,
                     disturbed>>
      /\ heardOut \subseteq heardOut'
  BY DEF Handled, CheckStreaming, Accept, RunEnds, Open, RuntimeTypeInv, RuntimeTypeOK, historyVars
<1>2. ASSUME NEW q \in Prompts \ disturbed, q # p
      PROVE  /\ prompt'[q] \notin {"rejected", "dropped"}
             /\ q \notin Open'
             /\ prompt'[q] = "ended" => q \in heardOut'
  BY <1>1, <1>2, AloneOpen DEF HeardInv, Open
<1>3. ASSUME p \notin disturbed
      PROVE  /\ prompt'[p] \in {"preflight", "running"} =>
                  HasItAll(p)'
             /\ prompt'[p] \notin {"rejected", "dropped"}
             /\ prompt'[p] = "ended" => p \in heardOut'
  <2>1. HasItAll(p) /\ (prompt[p] # "running" => ~Streaming(target[p]))
    BY <1>1, <1>3, AloneOpen
  <2>2. /\ prompt'[p] \notin {"rejected", "dropped"}
        /\ prompt'[p] = "ended" => RunEnds(p)
    BY <2>1 DEF Handled, CheckStreaming, Accept, RunEnds, RuntimeTypeInv, RuntimeTypeOK
  <2>3. ASSUME prompt'[p] \in {"preflight", "running"} PROVE HasItAll(p)'
    <3>1. Open' = Open
      BY <1>1, <2>3 DEF Open
    <3> QED BY <1>1, <2>1, <3>1 DEF HasItAll, UnderWay
  <2>4. ASSUME RunEnds(p) PROVE p \in heardOut'
    <3>1. listening = session /\ session \notin disposed
      BY <2>1, <2>4 DEF HasItAll, RuntimeInv, Bound, UnderWay, Under
    <3> QED BY <2>1, <2>4, <3>1 DEF RunEnds, HasItAll
  <2> QED BY <2>2, <2>3, <2>4
<1> QED BY <1>1, <1>2, <1>3 DEF HeardInv, Open

LEMMA HeardStep ==
  ASSUME RuntimeInv, RuntimeTypeInv, HeardInv, RuntimeNext PROVE HeardInv'
<1>1. CASE Shutdown
  <2>1. /\ UNCHANGED <<prompt, target, heardOut>>
        /\ disturbed' = disturbed \cup Open
    BY <1>1 DEF Shutdown
  <2> QED BY <2>1, NobodyDisturbed
<1>2. CASE Exit
  <2>1. quitting # "no" /\ UNCHANGED <<prompt, target, heardOut, disturbed>>
    BY <1>2 DEF Exit, historyVars
  <2> QED BY <2>1, NoneWhileUnderWay, NobodyDisturbed
<1>3. ASSUME NEW s \in Sessions, TimerContinues(s) PROVE HeardInv'
  <2>1. /\ UNCHANGED <<session, stage, prompt, target, quitting, failed, heardOut>>
        /\ \/ UNCHANGED <<continued, disturbed>>
           \/ disturbed' = disturbed \cup Open
    BY <1>3 DEF TimerContinues
  <2>2. CASE UNCHANGED <<continued, disturbed>>
    BY <2>1, <2>2 DEF HeardInv, HasItAll, Open, UnderWay
  <2>3. CASE disturbed' = disturbed \cup Open
    BY <2>1, <2>3, NobodyDisturbed
  <2> QED BY <2>1, <2>2, <2>3
<1>4. ASSUME NEW s \in Sessions, ContinuationEnds(s) PROVE HeardInv'
  <2>1. continued # {} /\ UNCHANGED <<prompt, target, heardOut, disturbed>>
    BY <1>4 DEF ContinuationEnds, historyVars
  <2> QED BY <2>1, NoneWhileUnderWay, NobodyDisturbed
<1> QED BY <1>1, <1>2, <1>3, <1>4, CommandStepHeard, SendPromptHeard, OpenStepHeard
        DEF RuntimeNext

\* A prompt the client sends while nothing else is under way, and during which nothing else
\* comes and no timer fires, is neither turned away as busy nor dropped, and if it runs the
\* client hears its end, whatever replacements came before it, unless the last of them had
\* failed (rpc-mode.ts, prompt and rebindSession).
THEOREM PromptsAreHeard == RuntimeSpec => []PromptHeard
<1>1. RuntimeInit => HeardInv
  BY DEF RuntimeInit, HeardInv, Open
<1>2. HeardInv /\ UNCHANGED allRuntimeVars => HeardInv'
  BY DEF allRuntimeVars, runtimeVars, historyVars, HeardInv, HasItAll, Open, UnderWay
<1>3. RuntimeInv /\ RuntimeTypeInv /\ HeardInv /\ [RuntimeNext]_allRuntimeVars => HeardInv'
  BY <1>2, HeardStep
<1>4. HeardInv => PromptHeard
  BY DEF HeardInv, PromptHeard
<1> QED BY <1>1, <1>3, <1>4, RuntimeInvariant, RuntimeTypes, PTL DEF RuntimeSpec

-----------------------------------------------------------------------------
(* Compaction: a tool result that is kept is kept with its call, because an    *)
(* agent writes the results before anything a cut can begin with.              *)
\* a is the message that called the tool with the result r: between them only results and
\* settings were written.
OfACall == {"toolResult", "model_change"}
Calls(a, r) ==
  /\ a \in 1..(r - 1) /\ log[a].kind = "assistant"
  /\ \A i \in (a + 1)..r : log[i].kind \in OfACall

\* From there on, no result is without its call.
Whole(from) ==
  \A r \in DOMAIN log : r >= from /\ log[r].kind = "toolResult"
    => \E a \in DOMAIN log : a >= from /\ Calls(a, r)

\* While calls are open, nothing follows the message that made them but results and settings.
CallsOpen ==
  openCalls > 0 =>
    \E a \in DOMAIN log :
      /\ log[a].kind = "assistant"
      /\ \A i \in DOMAIN log : i > a => log[i].kind \in OfACall

\* What a compaction has kept begins where no call is cut off.
KeptWhole ==
  \A c \in CompactionEntries(log) :
    log[c].keep \in 1..(c - 1) /\ Whole(log[c].keep)

CutInv == CompactionTypeOK /\ Whole(1) /\ CallsOpen /\ KeptWhole

-----------------------------------------------------------------------------
LEMMA LogType ==
  ASSUME CompactionTypeOK
  PROVE  /\ Len(log) \in Nat /\ DOMAIN log = 1..Len(log)
         /\ \A i \in DOMAIN log : log[i] \in LogEntry
         /\ CompactionEntries(log) \subseteq 1..Len(log)
BY LenProperties DEF CompactionTypeOK, CompactionEntries

\* A compaction continues from the beginning or from where the last one has kept.
LEMMA BoundaryIsWhole ==
  ASSUME CutInv, MayCompact(log)
  PROVE  BoundaryStart(log) \in 1..Len(log) /\ Whole(BoundaryStart(log))
<1> DEFINE cs == CompactionEntries(log)
<1>1. Len(log) \in Nat /\ cs \subseteq 1..Len(log) /\ log # <<>>
  BY LogType DEF CutInv, MayCompact
<1>2. CASE cs = {}
  <2>1. BoundaryStart(log) = 1
    BY <1>2 DEF BoundaryStart
  <2>2. Len(log) # 0
    BY <1>1, EmptySeq DEF CutInv, CompactionTypeOK
  <2> QED BY <1>1, <2>1, <2>2 DEF CutInv
<1>3. CASE cs # {}
  <2> HIDE DEF cs
  <2>1. Max(cs) \in cs
    BY <1>1, <1>3, GreatestExists
  <2>2. BoundaryStart(log) = log[Max(cs)].keep
    BY <1>3 DEF BoundaryStart, cs
  <2> DEFINE c == Max(cs)
  <2> HIDE DEF c
  <2>3. c \in CompactionEntries(log) /\ BoundaryStart(log) = log[c].keep
    BY <2>1, <2>2 DEF c, cs
  <2>4. log[c].keep \in 1..(c - 1) /\ Whole(log[c].keep)
    BY <2>3 DEF CutInv, KeptWhole
  <2>5. c \in 1..Len(log)
    BY <1>1, <2>3 DEF cs
  <2>6. log[c].keep \in 1..Len(log)
    BY <1>1, <2>4, <2>5
  <2> QED BY <2>3, <2>4, <2>6
<1> QED BY <1>2, <1>3

\* The cut is at a place to cut, or moved back from one over what is no message.
LEMMA CutPlace ==
  ASSUME NEW start \in Nat, start >= 1, start <= Len(log), Len(log) \in Nat, NEW keep
  PROVE  LET first == FindCutPoint(log, start, keep) IN
         /\ first \in start..Len(log)
         /\ \/ first = start /\ ValidCutPoints(log, start) = {}
            \/ \E cut \in ValidCutPoints(log, start) :
                 /\ first <= cut
                 /\ \A j \in first..(cut - 1) : ~IsMessageEntry(log[j])
<1> DEFINE points == ValidCutPoints(log, start)
           after == {c \in points : \E i \in BudgetReachedAt(log, start, keep) : c >= i}
           cut == IF after = {} THEN Min(points) ELSE Min(after)
           passed == {i \in start..cut : \A j \in i..(cut - 1) :
                                      ~IsMessageEntry(log[j]) /\ log[j].kind # "compaction"}
           first == FindCutPoint(log, start, keep)
<1>1. first = IF points = {} THEN start ELSE Min(passed)
  BY DEF FindCutPoint
<1>2. points \subseteq start..Len(log) /\ points \subseteq Nat
  BY DEF ValidCutPoints
<1>3. after \subseteq points
  OBVIOUS
<1>4. CASE points = {}
  BY <1>1, <1>4
<1>5. CASE points # {}
  <2>1. cut \in points
    <3> HIDE DEF points
    <3>1. Min(points) \in points
      BY <1>2, <1>5, LeastExists
    <3>2. after # {} => Min(after) \in after
      <4> HIDE DEF after
      <4> QED BY <1>2, <1>3, LeastExists
    <3> QED BY <1>3, <3>1, <3>2
  <2> HIDE DEF points, cut
  <2>2. cut \in Nat /\ cut \in start..Len(log)
    BY <1>2, <2>1
  <2>3. cut \in passed /\ passed \subseteq Nat
    BY <2>2
  <2>4. Min(passed) \in passed
    <3> HIDE DEF passed
    <3> QED BY <2>3, LeastExists
  <2>5. first \in passed
    BY <1>1, <1>5, <2>4
  <2> HIDE DEF first
  <2>6. /\ first \in start..cut
        /\ \A j \in first..(cut - 1) : ~IsMessageEntry(log[j])
    BY <2>5
  <2>7. first \in start..Len(log) /\ first <= cut
    BY <2>2, <2>6
  <2> QED BY <2>1, <2>6, <2>7 DEF points, first
<1> QED BY <1>4, <1>5

\* A cut keeps a result only with its call.
LEMMA CutIsWhole ==
  ASSUME CutInv, MayCompact(log), NEW keep
  PROVE  LET first == FindCutPoint(log, BoundaryStart(log), keep) IN
         first \in 1..Len(log) /\ Whole(first)
<1> DEFINE start == BoundaryStart(log)
           first == FindCutPoint(log, start, keep)
           points == ValidCutPoints(log, start)
<1>1. Len(log) \in Nat /\ DOMAIN log = 1..Len(log)
  BY LogType DEF CutInv
<1>2. start \in 1..Len(log) /\ Whole(start)
  BY BoundaryIsWhole
<1> HIDE DEF start
<1>3. start \in Nat /\ start >= 1 /\ start <= Len(log)
  BY <1>1, <1>2
<1>4. /\ first \in start..Len(log)
      /\ \/ first = start /\ points = {}
         \/ \E cut \in points : /\ first <= cut
                                /\ \A j \in first..(cut - 1) : ~IsMessageEntry(log[j])
  BY <1>1, <1>3, CutPlace
<1> HIDE DEF first, points
<1>5. first \in 1..Len(log) /\ first \in Nat
  BY <1>1, <1>3, <1>4
<1>6. ASSUME NEW r \in DOMAIN log, r >= first, log[r].kind = "toolResult"
      PROVE  \E a \in DOMAIN log : a >= first /\ Calls(a, r)
  <2>0. r \in 1..Len(log) /\ r \in Nat /\ r >= start
    BY <1>1, <1>3, <1>4, <1>6
  <2>1. PICK a \in DOMAIN log : a >= start /\ Calls(a, r)
    BY <1>2, <1>6, <2>0 DEF Whole
  <2>2. CASE first = start
    BY <2>1, <2>2
  <2>3. ASSUME NEW cut \in points, first <= cut,
               \A j \in first..(cut - 1) : ~IsMessageEntry(log[j])
        PROVE  a >= first
    <3>1. cut \in start..Len(log)
          /\ log[cut].kind \in {"user", "assistant", "bashExecution", "custom_message"}
      BY DEF points, ValidCutPoints
    <3>2. cut \in Nat /\ a \in Nat /\ a < r
      BY <1>1, <1>3, <2>0, <2>1, <3>1 DEF Calls
    <3>3. CASE cut > r
      <4>1. r \in first..(cut - 1)
        BY <1>5, <1>6, <2>0, <3>2, <3>3
      <4>2. IsMessageEntry(log[r])
        BY <1>6 DEF IsMessageEntry, Messages
      <4> QED BY <2>3, <4>1, <4>2
    <3>4. CASE cut <= r
      <4>1. ~(cut \in (a + 1)..r)
        BY <2>1, <3>1 DEF Calls, OfACall
      <4>2. cut <= a
        BY <2>0, <3>2, <3>4, <4>1
      <4> QED BY <1>5, <2>3, <3>2, <4>2
    <3> QED BY <2>0, <3>2, <3>3, <3>4
  <2> QED BY <1>4, <2>1, <2>2, <2>3
<1>7. Whole(first)
  BY <1>6 DEF Whole
<1> QED BY <1>5, <1>7 DEF first, start

-----------------------------------------------------------------------------
LEMMA CutInit == ASSUME CompactionInit PROVE CutInv
<1>1. Len(log) = 0 /\ DOMAIN log = {} /\ log \in Seq(LogEntry)
  BY EmptySeq DEF CompactionInit
<1>2. CompactionTypeOK
  BY <1>1 DEF CompactionInit, CompactionTypeOK
<1>3. Whole(1) /\ KeptWhole
  BY <1>1 DEF Whole, KeptWhole, CompactionEntries
<1>4. CallsOpen
  BY DEF CompactionInit, CallsOpen
<1> QED BY <1>2, <1>3, <1>4 DEF CutInv

\* The branch only grows.
Grows(e) ==
  /\ log' \in Seq(LogEntry)
  /\ Len(log) \in Nat /\ DOMAIN log = 1..Len(log) /\ DOMAIN log' = 1..(Len(log) + 1)
  /\ \A i \in DOMAIN log : log'[i] = log[i]
  /\ log'[Len(log) + 1] = e

LEMMA AppendGrows ==
  ASSUME CutInv, NEW e \in LogEntry, log' = Append(log, e)
  PROVE  Grows(e)
<1> DEFINE E == LogEntry
<1>1. log \in Seq(E) /\ e \in E
  BY DEF CutInv, CompactionTypeOK
<1> HIDE DEF E
<1>2. /\ Append(log, e) \in Seq(E) /\ Len(Append(log, e)) = Len(log) + 1
      /\ \A i \in 1..Len(log) : Append(log, e)[i] = log[i]
      /\ Append(log, e)[Len(log) + 1] = e
  BY <1>1, AppendProperties
<1>3. Len(log) \in Nat /\ DOMAIN log = 1..Len(log)
  BY <1>1, LenProperties
<1>4. log' \in Seq(E) /\ Len(log') = Len(log) + 1
  BY <1>2
<1>5. DOMAIN log' = 1..(Len(log) + 1)
  BY <1>4, LenProperties
<1> QED BY <1>2, <1>3, <1>4, <1>5 DEF Grows, E

\* What follows the calls that are open, seen from the entry that comes next.
LEMMA NextIsOfACall ==
  ASSUME NEW e, Grows(e), e.kind \in OfACall, NEW a \in DOMAIN log,
         log[a].kind = "assistant", \A i \in DOMAIN log : i > a => log[i].kind \in OfACall
  PROVE  /\ a \in DOMAIN log' /\ log'[a].kind = "assistant"
         /\ \A i \in DOMAIN log' : i > a => log'[i].kind \in OfACall
         /\ \A r \in Nat : r = Len(log) + 1 => Calls(a, r)'
<1>1. Len(log) \in Nat /\ a \in 1..Len(log) /\ a \in DOMAIN log'
  BY DEF Grows
<1>2. log'[a].kind = "assistant"
  BY DEF Grows
<1>3. ASSUME NEW i \in DOMAIN log', i > a PROVE log'[i].kind \in OfACall
  <2>1. CASE i = Len(log) + 1
    BY <2>1 DEF Grows
  <2>2. CASE i # Len(log) + 1
    <3>1. i \in DOMAIN log
      BY <1>1, <2>2 DEF Grows
    <3> QED BY <1>3, <3>1 DEF Grows
  <2> QED BY <2>1, <2>2
<1>4. \A i \in (a + 1)..(Len(log) + 1) : i \in DOMAIN log' /\ i > a
  BY <1>1 DEF Grows
<1>5. a \in 1..(Len(log) + 1 - 1)
  BY <1>1
<1>6. \A i \in (a + 1)..(Len(log) + 1) : log'[i].kind \in OfACall
  BY <1>3, <1>4
<1>7. ASSUME NEW r \in Nat, r = Len(log) + 1 PROVE Calls(a, r)'
  <2>1. a \in 1..(r - 1) /\ \A i \in (a + 1)..r : log'[i].kind \in OfACall
    BY <1>5, <1>6, <1>7
  <2> QED BY <1>2, <2>1 DEF Calls
<1> QED BY <1>1, <1>2, <1>3, <1>7

\* What was whole stays whole when the next entry is no result, or one of a call that is
\* not cut off.
LEMMA StaysWhole ==
  ASSUME NEW e, Grows(e), NEW from \in Nat, Whole(from),
         e.kind = "toolResult" =>
           \E a \in DOMAIN log : /\ a >= from /\ log[a].kind = "assistant"
                                 /\ \A i \in DOMAIN log : i > a => log[i].kind \in OfACall
  PROVE  Whole(from)'
<1>1. Len(log) \in Nat /\ DOMAIN log = 1..Len(log) /\ DOMAIN log' = 1..(Len(log) + 1)
  BY DEF Grows
<1>2. ASSUME NEW r \in DOMAIN log', r >= from, log'[r].kind = "toolResult"
      PROVE  \E a \in DOMAIN log' : a >= from /\ Calls(a, r)'
  <2>1. CASE r = Len(log) + 1
    <3>1. e.kind = "toolResult" /\ e.kind \in OfACall
      BY <1>2, <2>1 DEF Grows, OfACall
    <3>2. PICK a \in DOMAIN log : /\ a >= from /\ log[a].kind = "assistant"
                                  /\ \A i \in DOMAIN log : i > a => log[i].kind \in OfACall
      BY <3>1
    <3>3. r \in Nat /\ a \in DOMAIN log' /\ Calls(a, r)'
      BY <1>1, <2>1, <3>1, <3>2, NextIsOfACall
    <3> QED BY <3>2, <3>3
  <2>2. CASE r # Len(log) + 1
    <3>1. r \in DOMAIN log /\ r \in 1..Len(log) /\ log[r].kind = "toolResult"
      BY <1>1, <1>2, <2>2 DEF Grows
    <3>2. PICK a \in DOMAIN log : a >= from /\ Calls(a, r)
      BY <1>2, <3>1 DEF Whole
    <3>3. /\ a \in 1..(r - 1) /\ log[a].kind = "assistant"
          /\ \A i \in (a + 1)..r : log[i].kind \in OfACall
      BY <3>2 DEF Calls
    <3>4. a \in DOMAIN log' /\ a \in DOMAIN log /\ \A i \in (a + 1)..r : i \in DOMAIN log
      BY <1>1, <3>1, <3>3
    <3>5. log'[a].kind = "assistant" /\ \A i \in (a + 1)..r : log'[i].kind \in OfACall
      BY <3>3, <3>4 DEF Grows
    <3>6. Calls(a, r)'
      BY <3>3, <3>5 DEF Calls
    <3> QED BY <3>2, <3>4, <3>6
  <2> QED BY <2>1, <2>2
<1> QED BY <1>2 DEF Whole

\* An entry that is no compaction keeps the invariant, unless it is a result nobody called.
LEMMA WriteStep ==
  ASSUME CutInv, NEW e \in LogEntry, Grows(e), e.kind # "compaction",
         e.kind = "toolResult" => openCalls > 0
  PROVE  Whole(1)' /\ KeptWhole'
<1>1. Len(log) \in Nat /\ DOMAIN log = 1..Len(log) /\ DOMAIN log' = 1..(Len(log) + 1)
  BY DEF Grows
<1>2. ASSUME e.kind = "toolResult"
      PROVE  \E a \in DOMAIN log : /\ log[a].kind = "assistant"
                                   /\ \A i \in DOMAIN log : i > a => log[i].kind \in OfACall
  BY <1>2 DEF CutInv, CallsOpen
<1>3. Whole(1)'
  <2>1. e.kind = "toolResult" =>
          \E a \in DOMAIN log : /\ a >= 1 /\ log[a].kind = "assistant"
                                /\ \A i \in DOMAIN log : i > a => log[i].kind \in OfACall
    BY <1>1, <1>2
  <2> QED BY <2>1, StaysWhole DEF CutInv
<1>4. ASSUME NEW c \in CompactionEntries(log)'
      PROVE  log'[c].keep \in 1..(c - 1) /\ Whole(log[c].keep)'
  <2>1. c \in DOMAIN log' /\ log'[c].kind = "compaction"
    BY <1>4 DEF CompactionEntries
  <2>2. c # Len(log) + 1
    BY <2>1 DEF Grows
  <2>3. c \in DOMAIN log /\ c \in 1..Len(log) /\ log'[c] = log[c]
    BY <1>1, <2>1, <2>2 DEF Grows
  <2>4. c \in CompactionEntries(log)
    BY <2>1, <2>3 DEF CompactionEntries
  <2> DEFINE from == log[c].keep
  <2>5. from \in 1..(c - 1) /\ Whole(from)
    BY <2>4 DEF CutInv, KeptWhole
  <2>6. log'[c].keep = from
    BY <2>3
  <2>7. ASSUME NEW f \in Nat, f = from PROVE Whole(f)'
    <3>1. Whole(f)
      BY <2>5, <2>7
    <3>2. e.kind = "toolResult" =>
            \E a \in DOMAIN log : /\ a >= f /\ log[a].kind = "assistant"
                                  /\ \A i \in DOMAIN log : i > a => log[i].kind \in OfACall
      <4> SUFFICES ASSUME e.kind = "toolResult"
                   PROVE  \E a \in DOMAIN log :
                            /\ a >= f /\ log[a].kind = "assistant"
                            /\ \A i \in DOMAIN log : i > a => log[i].kind \in OfACall
        OBVIOUS
      <4>1. PICK a \in DOMAIN log : /\ log[a].kind = "assistant"
                                    /\ \A i \in DOMAIN log : i > a => log[i].kind \in OfACall
        BY <1>2
      <4>2. ~(c > a)
        BY <2>1, <2>3, <4>1 DEF OfACall
      <4>3. a >= f
        BY <1>1, <2>3, <2>5, <2>7, <4>2
      <4> QED BY <4>1, <4>3
    <3> QED BY <3>1, <3>2, StaysWhole
  <2>8. log'[c].keep \in Nat
    BY <2>3, <2>5, <2>6
  <2>9. Whole(log[c].keep)'
    BY <2>6, <2>7, <2>8
  <2> QED BY <2>5, <2>6, <2>9
<1>5. KeptWhole'
  BY <1>4 DEF KeptWhole
<1> QED BY <1>3, <1>5

\* A compaction keeps from a cut on.
LEMMA CompactStep ==
  ASSUME CutInv, NEW keep \in Budgets, CompactLog(keep)
  PROVE  CutInv'
<1> DEFINE first == FindCutPoint(log, BoundaryStart(log), keep)
           e == [kind |-> "compaction", keep |-> Min(Prepared(log, keep).kept)]
<1>1. first \in 1..Len(log) /\ Whole(first)
  BY CutIsWhole DEF CompactLog
<1>2. Prepared(log, keep).kept = first..Len(log)
  BY DEF Prepared
<1>3. Len(log) \in Nat
  BY LogType DEF CutInv
<1> HIDE DEF first
<1>4. Min(first..Len(log)) = first
  <2>1. first..Len(log) \subseteq Nat /\ first \in first..Len(log) /\ first \in Nat
    BY <1>1, <1>3
  <2> DEFINE T == first..Len(log)
  <2>2. T \subseteq Nat /\ first \in T /\ \A y \in T : first <= y
    BY <2>1
  <2> HIDE DEF T
  <2>3. Min(T) \in T /\ Min(T) <= first
    BY <2>2, LeastExists
  <2>4. Min(T) \in Nat /\ first <= Min(T)
    BY <2>2, <2>3
  <2> QED BY <2>1, <2>3, <2>4 DEF T
<1>5. e = [kind |-> "compaction", keep |-> first]
  BY <1>2, <1>4
<1>6. e \in LogEntry /\ e.kind = "compaction" /\ e.keep = first
  BY <1>1, <1>5 DEF LogEntry, Others
<1>7. log' = Append(log, e) /\ openCalls = 0 /\ openCalls' = 0
  BY DEF CompactLog
<1> HIDE DEF e
<1>8. Grows(e)
  BY <1>6, <1>7, AppendGrows
<1>9. \A from \in Nat : Whole(from) => Whole(from)'
  BY <1>6, <1>8, StaysWhole
<1>10. CompactionTypeOK'
  BY <1>7, <1>8 DEF CompactionTypeOK, Grows
<1>11. Whole(1)'
  BY <1>9 DEF CutInv
<1>12. CallsOpen'
  BY <1>7 DEF CallsOpen
<1>13. ASSUME NEW c \in CompactionEntries(log)'
       PROVE  log'[c].keep \in 1..(c - 1) /\ Whole(log[c].keep)'
  <2>1. c \in DOMAIN log' /\ log'[c].kind = "compaction"
    BY <1>13 DEF CompactionEntries
  <2>2. CASE c = Len(log) + 1
    <3>1. log'[c].keep = first
      BY <1>6, <1>8, <2>2 DEF Grows
    <3>2. ASSUME NEW f \in Nat, f = first PROVE Whole(f)'
      BY <1>1, <1>9, <3>2
    <3>3. Whole(log[c].keep)'
      BY <1>1, <3>1, <3>2
    <3> QED BY <1>1, <1>3, <2>2, <3>1, <3>3
  <2>3. CASE c # Len(log) + 1
    <3>1. c \in DOMAIN log /\ log'[c] = log[c]
      BY <1>8, <2>1, <2>3 DEF Grows
    <3>2. c \in CompactionEntries(log)
      BY <2>1, <3>1 DEF CompactionEntries
    <3>3. log[c].keep \in 1..(c - 1) /\ Whole(log[c].keep) /\ log'[c].keep = log[c].keep
      BY <3>1, <3>2 DEF CutInv, KeptWhole
    <3>4. ASSUME NEW f \in Nat, f = log[c].keep PROVE Whole(f)'
      BY <1>9, <3>3, <3>4
    <3>5. log'[c].keep \in Nat
      BY <3>3
    <3>6. Whole(log[c].keep)'
      BY <3>3, <3>4, <3>5
    <3> QED BY <3>3, <3>6
  <2> QED BY <2>2, <2>3
<1>14. KeptWhole'
  BY <1>13 DEF KeptWhole
<1> QED BY <1>10, <1>11, <1>12, <1>14 DEF CutInv

LEMMA MessageStep ==
  ASSUME CutInv, NEW kind \in Messages, NEW size \in Sizes, NEW calls \in 0..2,
         WriteMessage(kind, size, calls)
  PROVE  CutInv'
<1> DEFINE e == [kind |-> kind, size |-> size]
<1>1. e \in LogEntry /\ e.kind = kind
  BY DEF LogEntry
<1>2. /\ kind \in {"user", "assistant", "bashExecution"} /\ (calls > 0 => kind = "assistant")
      /\ log' = Append(log, e) /\ openCalls' = calls
  BY DEF WriteMessage
<1> HIDE DEF e
<1>3. Grows(e)
  BY <1>1, <1>2, AppendGrows
<1>4. Whole(1)' /\ KeptWhole'
  BY <1>1, <1>2, <1>3, WriteStep
<1>5. CompactionTypeOK'
  BY <1>2, <1>3 DEF CompactionTypeOK, Grows
<1>6. CallsOpen'
  <2> SUFFICES ASSUME openCalls' > 0
               PROVE  \E a \in DOMAIN log' :
                        /\ log'[a].kind = "assistant"
                        /\ \A i \in DOMAIN log' : i > a => log'[i].kind \in OfACall
    BY DEF CallsOpen
  <2> DEFINE a == Len(log) + 1
  <2>1. a \in DOMAIN log' /\ log'[a].kind = "assistant"
    BY <1>1, <1>2, <1>3 DEF Grows
  <2>2. \A i \in DOMAIN log' : ~(i > a)
    BY <1>3 DEF Grows
  <2> QED BY <2>1, <2>2
<1> QED BY <1>4, <1>5, <1>6 DEF CutInv

\* A result or a change of settings leaves the calls open that were.
LEMMA FollowsTheCalls ==
  ASSUME CutInv, NEW e, Grows(e), e.kind \in OfACall, openCalls > 0
  PROVE  CallsOpen'
<1>1. PICK a \in DOMAIN log : /\ log[a].kind = "assistant"
                              /\ \A i \in DOMAIN log : i > a => log[i].kind \in OfACall
  BY DEF CutInv, CallsOpen
<1>2. /\ a \in DOMAIN log' /\ log'[a].kind = "assistant"
      /\ \A i \in DOMAIN log' : i > a => log'[i].kind \in OfACall
  BY <1>1, NextIsOfACall
<1> QED BY <1>2 DEF CallsOpen

LEMMA ResultStep ==
  ASSUME CutInv, NEW size \in Sizes, WriteToolResult(size)
  PROVE  CutInv'
<1> DEFINE e == [kind |-> "toolResult", size |-> size]
<1>1. e \in LogEntry /\ e.kind = "toolResult" /\ e.kind \in OfACall
  BY DEF LogEntry, Messages, OfACall
<1>2. openCalls > 0 /\ openCalls' = openCalls - 1 /\ log' = Append(log, e)
  BY DEF WriteToolResult
<1> HIDE DEF e
<1>3. Grows(e)
  BY <1>1, <1>2, AppendGrows
<1>4. Whole(1)' /\ KeptWhole'
  BY <1>1, <1>2, <1>3, WriteStep
<1>5. CompactionTypeOK'
  BY <1>2, <1>3 DEF CutInv, CompactionTypeOK, Grows
<1>6. CallsOpen'
  BY <1>1, <1>2, <1>3, FollowsTheCalls
<1> QED BY <1>4, <1>5, <1>6 DEF CutInv

LEMMA OtherStep ==
  ASSUME CutInv, NEW kind \in Others, WriteOther(kind)
  PROVE  CutInv'
<1> DEFINE e == [kind |-> kind, keep |-> 0]
<1>1. e \in LogEntry /\ e.kind = kind
  BY DEF LogEntry
<1>2. /\ kind \in {"model_change", "custom_message"}
      /\ (kind = "custom_message" => openCalls = 0)
      /\ log' = Append(log, e) /\ openCalls' = openCalls
  BY DEF WriteOther
<1> HIDE DEF e
<1>3. Grows(e)
  BY <1>1, <1>2, AppendGrows
<1>4. Whole(1)' /\ KeptWhole'
  BY <1>1, <1>2, <1>3, WriteStep
<1>5. CompactionTypeOK'
  BY <1>2, <1>3 DEF CutInv, CompactionTypeOK, Grows
<1>6. CallsOpen'
  <2>1. CASE openCalls > 0
    <3>1. e.kind \in OfACall
      BY <1>1, <1>2, <2>1 DEF OfACall
    <3> QED BY <1>3, <2>1, <3>1, FollowsTheCalls
  <2>2. CASE ~(openCalls > 0)
    BY <1>2, <2>2 DEF CallsOpen
  <2> QED BY <2>1, <2>2
<1> QED BY <1>4, <1>5, <1>6 DEF CutInv

LEMMA CutStep == ASSUME CutInv, [CompactionNext]_compactionVars PROVE CutInv'
<1>1. ASSUME NEW kind \in Messages, NEW size \in Sizes, NEW calls \in 0..2,
             WriteMessage(kind, size, calls)
      PROVE  CutInv'
  BY <1>1, MessageStep
<1>2. ASSUME NEW size \in Sizes, WriteToolResult(size) PROVE CutInv'
  BY <1>2, ResultStep
<1>3. ASSUME NEW kind \in Others, WriteOther(kind) PROVE CutInv'
  BY <1>3, OtherStep
<1>4. ASSUME NEW keep \in Budgets, CompactLog(keep) PROVE CutInv'
  BY <1>4, CompactStep
<1>5. CASE UNCHANGED compactionVars
  BY <1>5 DEF compactionVars, CutInv, CompactionTypeOK, Whole, CallsOpen, KeptWhole,
              CompactionEntries, Calls
<1> QED BY <1>1, <1>2, <1>3, <1>4, <1>5 DEF CompactionNext

LEMMA CutsAreWhole == CutInv => CutKeepsCalls
<1> SUFFICES ASSUME CutInv, MayCompact(log), NEW keep \in Budgets,
                    NEW r \in Prepared(log, keep).kept, log[r].kind = "toolResult"
             PROVE  \E a \in Prepared(log, keep).kept :
                      /\ a < r /\ log[a].kind = "assistant"
                      /\ \A i \in (a + 1)..r : log[i].kind \notin {"user", "bashExecution"}
  BY DEF CutKeepsCalls
<1> DEFINE first == FindCutPoint(log, BoundaryStart(log), keep)
<1>1. first \in 1..Len(log) /\ Whole(first)
  BY CutIsWhole
<1>2. Prepared(log, keep).kept = first..Len(log)
  BY DEF Prepared
<1>3. Len(log) \in Nat /\ DOMAIN log = 1..Len(log)
  BY LogType DEF CutInv
<1> HIDE DEF first
<1>4. r \in DOMAIN log /\ r >= first
  BY <1>1, <1>2, <1>3
<1>5. PICK a \in DOMAIN log : a >= first /\ Calls(a, r)
  BY <1>1, <1>4 DEF Whole
<1>6. /\ a \in first..Len(log) /\ a < r /\ log[a].kind = "assistant"
      /\ \A i \in (a + 1)..r : log[i].kind \in OfACall
  BY <1>1, <1>3, <1>4, <1>5 DEF Calls
<1> QED BY <1>2, <1>6 DEF OfACall

\* After any number of compactions, under any budget, no cut leaves a tool result without
\* the message that called it ("Never cut at tool results", compaction.ts:294).
THEOREM CutsKeepCalls == CompactionSpec => []CutKeepsCalls
<1>1. CutInv => CutKeepsCalls
  BY CutsAreWhole
<1> QED BY <1>1, CutInit, CutStep, PTL DEF CompactionSpec

-----------------------------------------------------------------------------
(* The budget of a cut: the tokens of the messages it keeps.                  *)

\* Sums over finite sets, which the library computes by taking out one element after the other.
Pick(s) == CHOOSE x \in s : TRUE
Sums(f, w, D) ==
  /\ f \in [SUBSET D -> Nat] /\ f[{}] = 0
  /\ \A s \in SUBSET D : s # {} => f[s] = w[Pick(s)] + f[s \ {Pick(s)}]

LEMMA Picked == ASSUME NEW s, s # {} PROVE Pick(s) \in s
BY DEF Pick

\* Induction over the subsets of a finite set, by their size.
LEMMA BySize ==
  ASSUME NEW D, IsFiniteSet(D), NEW T,
         \A s \in SUBSET D : (\A x \in s : s \ {x} \in T) => s \in T
  PROVE  \A s \in SUBSET D : s \in T
<1> DEFINE n == Cardinality(D)
           good == {m \in 0..n : \A s \in SUBSET D : Cardinality(s) = m => s \in T}
<1>1. /\ n \in Nat
      /\ \A s \in SUBSET D : IsFiniteSet(s) /\ Cardinality(s) \in 0..n
  BY FS_CardinalityType, FS_Subset
<1>2. 0 \in good
  <2>1. ASSUME NEW s \in SUBSET D, Cardinality(s) = 0 PROVE s \in T
    <3>1. s = {}
      BY <1>1, <2>1, FS_EmptySet
    <3> QED BY <3>1
  <2> QED BY <1>1, <2>1
<1>3. ASSUME NEW m \in 1..n, m - 1 \in good PROVE m \in good
  <2>1. ASSUME NEW s \in SUBSET D, Cardinality(s) = m PROVE s \in T
    <3>1. ASSUME NEW x \in s PROVE s \ {x} \in T
      <4>1. Cardinality(s \ {x}) = m - 1 /\ s \ {x} \in SUBSET D
        BY <1>1, <2>1, FS_RemoveElement
      <4> QED BY <1>3, <4>1
    <3> QED BY <3>1
  <2> QED BY <1>1, <2>1
<1> HIDE DEF good
<1>4. \A m \in 0..n : m \in good
  BY <1>1, <1>2, <1>3, UpTo
<1> QED BY <1>1, <1>4 DEF good

\* There is such a function.
LEMMA SumsExist ==
  ASSUME NEW D, IsFiniteSet(D), NEW w \in [D -> Nat]
  PROVE  \E f : Sums(f, w, D)
<1> DEFINE n == Cardinality(D)
           Upto(m) == {s \in SUBSET D : Cardinality(s) <= m}
           SumsTo(f, m) ==
             /\ f \in [Upto(m) -> Nat] /\ f[{}] = 0
             /\ \A s \in Upto(m) : s # {} => f[s] = w[Pick(s)] + f[s \ {Pick(s)}]
           good == {m \in 0..n : \E f : SumsTo(f, m)}
<1>1. /\ n \in Nat
      /\ \A s \in SUBSET D : IsFiniteSet(s) /\ Cardinality(s) \in 0..n
  <2>1. ASSUME NEW s \in SUBSET D PROVE IsFiniteSet(s) /\ Cardinality(s) \in 0..n
    BY FS_CardinalityType, FS_Subset
  <2> QED BY <2>1, FS_CardinalityType
<1>2. \A s \in SUBSET D : s # {} =>
        /\ Pick(s) \in D /\ s \ {Pick(s)} \in SUBSET D
        /\ Cardinality(s) \in 1..n /\ Cardinality(s \ {Pick(s)}) = Cardinality(s) - 1
  <2>1. ASSUME NEW s \in SUBSET D, s # {}
        PROVE  /\ Pick(s) \in D /\ s \ {Pick(s)} \in SUBSET D
               /\ Cardinality(s) \in 1..n /\ Cardinality(s \ {Pick(s)}) = Cardinality(s) - 1
    <3>1. Pick(s) \in s
      BY <2>1, Picked
    <3>2. Cardinality(s \ {Pick(s)}) = Cardinality(s) - 1 /\ Cardinality(s) # 0
      BY <1>1, <2>1, <3>1, FS_RemoveElement, FS_EmptySet
    <3> QED BY <1>1, <3>1, <3>2
  <2> QED BY <2>1
<1>3. 0 \in good
  <2> DEFINE f == [s \in Upto(0) |-> 0]
  <2>1. {} \in Upto(0) /\ \A s \in Upto(0) : s = {}
    BY <1>1, FS_EmptySet
  <2>2. SumsTo(f, 0)
    BY <2>1
  <2>3. 0 \in 0..n
    BY <1>1
  <2> HIDE DEF f, n, SumsTo
  <2> QED BY <2>2, <2>3
<1>4. ASSUME NEW m \in 1..n, m - 1 \in good PROVE m \in good
  <2>1. PICK g : SumsTo(g, m - 1)
    BY <1>4
  <2> DEFINE f == [s \in Upto(m) |-> IF s \in Upto(m - 1) THEN g[s] ELSE w[Pick(s)] + g[s \ {Pick(s)}]]
  <2>2. m - 1 \in Nat /\ Upto(m - 1) \subseteq Upto(m) /\ {} \in Upto(m - 1)
    BY <1>1, FS_EmptySet
  <2>3. \A s \in Upto(m) : s # {} => s \ {Pick(s)} \in Upto(m - 1) /\ Pick(s) \in D
    BY <1>1, <1>2
  <2>4. f \in [Upto(m) -> Nat] /\ f[{}] = 0
    <3>1. ASSUME NEW s \in Upto(m)
          PROVE  (IF s \in Upto(m - 1) THEN g[s] ELSE w[Pick(s)] + g[s \ {Pick(s)}]) \in Nat
      <4>1. CASE s \in Upto(m - 1)
        BY <2>1, <4>1
      <4>2. CASE s \notin Upto(m - 1)
        <5>1. s # {}
          BY <2>2, <4>2
        <5>2. w[Pick(s)] \in Nat /\ g[s \ {Pick(s)}] \in Nat
          BY <2>1, <2>3, <5>1
        <5> QED BY <4>2, <5>2
      <4> QED BY <4>1, <4>2
    <3> QED BY <2>1, <2>2, <3>1
  <2>5. ASSUME NEW s \in Upto(m), s # {} PROVE f[s] = w[Pick(s)] + f[s \ {Pick(s)}]
    <3>1. f[s \ {Pick(s)}] = g[s \ {Pick(s)}]
      BY <2>2, <2>3, <2>5
    <3>2. CASE s \in Upto(m - 1)
      BY <2>1, <2>5, <3>1, <3>2
    <3>3. CASE s \notin Upto(m - 1)
      BY <3>1, <3>3
    <3> QED BY <3>2, <3>3
  <2> HIDE DEF f, Upto
  <2>6. SumsTo(f, m)
    BY <2>4, <2>5
  <2> QED BY <2>6
<1> HIDE DEF good
<1>5. \A m \in 0..n : m \in good
  BY <1>1, <1>3, <1>4, UpTo
<1>6. PICK f : SumsTo(f, n)
  BY <1>1, <1>5 DEF good
<1>7. Upto(n) = SUBSET D
  BY <1>1
<1> QED BY <1>6, <1>7 DEF Sums

\* Whichever element is taken out first.
LEMMA SumsWithout ==
  ASSUME NEW D, IsFiniteSet(D), NEW w \in [D -> Nat], NEW f, Sums(f, w, D)
  PROVE  \A s \in SUBSET D : \A x \in s : f[s] = w[x] + f[s \ {x}]
<1> DEFINE T == {s \in SUBSET D : \A x \in s : f[s] = w[x] + f[s \ {x}]}
<1>1. ASSUME NEW s \in SUBSET D, \A x \in s : s \ {x} \in T PROVE s \in T
  <2> SUFFICES ASSUME NEW x \in s PROVE f[s] = w[x] + f[s \ {x}]
    OBVIOUS
  <2> DEFINE c == Pick(s)
  <2>1. c \in s /\ f[s] = w[c] + f[s \ {c}]
    BY Picked DEF Sums
  <2> HIDE DEF c
  <2>2. CASE x # c
    <3> DEFINE r == (s \ {c}) \ {x}
    <3>1. r = (s \ {x}) \ {c} /\ x \in s \ {c} /\ c \in s \ {x}
      BY <2>1, <2>2
    <3>2. f[s \ {c}] = w[x] + f[r]
      BY <1>1, <2>1, <3>1
    <3>3. f[s \ {x}] = w[c] + f[r]
      <4>1. f[s \ {x}] = w[c] + f[(s \ {x}) \ {c}]
        BY <1>1, <3>1
      <4> QED BY <3>1, <4>1
    <3>4. w[x] \in Nat /\ w[c] \in Nat /\ f[r] \in Nat
      BY <2>1 DEF Sums
    <3> HIDE DEF r
    <3> QED BY <2>1, <3>2, <3>3, <3>4
  <2> QED BY <2>1, <2>2
<1> HIDE DEF T
<1>2. \A s \in SUBSET D : s \in T
  BY <1>1, BySize
<1> QED BY <1>2 DEF T

LEMMA SumsGrow ==
  ASSUME NEW D, IsFiniteSet(D), NEW w \in [D -> Nat], NEW f, Sums(f, w, D)
  PROVE  \A s \in SUBSET D : \A r \in SUBSET s : f[r] <= f[s]
<1> DEFINE T == {s \in SUBSET D : \A r \in SUBSET s : f[r] <= f[s]}
<1>1. ASSUME NEW s \in SUBSET D, \A x \in s : s \ {x} \in T PROVE s \in T
  <2> SUFFICES ASSUME NEW r \in SUBSET s PROVE f[r] <= f[s]
    OBVIOUS
  <2>1. f[r] \in Nat /\ f[s] \in Nat
    BY DEF Sums
  <2>2. ASSUME NEW x \in s, x \notin r PROVE f[r] <= f[s]
    <3>1. f[s] = w[x] + f[s \ {x}]
      BY SumsWithout
    <3>2. f[r] <= f[s \ {x}] /\ w[x] \in Nat /\ f[s \ {x}] \in Nat
      BY <1>1, <2>2 DEF Sums
    <3> QED BY <2>1, <3>1, <3>2
  <2> QED BY <2>1, <2>2
<1> HIDE DEF T
<1>2. \A s \in SUBSET D : s \in T
  BY <1>1, BySize
<1> QED BY <1>2 DEF T

\* The messages of a part of the branch, of which the tokens are counted.
Sized(I) == {i \in I : IsMessageEntry(log[i])}

\* The sum of the library is this one.
LEMMA SumsAre ==
  ASSUME NEW D, IsFiniteSet(D), NEW w \in [D -> Nat], \A x \in D : w[x] = log[x].size,
         NEW f, Sums(f, w, D), NEW I, Sized(I) \in SUBSET D
  PROVE  Tokens(log, I) = f[Sized(I)]
<1> DEFINE S == Sized(I)
           iter[s \in SUBSET S] ==
             IF s = {} THEN 0
             ELSE LET x == CHOOSE x \in s : TRUE IN log[x].size + iter[s \ {x}]
<1>1. Tokens(log, I) = iter[S]
  BY DEF Sized, Tokens, MapThenSumSet, MapThenFoldSet
<1>0. S \in SUBSET D
  OBVIOUS
<1> HIDE DEF S
<1>2. \A s \in SUBSET S : s # {} => Pick(s) \in s /\ Pick(s) \in D
  BY <1>0, Picked
<1>3. \A s \in SUBSET S : s # {} => f[s] = log[Pick(s)].size + f[s \ {Pick(s)}]
  <2>1. ASSUME NEW s \in SUBSET S, s # {} PROVE f[s] = log[Pick(s)].size + f[s \ {Pick(s)}]
    <3>1. s \in SUBSET D
      BY <1>0
    <3> QED BY <1>2, <2>1, <3>1 DEF Sums
  <2> QED BY <2>1
<1> DEFINE h == [s \in SUBSET S |-> f[s]]
<1>4. h = [s \in SUBSET S |->
             IF s = {} THEN 0
             ELSE LET x == CHOOSE x \in s : TRUE IN log[x].size + h[s \ {x}]]
  <2> DEFINE k == [s \in SUBSET S |->
             IF s = {} THEN 0
             ELSE LET x == CHOOSE x \in s : TRUE IN log[x].size + h[s \ {x}]]
  <2>1. ASSUME NEW s \in SUBSET S PROVE h[s] = k[s]
    <3>1. CASE s = {}
      BY <1>0, <3>1 DEF Sums
    <3>2. CASE s # {}
      <4>1. k[s] = log[Pick(s)].size + h[s \ {Pick(s)}]
        BY <3>2 DEF Pick
      <4>2. h[s] = f[s] /\ h[s \ {Pick(s)}] = f[s \ {Pick(s)}]
        OBVIOUS
      <4> QED BY <1>3, <3>2, <4>1, <4>2
    <3> QED BY <3>1, <3>2
  <2> QED BY <2>1
<1>5. iter = [s \in SUBSET S |->
                IF s = {} THEN 0
                ELSE LET x == CHOOSE x \in s : TRUE IN log[x].size + iter[s \ {x}]]
  <2> HIDE DEF h
  <2> QED BY <1>4 DEF iter
<1> HIDE DEF iter
<1> DEFINE T == {s \in SUBSET S : iter[s] = f[s]}
<1>6. ASSUME NEW s \in SUBSET S, \A x \in s : s \ {x} \in T PROVE s \in T
  <2>1. CASE s = {}
    BY <1>0, <1>5, <2>1 DEF Sums
  <2>2. CASE s # {}
    <3>1. iter[s] = log[Pick(s)].size + iter[s \ {Pick(s)}]
      BY <1>5, <2>2 DEF Pick
    <3>2. iter[s \ {Pick(s)}] = f[s \ {Pick(s)}]
      BY <1>2, <1>6, <2>2
    <3> QED BY <1>3, <2>2, <3>1, <3>2
  <2> QED BY <2>1, <2>2
<1> HIDE DEF T
<1>7. IsFiniteSet(S)
  BY <1>0, FS_Subset
<1>8. \A s \in SUBSET S : s \in T
  BY <1>6, <1>7, BySize
<1>9. iter[S] = f[S]
  BY <1>8 DEF T
<1> QED BY <1>1, <1>9 DEF S

\* Of the sizes of messages there is a greatest.
LEMMA LargestSize == Max(Sizes) \in Nat /\ \A s \in Sizes : s <= Max(Sizes)
<1> DEFINE T == {S \in SUBSET Sizes : \E b \in Nat : \A x \in S : x <= b}
<1>1. Sizes \subseteq Nat \ {0} /\ IsFiniteSet(Sizes) /\ Sizes # {}
  BY CompactionAssumption
<1>2. ASSUME NEW S \in SUBSET Sizes, \A x \in S : S \ {x} \in T PROVE S \in T
  <2>1. CASE S = {}
    BY <2>1
  <2>2. ASSUME NEW x \in S PROVE S \in T
    <3>1. PICK b \in Nat : \A y \in S \ {x} : y <= b
      BY <1>2
    <3>2. x \in Nat
      BY <1>1
    <3>3. PICK c \in Nat : b <= c /\ x <= c
      <4>1. CASE b <= x
        BY <3>2, <4>1
      <4>2. CASE x <= b
        BY <4>2
      <4> QED BY <3>2, <4>1, <4>2
    <3>4. \A y \in S : y <= c
      <4>1. ASSUME NEW y \in S PROVE y <= c
        <5>1. y \in Nat /\ (y = x \/ y <= b)
          BY <1>1, <3>1
        <5> QED BY <3>2, <3>3, <5>1
      <4> QED BY <4>1
    <3> QED BY <3>4
  <2> QED BY <2>1, <2>2
<1> HIDE DEF T
<1>3. Sizes \in T
  <2>1. \A S \in SUBSET Sizes : S \in T
    BY <1>1, <1>2, BySize
  <2> QED BY <2>1
<1>4. PICK b \in Nat : \A x \in Sizes : x <= b
  BY <1>3 DEF T
<1>5. Sizes \subseteq 1..b
  BY <1>1, <1>4
<1>6. Max(Sizes) \in Sizes /\ \A x \in Sizes : Max(Sizes) >= x
  BY <1>1, <1>5, GreatestExists
<1>7. \A x \in Sizes : x \in Nat
  BY <1>1
<1> QED BY <1>6, <1>7

\* The tokens of parts of the branch: of its messages alone, and of one more or fewer.

LEMMA TokensOf ==
  ASSUME CompactionTypeOK
  PROVE  /\ \A I \in SUBSET DOMAIN log : Tokens(log, I) \in Nat
         /\ \A I \in SUBSET DOMAIN log : Sized(I) = {} => Tokens(log, I) = 0
         /\ \A I, J \in SUBSET DOMAIN log : Sized(I) \subseteq Sized(J) => Tokens(log, I) <= Tokens(log, J)
         /\ \A I \in SUBSET DOMAIN log : \A x \in Sized(I) :
              Tokens(log, I) = log[x].size + Tokens(log, I \ {x})
<1> DEFINE D == Sized(DOMAIN log)
           w == [i \in D |-> log[i].size]
<1>1. IsFiniteSet(D)
  <2>1. Len(log) \in Nat /\ DOMAIN log = 1..Len(log) /\ D \in SUBSET (1..Len(log))
    BY LogType DEF Sized
  <2> HIDE DEF D
  <2>2. IsFiniteSet(1..Len(log))
    BY <2>1, FS_Interval
  <2> QED BY <2>1, <2>2, FS_Subset
<1>2. w \in [D -> Nat]
  <2>1. ASSUME NEW i \in D PROVE log[i].size \in Nat
    <3>1. log[i] \in LogEntry /\ log[i].kind \in Messages
      BY LogType DEF Sized, IsMessageEntry
    <3>2. log[i].size \in Sizes
      BY <3>1 DEF LogEntry, Messages, Others
    <3> QED BY <3>2, CompactionAssumption
  <2> QED BY <2>1
<1>3. PICK f : Sums(f, w, D)
  BY <1>1, <1>2, SumsExist
<1>4. \A x \in D : w[x] = log[x].size
  OBVIOUS
<1>5. \A I \in SUBSET DOMAIN log : Sized(I) \in SUBSET D
  BY DEF Sized
<1> HIDE DEF D, w
<1>6. ASSUME NEW I \in SUBSET DOMAIN log PROVE Tokens(log, I) = f[Sized(I)]
  <2>1. Sized(I) \in SUBSET D
    BY <1>5
  <2> QED BY <1>1, <1>2, <1>3, <1>4, <2>1, SumsAre
<1>7. f \in [SUBSET D -> Nat] /\ f[{}] = 0
  BY <1>3 DEF Sums
<1>8. \A s \in SUBSET D : \A r \in SUBSET s : f[r] <= f[s]
  BY <1>1, <1>2, <1>3, SumsGrow
<1>9. \A s \in SUBSET D : \A x \in s : f[s] = w[x] + f[s \ {x}]
  <2>1. ASSUME NEW s \in SUBSET D, NEW x \in s PROVE f[s] = w[x] + f[s \ {x}]
    BY <1>1, <1>2, <1>3, SumsWithout
  <2> QED BY <2>1
<1>10. ASSUME NEW I \in SUBSET DOMAIN log, NEW x \in Sized(I)
       PROVE  Tokens(log, I) = log[x].size + Tokens(log, I \ {x})
  <2>1. Sized(I \ {x}) = Sized(I) \ {x} /\ I \ {x} \in SUBSET DOMAIN log
    BY DEF Sized
  <2>2. Tokens(log, I \ {x}) = f[Sized(I) \ {x}] /\ Tokens(log, I) = f[Sized(I)]
    BY <1>6, <2>1
  <2>3. x \in D /\ f[Sized(I)] = w[x] + f[Sized(I) \ {x}]
    BY <1>5, <1>9
  <2> QED BY <1>4, <2>2, <2>3
<1>11. ASSUME NEW I \in SUBSET DOMAIN log, NEW J \in SUBSET DOMAIN log, Sized(I) \subseteq Sized(J)
       PROVE  Tokens(log, I) <= Tokens(log, J)
  BY <1>5, <1>6, <1>8, <1>11
<1> QED BY <1>5, <1>6, <1>7, <1>10, <1>11

\* Behind the message that reaches the budget there is less than the budget.
LEMMA LessThanTheBudget ==
  ASSUME CompactionTypeOK, NEW keep \in Nat, keep > 0, NEW j \in Nat, j >= 1,
         \A i \in j..Len(log) : IsMessageEntry(log[i]) => ~(Tokens(log, i..Len(log)) >= keep)
  PROVE  Tokens(log, j..Len(log)) < keep
<1> DEFINE n == Len(log)
           M == Sized(j..n)
<1>1. n \in Nat /\ DOMAIN log = 1..n
  BY LogType
<1>2. j..n \in SUBSET DOMAIN log /\ Tokens(log, j..n) \in Nat
  <2>1. j..n \in SUBSET DOMAIN log
    BY <1>1
  <2> QED BY <2>1, TokensOf
<1>3. CASE M = {}
  <2>1. Tokens(log, j..n) = 0
    BY <1>2, <1>3, TokensOf
  <2> QED BY <2>1
<1>4. CASE M # {}
  <2>1. M \subseteq Nat /\ M \subseteq j..n
    BY DEF Sized
  <2>2. Min(M) \in M /\ \A y \in M : Min(M) <= y
    <3> HIDE DEF M
    <3> QED BY <1>4, <2>1, LeastExists
  <2> DEFINE i == Min(M)
  <2> HIDE DEF i
  <2>3. i \in j..n /\ IsMessageEntry(log[i]) /\ \A y \in M : i <= y
    BY <2>2 DEF i, Sized
  <2>4. i..n \in SUBSET DOMAIN log /\ Sized(j..n) \subseteq Sized(i..n)
    BY <1>1, <2>1, <2>3 DEF Sized
  <2>5. Tokens(log, j..n) <= Tokens(log, i..n) /\ Tokens(log, i..n) \in Nat
    BY <1>2, <2>4, TokensOf
  <2>6. ~(Tokens(log, i..n) >= keep)
    BY <2>3
  <2> QED BY <1>2, <2>5, <2>6
<1> QED BY <1>3, <1>4

\* The scan of findCutPoint ends at the first message that reaches the budget, or its cut is
\* the last place there is.
LEMMA CutsKeepTheBudget == CutInv => CutKeepsAboutTheBudget
<1> SUFFICES ASSUME CutInv, MayCompact(log), NEW keep \in Budgets,
                    ValidCutPoints(log, BoundaryStart(log)) # {},
                    ~(Tokens(log, (Max(ValidCutPoints(log, BoundaryStart(log))) + 1)..Len(log)) >= keep)
             PROVE  Tokens(log, Prepared(log, keep).kept) < keep + Max(Sizes)
  BY DEF CutKeepsAboutTheBudget
<1> DEFINE n == Len(log)
           start == BoundaryStart(log)
           points == ValidCutPoints(log, start)
           reached == {i \in start..n : IsMessageEntry(log[i]) /\ Tokens(log, i..n) >= keep}
           at == BudgetReachedAt(log, start, keep)
           after == {c \in points : \E i \in at : c >= i}
           cut == IF after = {} THEN Min(points) ELSE Min(after)
           passed == {i \in start..cut : \A j \in i..(cut - 1) :
                                      ~IsMessageEntry(log[j]) /\ log[j].kind # "compaction"}
           first == FindCutPoint(log, start, keep)
<1>1. /\ CompactionTypeOK /\ n \in Nat /\ DOMAIN log = 1..n /\ start \in 1..n
      /\ keep \in Nat /\ Max(Sizes) \in Nat
  BY LogType, BoundaryIsWhole, LargestSize, CompactionAssumption DEF CutInv
<1>2. /\ at = IF reached = {} THEN {} ELSE {Max(reached)}
      /\ first = Min(passed) /\ Prepared(log, keep).kept = first..n
  BY DEF BudgetReachedAt, FindCutPoint, Prepared
<1>3. points # {} /\ points \subseteq start..n /\ reached \subseteq start..n
  BY DEF ValidCutPoints
<1>4. \A I \in SUBSET DOMAIN log : Tokens(log, I) \in Nat
  BY <1>1, TokensOf
<1> HIDE DEF n, start, points, first, at
<1> DEFINE last == Max(points)
<1>5. last \in points /\ \A p \in points : last >= p
  <2>1. points \subseteq 1..n
    BY <1>1, <1>3
  <2> QED BY <1>1, <1>3, <2>1, GreatestExists
<1>6. ~(Tokens(log, (last + 1)..n) >= keep)
  BY DEF points, start, n
<1> HIDE DEF last
<1>7. keep > 0
  <2>1. last \in 1..n /\ (last + 1)..n \in SUBSET DOMAIN log
    BY <1>1, <1>3, <1>5
  <2>2. Tokens(log, (last + 1)..n) \in Nat
    BY <1>4, <2>1
  <2> QED BY <1>1, <1>6, <2>2
<1>8. after \subseteq points /\ (after # {} => Min(after) \in after)
  <2>1. after \subseteq points
    OBVIOUS
  <2> HIDE DEF after
  <2>2. after \subseteq Nat
    BY <1>1, <1>3, <2>1
  <2>3. after # {} => Min(after) \in after
    BY <2>2, LeastExists
  <2> QED BY <2>1, <2>3
<1>9. cut \in points
  <2>1. points \subseteq Nat
    BY <1>1, <1>3
  <2>2. Min(points) \in points
    BY <1>3, <2>1, LeastExists
  <2> HIDE DEF after
  <2> QED BY <1>8, <2>2
<1>10. after = {} \/ cut \in after
  <2> HIDE DEF after
  <2> QED BY <1>8
<1> HIDE DEF cut
<1>11. cut \in 1..n /\ cut >= start /\ cut \in Nat
  BY <1>1, <1>3, <1>9
<1>12. first \in passed
  <2>1. cut \in passed /\ passed \subseteq Nat
    BY <1>1, <1>11
  <2> HIDE DEF passed
  <2> QED BY <1>2, <2>1, LeastExists
<1>13. first \in start..cut /\ \A j \in first..(cut - 1) : ~IsMessageEntry(log[j])
  BY <1>12
<1> HIDE DEF passed
<1>14. Tokens(log, first..n) <= Tokens(log, cut..n)
  <2>1. first..n \in SUBSET DOMAIN log /\ cut..n \in SUBSET DOMAIN log
    BY <1>1, <1>11, <1>13
  <2>2. Sized(first..n) \subseteq Sized(cut..n)
    BY <1>1, <1>11, <1>13 DEF Sized
  <2> QED BY <1>1, <2>1, <2>2, TokensOf
<1>15. ASSUME NEW j \in Nat, j >= start, \A i \in reached : i < j
       PROVE  Tokens(log, j..n) < keep
  <2>1. \A i \in j..Len(log) : IsMessageEntry(log[i]) => ~(Tokens(log, i..Len(log)) >= keep)
    BY <1>1, <1>15 DEF n
  <2>2. j >= 1
    BY <1>1, <1>15
  <2> QED BY <1>1, <1>7, <2>1, <2>2, LessThanTheBudget DEF n
<1>16. Tokens(log, cut..n) < keep + Max(Sizes)
  <2>0. Tokens(log, cut..n) \in Nat
    <3>1. cut..n \in SUBSET DOMAIN log
      BY <1>1, <1>11
    <3> QED BY <1>4, <3>1
  <2>1. CASE reached = {}
    <3>1. Tokens(log, cut..n) < keep
      BY <1>11, <1>15, <2>1
    <3> QED BY <1>1, <2>0, <3>1
  <2>2. CASE reached # {}
    <3> DEFINE r == Max(reached)
    <3>1. r \in reached /\ \A i \in reached : r >= i
      <4>1. reached \subseteq 1..n
        BY <1>1, <1>3
      <4> HIDE DEF reached
      <4> QED BY <1>1, <2>2, <4>1, GreatestExists
    <3>2. at = {r}
      BY <1>2, <2>2
    <3> HIDE DEF r
    <3>3. r \in start..n /\ r \in 1..n /\ IsMessageEntry(log[r]) /\ Tokens(log, r..n) >= keep
      BY <1>1, <3>1
    <3>4. last >= r
      <4> SUFFICES ASSUME ~(last >= r) PROVE FALSE
        OBVIOUS
      <4>1. last \in 1..n /\ last + 1 <= r
        BY <1>1, <1>3, <1>5, <3>3
      <4>2. /\ r..n \in SUBSET DOMAIN log /\ (last + 1)..n \in SUBSET DOMAIN log
            /\ Sized(r..n) \subseteq Sized((last + 1)..n)
        BY <1>1, <3>3, <4>1 DEF Sized
      <4>3. Tokens(log, r..n) <= Tokens(log, (last + 1)..n)
        BY <1>1, <4>2, TokensOf
      <4>4. Tokens(log, r..n) \in Nat /\ Tokens(log, (last + 1)..n) \in Nat
        BY <1>4, <4>2
      <4> QED BY <1>1, <1>6, <3>3, <4>3, <4>4
    <3>5. cut >= r
      <4>1. last \in after
        BY <1>5, <3>2, <3>4
      <4>2. cut \in after
        BY <1>10, <4>1
      <4> QED BY <3>2, <4>2
    <3>6. \A j \in Nat : j > r => \A i \in reached : i < j
      BY <1>1, <1>3, <3>1, <3>3
    <3> HIDE DEF reached, after
    <3>7. CASE cut > r
      <4>1. Tokens(log, cut..n) < keep
        BY <1>11, <1>15, <3>6, <3>7
      <4> QED BY <1>1, <2>0, <4>1
    <3>8. CASE cut = r
      <4>1. /\ r..n \in SUBSET DOMAIN log /\ r \in Sized(r..n) /\ (r..n) \ {r} = (r + 1)..n
            /\ (r + 1)..n \in SUBSET DOMAIN log
        BY <1>1, <3>3 DEF Sized
      <4>2. Tokens(log, r..n) = log[r].size + Tokens(log, (r + 1)..n)
        BY <1>1, <4>1, TokensOf
      <4>3. Tokens(log, (r + 1)..n) < keep /\ Tokens(log, (r + 1)..n) \in Nat
        BY <1>1, <1>4, <1>15, <3>3, <3>6, <4>1
      <4>4. log[r].size \in Nat /\ log[r].size <= Max(Sizes)
        <5>1. log[r] \in LogEntry /\ log[r].kind \in Messages
          BY <1>1, <3>3, LogType DEF IsMessageEntry
        <5>2. log[r].size \in Sizes
          BY <5>1 DEF LogEntry, Messages, Others
        <5> QED BY <5>2, LargestSize, CompactionAssumption
      <4> QED BY <1>1, <3>8, <4>2, <4>3, <4>4
    <3> QED BY <1>11, <3>3, <3>5, <3>7, <3>8
  <2> QED BY <2>1, <2>2
<1>17. Tokens(log, first..n) \in Nat /\ Tokens(log, cut..n) \in Nat
  <2>1. first..n \in SUBSET DOMAIN log /\ cut..n \in SUBSET DOMAIN log
    BY <1>1, <1>11, <1>13
  <2> QED BY <1>4, <2>1
<1> QED BY <1>1, <1>2, <1>14, <1>16, <1>17

\* After any number of compactions, under any budget, a cut neither parts a tool result from
\* its call nor leaves the budget and one message more, unless what follows the last place
\* to cut alone reaches the budget (findCutPoint, compaction.ts:403-421).
THEOREM CutsAreSound == CompactionSpec => []CutIsSound
<1>1. CutInv => CutIsSound
  BY CutsAreWhole, CutsKeepTheBudget DEF CutIsSound
<1> QED BY <1>1, CutInit, CutStep, PTL DEF CompactionSpec

\* Every size, index and call of the log has its type, under any budget.
THEOREM CompactionTypes == CompactionSpec => []CompactionTypeOK
<1>1. CutInv => CompactionTypeOK
  BY DEF CutInv
<1> QED BY <1>1, CutInit, CutStep, PTL DEF CompactionSpec

-----------------------------------------------------------------------------
(* The session file.  K: the entries it may hold.                             *)

Entries(n) == {e \in SessionEntry : e.id <= n /\ e.parent < e.id}
Kept(n) == Entries(n) \cup {Header}

\* What parses of a file, and the part of it no later line can spoil.
ParsedLines(lines) == Without(lines, {Junk})
WholeLines(d) == IF d.terminated THEN d.lines ELSE Front(d.lines)

Disks(K) == {d \in [exists : BOOLEAN, lines : Seq(K \cup {Junk}), terminated : BOOLEAN] :
               d.terminated \/ d.lines # <<>>}

LEMMA KeptParses ==
  ASSUME NEW n \in Nat
  PROVE  /\ Junk \notin Kept(n) /\ Header \in Kept(n) /\ Header # Junk
         /\ \A e \in Entries(n) : e \in Kept(n) /\ e # Header
         /\ ~Header.assistant /\ ~Junk.assistant
<1>1. Header.id = 0 /\ Junk.id = -1 /\ ~Header.assistant /\ ~Junk.assistant
  BY DEF Header, Junk
<1>2. \A e \in Entries(n) : e.id \in 1..MaxEntries
  BY DEF Entries, SessionEntry
<1>3. \A e \in Entries(n) : e.id # 0 /\ e.id # -1
  BY <1>2
<1>4. Header.id # Junk.id
  BY <1>1
<1> QED BY <1>1, <1>3, <1>4 DEF Kept

LEMMA ParsedLinesType ==
  ASSUME NEW K, Junk \notin K, NEW ls \in Seq(K \cup {Junk})
  PROVE  /\ ParsedLines(ls) \in Seq(K)
         /\ ToSet(ParsedLines(ls)) = ToSet(ls) \ {Junk}
         /\ Once(ls) => Once(ParsedLines(ls))
<1> DEFINE S == K \cup {Junk}
           T == {Junk}
<1>1. S \ T = K
  OBVIOUS
<1>2. ls \in Seq(S)
  OBVIOUS
<1> HIDE DEF S, T
<1>3. Without(ls, T) \in Seq(S \ T) /\ ToSet(Without(ls, T)) = ToSet(ls) \ T
  BY <1>2, WithoutType, WithoutKeeps
<1>4. Once(ls) => Once(Without(ls, T))
  BY <1>2, WithoutOnce
<1>5. Without(ls, T) = ParsedLines(ls)
  BY DEF ParsedLines, T
<1> QED BY <1>1, <1>3, <1>4, <1>5 DEF T

LEMMA ParsedJoin ==
  ASSUME NEW K, Junk \notin K, NEW a \in Seq(K \cup {Junk}), NEW b \in Seq(K \cup {Junk})
  PROVE  ParsedLines(a \o b) = ParsedLines(a) \o ParsedLines(b)
<1> DEFINE S == K \cup {Junk}
           T == {Junk}
<1>1. a \in Seq(S) /\ b \in Seq(S)
  OBVIOUS
<1> HIDE DEF S, T
<1>2. Without(a \o b, T) = Without(a, T) \o Without(b, T)
  BY <1>1, WithoutJoin
<1> QED BY <1>2 DEF ParsedLines, T

LEMMA ParsedAppend ==
  ASSUME NEW K, Junk \notin K, NEW a \in Seq(K \cup {Junk}), NEW e \in K \cup {Junk}
  PROVE  ParsedLines(Append(a, e)) = IF e = Junk THEN ParsedLines(a) ELSE Append(ParsedLines(a), e)
<1> DEFINE S == K \cup {Junk}
           T == {Junk}
<1>1. a \in Seq(S) /\ e \in S /\ (e \in T <=> e = Junk)
  OBVIOUS
<1> HIDE DEF S, T
<1>2. Without(Append(a, e), T) = IF e \in T THEN Without(a, T) ELSE Append(Without(a, T), e)
  BY <1>1, WithoutAppend
<1> QED BY <1>1, <1>2 DEF ParsedLines, T

LEMMA ParsedPlain ==
  ASSUME NEW K, Junk \notin K, NEW b \in Seq(K)
  PROVE  b \in Seq(K \cup {Junk}) /\ ParsedLines(b) = b
<1> DEFINE S == K \cup {Junk}
           T == {Junk}
<1>1. K \subseteq S /\ \A e \in K : e \notin T
  OBVIOUS
<1> HIDE DEF S, T
<1>2. b \in Seq(S)
  BY <1>1, SeqMonotonic
<1>3. \A i \in 1..Len(b) : b[i] \notin T
  BY <1>1, ElementsOf
<1>4. Without(b, T) = b
  BY <1>2, <1>3, WithoutNothing
<1> QED BY <1>2, <1>4 DEF S, T, ParsedLines

LEMMA WholeOf ==
  ASSUME NEW K, Junk \notin K, NEW d \in Disks(K)
  PROVE  /\ WholeLines(d) \in Seq(K \cup {Junk}) /\ d.lines \in Seq(K \cup {Junk})
         /\ ParsedLines(WholeLines(d)) \in Seq(K) /\ ParsedLines(d.lines) \in Seq(K)
         /\ \E x \in Seq(K) : ParsedLines(d.lines) = ParsedLines(WholeLines(d)) \o x
<1> DEFINE S == K \cup {Junk}
<1>1. d.lines \in Seq(S) /\ (d.terminated \/ d.lines # <<>>)
  BY DEF Disks
<1>2. CASE d.terminated
  <2>1. WholeLines(d) = d.lines
    BY <1>2 DEF WholeLines
  <2>2. ParsedLines(d.lines) \in Seq(K)
    BY <1>1, ParsedLinesType
  <2>3. ParsedLines(d.lines) \o <<>> = ParsedLines(d.lines) /\ <<>> \in Seq(K)
    BY <2>2, ConcatEmptySeq, EmptySeq
  <2> QED BY <1>1, <2>1, <2>2, <2>3
<1>3. CASE ~d.terminated
  <2> DEFINE f == Front(d.lines)
             l == Last(d.lines)
  <2>1. f \in Seq(S) /\ l \in S /\ d.lines = Append(f, l) /\ WholeLines(d) = f
    BY <1>1, <1>3, FrontAndLast DEF WholeLines
  <2> HIDE DEF f, l
  <2>2. ParsedLines(f) \in Seq(K) /\ ParsedLines(d.lines) \in Seq(K)
    BY <1>1, <2>1, ParsedLinesType
  <2>3. CASE l = Junk
    <3>1. ParsedLines(d.lines) = ParsedLines(f)
      BY <2>1, <2>3, ParsedAppend
    <3>2. ParsedLines(f) \o <<>> = ParsedLines(f) /\ <<>> \in Seq(K)
      BY <2>2, ConcatEmptySeq, EmptySeq
    <3> QED BY <1>1, <2>1, <2>2, <3>1, <3>2
  <2>4. CASE l \in K
    <3>1. ParsedLines(d.lines) = Append(ParsedLines(f), l)
      BY <2>1, <2>4, ParsedAppend
    <3>2. Append(ParsedLines(f), l) = ParsedLines(f) \o <<l>> /\ <<l>> \in Seq(K)
      BY <2>2, <2>4, AppendIsConcat, OneElement
    <3> QED BY <1>1, <2>1, <2>2, <3>1, <3>2
  <2> QED BY <2>1, <2>3, <2>4
<1> QED BY <1>2, <1>3

\* c is the end of the first k elements of ls.
Piece(c, ls, k) == \E o \in Nat : Len(c) + o = k /\ \A i \in 1..Len(c) : c[i] = ls[i + o]

\* A write of the first k entries of ls leaves what could not be spoiled, or all, and what is new.
Grown(d, lines, ls, k, K) ==
  \E w \in {ParsedLines(d.lines), ParsedLines(WholeLines(d))}, c \in Seq(K) :
    ParsedLines(lines) = w \o c /\ Piece(c, ls, k)

LEMMA PieceIs ==
  ASSUME NEW S, NEW ls \in Seq(S), NEW k \in 0..Len(ls), NEW c \in Seq(S), Piece(c, ls, k)
  PROVE  ToSet(c) \subseteq ToSet(ls) /\ (Once(ls) => Once(c))
<1>1. PICK o \in Nat : Len(c) + o = k /\ \A i \in 1..Len(c) : c[i] = ls[i + o]
  BY DEF Piece
<1>2. /\ Len(c) \in Nat /\ Len(ls) \in Nat
      /\ ToSet(c) = {c[i] : i \in 1..Len(c)} /\ ToSet(ls) = {ls[i] : i \in 1..Len(ls)}
  BY ElementsOf
<1>3. \A i \in 1..Len(c) : i + o \in 1..Len(ls)
  BY <1>1, <1>2
<1>4. ToSet(c) \subseteq ToSet(ls)
  BY <1>1, <1>2, <1>3
<1>5. ASSUME Once(ls) PROVE Once(c)
  <2> SUFFICES ASSUME NEW i \in 1..Len(c), NEW j \in 1..Len(c), c[i] = c[j] PROVE i = j
    BY DEF Once
  <2>1. i + o = j + o
    BY <1>1, <1>3, <1>5 DEF Once
  <2> QED BY <1>1, <1>2, <2>1
<1> QED BY <1>4, <1>5

LEMMA NoPiece == ASSUME NEW ls PROVE Piece(<<>>, ls, 0)
<1>1. Len(<<>>) = 0 /\ 0 \in Nat /\ 0 + 0 = 0
  OBVIOUS
<1> QED BY <1>1 DEF Piece

LEMMA LongerPiece ==
  ASSUME NEW S, NEW ls \in Seq(S), NEW k \in 0..Len(ls), k + 1 \in 0..Len(ls),
         NEW c \in Seq(S), Piece(c, ls, k)
  PROVE  /\ ls[k + 1] \in S /\ Append(c, ls[k + 1]) \in Seq(S)
         /\ Piece(Append(c, ls[k + 1]), ls, k + 1)
<1> DEFINE e == ls[k + 1]
           a == Append(c, e)
<1>1. PICK o \in Nat : Len(c) + o = k /\ \A i \in 1..Len(c) : c[i] = ls[i + o]
  BY DEF Piece
<1>2. e \in S /\ Len(c) \in Nat /\ Len(ls) \in Nat
  BY ElementsOf
<1>3. e = ls[k + 1]
  OBVIOUS
<1> HIDE DEF e
<1>4. /\ a \in Seq(S) /\ Len(a) = Len(c) + 1 /\ \A i \in 1..Len(c) : a[i] = c[i]
      /\ a[Len(c) + 1] = e
  BY <1>2, AppendProperties
<1> HIDE DEF a
<1>5. Len(a) + o = k + 1
  <2>1. Len(a) = Len(c) + 1 /\ Len(c) + o = k /\ Len(c) \in Nat
    BY <1>1, <1>2, <1>4
  <2> QED BY <2>1
<1>6. ASSUME NEW i \in 1..Len(a) PROVE a[i] = ls[i + o]
  <2>1. CASE i = Len(c) + 1
    <3>1. i + o = k + 1
      BY <1>1, <1>2, <2>1
    <3> QED BY <1>3, <1>4, <2>1, <3>1
  <2>2. CASE i # Len(c) + 1
    <3>1. i \in 1..Len(c)
      BY <1>2, <1>4, <2>2
    <3> QED BY <1>1, <1>4, <3>1
  <2> QED BY <2>1, <2>2
<1>7. Piece(a, ls, k + 1)
  BY <1>5, <1>6 DEF Piece
<1> QED BY <1>2, <1>4, <1>7 DEF a, e

LEMMA FirstPieces ==
  ASSUME NEW S, NEW ls \in Seq(S), NEW k \in 1..Len(ls)
  PROVE  LET p == SubSeq(ls, 1, k) IN
         /\ p \in Seq(S) /\ p # <<>> /\ Len(p) = k /\ Piece(p, ls, k)
         /\ Tail(p) \in Seq(S) /\ Piece(Tail(p), ls, k)
<1> DEFINE p == SubSeq(ls, 1, k)
           t == Tail(p)
<1>1. Len(ls) \in Nat /\ \A i \in 1..Len(ls) : ls[i] \in S
  BY ElementsOf
<1>2. p \in Seq(S) /\ Len(p) = k /\ \A i \in 1..k : p[i] = ls[i]
  <2>1. \A i \in 1..k : ls[i] \in S
    BY <1>1
  <2>2. k \in Int /\ 1 \in Int /\ 1 <= k /\ k - 1 + 1 = k /\ \A i \in 1..k : 1 + i - 1 = i
    BY <1>1
  <2>3. /\ SubSeq(ls, 1, k) \in Seq(S)
        /\ Len(SubSeq(ls, 1, k)) = IF 1 <= k THEN k - 1 + 1 ELSE 0
        /\ \A i \in 1..(k - 1 + 1) : SubSeq(ls, 1, k)[i] = ls[1 + i - 1]
    BY <2>1, <2>2, SubSeqProperties
  <2> HIDE DEF p
  <2>4. p = SubSeq(ls, 1, k)
    BY DEF p
  <2> QED BY <2>2, <2>3, <2>4
<1> HIDE DEF p
<1>3. p # <<>>
  <2>1. Len(p) # 0
    BY <1>2
  <2> QED BY <2>1, EmptySeq
<1>4. t \in Seq(S) /\ Len(t) = k - 1 /\ \A i \in 1..Len(t) : t[i] = p[i + 1]
  BY <1>2, <1>3, HeadTailProperties
<1> HIDE DEF t
<1>5. Piece(p, ls, k)
  <2>1. 0 \in Nat /\ Len(p) + 0 = k /\ \A i \in 1..Len(p) : p[i] = ls[i + 0]
    BY <1>2
  <2> QED BY <2>1 DEF Piece
<1>6. Piece(t, ls, k)
  <2>1. Len(t) + 1 = k
    BY <1>4
  <2>2. ASSUME NEW i \in 1..Len(t) PROVE t[i] = ls[i + 1]
    <3>1. i + 1 \in 1..k
      BY <1>4
    <3> QED BY <1>2, <1>4, <3>1
  <2> QED BY <2>1, <2>2 DEF Piece
<1> QED BY <1>2, <1>3, <1>4, <1>5, <1>6 DEF p, t

LEMMA AppendedIs ==
  ASSUME NEW K, Junk \notin K, NEW d \in Disks(K), NEW ls \in Seq(K), NEW k \in 0..Len(ls)
  PROVE  LET a == Appended(d, SubSeq(ls, 1, k)) IN
         /\ a \in Disks(K) /\ Grown(d, a.lines, ls, k, K)
         /\ k = 0 => a = d
         /\ k # 0 => a.exists /\ a.terminated
         /\ d.terminated => ParsedLines(a.lines) = ParsedLines(d.lines) \o SubSeq(ls, 1, k)
<1> DEFINE p == SubSeq(ls, 1, k)
           a == Appended(d, p)
           S == K \cup {Junk}
<1>1. /\ WholeLines(d) \in Seq(S) /\ d.lines \in Seq(S)
      /\ ParsedLines(WholeLines(d)) \in Seq(K) /\ ParsedLines(d.lines) \in Seq(K)
  BY WholeOf
<1>2. CASE k = 0
  <2>1. p = <<>>
    BY <1>2, SubSeqEmpty
  <2>2. a = d
    BY <2>1 DEF Appended
  <2>3. <<>> \in Seq(K) /\ ParsedLines(d.lines) \o <<>> = ParsedLines(d.lines)
    BY <1>1, ConcatEmptySeq, EmptySeq
  <2>4. Grown(d, d.lines, ls, 0, K)
    BY <2>3, NoPiece DEF Grown
  <2> HIDE DEF a, p
  <2> QED BY <1>2, <2>1, <2>2, <2>3, <2>4 DEF a, p
<1>3. CASE k # 0
  <2>1. /\ p \in Seq(K) /\ p # <<>> /\ Piece(p, ls, k)
        /\ Tail(p) \in Seq(K) /\ Piece(Tail(p), ls, k)
    <3>1. k \in 1..Len(ls)
      BY <1>3, ElementsOf
    <3> QED BY <3>1, FirstPieces
  <2>2. a.exists /\ a.terminated
    BY <2>1 DEF Appended
  <2>3. CASE d.terminated
    <3>1. a = [exists |-> TRUE, terminated |-> TRUE, lines |-> d.lines \o p]
      BY <2>1, <2>3 DEF Appended
    <3> HIDE DEF a, p
    <3>2. p \in Seq(S) /\ ParsedLines(p) = p /\ ParsedLines(d.lines \o p) = ParsedLines(d.lines) \o p
      <4>1. p \in Seq(S) /\ ParsedLines(p) = p
        BY <2>1, ParsedPlain
      <4> QED BY <1>1, <4>1, ParsedJoin
    <3>3. d.lines \o p \in Seq(S)
      BY <1>1, <3>2, ConcatProperties
    <3>4. a \in Disks(K)
      BY <3>1, <3>3 DEF Disks
    <3>5. Grown(d, a.lines, ls, k, K)
      BY <2>1, <3>1, <3>2 DEF Grown
    <3>6. ParsedLines(a.lines) = ParsedLines(d.lines) \o p
      BY <3>1, <3>2
    <3> QED BY <1>3, <2>2, <3>4, <3>5, <3>6 DEF a, p
  <2>4. CASE ~d.terminated
    <3> DEFINE f == Front(d.lines)
               g == Append(f, Junk)
               t == Tail(p)
    <3>1. a = [exists |-> TRUE, terminated |-> TRUE, lines |-> f \o <<Junk>> \o t]
      BY <2>1, <2>4 DEF Appended
    <3>2. f = WholeLines(d)
      BY <2>4 DEF WholeLines
    <3> HIDE DEF a, p, f, t
    <3>3. g = f \o <<Junk>> /\ g \in Seq(S) /\ ParsedLines(g) = ParsedLines(f)
      <4>1. Junk \in S /\ f \in Seq(S)
        BY <1>1, <3>2
      <4>2. ParsedLines(Append(f, Junk)) = ParsedLines(f)
        BY <4>1, ParsedAppend
      <4> QED BY <4>1, <4>2, AppendIsConcat, AppendProperties
    <3> HIDE DEF g
    <3>4. t \in Seq(K)
      BY <2>1 DEF t
    <3>5. t \in Seq(S) /\ ParsedLines(t) = t /\ ParsedLines(g \o t) = ParsedLines(g) \o t
      <4>1. t \in Seq(S) /\ ParsedLines(t) = t
        BY <3>4, ParsedPlain
      <4>2. g \in Seq(S)
        BY <3>3
      <4>3. ParsedLines(g \o t) = ParsedLines(g) \o ParsedLines(t)
        BY <4>1, <4>2, ParsedJoin
      <4> QED BY <4>1, <4>3
    <3>6. g \o t \in Seq(S)
      BY <3>3, <3>5, ConcatProperties
    <3>7. a.lines = g \o t
      BY <3>1, <3>3
    <3>8. a \in Disks(K)
      BY <3>1, <3>3, <3>6 DEF Disks
    <3>9. ParsedLines(a.lines) = ParsedLines(WholeLines(d)) \o t
      BY <3>2, <3>3, <3>5, <3>7
    <3>10. Piece(t, ls, k)
      BY <2>1 DEF t
    <3>11. Grown(d, a.lines, ls, k, K)
      BY <3>4, <3>9, <3>10 DEF Grown
    <3> QED BY <1>3, <2>2, <2>4, <3>8, <3>11 DEF a, p
  <2> QED BY <2>3, <2>4
<1> QED BY <1>2, <1>3

LEMMA CutShortIs ==
  ASSUME NEW K, Junk \notin K, NEW d \in Disks(K), NEW ls \in Seq(K), NEW d2 \in CutShort(d, ls)
  PROVE  /\ d2 \in Disks(K) /\ d2.exists
         /\ \E k \in 0..Len(ls) : Grown(d, d2.lines, ls, k, K)
<1> DEFINE S == K \cup {Junk}
           whole(k) == [Appended(d, SubSeq(ls, 1, k)) EXCEPT !.exists = TRUE]
           torn(f, l) == [f EXCEPT !.terminated = FALSE,
                                   !.lines = IF f.terminated THEN Append(@, l)
                                             ELSE Front(@) \o <<Junk>>]
<1>1. Len(ls) \in Nat
  BY ElementsOf
<1>2. PICK k \in 0..(Len(ls) - 1) :
        d2 \in {whole(k), torn(whole(k), Junk), torn(whole(k), ls[k + 1])}
  BY DEF CutShort
<1>3. k \in 0..Len(ls) /\ k + 1 \in 0..Len(ls)
  BY <1>1
<1> DEFINE a == Appended(d, SubSeq(ls, 1, k))
<1>4. /\ a \in Disks(K) /\ Grown(d, a.lines, ls, k, K)
      /\ k = 0 => a = d
      /\ k # 0 => a.terminated
  BY <1>3, AppendedIs
<1>5. d2 \in {[a EXCEPT !.exists = TRUE], torn([a EXCEPT !.exists = TRUE], Junk),
              torn([a EXCEPT !.exists = TRUE], ls[k + 1])}
  BY <1>2
<1> HIDE DEF a, whole
<1>6. /\ a \in [exists : BOOLEAN, lines : Seq(S), terminated : BOOLEAN]
      /\ a.terminated \/ a.lines # <<>>
  BY <1>4 DEF Disks
<1>7. PICK w \in {ParsedLines(d.lines), ParsedLines(WholeLines(d))}, c \in Seq(K) :
        ParsedLines(a.lines) = w \o c /\ Piece(c, ls, k)
  BY <1>4 DEF Grown
<1>8. w \in Seq(K)
  BY <1>7, WholeOf
<1>9. a.lines \in Seq(S)
  BY <1>6
<1>10. CASE d2 = [a EXCEPT !.exists = TRUE]
  <2>1. d2.exists /\ d2.lines = a.lines /\ d2.terminated = a.terminated
        /\ d2 \in [exists : BOOLEAN, lines : Seq(S), terminated : BOOLEAN]
    BY <1>6, <1>10
  <2>2. d2 \in Disks(K)
    BY <1>6, <2>1 DEF Disks
  <2> QED BY <1>3, <1>4, <2>1, <2>2
<1>11. ASSUME a.terminated, NEW l \in S, d2 = torn([a EXCEPT !.exists = TRUE], l)
       PROVE  d2 \in Disks(K) /\ d2.exists /\ d2.lines = Append(a.lines, l)
  <2>1. /\ d2.exists /\ d2.lines = Append(a.lines, l)
        /\ d2 = [exists |-> TRUE, lines |-> Append(a.lines, l), terminated |-> FALSE]
    BY <1>6, <1>11
  <2> DEFINE g == Append(a.lines, l)
  <2>2. g \in Seq(S) /\ g # <<>>
    <3>1. l \in S /\ a.lines \in Seq(S)
      BY <1>9
    <3> HIDE DEF S
    <3> QED BY <3>1, AppendProperties
  <2>3. d2 = [exists |-> TRUE, lines |-> g, terminated |-> FALSE]
    BY <2>1
  <2> HIDE DEF g
  <2>4. d2 \in [exists : BOOLEAN, lines : Seq(S), terminated : BOOLEAN] /\ d2.lines # <<>>
    BY <2>2, <2>3
  <2>5. d2 \in Disks(K)
    BY <2>4 DEF Disks
  <2> QED BY <2>1, <2>5
<1>12. CASE a.terminated /\ d2 = torn([a EXCEPT !.exists = TRUE], Junk)
  <2>1. d2 \in Disks(K) /\ d2.exists /\ d2.lines = Append(a.lines, Junk)
    BY <1>11, <1>12
  <2>2. ParsedLines(d2.lines) = ParsedLines(a.lines)
    BY <1>9, <2>1, ParsedAppend
  <2>3. Grown(d, d2.lines, ls, k, K)
    BY <1>7, <2>2 DEF Grown
  <2> QED BY <1>3, <2>1, <2>3
<1>13. CASE a.terminated /\ d2 = torn([a EXCEPT !.exists = TRUE], ls[k + 1])
  <2> DEFINE e == ls[k + 1]
             ce == Append(c, e)
  <2>1. e \in K /\ ce \in Seq(K) /\ Piece(ce, ls, k + 1)
    BY <1>3, <1>7, LongerPiece
  <2>2. d2 = torn([a EXCEPT !.exists = TRUE], e)
    BY <1>13
  <2>3. d2 \in Disks(K) /\ d2.exists /\ d2.lines = Append(a.lines, e)
    BY <1>11, <1>13, <2>1, <2>2
  <2>4. ce = Append(c, e)
    OBVIOUS
  <2> HIDE DEF e, ce
  <2>5. ParsedLines(d2.lines) = Append(ParsedLines(a.lines), e)
    <3>1. e # Junk /\ e \in S
      BY <2>1
    <3> QED BY <1>9, <2>3, <3>1, ParsedAppend
  <2>6. ParsedLines(d2.lines) = w \o ce
    <3>1. w \o Append(c, e) = Append(w \o c, e)
      BY <1>8, <2>1, AppendToJoin
    <3> QED BY <1>7, <2>4, <2>5, <3>1
  <2>7. Grown(d, d2.lines, ls, k + 1, K)
    BY <1>7, <2>1, <2>6 DEF Grown
  <2> QED BY <1>3, <2>3, <2>7
<1>14. ASSUME ~a.terminated, NEW l, d2 = torn([a EXCEPT !.exists = TRUE], l)
       PROVE  /\ d2 \in Disks(K) /\ d2.exists
              /\ Grown(d, d2.lines, ls, 0, K)
  <2> DEFINE f == Front(d.lines)
             g == Append(f, Junk)
  <2>1. k = 0 /\ a = d
    BY <1>4, <1>14
  <2>2. d2 = [exists |-> TRUE, lines |-> f \o <<Junk>>, terminated |-> FALSE]
    BY <1>6, <1>14, <2>1
  <2>3. f = WholeLines(d)
    BY <1>14, <2>1 DEF WholeLines
  <2> HIDE DEF f
  <2>4. f \in Seq(S) /\ Junk \in S /\ ParsedLines(f) \in Seq(K)
    BY <2>3, WholeOf
  <2>5. g = f \o <<Junk>> /\ g \in Seq(S) /\ g # <<>> /\ ParsedLines(g) = ParsedLines(f)
    <3>1. ParsedLines(Append(f, Junk)) = ParsedLines(f)
      BY <2>4, ParsedAppend
    <3> QED BY <2>4, <3>1, AppendIsConcat, AppendProperties
  <2> HIDE DEF g
  <2>6. d2 \in Disks(K) /\ d2.exists /\ d2.lines = g
    BY <2>2, <2>5 DEF Disks
  <2>7. ParsedLines(f) \o <<>> = ParsedLines(f) /\ <<>> \in Seq(K)
    BY <2>4, ConcatEmptySeq, EmptySeq
  <2>8. Grown(d, g, ls, 0, K)
    BY <2>3, <2>5, <2>7, NoPiece DEF Grown
  <2> QED BY <2>6, <2>8
<1> HIDE DEF torn
<1>15. 0 \in 0..Len(ls)
  BY <1>1
<1> QED BY <1>5, <1>10, <1>12, <1>13, <1>14, <1>15

\* A file that ended well is continued by the first lines of ls.
LEMMA CutShortFrom ==
  ASSUME NEW K, Junk \notin K, NEW d \in Disks(K), d.terminated, NEW ls \in Seq(K),
         NEW d2 \in CutShort(d, ls)
  PROVE  \E k \in 0..Len(ls) : ParsedLines(d2.lines) = ParsedLines(d.lines) \o SubSeq(ls, 1, k)
<1> DEFINE S == K \cup {Junk}
           whole(k) == [Appended(d, SubSeq(ls, 1, k)) EXCEPT !.exists = TRUE]
           torn(f, l) == [f EXCEPT !.terminated = FALSE,
                                   !.lines = IF f.terminated THEN Append(@, l)
                                             ELSE Front(@) \o <<Junk>>]
<1>1. Len(ls) \in Nat /\ ParsedLines(d.lines) \in Seq(K)
  BY ElementsOf, WholeOf
<1>2. PICK k \in 0..(Len(ls) - 1) :
        d2 \in {whole(k), torn(whole(k), Junk), torn(whole(k), ls[k + 1])}
  BY DEF CutShort
<1>3. k \in 0..Len(ls) /\ k + 1 \in 0..Len(ls) /\ k + 1 \in 1..Len(ls)
  BY <1>1
<1> DEFINE p == SubSeq(ls, 1, k)
           a == Appended(d, p)
           e == ls[k + 1]
<1>4. a \in Disks(K) /\ a.terminated /\ ParsedLines(a.lines) = ParsedLines(d.lines) \o p
  <2>1. /\ a \in Disks(K)
        /\ k = 0 => a = d
        /\ k # 0 => a.terminated
        /\ d.terminated => ParsedLines(a.lines) = ParsedLines(d.lines) \o p
    BY <1>3, AppendedIs
  <2> QED BY <2>1
<1>5. d2 \in {[a EXCEPT !.exists = TRUE], torn([a EXCEPT !.exists = TRUE], Junk),
              torn([a EXCEPT !.exists = TRUE], e)}
  BY <1>2
<1>6. p \in Seq(K) /\ e \in K /\ Append(p, e) = SubSeq(ls, 1, k + 1)
  <2> DEFINE q == SubSeq(ls, 1, k + 1)
             u == Append(p, e)
  <2>1. \A i \in 1..Len(ls) : ls[i] \in K
    BY ElementsOf
  <2>2. p \in Seq(K) /\ Len(p) = k /\ \A i \in 1..k : p[i] = ls[i]
    <3>1. \A i \in 1..k : ls[i] \in K
      BY <1>1, <2>1
    <3> QED BY <1>1, <1>3, <3>1
  <2>3. q \in Seq(K) /\ Len(q) = k + 1 /\ \A i \in 1..(k + 1) : q[i] = ls[i]
    <3>1. \A i \in 1..(k + 1) : ls[i] \in K
      BY <1>1, <2>1
    <3> QED BY <1>1, <1>3, <3>1
  <2>4. e \in K /\ e = ls[k + 1]
    BY <1>3, <2>1
  <2> HIDE DEF p, q, e
  <2>5. /\ u \in Seq(K) /\ Len(u) = k + 1 /\ u[k + 1] = e /\ \A i \in 1..k : u[i] = p[i]
    BY <2>2, <2>4, AppendProperties
  <2> HIDE DEF u
  <2>6. ASSUME NEW i \in 1..(k + 1) PROVE u[i] = q[i]
    <3>1. CASE i = k + 1
      BY <2>3, <2>4, <2>5, <3>1
    <3>2. CASE i # k + 1
      <4>1. i \in 1..k
        BY <1>3, <3>2
      <4> QED BY <2>2, <2>3, <2>5, <4>1
    <3> QED BY <3>1, <3>2
  <2>7. u = q
    BY <2>3, <2>5, <2>6, SeqEqual
  <2> QED BY <2>2, <2>4, <2>7 DEF u, q
<1> HIDE DEF a, whole, p, e
<1>7. /\ a \in [exists : BOOLEAN, lines : Seq(S), terminated : BOOLEAN] /\ a.lines \in Seq(S)
      /\ a.terminated
  BY <1>4 DEF Disks
<1>8. d2.lines \in {a.lines, Append(a.lines, Junk), Append(a.lines, e)}
  <2>1. CASE d2 = [a EXCEPT !.exists = TRUE]
    BY <1>7, <2>1
  <2>2. ASSUME NEW l, d2 = torn([a EXCEPT !.exists = TRUE], l) PROVE d2.lines = Append(a.lines, l)
    BY <1>7, <2>2
  <2> HIDE DEF torn
  <2> QED BY <1>5, <2>1, <2>2
<1>9. CASE d2.lines \in {a.lines, Append(a.lines, Junk)}
  <2>1. ParsedLines(d2.lines) = ParsedLines(a.lines)
    BY <1>7, <1>9, ParsedAppend
  <2> QED BY <1>3, <1>4, <2>1 DEF p
<1>10. CASE d2.lines = Append(a.lines, e)
  <2>1. ParsedLines(d2.lines) = Append(ParsedLines(a.lines), e)
    <3>1. e # Junk /\ e \in S
      BY <1>6
    <3> QED BY <1>7, <1>10, <3>1, ParsedAppend
  <2>2. ParsedLines(d2.lines) = ParsedLines(d.lines) \o Append(p, e)
    <3>1. ParsedLines(d.lines) \o Append(p, e) = Append(ParsedLines(d.lines) \o p, e)
      <4> DEFINE v == ParsedLines(d.lines)
      <4>1. v \in Seq(K) /\ p \in Seq(K) /\ e \in K
        BY <1>1, <1>6
      <4> HIDE DEF v
      <4>2. v \o Append(p, e) = Append(v \o p, e)
        BY <4>1, AppendToJoin
      <4> QED BY <4>2 DEF v
    <3> QED BY <1>4, <2>1, <3>1
  <2> QED BY <1>3, <1>6, <2>2
<1> QED BY <1>8, <1>9, <1>10

-----------------------------------------------------------------------------
(* The way from an entry to the root.                                        *)

Rising(p) == \A i, j \in 1..Len(p) : i < j => p[i].id < p[j].id

\* What the walk back over the entries has found, and whom it looks for next.
Walks(n) ==
  {w \in [path : Seq(Entries(n)), next : Nat] :
     Rising(w.path) /\ (w.path # <<>> => w.next < w.path[1].id)}

LEMMA WalkStart ==
  ASSUME NEW n \in Nat, NEW id \in Nat
  PROVE  [path |-> <<>>, next |-> id] \in Walks(n)
<1> DEFINE none == <<>>
<1>1. none \in Seq(Entries(n)) /\ Len(none) = 0 /\ none = <<>>
  BY EmptySeq
<1> HIDE DEF none
<1>2. Rising(none)
  BY <1>1 DEF Rising
<1>3. [path |-> none, next |-> id] \in Walks(n)
  BY <1>1, <1>2 DEF Walks
<1> QED BY <1>3 DEF none

LEMMA WalkFurther ==
  ASSUME NEW n \in Nat, NEW w \in Walks(n), NEW e \in Kept(n),
         w.next # NoEntry, e.id = w.next
  PROVE  [path |-> <<e>> \o w.path, next |-> e.parent] \in Walks(n)
<1> DEFINE p == w.path
           l == <<e>>
           r == l \o p
<1>1. p \in Seq(Entries(n)) /\ w.next \in Nat /\ Rising(p) /\ (p # <<>> => w.next < p[1].id)
  BY DEF Walks
<1>2. e \in Entries(n)
  BY DEF Kept, Header, NoEntry
<1>3. e.id \in Nat /\ e.parent \in Nat /\ e.parent < e.id
  <2>1. MaxEntries \in Nat /\ e.id \in 1..MaxEntries /\ e.parent \in 0..MaxEntries
    BY <1>2, SessionFileAssumption DEF Entries, SessionEntry
  <2> QED BY <1>2, <2>1 DEF Entries
<1>4. l \in Seq(Entries(n)) /\ Len(l) = 1 /\ l[1] = e
  BY <1>2, OneElement
<1> HIDE DEF l, p
<1>5. /\ r \in Seq(Entries(n)) /\ Len(r) = 1 + Len(p) /\ Len(p) \in Nat
      /\ r[1] = e /\ \A i \in 1..Len(p) : r[1 + i] = p[i]
  <2>1. /\ r \in Seq(Entries(n)) /\ Len(r) = Len(l) + Len(p) /\ Len(p) \in Nat
        /\ \A i \in 1..Len(l) : r[i] = l[i]
        /\ \A i \in 1..Len(p) : r[Len(l) + i] = p[i]
    <3> DEFINE E == Entries(n)
    <3>1. l \in Seq(E) /\ p \in Seq(E)
      BY <1>1, <1>4
    <3> HIDE DEF E
    <3>2. Len(p) \in Nat
      BY <3>1, ElementsOf
    <3>3. /\ l \o p \in Seq(E) /\ Len(l \o p) = Len(l) + Len(p)
          /\ \A i \in 1..Len(l) : (l \o p)[i] = l[i]
          /\ \A i \in 1..Len(p) : (l \o p)[Len(l) + i] = p[i]
      BY <3>1, Joined
    <3> QED BY <3>2, <3>3 DEF E
  <2> QED BY <1>4, <2>1
<1> HIDE DEF r
<1>6. \A i \in 1..Len(p) : p[i].id \in Nat
  <2>1. \A i \in 1..Len(p) : p[i] \in Entries(n)
    BY <1>1, ElementsOf
  <2> QED BY <2>1, SessionFileAssumption DEF Entries, SessionEntry
<1>7. ASSUME NEW i \in 1..Len(p) PROVE e.id < p[i].id
  <2>1. p # <<>>
    <3>1. Len(p) # 0
      BY <1>5
    <3> QED BY <3>1, EmptySeq
  <2>2. w.next < p[1].id /\ 1 \in 1..Len(p)
    BY <1>1, <1>5, <2>1
  <2>3. CASE i = 1
    BY <2>2, <2>3
  <2>4. CASE i # 1
    <3>1. p[1].id < p[i].id
      BY <1>1, <2>2, <2>4 DEF Rising
    <3> QED BY <1>3, <1>6, <2>2, <3>1
  <2> QED BY <2>3, <2>4
<1>8. Rising(r)
  <2> SUFFICES ASSUME NEW i \in 1..Len(r), NEW j \in 1..Len(r), i < j PROVE r[i].id < r[j].id
    BY DEF Rising
  <2>1. j - 1 \in 1..Len(p) /\ 1 + (j - 1) = j
    BY <1>5
  <2>2. r[j] = p[j - 1]
    BY <1>5, <2>1
  <2>3. CASE i = 1
    BY <1>5, <1>7, <2>1, <2>2, <2>3
  <2>4. CASE i # 1
    <3>1. i - 1 \in 1..Len(p) /\ 1 + (i - 1) = i /\ i - 1 < j - 1
      BY <1>5, <2>4
    <3>2. r[i] = p[i - 1]
      BY <1>5, <3>1
    <3> QED BY <1>1, <2>1, <2>2, <3>1, <3>2 DEF Rising
  <2> QED BY <2>3, <2>4
<1>9. [path |-> r, next |-> e.parent] \in Walks(n)
  BY <1>3, <1>5, <1>8 DEF Walks
<1> QED BY <1>9 DEF r, l, p

LEMMA PathIs ==
  ASSUME NEW n \in Nat, NEW es \in Seq(Kept(n)), NEW id \in Nat
  PROVE  PathTo(es, id) \in Seq(Entries(n)) /\ Once(PathTo(es, id))
<1> DEFINE m == Len(es)
           V == Walks(n)
           start == [path |-> <<>>, next |-> id]
           entry(i) == es[m - i + 1]
           on(i, w) == IF w.next # NoEntry /\ entry(i).id = w.next
                       THEN [path |-> <<entry(i)>> \o w.path, next |-> entry(i).parent] ELSE w
           next == [p \in (1..m) \X V |-> on(p[1], p[2])]
           walk[i \in 0..Len(es)] ==
             IF i = 0 THEN [path |-> <<>>, next |-> id]
             ELSE LET w == walk[i - 1]
                      e == es[Len(es) - i + 1]
                  IN IF w.next # NoEntry /\ e.id = w.next
                     THEN [path |-> <<e>> \o w.path, next |-> e.parent] ELSE w
<1>1. m \in Nat /\ start \in V
  BY ElementsOf, WalkStart
<1>2. ASSUME NEW i \in 1..m PROVE entry(i) \in Kept(n)
  <2>1. m - i + 1 \in 1..m
    BY <1>1
  <2> QED BY <2>1, ElementsOf
<1>3. next \in [(1..m) \X V -> V]
  <2>1. ASSUME NEW p \in (1..m) \X V PROVE on(p[1], p[2]) \in V
    <3>1. p[1] \in 1..m /\ p[2] \in V
      OBVIOUS
    <3> DEFINE w == p[2]
               e == entry(p[1])
    <3>2. e \in Kept(n)
      BY <1>2, <3>1
    <3>3. CASE w.next # NoEntry /\ e.id = w.next
      <4>1. on(p[1], p[2]) = [path |-> <<e>> \o w.path, next |-> e.parent]
        BY <3>3
      <4> HIDE DEF on, e, w
      <4> QED BY <3>1, <3>2, <3>3, <4>1, WalkFurther DEF w
    <3>4. CASE ~(w.next # NoEntry /\ e.id = w.next)
      BY <3>1, <3>4
    <3> QED BY <3>3, <3>4
  <2> HIDE DEF on, V
  <2> QED BY <2>1
<1>4. \A i \in 1..m : \A w \in V : next[<<i, w>>] = on(i, w)
  OBVIOUS
<1> HIDE DEF next
<1>5. PICK f \in [0..m -> V] : f[0] = start /\ \A i \in 1..m : f[i] = next[<<i, f[i - 1]>>]
  <2> HIDE DEF m, V, start
  <2>1. \E f : Iterates(f, m, V, start, next)
    BY <1>1, <1>3, StepByStep
  <2> QED BY <2>1 DEF Iterates
<1>6. \A i \in 1..m : f[i] = on(i, f[i - 1])
  <2>1. ASSUME NEW i \in 1..m PROVE f[i] = on(i, f[i - 1])
    <3>1. i - 1 \in 0..m /\ f[i - 1] \in V
      <4> HIDE DEF m, V
      <4>1. i - 1 \in 0..m
        BY <1>1
      <4> QED BY <1>5, <4>1
    <3> DEFINE w == f[i - 1]
    <3>2. w \in V /\ f[i] = next[<<i, w>>]
      BY <1>5, <3>1
    <3> HIDE DEF on, V, w
    <3>3. next[<<i, w>>] = on(i, w)
      BY <1>4, <3>2
    <3>4. f[i] = on(i, w)
      BY <3>2, <3>3
    <3> QED BY <3>4 DEF w
  <2> QED BY <2>1
<1> HIDE DEF V, walk
<1>7. f = [i \in 0..m |-> IF i = 0 THEN start ELSE on(i, f[i - 1])]
  <2> DEFINE h == [i \in 0..m |-> IF i = 0 THEN start ELSE on(i, f[i - 1])]
  <2>1. ASSUME NEW i \in 0..m PROVE f[i] = h[i]
    <3> HIDE DEF on, start
    <3>1. CASE i = 0
      BY <1>5, <3>1
    <3>2. CASE i # 0
      <4>1. i \in 1..m
        BY <1>1, <3>2
      <4>2. h[i] = on(i, f[i - 1])
        BY <3>2
      <4> QED BY <1>6, <4>1, <4>2
    <3> QED BY <3>1, <3>2
  <2>2. DOMAIN h = 0..m /\ h = [i \in 0..m |-> h[i]] /\ f = [i \in 0..m |-> f[i]]
    BY <1>5
  <2> HIDE DEF h
  <2>3. f = h
    BY <2>1, <2>2
  <2> QED BY <2>3 DEF h
<1>8. walk = [i \in 0..m |-> IF i = 0 THEN start ELSE on(i, walk[i - 1])]
  BY <1>7 DEF walk
<1>9. PathTo(es, id) = walk[m].path
  BY DEF PathTo, walk
<1> HIDE DEF on, start
<1>10. walk[0] = start /\ \A i \in 1..m : walk[i] = on(i, walk[i - 1])
  <2>1. 0 \in 0..m /\ \A i \in 1..m : i \in 0..m /\ i # 0
    BY <1>1
  <2> HIDE DEF m
  <2> QED BY <1>8, <2>1
<1>11. walk[m] = f[m]
  <2> HIDE DEF m
  <2>1. Alike(walk, f, m)
    BY <1>5, <1>6, <1>10 DEF Alike
  <2> QED BY <1>1, <2>1, AlikeAllAlong
<1>12. f[m] \in Walks(n)
  BY <1>1, <1>5 DEF V
<1> DEFINE p == f[m].path
<1>13. p \in Seq(Entries(n)) /\ Rising(p) /\ PathTo(es, id) = p
  BY <1>9, <1>11, <1>12 DEF Walks
<1> HIDE DEF p
<1>14. Once(p)
  <2> SUFFICES ASSUME NEW i \in 1..Len(p), NEW j \in 1..Len(p), p[i] = p[j], i # j PROVE FALSE
    BY DEF Once
  <2>1. p[i].id \in Nat /\ p[j].id \in Nat /\ p[i].id = p[j].id
    <3>1. p[i] \in Entries(n) /\ p[j] \in Entries(n)
      BY <1>13, ElementsOf
    <3> QED BY <3>1, SessionFileAssumption DEF Entries, SessionEntry
  <2>2. i < j \/ j < i
    OBVIOUS
  <2> QED BY <1>13, <2>1, <2>2 DEF Rising
<1> QED BY <1>13, <1>14

-----------------------------------------------------------------------------
(* What holds of the file and of what a process has of it.                    *)

Headed(s) == s # <<>> => s[1] = Header

Typed(d, es, n, open) ==
  /\ d \in Disks(Kept(n)) /\ es \in Seq(Kept(n))
  /\ ~d.exists => d.lines = <<>>
  /\ open => es # <<>> /\ es[1] = Header

\* What is written is part of the tree; once that is flushed, all of it but what could not
\* be written, and before that nothing of it is promised.
Same(d, es, all, lost) ==
  /\ Headed(ParsedLines(d.lines)) /\ ToSet(ParsedLines(d.lines)) \subseteq ToSet(es)
  /\ HasAssistant(es) /\ ~all => ToSet(es) \subseteq lost
  /\ all => /\ ParsedLines(d.lines) # <<>>
            /\ ToSet(es) \ lost \subseteq ToSet(ParsedLines(d.lines))

\* Nothing is written before the first assistant message, everything with it.
Single(d, es, all, open) ==
  /\ Once(ParsedLines(d.lines))
  /\ open => Once(es) /\ IF all THEN HasAssistant(es) ELSE d.lines = <<>>

FileInv ==
  /\ running \in BOOLEAN /\ entryCount \in Nat /\ leafId \in 0..entryCount
  /\ Typed(disk, fileEntries, entryCount, running)
  /\ unwritten \subseteq Kept(entryCount)
  /\ running /\ ~damaged => Same(disk, fileEntries, flushed, unwritten)
  /\ ~doubled => Single(disk, fileEntries, flushed, running)

-----------------------------------------------------------------------------
LEMMA KeptGrows ==
  ASSUME NEW n \in Nat, NEW m \in Nat, n <= m
  PROVE  /\ Kept(n) \subseteq Kept(m) /\ Disks(Kept(n)) \subseteq Disks(Kept(m))
         /\ Seq(Kept(n)) \subseteq Seq(Kept(m))
<1>1. \A e \in Entries(n) : e.id \in Nat
  BY SessionFileAssumption DEF Entries, SessionEntry
<1>2. Kept(n) \subseteq Kept(m)
  BY <1>1 DEF Kept, Entries
<1>3. \A s \in Seq(Kept(n)) : s \in Seq(Kept(m))
  BY <1>2, SeqMonotonic
<1> DEFINE A == Kept(n) \cup {Junk}
           B == Kept(m) \cup {Junk}
<1>4. A \subseteq B
  BY <1>2
<1>5. ASSUME NEW d \in Disks(Kept(n)) PROVE d \in Disks(Kept(m))
  <2>1. d \in [exists : BOOLEAN, lines : Seq(A), terminated : BOOLEAN]
        /\ (d.terminated \/ d.lines # <<>>)
    BY DEF Disks
  <2> HIDE DEF A, B
  <2>2. d.lines \in Seq(B)
    BY <1>4, <2>1, SeqMonotonic
  <2>3. d \in [exists : BOOLEAN, lines : Seq(B), terminated : BOOLEAN]
    BY <2>1, <2>2
  <2> QED BY <2>1, <2>3 DEF Disks, B
<1> QED BY <1>2, <1>3, <1>5

LEMMA Assistants ==
  ASSUME NEW S, NEW s \in Seq(S)
  PROVE  HasAssistant(s) <=> \E e \in ToSet(s) : e.assistant
<1>1. DOMAIN s = 1..Len(s) /\ ToSet(s) = {s[i] : i \in 1..Len(s)}
  BY ElementsOf
<1> QED BY <1>1 DEF HasAssistant

LEMMA EmptyFile ==
  ASSUME NEW K
  PROVE  /\ NoFile \in Disks(K) /\ ~NoFile.exists /\ NoFile.terminated /\ NoFile.lines = <<>>
         /\ ParsedLines(<<>>) = <<>> /\ Once(<<>>) /\ Headed(<<>>) /\ ToSet(<<>>) = {}
<1> DEFINE none == <<>>
           S == K \cup {Junk}
<1>1. none \in Seq(S) /\ Len(none) = 0 /\ DOMAIN none = {} /\ none = <<>>
  BY EmptySeq
<1>2. ParsedLines(none) = none
  BY WithoutEmpty DEF ParsedLines
<1> HIDE DEF none
<1>3. NoFile = [exists |-> FALSE, lines |-> none, terminated |-> TRUE]
  BY <1>1 DEF NoFile
<1>4. NoFile \in Disks(K)
  BY <1>1, <1>3 DEF Disks
<1>5. Once(none) /\ Headed(none) /\ ToSet(none) = {}
  BY <1>1 DEF Once, Headed, ToSet
<1> QED BY <1>1, <1>2, <1>3, <1>4, <1>5

LEMMA LoadedIs ==
  ASSUME NEW K, Junk \notin K, NEW d \in Disks(K)
  PROVE  /\ Loaded(d.lines) \in Seq(K)
         /\ Loaded(d.lines) # <<>> => Loaded(d.lines) = ParsedLines(d.lines) /\ ParsedLines(d.lines)[1] = Header
         /\ Headed(ParsedLines(d.lines)) => Loaded(d.lines) = ParsedLines(d.lines)
<1>1. ParsedLines(d.lines) \in Seq(K)
  BY WholeOf
<1>2. Loaded(d.lines) = IF ParsedLines(d.lines) = <<>> \/ ParsedLines(d.lines)[1] # Header
                        THEN <<>> ELSE ParsedLines(d.lines)
  BY DEF Loaded, ParsedLines
<1>3. <<>> \in Seq(K)
  BY EmptySeq
<1> QED BY <1>1, <1>2, <1>3 DEF Headed

LEMMA HeadedJoin ==
  ASSUME NEW K, NEW a \in Seq(K), NEW b \in Seq(K), Headed(a), Headed(b)
  PROVE  Headed(a \o b)
<1> DEFINE r == a \o b
<1>1. Len(a) \in Nat /\ (a # <<>> => Len(a) >= 1) /\ \A i \in 1..Len(a) : r[i] = a[i]
  BY ElementsOf, Joined
<1>2. a = <<>> => r = b
  BY ConcatEmptySeq
<1> HIDE DEF r
<1>3. a # <<>> => 1 \in 1..Len(a)
  BY <1>1
<1>4. Headed(r)
  BY <1>1, <1>2, <1>3 DEF Headed
<1> QED BY <1>4 DEF r

\* A write leaves every entry of the file there once.
LEMMA GrownOnce ==
  ASSUME NEW K, Junk \notin K, NEW d \in Disks(K), NEW ls \in Seq(K), NEW k \in 0..Len(ls), NEW lines,
         Grown(d, lines, ls, k, K),
         Once(ParsedLines(d.lines)), Once(ls), ToSet(ParsedLines(d.lines)) \cap ToSet(ls) = {}
  PROVE  Once(ParsedLines(lines))
<1> DEFINE a == ParsedLines(d.lines)
           b == ParsedLines(WholeLines(d))
<1>1. a \in Seq(K) /\ b \in Seq(K) /\ \E x \in Seq(K) : a = b \o x
  BY WholeOf
<1>2. PICK w \in {a, b}, c \in Seq(K) : ParsedLines(lines) = w \o c /\ Piece(c, ls, k)
  BY DEF Grown
<1>3. ToSet(c) \subseteq ToSet(ls) /\ Once(c)
  BY <1>2, PieceIs
<1> HIDE DEF a, b
<1>4. Once(b) /\ ToSet(b) \subseteq ToSet(a)
  <2>1. PICK x \in Seq(K) : a = b \o x
    BY <1>1
  <2>2. Once(b \o x)
    BY <2>1 DEF a
  <2> QED BY <1>1, <2>1, <2>2, OncePart, Joined
<1>5. w \in Seq(K) /\ Once(w) /\ ToSet(w) \cap ToSet(c) = {}
  BY <1>1, <1>2, <1>3, <1>4 DEF a
<1> QED BY <1>2, <1>3, <1>5, OnceJoin

-----------------------------------------------------------------------------
(* What was whole stays.                                                     *)

LEMMA LoadedGrows ==
  ASSUME NEW K, NEW a \in Seq(K), NEW x \in Seq(K), NEW l1, NEW l2,
         ParsedLines(l1) = a, ParsedLines(l2) = a \o x
  PROVE  IsPrefix(Loaded(l1), Loaded(l2))
<1> DEFINE b == a \o x
           n == Len(a)
<1>1. /\ b \in Seq(K) /\ Len(b) = n + Len(x) /\ n \in Nat /\ Len(x) \in Nat
      /\ \A i \in 1..n : b[i] = a[i]
      /\ a # <<>> => n >= 1
  BY ElementsOf, Joined
<1> DEFINE none == <<>>
<1>2. none \in Seq(K) /\ Len(none) = 0
  BY EmptySeq
<1> DEFINE p == Loaded(l1)
           q == Loaded(l2)
<1>3. /\ p = IF a = none \/ a[1] # Header THEN none ELSE a
      /\ q = IF b = none \/ b[1] # Header THEN none ELSE b
  BY DEF Loaded, ParsedLines
<1> HIDE DEF b, p, q, none
<1>4. CASE p = none
  <2>1. q \in Seq(K)
    BY <1>1, <1>2, <1>3
  <2>2. Len(q) \in Nat /\ Len(p) = 0
    BY <1>2, <1>4, <2>1, ElementsOf
  <2>3. SubSeq(p, 1, 0) = <<>> /\ SubSeq(q, 1, 0) = <<>>
    BY SubSeqEmpty
  <2>4. IsPrefix(p, q)
    BY <2>2, <2>3 DEF IsPrefix
  <2> QED BY <2>4 DEF p, q
<1>5. CASE p # none
  <2>1. p = a /\ a # none /\ a[1] = Header
    BY <1>3, <1>5
  <2>2. n >= 1 /\ b[1] = Header
    BY <1>1, <2>1 DEF none
  <2>3. Len(b) # 0
    BY <1>1, <2>2
  <2>4. q = b
    BY <1>2, <1>3, <2>2, <2>3
  <2>5. SubSeq(a, 1, n) = a
    BY SubSeqFull
  <2>6. SubSeq(b, 1, n) = a
    <3> DEFINE r == SubSeq(b, 1, n)
    <3>1. \A i \in 1..n : b[i] \in K
      BY <1>1, ElementsOf
    <3>2. 1 \in Int /\ n \in Int /\ 1 <= n /\ n - 1 + 1 = n /\ \A i \in 1..n : 1 + i - 1 = i
      BY <1>1, <2>2
    <3>3. /\ r \in Seq(K) /\ Len(r) = IF 1 <= n THEN n - 1 + 1 ELSE 0
          /\ \A i \in 1..(n - 1 + 1) : r[i] = b[1 + i - 1]
      BY <3>1, <3>2, SubSeqProperties
    <3> HIDE DEF r
    <3>4. Len(r) = n /\ \A i \in 1..n : r[i] = a[i]
      BY <1>1, <3>2, <3>3
    <3>5. r = a
      BY <3>3, <3>4, SeqEqual
    <3> QED BY <3>5 DEF r
  <2>7. IsPrefix(p, q)
    BY <1>1, <2>1, <2>4, <2>5, <2>6 DEF IsPrefix
  <2> QED BY <2>7 DEF p, q
<1> QED BY <1>4, <1>5

LEMMA GrownKeeps ==
  ASSUME NEW K, Junk \notin K, NEW d \in Disks(K), NEW ls, NEW k, NEW lines, Grown(d, lines, ls, k, K)
  PROVE  IsPrefix(Loaded(WholeLines(d)), Loaded(lines))
<1> DEFINE a == ParsedLines(d.lines)
           b == ParsedLines(WholeLines(d))
<1>1. a \in Seq(K) /\ b \in Seq(K) /\ \E x \in Seq(K) : a = b \o x
  BY WholeOf
<1>2. PICK w \in {a, b}, c \in Seq(K) : ParsedLines(lines) = w \o c
  BY DEF Grown
<1> HIDE DEF a, b
<1>3. \E x \in Seq(K) : ParsedLines(lines) = b \o x
  <2>1. CASE w = b
    BY <1>2, <2>1
  <2>2. CASE w = a
    <3>1. PICK x \in Seq(K) : a = b \o x
      BY <1>1
    <3>2. (b \o x) \o c = b \o (x \o c) /\ x \o c \in Seq(K)
      BY <1>1, ConcatAssociative, ConcatProperties
    <3> QED BY <1>2, <2>2, <3>1, <3>2
  <2> QED BY <1>2, <2>1, <2>2
<1>4. PICK x \in Seq(K) : ParsedLines(lines) = b \o x
  BY <1>3
<1> QED BY <1>1, <1>4, LoadedGrows DEF b

-----------------------------------------------------------------------------
(* The operations.                                                           *)

\* An entry with a new id, after the others.
LEMMA NewEntry ==
  ASSUME NEW n \in Nat, n < MaxEntries, NEW leaf \in 0..n, NEW assistant \in BOOLEAN,
         NEW es \in Seq(Kept(n))
  PROVE  LET e == [id |-> n + 1, assistant |-> assistant, parent |-> leaf]
             r == Append(es, e)
         IN /\ e \in Kept(n + 1) /\ e \notin Kept(n) /\ e # Header /\ Last(r) = e
            /\ r \in Seq(Kept(n + 1)) /\ r # <<>> /\ ToSet(r) = ToSet(es) \cup {e}
            /\ es # <<>> => r[1] = es[1]
            /\ Once(es) => Once(r)
            /\ HasAssistant(r) <=> HasAssistant(es) \/ assistant
<1> DEFINE e == [id |-> n + 1, assistant |-> assistant, parent |-> leaf]
           r == Append(es, e)
           K == Kept(n + 1)
<1>1. e.id = n + 1 /\ e.assistant = assistant
  OBVIOUS
<1>2. e \in K
  <2>1. MaxEntries \in Nat /\ n + 1 \in 1..MaxEntries /\ leaf \in 0..MaxEntries
    BY SessionFileAssumption
  <2>2. e \in SessionEntry
    BY <2>1 DEF SessionEntry
  <2>3. e.id <= n + 1 /\ e.parent < e.id
    OBVIOUS
  <2> QED BY <2>2, <2>3 DEF Kept, Entries
<1>3. e \notin Kept(n) /\ e # Header
  <2>1. Header.id = 0
    BY DEF Header
  <2>2. \A x \in Entries(n) : x.id <= n
    BY DEF Entries
  <2>3. e # Header
    BY <1>1, <2>1
  <2> HIDE DEF e
  <2>4. e \notin Entries(n)
    BY <1>1, <2>2
  <2> QED BY <2>3, <2>4 DEF Kept
<1> HIDE DEF e
<1>4. es \in Seq(K)
  BY KeptGrows
<1>5. Kept(n) \subseteq K
  BY KeptGrows
<1> HIDE DEF K
<1> DEFINE l == <<e>>
<1>6. l \in Seq(K) /\ ToSet(l) = {e} /\ Once(l)
  BY <1>2, OneElement DEF Once
<1>7. /\ r \in Seq(K) /\ r # <<>> /\ Len(r) = Len(es) + 1 /\ r[Len(es) + 1] = e
      /\ \A i \in 1..Len(es) : r[i] = es[i]
      /\ r = es \o l
  BY <1>2, <1>4, AppendProperties, AppendIsConcat
<1> HIDE DEF r, l
<1>8. Last(r) = e
  BY <1>7 DEF Last
<1>9. ToSet(r) = ToSet(es) \cup {e}
  BY <1>4, <1>6, <1>7, Joined
<1>10. es # <<>> => r[1] = es[1]
  <2>1. es # <<>> => 1 \in 1..Len(es)
    BY ElementsOf
  <2> QED BY <1>7, <2>1
<1>11. ToSet(es) \subseteq Kept(n)
  BY ElementsOf
<1>12. Once(es) => Once(r)
  <2>1. ToSet(es) \cap ToSet(l) = {}
    BY <1>3, <1>6, <1>11
  <2> QED BY <1>4, <1>6, <1>7, <2>1, OnceJoin
<1>13. HasAssistant(r) <=> HasAssistant(es) \/ assistant
  <2>1. /\ HasAssistant(r) <=> \E x \in ToSet(r) : x.assistant
        /\ HasAssistant(es) <=> \E x \in ToSet(es) : x.assistant
    BY <1>4, <1>7, Assistants
  <2> QED BY <1>1, <1>9, <2>1
<1> QED BY <1>2, <1>3, <1>7, <1>8, <1>9, <1>10, <1>12, <1>13 DEF e, r, K

\* What _persist writes adds nothing twice, and leaves file and tree the same.
LEMMA WriteKept ==
  ASSUME NEW n \in Nat, NEW d \in Disks(Kept(n)), NEW es \in Seq(Kept(n)),
         NEW m \in Nat, n <= m, NEW e \in Kept(m) \ Kept(n), NEW r \in Seq(Kept(m)),
         r # <<>>, Last(r) = e, ToSet(r) = ToSet(es) \cup {e}
  PROVE  /\ ToWrite(r) \in Seq(Kept(m))
         /\ ~doubled /\ Once(r) /\ Single(d, es, flushed, TRUE)
            => Once(ToWrite(r)) /\ ToSet(ParsedLines(d.lines)) \cap ToSet(ToWrite(r)) = {}
<1> DEFINE K == Kept(m)
           l == <<e>>
           w == ToWrite(r)
<1>1. l \in Seq(K) /\ ToSet(l) = {e} /\ Once(l)
  BY OneElement DEF Once
<1>2. w = IF ~HasAssistant(r) THEN <<>> ELSE IF flushed THEN l ELSE r
  BY DEF ToWrite
<1>3. <<>> \in Seq(K) /\ Once(<<>>) /\ ToSet(<<>>) = {} /\ ParsedLines(<<>>) = <<>>
  BY EmptyFile, EmptySeq
<1> HIDE DEF l, w, K
<1>4. w \in Seq(K)
  BY <1>1, <1>2, <1>3 DEF K
<1>5. ASSUME Once(r), Single(d, es, flushed, TRUE)
      PROVE  Once(w) /\ ToSet(ParsedLines(d.lines)) \cap ToSet(w) = {}
  <2>1. ToSet(ParsedLines(d.lines)) \subseteq Kept(n)
    BY KeptParses, WholeOf, ElementsOf
  <2>2. CASE ~HasAssistant(r)
    BY <1>2, <1>3, <2>2
  <2>3. CASE HasAssistant(r) /\ flushed
    BY <1>1, <1>2, <2>1, <2>3
  <2>4. CASE HasAssistant(r) /\ ~flushed
    <3>1. d.lines = <<>> /\ w = r
      BY <1>2, <1>5, <2>4 DEF Single
    <3> QED BY <1>3, <1>5, <3>1
  <2> QED BY <2>2, <2>3, <2>4
<1> QED BY <1>4, <1>5 DEF w, K

LEMMA SomeElement == ASSUME NEW S, NEW s \in Seq(S), s # <<>> PROVE ToSet(s) # {}
<1>1. Len(s) \in Nat /\ Len(s) >= 1 /\ ToSet(s) = {s[i] : i \in 1..Len(s)}
  BY ElementsOf
<1>2. 1 \in 1..Len(s)
  BY <1>1
<1> QED BY <1>1, <1>2

\* What an append leaves: of a write that succeeds all, of one that fails the first k lines.
LEMMA WriteSame ==
  ASSUME NEW n \in Nat, NEW d \in Disks(Kept(n)), NEW es \in Seq(Kept(n)),
         NEW m \in Nat, n <= m, NEW e \in Kept(m) \ Kept(n), NEW r \in Seq(Kept(m)),
         r # <<>>, Last(r) = e, e # Header, ToSet(r) = ToSet(es) \cup {e},
         es # <<>>, r[1] = Header, HasAssistant(es) => HasAssistant(r), NEW lost,
         Same(d, es, flushed, lost), NEW d2, NEW k \in 0..Len(ToWrite(r)),
         ParsedLines(d2.lines) = ParsedLines(d.lines) \o SubSeq(ToWrite(r), 1, k)
  PROVE  /\ k = Len(ToWrite(r)) => Same(d2, r, HasAssistant(r), lost \ ToSet(ToWrite(r)))
         /\ HasAssistant(r) => Same(d2, r, flushed, lost \cup ToSet(ToWrite(r)))
<1> DEFINE K == Kept(m)
           l == <<e>>
           w == ToWrite(r)
           c == SubSeq(w, 1, k)
           a == ParsedLines(d.lines)
           b == ParsedLines(d2.lines)
<1>1. l \in Seq(K) /\ ToSet(l) = {e} /\ l[1] = e
  BY OneElement
<1>2. w = IF ~HasAssistant(r) THEN <<>> ELSE IF flushed THEN l ELSE r
  BY DEF ToWrite
<1>3. a \in Seq(K) /\ r \in Seq(K)
  <2>1. d \in Disks(K) /\ Junk \notin K
    BY KeptGrows, KeptParses
  <2> HIDE DEF K
  <2> QED BY <2>1, WholeOf DEF K
<1>4. /\ Headed(a) /\ ToSet(a) \subseteq ToSet(es)
      /\ flushed => a # <<>> /\ ToSet(es) \ lost \subseteq ToSet(a)
  BY DEF Same
<1>5. b = a \o c
  OBVIOUS
<1>6. <<>> \in Seq(K) /\ ToSet(<<>>) = {} /\ Headed(<<>>) /\ Len(<<>>) = 0
  BY EmptyFile, EmptySeq
<1> HIDE DEF l, w, a, b, K
<1>7. w \in Seq(K) /\ k \in 0..Len(w)
  BY <1>1, <1>2, <1>3, <1>6 DEF w
<1>8. /\ c \in Seq(K) /\ ToSet(c) \subseteq ToSet(w)
      /\ k = Len(w) => c = w
      /\ Headed(w) => Headed(c)
  <2>1. CASE k = 0
    <3>1. c = <<>>
      BY <2>1, SubSeqEmpty
    <3>2. k = Len(w) => w = <<>>
      BY <1>7, <2>1, EmptySeq
    <3> HIDE DEF c
    <3> QED BY <1>6, <3>1, <3>2
  <2>2. CASE k # 0
    <3>1. k \in 1..Len(w) /\ Len(w) \in Nat
      BY <1>7, <2>2, ElementsOf
    <3>2. c \in Seq(K) /\ Piece(c, w, k)
      BY <1>7, <3>1, FirstPieces
    <3>3. ToSet(c) \subseteq ToSet(w)
      BY <1>7, <3>2, PieceIs
    <3>4. k = Len(w) => c = w
      BY <1>7, SubSeqFull
    <3>5. Headed(w) => c[1] = Header
      <4>1. c[1] = w[1] /\ w # <<>>
        <5>1. \A i \in 1..k : w[i] \in K
          BY <1>7, <3>1, ElementsOf
        <5>2. 1 \in 1..k /\ w # <<>>
          BY <3>1, EmptySeq
        <5> QED BY <3>1, <5>1, <5>2
      <4> QED BY <4>1 DEF Headed
    <3> HIDE DEF c
    <3> QED BY <3>2, <3>3, <3>4, <3>5 DEF Headed
  <2> QED BY <2>1, <2>2
<1> HIDE DEF c
<1>9. ToSet(b) = ToSet(a) \cup ToSet(c)
  BY <1>3, <1>5, <1>8, Joined
<1>10. ToSet(w) \subseteq ToSet(r) /\ ToSet(b) \subseteq ToSet(r)
  <2>1. ToSet(w) \subseteq ToSet(r)
    BY <1>1, <1>2, <1>6
  <2> QED BY <1>4, <1>8, <1>9, <2>1
\* It begins with the header: that is there, or is written first.
<1>11. Headed(b)
  <2>1. CASE a = <<>>
    <3>1. Headed(w)
      <4>1. CASE ~HasAssistant(r)
        BY <1>2, <1>6, <4>1
      <4>2. CASE HasAssistant(r)
        <5>1. w = r
          BY <1>2, <1>4, <2>1, <4>2
        <5> QED BY <5>1 DEF Headed
      <4> QED BY <4>1, <4>2
    <3>2. Headed(c)
      BY <1>8, <3>1
    <3> QED BY <1>3, <1>4, <1>5, <1>8, <3>2, HeadedJoin
  <2>2. CASE a # <<>>
    <3>1. 1 \in 1..Len(a) /\ a[1] = Header
      BY <1>3, <1>4, <2>2, ElementsOf DEF Headed
    <3>2. b[1] = a[1]
      BY <1>3, <1>5, <1>8, <3>1, Joined
    <3> QED BY <3>1, <3>2 DEF Headed
  <2> QED BY <2>1, <2>2
<1>12. a # <<>> \/ c # <<>> => b # <<>>
  <2> HIDE DEF c
  <2>1. a \in Seq(K) /\ c \in Seq(K)
    BY <1>3, <1>8
  <2>2. (a # <<>> => ToSet(a) # {}) /\ (c # <<>> => ToSet(c) # {})
    BY <2>1, SomeElement
  <2> QED BY <1>6, <1>9, <2>2
<1>13. ASSUME k = Len(w) PROVE Same(d2, r, HasAssistant(r), lost \ ToSet(w))
  <2>1. c = w
    BY <1>8, <1>13
  <2>2. CASE ~HasAssistant(r)
    BY <1>10, <1>11, <2>2 DEF Same, b
  <2>3. CASE HasAssistant(r) /\ ~flushed
    <3>1. w = r
      BY <1>2, <2>3
    <3>2. ToSet(r) \subseteq ToSet(b) /\ b # <<>>
      BY <1>9, <1>12, <2>1, <3>1
    <3> QED BY <1>10, <1>11, <2>3, <3>2 DEF Same, b
  <2>4. CASE HasAssistant(r) /\ flushed
    <3>1. w = l
      BY <1>2, <2>4
    <3>2. ToSet(r) \ (lost \ ToSet(w)) \subseteq ToSet(b) /\ b # <<>>
      BY <1>1, <1>4, <1>9, <1>12, <2>1, <2>4, <3>1
    <3> QED BY <1>10, <1>11, <2>4, <3>2 DEF Same, b
  <2> QED BY <2>2, <2>3, <2>4
<1>14. ASSUME HasAssistant(r) PROVE Same(d2, r, flushed, lost \cup ToSet(w))
  <2>1. CASE ~flushed
    <3>1. w = r
      BY <1>2, <1>14, <2>1
    <3> QED BY <1>10, <1>11, <2>1, <3>1 DEF Same, b
  <2>2. CASE flushed
    <3>1. w = l
      BY <1>2, <1>14, <2>2
    <3>2. ToSet(r) \ (lost \cup ToSet(w)) \subseteq ToSet(b) /\ b # <<>>
      BY <1>1, <1>4, <1>9, <1>12, <2>2, <3>1
    <3> QED BY <1>10, <1>11, <2>2, <3>2 DEF Same, b
  <2> QED BY <2>1, <2>2
<1> QED BY <1>13, <1>14 DEF w

LEMMA AppendKeeps ==
  ASSUME FileInv, NEW assistant \in BOOLEAN, AppendEntry(assistant)
  PROVE  /\ FileInv'
         /\ IsPrefix(Loaded(WholeLines(disk)), Loaded(disk'.lines))
<1> DEFINE n == entryCount
           m == entryCount + 1
           e == [id |-> entryCount + 1, assistant |-> assistant, parent |-> leafId]
           r == Append(fileEntries, e)
           w == ToWrite(r)
           K == Kept(m)
<1>1. /\ n \in Nat /\ leafId \in 0..n /\ running = TRUE /\ n < MaxEntries
      /\ unwritten \subseteq Kept(n)
      /\ Typed(disk, fileEntries, n, TRUE)
      /\ ~damaged => Same(disk, fileEntries, flushed, unwritten)
      /\ ~doubled => Single(disk, fileEntries, flushed, TRUE)
  BY DEF FileInv, AppendEntry
<1>2. /\ n' = m
      /\ damaged' = (damaged \/ (~disk.terminated /\ disk' # disk))
      /\ \/ /\ fileEntries' = r /\ leafId' = e.id /\ running' = TRUE
            /\ disk' = Appended(disk, w) /\ unwritten' = unwritten \ ToSet(w)
            /\ flushed' = HasAssistant(r) /\ doubled' = doubled
         \/ /\ w # <<>>
            /\ disk' \in {disk} \cup CutShort(disk, w) /\ unwritten' = unwritten \cup ToSet(w)
            /\ flushed' = flushed
            /\ \/ /\ fileEntries' = r /\ leafId' = e.id /\ running' = TRUE
                  /\ doubled' = (doubled \/ (~flushed /\ disk' # disk))
               \/ /\ running' = FALSE /\ fileEntries' = fileEntries /\ leafId' = leafId
                  /\ doubled' = doubled
  BY DEF AppendEntry, FlushedAfter
<1>3. m \in Nat /\ n <= m /\ e.id = m
  BY <1>1
<1>4. /\ disk \in Disks(Kept(n)) /\ fileEntries \in Seq(Kept(n)) /\ (~disk.exists => disk.lines = <<>>)
      /\ fileEntries # <<>> /\ fileEntries[1] = Header
  BY <1>1 DEF Typed
<1>5. /\ e \in K \ Kept(n) /\ e # Header /\ Last(r) = e
      /\ r \in Seq(K) /\ r # <<>> /\ ToSet(r) = ToSet(fileEntries) \cup {e}
      /\ r[1] = Header
      /\ Once(fileEntries) => Once(r)
      /\ HasAssistant(r) <=> HasAssistant(fileEntries) \/ assistant
  BY <1>1, <1>4, NewEntry
<1>6. Junk \notin K /\ disk \in Disks(K) /\ fileEntries \in Seq(K) /\ Kept(n) \subseteq K
  BY <1>1, <1>3, <1>4, KeptGrows, KeptParses
<1> HIDE DEF e, r
<1>7. w \in Seq(K) /\ (~doubled /\ Once(r) /\ Single(disk, fileEntries, flushed, TRUE)
        => Once(w) /\ ToSet(ParsedLines(disk.lines)) \cap ToSet(w) = {})
  BY <1>1, <1>3, <1>4, <1>5, WriteKept
<1>8. Len(w) \in Nat /\ SubSeq(w, 1, Len(w)) = w /\ SubSeq(w, 1, 0) = <<>> /\ (w = <<>> <=> Len(w) = 0)
  BY <1>7, ElementsOf, SubSeqFull, SubSeqEmpty, EmptySeq
<1>9. w = <<>> <=> ~HasAssistant(r)
  <2>1. <<e>> # <<>>
    BY OneElement
  <2> QED BY <1>5, <2>1 DEF ToWrite
<1>10. ~doubled => Once(r)
  BY <1>1, <1>5 DEF Single
\* What follows from the lines the write has left, as many of them as there are.
<1>11. ASSUME NEW k \in 0..Len(w),
              disk.terminated => ParsedLines(disk'.lines) = ParsedLines(disk.lines) \o SubSeq(w, 1, k),
              disk' = disk => k = 0, ~damaged'
       PROVE  /\ k = Len(w) => Same(disk', r, HasAssistant(r), unwritten \ ToSet(w))
              /\ HasAssistant(r) => Same(disk', r, flushed, unwritten \cup ToSet(w))
  <2>1. Same(disk, fileEntries, flushed, unwritten) /\ (disk.terminated \/ disk' = disk)
    BY <1>1, <1>2, <1>11
  <2>2. ParsedLines(disk'.lines) = ParsedLines(disk.lines) \o SubSeq(w, 1, k)
    <3>1. CASE disk.terminated
      BY <1>11, <3>1
    <3>2. CASE disk' = disk
      <4>1. ParsedLines(disk.lines) \o <<>> = ParsedLines(disk.lines)
        BY <1>6, WholeOf, ConcatEmptySeq
      <4> QED BY <1>8, <1>11, <3>2, <4>1
    <3> QED BY <2>1, <3>1, <3>2
  <2> QED BY <1>1, <1>3, <1>4, <1>5, <1>11, <2>1, <2>2, WriteSame DEF w, K
<1> HIDE DEF w, K
<1>12. ASSUME NEW k \in 0..Len(w), Grown(disk, disk'.lines, w, k, K)
       PROVE  /\ ~doubled => Once(ParsedLines(disk'.lines))
              /\ IsPrefix(Loaded(WholeLines(disk)), Loaded(disk'.lines))
  <2>1. IsPrefix(Loaded(WholeLines(disk)), Loaded(disk'.lines))
    BY <1>6, <1>12, GrownKeeps
  <2>2. ASSUME ~doubled PROVE Once(ParsedLines(disk'.lines))
    <3>1. Once(ParsedLines(disk.lines))
      BY <1>1, <2>2 DEF Single
    <3>2. Once(w) /\ ToSet(ParsedLines(disk.lines)) \cap ToSet(w) = {}
      BY <1>1, <1>7, <1>10, <2>2
    <3> QED BY <1>6, <1>7, <1>12, <3>1, <3>2, GrownOnce
  <2> QED BY <2>1, <2>2
<1>13. ToSet(w) \subseteq K /\ unwritten' \subseteq K
  <2>1. ToSet(w) \subseteq K
    BY <1>7, ElementsOf
  <2> QED BY <1>1, <1>2, <1>6, <2>1
<1>14. 0 \in 0..Len(w) /\ Len(w) \in 0..Len(w)
  BY <1>8
<1>15. CASE /\ fileEntries' = r /\ leafId' = e.id /\ running' = TRUE
            /\ disk' = Appended(disk, w) /\ unwritten' = unwritten \ ToSet(w)
            /\ flushed' = HasAssistant(r) /\ doubled' = doubled
  <2> DEFINE k == Len(w)
             p == SubSeq(w, 1, k)
             a == Appended(disk, p)
  <2>1. disk' = a /\ k \in 0..Len(w)
    BY <1>8, <1>14, <1>15
  <2> HIDE DEF k
  <2>2. /\ a \in Disks(K) /\ Grown(disk, a.lines, w, k, K)
        /\ k = 0 => a = disk
        /\ k # 0 => a.exists /\ a.terminated
        /\ disk.terminated => ParsedLines(a.lines) = ParsedLines(disk.lines) \o p
    <3>1. Junk \notin K /\ disk \in Disks(K) /\ w \in Seq(K) /\ k \in 0..Len(w)
      BY <1>6, <1>7, <2>1
    <3> QED BY <3>1, AppendedIs
  <2> HIDE DEF a
  <2>3. (~doubled => Once(ParsedLines(disk'.lines))) /\ IsPrefix(Loaded(WholeLines(disk)), Loaded(disk'.lines))
    BY <1>12, <2>1, <2>2
  <2>4. Typed(disk', r, m, TRUE)
    BY <1>4, <1>5, <2>1, <2>2 DEF Typed, K
  <2>5. ASSUME ~damaged' PROVE Same(disk', r, HasAssistant(r), unwritten')
    <3>1. k = Len(w)
      BY DEF k
    <3>2. CASE disk.terminated
      <4>1. CASE k = 0
        <5>1. disk' = disk /\ ParsedLines(disk'.lines) = ParsedLines(disk.lines) \o SubSeq(w, 1, k)
          BY <2>1, <2>2, <3>2, <4>1
        <5> QED BY <1>11, <1>15, <2>1, <2>5, <3>1, <4>1, <5>1
      <4>2. CASE k # 0
        <5>1. ParsedLines(disk'.lines) = ParsedLines(disk.lines) \o SubSeq(w, 1, k)
          BY <2>1, <2>2, <3>2
        <5>2. Same(disk, fileEntries, flushed, unwritten)
          BY <1>1, <1>2, <2>5
        <5>3. Same(disk', r, HasAssistant(r), unwritten \ ToSet(w))
          BY <1>1, <1>3, <1>4, <1>5, <2>1, <3>1, <5>1, <5>2, WriteSame DEF w, K
        <5> QED BY <1>15, <5>3
      <4> QED BY <4>1, <4>2
    <3>3. CASE ~disk.terminated
      <4>1. disk' = disk
        BY <1>2, <2>5, <3>3
      <4>2. k = 0
        BY <2>1, <2>2, <3>3, <4>1
      <4> QED BY <1>11, <1>15, <2>1, <2>5, <3>1, <3>3, <4>2
    <3> QED BY <3>2, <3>3
  <2>6. ASSUME ~doubled PROVE Single(disk', r, HasAssistant(r), TRUE)
    <3>1. ASSUME ~HasAssistant(r) PROVE disk'.lines = <<>>
      <4>1. ~HasAssistant(fileEntries) /\ k = 0
        BY <1>5, <1>8, <1>9, <3>1 DEF k
      <4> QED BY <1>1, <2>1, <2>2, <2>6, <4>1 DEF Single
    <3> QED BY <1>10, <2>3, <2>6, <3>1 DEF Single
  <2>7. leafId' \in 0..m
    BY <1>3, <1>15
  <2> HIDE DEF m
  <2>8. FileInv'
    BY <1>2, <1>3, <1>13, <1>15, <2>4, <2>5, <2>6, <2>7 DEF FileInv, K
  <2> QED BY <2>3, <2>8
<1>16. CASE /\ w # <<>>
            /\ disk' \in {disk} \cup CutShort(disk, w) /\ unwritten' = unwritten \cup ToSet(w)
            /\ flushed' = flushed
            /\ \/ /\ fileEntries' = r /\ leafId' = e.id /\ running' = TRUE
                  /\ doubled' = (doubled \/ (~flushed /\ disk' # disk))
               \/ /\ running' = FALSE /\ fileEntries' = fileEntries /\ leafId' = leafId
                  /\ doubled' = doubled
  <2>1. /\ disk' \in Disks(K) /\ (~disk'.exists => disk'.lines = <<>>)
        /\ \E k \in 0..Len(w) : Grown(disk, disk'.lines, w, k, K)
    <3>1. CASE disk' = disk
      <4> DEFINE a == Appended(disk, SubSeq(w, 1, 0))
      <4>1. a = disk /\ Grown(disk, a.lines, w, 0, K)
        BY <1>6, <1>7, <1>14, AppendedIs
      <4> HIDE DEF a
      <4> QED BY <1>4, <1>6, <1>14, <3>1, <4>1
    <3>2. CASE disk' \in CutShort(disk, w)
      BY <1>6, <1>7, <3>2, CutShortIs
    <3> QED BY <1>16, <3>1, <3>2
  <2>2. (~doubled => Once(ParsedLines(disk'.lines))) /\ IsPrefix(Loaded(WholeLines(disk)), Loaded(disk'.lines))
    BY <1>12, <2>1
  <2>3. HasAssistant(r)
    BY <1>9, <1>16 DEF w
  <2>4. CASE /\ fileEntries' = r /\ leafId' = e.id /\ running' = TRUE
             /\ doubled' = (doubled \/ (~flushed /\ disk' # disk))
    <3>1. Typed(disk', r, m, TRUE)
      BY <1>5, <2>1 DEF Typed, K
    <3>2. ASSUME ~damaged' PROVE Same(disk', r, flushed, unwritten')
      <4>1. CASE disk' = disk
        <5>1. ParsedLines(disk.lines) \o <<>> = ParsedLines(disk.lines)
          BY <1>6, WholeOf, ConcatEmptySeq
        <5> QED BY <1>8, <1>11, <1>14, <1>16, <2>3, <3>2, <4>1, <5>1
      <4>2. CASE disk' # disk
        <5>1. disk.terminated /\ disk' \in CutShort(disk, w)
          BY <1>2, <1>16, <3>2, <4>2
        <5>2. PICK k \in 0..Len(w) : ParsedLines(disk'.lines) = ParsedLines(disk.lines) \o SubSeq(w, 1, k)
          BY <1>6, <1>7, <5>1, CutShortFrom
        <5> QED BY <1>11, <1>16, <2>3, <3>2, <4>2, <5>2
      <4> QED BY <4>1, <4>2
    <3>3. ASSUME ~doubled' PROVE Single(disk', r, flushed, TRUE)
      <4>1. ~doubled /\ (flushed \/ disk' = disk) /\ Once(r) /\ Once(ParsedLines(disk'.lines))
        BY <1>10, <2>2, <2>4, <3>3
      <4>2. ~flushed => disk'.lines = <<>>
        BY <1>1, <4>1 DEF Single
      <4> QED BY <2>3, <4>1, <4>2 DEF Single
    <3>4. leafId' \in 0..m
      BY <1>3, <2>4
    <3> HIDE DEF m
    <3>5. FileInv'
      BY <1>2, <1>3, <1>13, <1>16, <2>4, <3>1, <3>2, <3>3, <3>4 DEF FileInv, K
    <3> QED BY <2>2, <3>5
  <2>5. CASE /\ running' = FALSE /\ fileEntries' = fileEntries /\ leafId' = leafId
             /\ doubled' = doubled
    <3>1. Typed(disk', fileEntries, m, FALSE)
      BY <1>6, <2>1 DEF Typed, K
    <3>2. ~doubled => Single(disk', fileEntries, flushed, FALSE)
      BY <2>2 DEF Single
    <3>3. leafId' \in 0..m
      BY <1>1, <2>5
    <3> HIDE DEF m
    <3>4. FileInv'
      BY <1>2, <1>3, <1>13, <1>16, <2>5, <3>1, <3>2, <3>3 DEF FileInv, K
    <3> QED BY <2>2, <3>4
  <2> QED BY <1>16, <2>4, <2>5
<1> QED BY <1>2, <1>15, <1>16

LEMMA SameDisk == ASSUME FileInv PROVE IsPrefix(Loaded(WholeLines(disk)), Loaded(disk.lines))
<1> DEFINE K == Kept(entryCount)
<1>1. disk \in Disks(K) /\ Junk \notin K
  BY KeptParses DEF FileInv, Typed
<1> HIDE DEF K
<1>2. PICK x \in Seq(K) : ParsedLines(disk.lines) = ParsedLines(WholeLines(disk)) \o x
  BY <1>1, WholeOf
<1>3. ParsedLines(WholeLines(disk)) \in Seq(K)
  BY <1>1, WholeOf
<1> QED BY <1>2, <1>3, LoadedGrows

LEMMA MoveLeafKeeps == ASSUME FileInv, NEW id \in 0..MaxEntries, MoveLeaf(id) PROVE FileInv'
<1> DEFINE K == Kept(entryCount)
<1>1. /\ UNCHANGED <<disk, running, fileEntries, flushed, entryCount, unwritten, damaged, doubled>>
      /\ leafId' = id
  BY DEF MoveLeaf
<1>2. fileEntries \in Seq(K) /\ entryCount \in Nat
  BY DEF FileInv, Typed
<1>3. id \in 0..entryCount
  <2>1. CASE id = NoEntry
    BY <1>2, <2>1 DEF NoEntry
  <2>2. ASSUME NEW i \in DOMAIN fileEntries, fileEntries[i].id = id PROVE id \in 0..entryCount
    <3>1. fileEntries[i] \in K
      BY <1>2, ElementsOf
    <3>2. \A e \in K : e.id <= entryCount
      BY <1>2 DEF Kept, Entries, Header
    <3> QED BY <1>2, <2>2, <3>1, <3>2
  <2> QED BY <2>1, <2>2 DEF MoveLeaf
<1> QED BY <1>1, <1>3 DEF FileInv

LEMMA QuitKeeps == ASSUME FileInv, Quit PROVE FileInv'
<1>1. /\ UNCHANGED <<disk, fileEntries, leafId, flushed, entryCount, unwritten, damaged, doubled>>
      /\ running /\ running' = FALSE
  BY DEF Quit
<1>2. Typed(disk, fileEntries, entryCount, FALSE)
  BY DEF FileInv, Typed
<1>3. ~doubled => Single(disk, fileEntries, flushed, FALSE)
  BY DEF FileInv, Single
<1> QED BY <1>1, <1>2, <1>3 DEF FileInv

\* A session manager that takes up entries has a leaf among them, or none.
LEMMA LeafOf ==
  ASSUME NEW n \in Nat, NEW es \in Seq(Kept(n)), Indexed(es)
  PROVE  fileEntries' = es /\ leafId' \in 0..n
<1> DEFINE K == Kept(n)
           T == {Header}
           nodes == Without(es, T)
<1>1. fileEntries' = es /\ leafId' = IF nodes = <<>> THEN NoEntry ELSE Last(nodes).id
  BY DEF Indexed
<1>2. \A e \in K : e.id \in 0..n
  <2>1. \A e \in Entries(n) : e.id \in 0..n
    BY SessionFileAssumption DEF Entries, SessionEntry
  <2> QED BY <2>1 DEF Kept, Header
<1>3. nodes \in Seq(K \ T) /\ K \ T \subseteq K
  BY WithoutType
<1> HIDE DEF nodes, K
<1>4. nodes \in Seq(K)
  BY <1>3, SeqMonotonic
<1>5. nodes # <<>> => Last(nodes) \in K
  BY <1>4, FrontAndLast
<1> QED BY <1>1, <1>2, <1>5 DEF NoEntry

\* A new file with all of es, or none yet.
LEMMA NewFileOf ==
  ASSUME NEW n \in Nat, NEW ls \in Seq(Kept(n))
  PROVE  LET d == Appended(NoFile, ls) IN
         /\ d \in Disks(Kept(n)) /\ ParsedLines(d.lines) = ls
         /\ ls = <<>> => d = NoFile
         /\ ls # <<>> => d.exists
<1> DEFINE K == Kept(n)
           k == Len(ls)
           p == SubSeq(ls, 1, k)
           a == Appended(NoFile, p)
<1>1. Junk \notin K /\ ls \in Seq(K) /\ k \in 0..Len(ls) /\ p = ls /\ (ls = <<>> <=> k = 0)
  BY KeptParses, ElementsOf, SubSeqFull, EmptySeq
<1> HIDE DEF K, k
<1>2. NoFile \in Disks(K) /\ NoFile.terminated /\ ParsedLines(NoFile.lines) = <<>>
  BY EmptyFile
<1>3. /\ a \in Disks(K) /\ (k = 0 => a = NoFile) /\ (k # 0 => a.exists)
      /\ ParsedLines(a.lines) = ParsedLines(NoFile.lines) \o p
  <2>1. /\ a \in Disks(K) /\ (k = 0 => a = NoFile) /\ (k # 0 => a.exists /\ a.terminated)
        /\ NoFile.terminated => ParsedLines(a.lines) = ParsedLines(NoFile.lines) \o p
    <3>1. Junk \notin K /\ ls \in Seq(K) /\ k \in 0..Len(ls) /\ NoFile \in Disks(K)
      BY <1>1, <1>2
    <3> QED BY <3>1, AppendedIs
  <2> QED BY <1>2, <2>1
<1>4. a = Appended(NoFile, ls)
  BY <1>1
<1> HIDE DEF p, a
<1>5. ParsedLines(a.lines) = ls
  BY <1>1, <1>2, <1>3, ConcatEmptySeq
<1> QED BY <1>1, <1>3, <1>4, <1>5 DEF K

\* A new file of which the write failed: what it holds is the beginning of ls.
LEMMA UnfinishedIs ==
  ASSUME NEW n \in Nat, NEW ls \in Seq(Kept(n)), NEW d \in Unfinished(ls)
  PROVE  /\ d \in Disks(Kept(n)) /\ (~d.exists => d.lines = <<>>)
         /\ Headed(ls) => Headed(ParsedLines(d.lines))
         /\ ToSet(ParsedLines(d.lines)) \subseteq ToSet(ls)
         /\ Once(ls) => Once(ParsedLines(d.lines))
<1> DEFINE K == Kept(n)
<1>1. Junk \notin K /\ ls \in Seq(K)
  BY KeptParses
<1> HIDE DEF K
<1>2. /\ NoFile \in Disks(K) /\ NoFile.terminated /\ NoFile.lines = <<>> /\ ParsedLines(<<>>) = <<>>
      /\ Once(<<>>) /\ Headed(<<>>) /\ ToSet(<<>>) = {}
  BY EmptyFile
<1>3. CASE d = NoFile
  BY <1>2, <1>3 DEF K
<1>4. CASE d \in CutShort(NoFile, ls)
  <2>1. d \in Disks(K) /\ d.exists
    BY <1>1, <1>2, <1>4, CutShortIs
  <2>2. PICK k \in 0..Len(ls) : ParsedLines(d.lines) = ParsedLines(NoFile.lines) \o SubSeq(ls, 1, k)
    BY <1>1, <1>2, <1>4, CutShortFrom
  <2> DEFINE p == SubSeq(ls, 1, k)
  <2>3. CASE k = 0
    <3>1. p = <<>>
      BY <2>3, SubSeqEmpty
    <3> HIDE DEF p
    <3>2. <<>> \in Seq(K)
      BY EmptySeq
    <3>3. ParsedLines(d.lines) = <<>>
      BY <1>2, <2>2, <3>1, <3>2, ConcatEmptySeq DEF p
    <3> QED BY <1>2, <2>1, <3>3 DEF K
  <2>4. CASE k # 0
    <3>1. k \in 1..Len(ls) /\ Len(ls) \in Nat
      BY <1>1, <2>4, ElementsOf
    <3>2. p \in Seq(K) /\ Piece(p, ls, k)
      BY <1>1, <3>1, FirstPieces
    <3>3. ToSet(p) \subseteq ToSet(ls) /\ (Once(ls) => Once(p))
      BY <1>1, <3>2, PieceIs
    <3>4. Headed(ls) => Headed(p)
      <4>1. p[1] = ls[1] /\ ls # <<>>
        <5>1. \A i \in 1..k : ls[i] \in K
          BY <1>1, <3>1, ElementsOf
        <5>2. 1 \in 1..k /\ ls # <<>>
          BY <1>1, <3>1, EmptySeq
        <5> QED BY <3>1, <5>1, <5>2
      <4> QED BY <4>1 DEF Headed
    <3> HIDE DEF p
    <3>5. ParsedLines(d.lines) = p
      BY <1>2, <2>2, <3>2, ConcatEmptySeq DEF p
    <3> QED BY <2>1, <3>3, <3>4, <3>5 DEF K
  <2> QED BY <2>3, <2>4
<1> QED BY <1>3, <1>4 DEF Unfinished

LEMMA HeaderAlone ==
  ASSUME NEW n \in Nat
  PROVE  /\ <<Header>> \in Seq(Kept(n)) /\ <<Header>> # <<>> /\ <<Header>>[1] = Header
         /\ Once(<<Header>>) /\ ToSet(<<Header>>) = {Header} /\ Headed(<<Header>>)
         /\ ~HasAssistant(<<Header>>)
<1>1. Header \in Kept(n) /\ ~Header.assistant
  BY KeptParses
<1> DEFINE l == <<Header>>
<1>2. /\ l \in Seq(Kept(n)) /\ l # <<>> /\ l[1] = Header /\ Len(l) = 1 /\ ToSet(l) = {Header}
  BY <1>1, OneElement
<1> HIDE DEF l
<1>3. Once(l) /\ Headed(l)
  BY <1>2 DEF Once, Headed
<1>4. ~HasAssistant(l)
  BY <1>1, <1>2, Assistants
<1> QED BY <1>1, <1>2, <1>3, <1>4 DEF l

\* Where nothing was found, nothing can be lost.
LEMMA NothingToLose ==
  ASSUME FileInv, Loaded(disk.lines) = <<>>, NEW lines, ParsedLines(lines) \in Seq(Kept(entryCount))
  PROVE  IsPrefix(Loaded(WholeLines(disk)), Loaded(lines))
<1> DEFINE K == Kept(entryCount)
           p == Loaded(WholeLines(disk))
           q == Loaded(lines)
           none == <<>>
<1>1. disk \in Disks(K) /\ Junk \notin K
  BY KeptParses DEF FileInv, Typed
<1> HIDE DEF K
<1>2. ParsedLines(WholeLines(disk)) \in Seq(K)
  BY <1>1, WholeOf
<1>3. none \in Seq(K) /\ Len(none) = 0
  BY EmptySeq
<1>4. p \in Seq(K) /\ q \in Seq(K)
  BY <1>2, <1>3 DEF Loaded, ParsedLines, K
<1>5. IsPrefix(p, none)
  BY SameDisk
<1> HIDE DEF p, q, none
<1>6. Len(p) \in Nat /\ Len(q) \in Nat
  BY <1>4, ElementsOf
<1>7. Len(p) = 0
  BY <1>3, <1>5, <1>6 DEF IsPrefix
<1>8. SubSeq(p, 1, 0) = <<>> /\ SubSeq(q, 1, 0) = <<>>
  BY SubSeqEmpty
<1>9. IsPrefix(p, q)
  BY <1>6, <1>7, <1>8 DEF IsPrefix
<1> QED BY <1>9 DEF p, q

LEMMA OpenKeeps ==
  ASSUME FileInv, OpenSession
  PROVE  FileInv' /\ IsPrefix(Loaded(WholeLines(disk)), Loaded(disk'.lines))
<1> DEFINE n == entryCount
           K == Kept(n)
           es == Loaded(disk.lines)
           h == <<Header>>
<1>1. /\ n \in Nat /\ running = FALSE /\ running' = TRUE /\ unwritten' = {}
      /\ Typed(disk, fileEntries, n, FALSE)
      /\ ~doubled => Single(disk, fileEntries, flushed, FALSE)
      /\ entryCount' = n /\ damaged' = damaged
  BY DEF FileInv, OpenSession
<1>2. /\ disk \in Disks(K) /\ Junk \notin K
      /\ ~disk.exists => disk.lines = <<>>
  BY <1>1, KeptParses DEF Typed
<1>3. /\ h \in Seq(K) /\ h # <<>> /\ h[1] = Header /\ Once(h) /\ ToSet(h) = {Header} /\ Headed(h)
      /\ ~HasAssistant(h)
  BY <1>1, HeaderAlone
<1>4. /\ es \in Seq(K)
      /\ es # <<>> => es = ParsedLines(disk.lines) /\ es[1] = Header
  BY <1>2, LoadedIs
<1>5. ParsedLines(<<>>) = <<>> /\ Once(<<>>) /\ ToSet(<<>>) = {} /\ Headed(<<>>)
  BY EmptyFile
<1>6. IsPrefix(Loaded(WholeLines(disk)), Loaded(disk.lines))
  BY SameDisk
<1> HIDE DEF n, K
<1>7. CASE ~disk.exists /\ Indexed(h) /\ flushed' = FALSE /\ UNCHANGED <<disk, doubled>>
  <2>1. fileEntries' = h /\ leafId' \in 0..n /\ disk' = disk /\ doubled' = doubled
    BY <1>1, <1>3, <1>7, LeafOf DEF K
  <2> HIDE DEF h
  <2>2. disk.lines = <<>>
    BY <1>2, <1>7
  <2>3. Typed(disk, h, n, TRUE)
    BY <1>2, <1>3 DEF Typed, K
  <2>4. Same(disk, h, FALSE, {})
    BY <1>3, <1>5, <2>2 DEF Same
  <2>5. Single(disk, h, FALSE, TRUE)
    BY <1>3, <1>5, <2>2 DEF Single
  <2> QED BY <1>1, <1>6, <1>7, <2>1, <2>3, <2>4, <2>5 DEF FileInv
<1>8. CASE /\ disk.exists /\ ~StartsOver(es) /\ Indexed(es) /\ flushed' = TRUE
           /\ disk' = IF outdated THEN Appended(NoFile, es) ELSE disk
           /\ doubled' = (doubled \/ ~HasAssistant(es))
  <2>1. es # <<>> /\ fileEntries' = es /\ leafId' \in 0..n
    BY <1>1, <1>4, <1>8, LeafOf DEF StartsOver, K
  <2>2. es = ParsedLines(disk.lines) /\ es[1] = Header
    BY <1>4, <2>1
  <2> HIDE DEF es
  <2>3. /\ disk' \in Disks(K) /\ disk'.exists /\ ParsedLines(disk'.lines) = es
    BY <1>1, <1>2, <1>4, <1>8, <2>1, <2>2, NewFileOf DEF K
  <2>4. Loaded(disk'.lines) = es
    <3>1. Headed(es)
      BY <2>2 DEF Headed
    <3> QED BY <1>2, <2>3, <3>1, LoadedIs
  <2>5. IsPrefix(Loaded(WholeLines(disk)), Loaded(disk'.lines))
    BY <1>6, <2>4 DEF es
  <2>6. Typed(disk', es, n, TRUE)
    BY <1>4, <2>1, <2>2, <2>3 DEF Typed, K
  <2>7. Same(disk', es, TRUE, {})
    BY <2>1, <2>2, <2>3 DEF Same, Headed
  <2>8. ~doubled' => Single(disk', es, TRUE, TRUE)
    BY <1>1, <1>8, <2>2, <2>3 DEF Single
  <2> QED BY <1>1, <1>8, <2>1, <2>5, <2>6, <2>7, <2>8 DEF FileInv
<1>9. CASE /\ disk.exists /\ StartsOver(es) /\ Indexed(h) /\ flushed' = TRUE
           /\ disk' = Appended(NoFile, h) /\ doubled' = TRUE
  <2>1. es = <<>> /\ fileEntries' = h /\ leafId' \in 0..n
    BY <1>1, <1>3, <1>9, LeafOf DEF StartsOver, K
  <2> HIDE DEF h
  <2>2. disk' \in Disks(K) /\ ParsedLines(disk'.lines) = h /\ disk'.exists
    BY <1>1, <1>3, <1>9, NewFileOf DEF K
  <2>3. Typed(disk', h, n, TRUE)
    BY <1>3, <2>2 DEF Typed, K
  <2>4. Same(disk', h, TRUE, {})
    BY <1>3, <2>2 DEF Same
  <2>5. IsPrefix(Loaded(WholeLines(disk)), Loaded(disk'.lines))
    BY <1>3, <2>1, <2>2, NothingToLose DEF n, K
  <2> QED BY <1>1, <1>9, <2>1, <2>3, <2>4, <2>5 DEF FileInv
<1> QED BY <1>7, <1>8, <1>9 DEF OpenSession

\* A rewrite that fails loses something only if it was the migration of an old file.
LEMMA OpenFailsKeeps ==
  ASSUME FileInv, OpenFails
  PROVE  FileInv' /\ (~outdated => IsPrefix(Loaded(WholeLines(disk)), Loaded(disk'.lines)))
<1> DEFINE n == entryCount
           K == Kept(n)
           es == Loaded(disk.lines)
           h == <<Header>>
           ls == IF StartsOver(es) THEN h ELSE es
<1>1. /\ n \in Nat /\ running = FALSE
      /\ Typed(disk, fileEntries, n, FALSE)
      /\ ~doubled => Single(disk, fileEntries, flushed, FALSE)
      /\ UNCHANGED <<running, fileEntries, leafId, flushed, entryCount, unwritten, damaged, doubled>>
      /\ disk' \in CutShort(NoFile, ls) /\ (StartsOver(es) \/ outdated)
  BY DEF FileInv, OpenFails
<1>2. disk \in Disks(K) /\ Junk \notin K
  BY <1>1, KeptParses DEF Typed
<1>3. es \in Seq(K) /\ (es # <<>> => es = ParsedLines(disk.lines))
  BY <1>2, LoadedIs
<1>4. ls \in Seq(K) /\ (~doubled => Once(ls))
  <2>1. h \in Seq(K) /\ Once(h)
    BY <1>1, HeaderAlone
  <2> HIDE DEF h, es, K, n
  <2> QED BY <1>1, <1>3, <2>1 DEF StartsOver, Single
<1> HIDE DEF ls
<1>5. disk' \in Unfinished(ls)
  BY <1>1 DEF Unfinished
<1>6. disk' \in Disks(K) /\ (~disk'.exists => disk'.lines = <<>>)
      /\ (Once(ls) => Once(ParsedLines(disk'.lines)))
  BY <1>1, <1>4, <1>5, UnfinishedIs
<1>7. ASSUME ~outdated PROVE IsPrefix(Loaded(WholeLines(disk)), Loaded(disk'.lines))
  <2>1. es = <<>>
    BY <1>1, <1>7 DEF StartsOver
  <2>2. ParsedLines(disk'.lines) \in Seq(K)
    BY <1>2, <1>6, WholeOf
  <2> QED BY <2>1, <2>2, NothingToLose
<1> HIDE DEF n, K
<1>8. Typed(disk', fileEntries, n, FALSE)
  BY <1>1, <1>6 DEF Typed, K
<1>9. ~doubled => Single(disk', fileEntries, flushed, FALSE)
  BY <1>4, <1>6 DEF Single
<1>10. FileInv'
  BY <1>1, <1>8, <1>9 DEF FileInv, n
<1> QED BY <1>7, <1>10

LEMMA NewSessionKeeps == ASSUME FileInv, NewSession PROVE FileInv' /\ files' # files
<1> DEFINE n == entryCount
           h == <<Header>>
<1>1. n \in Nat
  BY DEF FileInv
<1>2. /\ h \in Seq(Kept(n)) /\ h # <<>> /\ h[1] = Header /\ Once(h)
      /\ ToSet(h) = {Header} /\ ~HasAssistant(h)
  BY <1>1, HeaderAlone
<1>3. /\ disk' = NoFile /\ running' \in BOOLEAN /\ damaged' = FALSE /\ entryCount' = n
      /\ fileEntries' = h /\ leafId' \in 0..n /\ flushed' = FALSE /\ doubled' = FALSE
      /\ unwritten' = {} /\ files' = files + 1
  BY <1>1, <1>2, LeafOf DEF NewSession, NewFile, FileInv
<1>4. /\ disk' = NoFile /\ disk' \in Disks(Kept(n)) /\ disk'.lines = <<>>
      /\ ParsedLines(<<>>) = <<>> /\ Once(<<>>) /\ ToSet(<<>>) = {} /\ Headed(<<>>)
  BY <1>3, EmptyFile
<1> HIDE DEF n, h
<1>5. Typed(disk', h, n, TRUE) /\ Typed(disk', h, n, FALSE)
  BY <1>2, <1>4 DEF Typed
<1>6. Same(disk', h, FALSE, {}) /\ Single(disk', h, FALSE, TRUE) /\ Single(disk', h, FALSE, FALSE)
  BY <1>2, <1>4 DEF Same, Single
<1>7. FileInv'
  BY <1>1, <1>3, <1>5, <1>6 DEF FileInv
<1>8. files' # files
  BY DEF NewSession, NewFile
<1> QED BY <1>7, <1>8

LEMMA NewFileIs ==
  ASSUME NEW content, NewFile(content)
  PROVE  /\ disk' = content /\ outdated' = FALSE /\ entryCount' = entryCount /\ files' # files
BY DEF NewFile

LEMMA BranchKeeps ==
  ASSUME FileInv, NEW id \in 0..MaxEntries, CreateBranchedSession(id)
  PROVE  FileInv' /\ files' # files
<1> DEFINE n == entryCount
           K == Kept(n)
           h == <<Header>>
           path == PathTo(fileEntries, id)
           es == h \o path
           ls == IF HasAssistant(es) THEN es ELSE <<>>
<1>1. n \in Nat /\ <<>> \in Seq(K) /\ fileEntries \in Seq(K) /\ id \in Nat
  BY EmptySeq, SessionFileAssumption DEF FileInv, Typed
<1>2. /\ h \in Seq(K) /\ Len(h) = 1 /\ h[1] = Header /\ Once(h) /\ ToSet(h) = {Header}
  <2>1. Header \in K
    BY <1>1, KeptParses
  <2> QED BY <1>1, <2>1, HeaderAlone, OneElement
<1>3. path \in Seq(Entries(n)) /\ Once(path)
  BY <1>1, PathIs
<1>4. path \in Seq(K) /\ Header \notin ToSet(path)
  <2>1. Entries(n) \subseteq K /\ Header \notin Entries(n)
    BY <1>1, KeptParses
  <2> HIDE DEF path
  <2> QED BY <1>3, <2>1, SeqMonotonic, ElementsOf
<1>5. /\ entryCount' = n /\ files' # files
      /\ \/ /\ disk' = Appended(NoFile, ls) /\ Indexed(es) /\ flushed' = HasAssistant(es)
            /\ running' = TRUE /\ unwritten' = {} /\ damaged' = FALSE /\ doubled' = FALSE
         \/ /\ ls # <<>> /\ disk' \in Unfinished(ls)
            /\ \/ /\ Indexed(es) /\ running' = TRUE /\ flushed' = flushed
                  /\ unwritten' = ToSet(es) /\ damaged' = flushed /\ doubled' = ~flushed
               \/ /\ running' = FALSE /\ fileEntries' = fileEntries /\ leafId' = leafId
                  /\ flushed' = flushed
                  /\ unwritten' = {} /\ damaged' = FALSE /\ doubled' = FALSE
  <2> DEFINE Done(content) == /\ disk' = content /\ outdated' = FALSE
                              /\ entryCount' = entryCount /\ files' # files
  <2>1. \A content : NewFile(content) => Done(content)
    BY NewFileIs
  <2> DEFINE First == /\ Indexed(es) /\ flushed' = HasAssistant(es)
                      /\ unwritten' = {} /\ damaged' = FALSE /\ doubled' = FALSE
                      /\ running' = running
             Second == /\ Indexed(es) /\ running' = running /\ flushed' = flushed
                       /\ unwritten' = ToSet(es) /\ damaged' = flushed /\ doubled' = ~flushed
             Third == /\ running' = FALSE /\ fileEntries' = fileEntries /\ leafId' = leafId
                      /\ flushed' = flushed
                      /\ unwritten' = {} /\ damaged' = FALSE /\ doubled' = FALSE
  <2>2. /\ running
        /\ \/ NewFile(Appended(NoFile, ls)) /\ First
           \/ /\ ls # <<>> /\ \E content \in Unfinished(ls) : NewFile(content)
              /\ Second \/ Third
    BY DEF CreateBranchedSession
  <2>3. running = TRUE
    BY <2>2 DEF FileInv
  <2> HIDE DEF es, ls
  <2>4. \/ Done(Appended(NoFile, ls)) /\ First
        \/ /\ ls # <<>> /\ \E content \in Unfinished(ls) : Done(content)
           /\ Second \/ Third
    <3> HIDE DEF First, Second, Third, Done
    <3> QED BY <2>1, <2>2
  <2> QED BY <2>3, <2>4
<1>6. files' # files
  BY <1>5
<1>0. leafId \in 0..n
  BY DEF FileInv
<1> HIDE DEF h, path
<1>7. es \in Seq(K) /\ es # <<>> /\ es[1] = Header /\ Once(es)
  <2>1. es \in Seq(K) /\ Len(es) = 1 + Len(path) /\ Len(path) \in Nat
        /\ \A i \in 1..1 : es[i] = h[i]
    BY <1>2, <1>4, Joined, ElementsOf
  <2>2. es # <<>>
    <3>1. Len(es) # 0
      BY <2>1
    <3> HIDE DEF es
    <3> QED BY <3>1, EmptySeq
  <2>3. Once(es)
    BY <1>2, <1>3, <1>4, OnceJoin
  <2>4. es[1] = h[1]
    BY <2>1
  <2> QED BY <1>2, <2>1, <2>2, <2>3, <2>4
<1> HIDE DEF es
<1>8. ls \in Seq(K) /\ (~HasAssistant(es) => ls = <<>>) /\ (HasAssistant(es) => ls = es)
  BY <1>1, <1>7
<1> HIDE DEF ls
<1>9. NoFile.lines = <<>> /\ Once(<<>>) /\ ToSet(<<>>) = {} /\ Headed(<<>>)
  BY EmptyFile
<1>10. Indexed(es) => fileEntries' = es /\ leafId' \in 0..n
  BY <1>1, <1>7, LeafOf DEF K
<1>11. ToSet(es) \subseteq K
  BY <1>7, ElementsOf
<1>12. CASE /\ disk' = Appended(NoFile, ls) /\ Indexed(es) /\ flushed' = HasAssistant(es)
            /\ running' = TRUE /\ unwritten' = {} /\ damaged' = FALSE /\ doubled' = FALSE
  <2>1. /\ disk' \in Disks(K) /\ ParsedLines(disk'.lines) = ls
        /\ ls = <<>> => disk' = NoFile
        /\ ls # <<>> => disk'.exists
    BY <1>1, <1>8, <1>12, NewFileOf DEF K
  <2> HIDE DEF n
  <2>2. Typed(disk', es, n, TRUE)
    BY <1>7, <1>9, <2>1 DEF Typed, K
  <2>3. CASE HasAssistant(es)
    <3>1. Same(disk', es, TRUE, {})
      BY <1>7, <1>8, <2>1, <2>3 DEF Same, Headed
    <3>2. Single(disk', es, TRUE, TRUE)
      BY <1>7, <1>8, <2>1, <2>3 DEF Single
    <3> QED BY <1>1, <1>5, <1>6, <1>10, <1>12, <2>2, <2>3, <3>1, <3>2 DEF FileInv
  <2>4. CASE ~HasAssistant(es)
    <3>1. Same(disk', es, FALSE, {})
      BY <1>8, <1>9, <2>1, <2>4 DEF Same
    <3>2. Single(disk', es, FALSE, TRUE)
      BY <1>7, <1>8, <1>9, <2>1, <2>4 DEF Single
    <3>3. flushed' = FALSE
      BY <1>12, <2>4, Zenon DEF HasAssistant
    <3> QED BY <1>1, <1>5, <1>6, <3>3, <1>10, <1>12, <2>2, <2>4, <3>1, <3>2 DEF FileInv
  <2> QED BY <2>3, <2>4
<1>13. CASE /\ ls # <<>> /\ disk' \in Unfinished(ls)
            /\ \/ /\ Indexed(es) /\ running' = TRUE /\ flushed' = flushed
                  /\ unwritten' = ToSet(es) /\ damaged' = flushed /\ doubled' = ~flushed
               \/ /\ running' = FALSE /\ fileEntries' = fileEntries /\ leafId' = leafId
                  /\ flushed' = flushed
                  /\ unwritten' = {} /\ damaged' = FALSE /\ doubled' = FALSE
  <2>1. HasAssistant(es) /\ ls = es
    BY <1>8, <1>13
  <2>2. /\ disk' \in Disks(K) /\ (~disk'.exists => disk'.lines = <<>>)
        /\ Headed(ParsedLines(disk'.lines)) /\ ToSet(ParsedLines(disk'.lines)) \subseteq ToSet(es)
        /\ Once(ParsedLines(disk'.lines))
    <3>1. Headed(es) /\ disk' \in Unfinished(es)
      BY <1>7, <1>13, <2>1 DEF Headed
    <3> QED BY <1>1, <1>7, <3>1, UnfinishedIs DEF K
  <2> HIDE DEF n
  <2>3. CASE /\ Indexed(es) /\ running' = TRUE /\ flushed' = flushed
             /\ unwritten' = ToSet(es) /\ damaged' = flushed /\ doubled' = ~flushed
    <3>1. Typed(disk', es, n, TRUE)
      BY <1>7, <2>2 DEF Typed, K
    <3>2. ~flushed => Same(disk', es, flushed, ToSet(es))
      BY <2>2 DEF Same
    <3>3. flushed => Single(disk', es, flushed, TRUE)
      BY <1>7, <2>1, <2>2 DEF Single
    <3> QED BY <1>1, <1>5, <1>6, <1>10, <1>11, <2>3, <3>1, <3>2, <3>3 DEF FileInv, K
  <2>4. CASE /\ running' = FALSE /\ fileEntries' = fileEntries /\ leafId' = leafId
             /\ flushed' = flushed
             /\ unwritten' = {} /\ damaged' = FALSE /\ doubled' = FALSE
    <3>1. Typed(disk', fileEntries, n, FALSE)
      BY <1>1, <2>2 DEF Typed, K
    <3>2. Single(disk', fileEntries, flushed, FALSE)
      BY <2>2 DEF Single
    <3> QED BY <1>0, <1>1, <1>5, <1>6, <2>4, <3>1, <3>2 DEF FileInv
  <2> QED BY <1>13, <2>3, <2>4
<1> QED BY <1>5, <1>12, <1>13

LEMMA ForkKeeps == ASSUME FileInv, ForkFrom PROVE FileInv' /\ files' # files
<1> DEFINE n == entryCount
           K == Kept(n)
           es == Loaded(disk.lines)
           h == <<Header>>
           rest == Without(es, {Header})
           nf == h \o rest
<1>1. /\ n \in Nat /\ disk \in Disks(K) /\ Junk \notin K
      /\ ~doubled => Once(ParsedLines(disk.lines))
  BY KeptParses DEF FileInv, Typed, Single
<1>2. /\ es \in Seq(K) /\ es # <<>> /\ es = ParsedLines(disk.lines) /\ files' # files
      /\ running = FALSE /\ fileEntries \in Seq(K) /\ leafId \in 0..n
      /\ damaged' = FALSE /\ unwritten' = {} /\ entryCount' = n
      /\ \/ /\ disk' = Appended(NoFile, nf)
            /\ Indexed(Loaded(disk'.lines)) /\ flushed' = TRUE /\ running' = TRUE
            /\ doubled' = (doubled \/ ~HasAssistant(es))
         \/ /\ disk' \in Unfinished(nf)
            /\ UNCHANGED <<running, fileEntries, leafId, flushed, doubled>>
  <2> DEFINE Done(content) == /\ disk' = content /\ outdated' = FALSE
                              /\ entryCount' = entryCount /\ files' # files
             First == /\ Indexed(Loaded(disk'.lines)) /\ flushed' = TRUE /\ running' = TRUE
                      /\ doubled' = (doubled \/ ~HasAssistant(es))
             Second == UNCHANGED <<running, fileEntries, leafId, flushed, doubled>>
  <2>1. \A content : NewFile(content) => Done(content)
    BY NewFileIs
  <2>2. /\ ~running /\ es # <<>> /\ unwritten' = {} /\ damaged' = FALSE
        /\ \/ NewFile(Appended(NoFile, nf)) /\ First
           \/ (\E content \in Unfinished(nf) : NewFile(content)) /\ Second
    BY DEF ForkFrom
  <2>3. running = FALSE /\ fileEntries \in Seq(K) /\ leafId \in 0..n
    BY <2>2 DEF FileInv, Typed
  <2>4. es \in Seq(K) /\ es = ParsedLines(disk.lines)
    BY <1>1, <2>2, LoadedIs
  <2> HIDE DEF es, nf
  <2>5. \/ Done(Appended(NoFile, nf)) /\ First
        \/ (\E content \in Unfinished(nf) : Done(content)) /\ Second
    <3> HIDE DEF First, Second, Done
    <3> QED BY <2>1, <2>2
  <2> QED BY <2>2, <2>3, <2>4, <2>5
<1>3. files' # files
  BY <1>2
<1>4. /\ h \in Seq(K) /\ Len(h) = 1 /\ h[1] = Header /\ Once(h) /\ ToSet(h) = {Header}
      /\ ~Header.assistant
  <2>1. Header \in K /\ ~Header.assistant
    BY <1>1, KeptParses
  <2> QED BY <1>1, <2>1, HeaderAlone, OneElement
<1> HIDE DEF es, h
<1>5. rest \in Seq(K) /\ ToSet(rest) = ToSet(es) \ {Header} /\ (Once(es) => Once(rest))
  <2>1. rest \in Seq(K \ {Header}) /\ K \ {Header} \subseteq K
    BY <1>2, WithoutType
  <2>2. rest \in Seq(K)
    BY <2>1, SeqMonotonic
  <2>3. ToSet(rest) = ToSet(es) \ {Header} /\ (Once(es) => Once(rest))
    BY <1>2, WithoutKeeps, WithoutOnce
  <2> QED BY <2>2, <2>3
<1> HIDE DEF rest
<1>6. /\ nf \in Seq(K) /\ nf # <<>> /\ nf[1] = Header /\ ToSet(nf) = {Header} \cup ToSet(rest)
      /\ Once(rest) => Once(nf)
  <2>1. /\ nf \in Seq(K) /\ Len(nf) = 1 + Len(rest) /\ Len(rest) \in Nat
        /\ \A i \in 1..1 : nf[i] = h[i]
        /\ ToSet(nf) = ToSet(h) \cup ToSet(rest)
    <3>1. h \in Seq(K) /\ rest \in Seq(K)
      BY <1>4, <1>5
    <3>2. Len(rest) \in Nat
      BY <3>1, ElementsOf
    <3>3. /\ h \o rest \in Seq(K) /\ Len(h \o rest) = Len(h) + Len(rest)
          /\ \A i \in 1..Len(h) : (h \o rest)[i] = h[i]
          /\ ToSet(h \o rest) = ToSet(h) \cup ToSet(rest)
      BY <3>1, Joined
    <3> QED BY <1>4, <3>2, <3>3
  <2>2. nf # <<>>
    <3>1. Len(nf) # 0
      BY <2>1
    <3> HIDE DEF nf
    <3> QED BY <3>1, EmptySeq
  <2>3. Once(rest) => Once(nf)
    BY <1>4, <1>5, OnceJoin
  <2>4. nf[1] = h[1]
    BY <2>1
  <2> QED BY <1>4, <2>1, <2>2, <2>3, <2>4
<1> HIDE DEF nf
<1>7. CASE /\ disk' = Appended(NoFile, nf)
           /\ Indexed(Loaded(disk'.lines)) /\ flushed' = TRUE /\ running' = TRUE
           /\ doubled' = (doubled \/ ~HasAssistant(es))
  <2>1. disk' \in Disks(K) /\ ParsedLines(disk'.lines) = nf /\ disk'.exists
    BY <1>1, <1>6, <1>7, NewFileOf DEF K
  <2>2. Loaded(disk'.lines) = nf
    <3>1. Headed(nf)
      BY <1>6 DEF Headed
    <3> QED BY <1>1, <2>1, <3>1, LoadedIs
  <2>3. fileEntries' = nf /\ leafId' \in 0..n
    BY <1>1, <1>6, <1>7, <2>2, LeafOf DEF K
  <2> HIDE DEF n
  <2>4. Typed(disk', nf, n, TRUE)
    BY <1>6, <2>1 DEF Typed, K
  <2>5. Same(disk', nf, TRUE, {})
    BY <1>6, <2>1 DEF Same, Headed
  <2>6. ASSUME ~doubled' PROVE Single(disk', nf, TRUE, TRUE)
    <3>1. ~doubled /\ HasAssistant(es)
      BY <1>7, <2>6
    <3>2. Once(nf)
      BY <1>1, <1>2, <1>5, <1>6, <3>1
    <3>3. HasAssistant(nf)
      <4>1. PICK e \in ToSet(es) : e.assistant
        BY <1>2, <3>1, Assistants
      <4>2. e \in ToSet(nf)
        BY <1>4, <1>5, <1>6, <4>1
      <4> QED BY <1>6, <4>1, <4>2, Assistants
    <3> QED BY <2>1, <3>2, <3>3 DEF Single
  <2> QED BY <1>1, <1>2, <1>3, <1>7, <2>3, <2>4, <2>5, <2>6 DEF FileInv
<1>8. CASE /\ disk' \in Unfinished(nf)
           /\ UNCHANGED <<running, fileEntries, leafId, flushed, doubled>>
  <2>1. /\ disk' \in Disks(K) /\ (~disk'.exists => disk'.lines = <<>>)
        /\ Once(nf) => Once(ParsedLines(disk'.lines))
    BY <1>1, <1>6, <1>8, UnfinishedIs DEF K
  <2> HIDE DEF n
  <2>2. Typed(disk', fileEntries, n, FALSE)
    BY <1>2, <2>1 DEF Typed, K
  <2>3. ~doubled => Single(disk', fileEntries, flushed, FALSE)
    BY <1>1, <1>2, <1>5, <1>6, <2>1 DEF Single
  <2> QED BY <1>1, <1>2, <1>3, <1>8, <2>2, <2>3 DEF FileInv
<1> QED BY <1>2, <1>7, <1>8

-----------------------------------------------------------------------------
LEMMA OldFileIs ==
  ASSUME NEW n \in 1..MaxEntries
  PROVE  /\ n \in Nat /\ OldFile(n) \in Disks(Kept(n)) /\ OldFile(n).exists
         /\ Once(ParsedLines(OldFile(n).lines))
<1> DEFINE K == Kept(n)
           f == [i \in 1..n |-> [id |-> i, assistant |-> i % 2 = 0, parent |-> i - 1]]
           h == <<Header>>
           ls == h \o f
<1>1. n \in Nat /\ MaxEntries \in Nat
  BY SessionFileAssumption
<1>2. Junk \notin K /\ Entries(n) \subseteq K /\ Header \notin Entries(n)
  BY <1>1, KeptParses
<1>3. h \in Seq(K) /\ Once(h) /\ ToSet(h) = {Header}
  BY <1>1, HeaderAlone
<1>4. ASSUME NEW i \in 1..n PROVE f[i] \in Entries(n) /\ f[i].id = i
  <2>1. f[i] = [id |-> i, assistant |-> i % 2 = 0, parent |-> i - 1]
    OBVIOUS
  <2>2. i \in 1..MaxEntries /\ i - 1 \in 0..MaxEntries /\ (i % 2 = 0) \in BOOLEAN
    BY <1>1
  <2> HIDE DEF f
  <2>3. f[i] \in SessionEntry
    BY <2>1, <2>2 DEF SessionEntry
  <2>4. f[i].id = i /\ f[i].parent = i - 1
    BY <2>1
  <2> QED BY <2>3, <2>4 DEF Entries
<1>5. f \in Seq(Entries(n)) /\ Len(f) = n
  <2>1. f \in [1..n -> Entries(n)]
    BY <1>4
  <2> HIDE DEF f
  <2> QED BY <1>1, <2>1
<1> HIDE DEF f, h
<1>6. f \in Seq(K) /\ Once(f) /\ Header \notin ToSet(f)
  <2>1. f \in Seq(K)
    BY <1>2, <1>5, SeqMonotonic
  <2>2. Once(f)
    BY <1>4, <1>5 DEF Once
  <2>3. ToSet(f) \subseteq Entries(n)
    BY <1>5, ElementsOf
  <2> QED BY <1>2, <2>1, <2>2, <2>3
<1>7. ls \in Seq(K) /\ Once(ls)
  <2>1. ToSet(h) \cap ToSet(f) = {}
    BY <1>3, <1>6
  <2> HIDE DEF K
  <2> QED BY <1>3, <1>6, <2>1, OnceJoin, ConcatProperties
<1>8. OldFile(n) = [exists |-> TRUE, terminated |-> TRUE, lines |-> ls]
  BY DEF OldFile, h, f
<1> HIDE DEF K, ls
<1>9. ls \in Seq(K \cup {Junk}) /\ ParsedLines(ls) = ls
  BY <1>2, <1>7, ParsedPlain
<1>10. OldFile(n) \in Disks(K) /\ OldFile(n).exists /\ OldFile(n).lines = ls
  BY <1>8, <1>9 DEF Disks
<1> QED BY <1>1, <1>7, <1>9, <1>10 DEF K

LEMMA FileInitially == ASSUME SessionFileInit PROVE FileInv
<1>1. /\ running = FALSE /\ fileEntries = <<>> /\ leafId = 0 /\ unwritten = {}
      /\ \/ disk = NoFile /\ entryCount = 0
         \/ entryCount \in 1..MaxEntries /\ disk = OldFile(entryCount)
  BY DEF SessionFileInit, NoEntry
<1>2. /\ entryCount \in Nat /\ disk \in Disks(Kept(entryCount)) /\ (~disk.exists => disk.lines = <<>>)
      /\ Once(ParsedLines(disk.lines))
  <2>1. CASE disk = NoFile /\ entryCount = 0
    BY <2>1, EmptyFile
  <2>2. CASE entryCount \in 1..MaxEntries /\ disk = OldFile(entryCount)
    BY <2>2, OldFileIs
  <2> QED BY <1>1, <2>1, <2>2
<1>3. <<>> \in Seq(Kept(entryCount)) /\ 0 \in 0..entryCount
  BY <1>2, EmptySeq
<1>4. Typed(disk, <<>>, entryCount, FALSE) /\ Single(disk, <<>>, flushed, FALSE)
  BY <1>2, <1>3 DEF Typed, Single
<1> QED BY <1>1, <1>2, <1>3, <1>4 DEF FileInv

\* Every step keeps the invariant and, of the same file, what was whole in it.
LEMMA FileStep ==
  ASSUME FileInv, [SessionFileNext]_sessionFileVars
  PROVE  /\ FileInv'
         /\ files' = files /\ ~(OpenFails /\ outdated)
              => IsPrefix(Loaded(WholeLines(disk)), Loaded(disk'.lines))
<1>1. ASSUME disk' = disk PROVE IsPrefix(Loaded(WholeLines(disk)), Loaded(disk'.lines))
  BY <1>1, SameDisk
<1>2. CASE UNCHANGED sessionFileVars
  <2>1. UNCHANGED <<disk, running, fileEntries, leafId, flushed, entryCount, unwritten, damaged,
                    doubled>>
    BY <1>2 DEF sessionFileVars
  <2> QED BY <1>1, <2>1 DEF FileInv
<1>3. ASSUME NEW assistant \in BOOLEAN, AppendEntry(assistant)
      PROVE  FileInv' /\ IsPrefix(Loaded(WholeLines(disk)), Loaded(disk'.lines))
  BY <1>3, AppendKeeps
<1>4. ASSUME NEW id \in 0..MaxEntries, MoveLeaf(id) PROVE FileInv' /\ disk' = disk
  <2>1. disk' = disk
    BY <1>4 DEF MoveLeaf
  <2> QED BY <1>4, <2>1, MoveLeafKeeps
<1>5. ASSUME NEW id \in 0..MaxEntries, CreateBranchedSession(id) PROVE FileInv' /\ files' # files
  BY <1>5, BranchKeeps
<1>6. CASE Quit
  <2>1. disk' = disk
    BY <1>6 DEF Quit
  <2> QED BY <1>1, <1>6, <2>1, QuitKeeps
<1>7. CASE OpenSession
  BY <1>7, OpenKeeps
<1>8. CASE NewSession
  BY <1>8, NewSessionKeeps
<1>10. CASE OpenFails
  BY <1>10, OpenFailsKeeps
<1>9. CASE ForkFrom
  BY <1>9, ForkKeeps
<1> QED BY <1>1, <1>2, <1>3, <1>4, <1>5, <1>6, <1>7, <1>8, <1>9, <1>10 DEF SessionFileNext

LEMMA FileShows == ASSUME FileInv PROVE DiskHasTheTree /\ WrittenOnce
<1> DEFINE K == Kept(entryCount)
           es == Loaded(disk.lines)
<1>1. disk \in Disks(K) /\ Junk \notin K
  BY KeptParses DEF FileInv, Typed
<1> HIDE DEF K
<1>2. /\ es \in Seq(K)
      /\ es # <<>> => es = ParsedLines(disk.lines)
      /\ Headed(ParsedLines(disk.lines)) => es = ParsedLines(disk.lines)
  BY <1>1, LoadedIs
<1>3. DiskHasTheTree
  <2> SUFFICES ASSUME running, HasAssistant(fileEntries), ~damaged
               PROVE  /\ ToSet(fileEntries) \ unwritten \subseteq ToSet(Loaded(disk.lines))
                      /\ ToSet(Loaded(disk.lines)) \subseteq ToSet(fileEntries)
    BY DEF DiskHasTheTree
  <2>1. Same(disk, fileEntries, flushed, unwritten)
    BY DEF FileInv
  <2> QED BY <1>2, <2>1 DEF Same
<1>4. WrittenOnce
  <2> SUFFICES ASSUME ~doubled, NEW i \in DOMAIN es, NEW j \in DOMAIN es, es[i] = es[j]
               PROVE  i = j
    BY DEF WrittenOnce
  <2>1. Once(ParsedLines(disk.lines))
    BY DEF FileInv, Single
  <2> HIDE DEF es
  <2>2. DOMAIN es = 1..Len(es) /\ Len(es) \in Nat
    BY <1>2, ElementsOf
  <2>3. es # <<>>
    <3>1. es = <<>> => Len(es) = 0
      OBVIOUS
    <3> QED BY <2>2, <3>1
  <2> QED BY <1>2, <2>1, <2>2, <2>3 DEF Once
<1> QED BY <1>3, <1>4

\* From its first assistant message on the file has the whole tree, every entry once, and what
\* it has it keeps: for any number of entries, branches, forks, deaths in the middle of a write
\* and writes that fail, whether the file was new or of an older version (_persist,
\* setSessionFile, createBranchedSession, forkFrom); with the exceptions of SessionFileKept.
THEOREM SessionFileIsKept == SessionFileSpec => SessionFileKept
<1>1. SessionFileSpec => []FileInv
  BY FileInitially, FileStep, PTL DEF SessionFileSpec
<1>2. FileInv => DiskHasTheTree /\ WrittenOnce
  BY FileShows
<1>3. ASSUME FileInv, [SessionFileNext]_sessionFileVars
      PROVE  [files' = files /\ ~(OpenFails /\ outdated) =>
                LET whole == IF disk.terminated THEN disk.lines ELSE Front(disk.lines)
                IN IsPrefix(Loaded(whole), Loaded(disk'.lines))]_sessionFileVars
  BY <1>3, FileStep DEF WholeLines
<1> QED BY <1>1, <1>2, <1>3, PTL DEF SessionFileSpec, SessionFileKept, LogOnlyGrows

-----------------------------------------------------------------------------
(* The types of the session file.                                             *)

\* What FileInv leaves out.
FileBounds ==
  /\ outdated \in BOOLEAN
  /\ flushed \in BOOLEAN /\ damaged \in BOOLEAN /\ doubled \in BOOLEAN
  /\ entryCount \in 0..MaxEntries /\ deaths \in 0..MaxDeaths /\ files \in 1..MaxFiles

LEMMA BoundsKept == ASSUME FileBounds, [SessionFileNext]_sessionFileVars PROVE FileBounds'
<1>1. /\ entryCount \in 0..MaxEntries /\ deaths \in 0..MaxDeaths /\ files \in 1..MaxFiles
      /\ flushed \in BOOLEAN /\ damaged \in BOOLEAN /\ doubled \in BOOLEAN /\ outdated \in BOOLEAN
      /\ MaxEntries \in Nat /\ MaxDeaths \in Nat /\ MaxFiles \in Nat \ {0}
  BY SessionFileAssumption DEF FileBounds
<1>2. CASE SessionFileNext
  <2>1. /\ entryCount' \in 0..MaxEntries /\ deaths' \in 0..MaxDeaths /\ files' \in 1..MaxFiles
    <3> DEFINE Counts ==
          /\ entryCount' = entryCount \/ (entryCount < MaxEntries /\ entryCount' = entryCount + 1)
          /\ deaths' = deaths \/ (deaths < MaxDeaths /\ deaths' = deaths + 1)
          /\ files' = files \/ (files < MaxFiles /\ files' = files + 1)
    <3>1. ASSUME NEW assistant \in BOOLEAN, AppendEntry(assistant) PROVE Counts
      BY <3>1 DEF AppendEntry, DiskError
    <3>2. ASSUME NEW id \in 0..MaxEntries, MoveLeaf(id) PROVE Counts
      BY <3>2 DEF MoveLeaf
    <3>3. ASSUME NEW id \in 0..MaxEntries, CreateBranchedSession(id) PROVE Counts
      BY <3>3 DEF CreateBranchedSession, NewFile, DiskError
    <3>4. ASSUME Quit \/ NewSession PROVE Counts
      BY <3>4 DEF Quit, NewSession, NewFile
    <3>5. ASSUME OpenSession \/ OpenFails PROVE Counts
      BY <3>5 DEF OpenSession, OpenFails, DiskError
    <3>6. ASSUME ForkFrom PROVE Counts
      BY <3>6 DEF ForkFrom, NewFile, DiskError
    <3>7. Counts
      BY <1>2, <3>1, <3>2, <3>3, <3>4, <3>5, <3>6 DEF SessionFileNext
    <3> QED BY <1>1, <3>7
  <2>2. /\ flushed' \in BOOLEAN /\ damaged' \in BOOLEAN /\ doubled' \in BOOLEAN
        /\ outdated' \in BOOLEAN
    <3>1. ASSUME NEW assistant \in BOOLEAN, AppendEntry(assistant) PROVE <2>2
      BY <1>1, <3>1 DEF AppendEntry, FlushedAfter, HasAssistant
    <3>2. ASSUME NEW id \in 0..MaxEntries, MoveLeaf(id) PROVE <2>2
      BY <1>1, <3>2 DEF MoveLeaf
    <3>3. ASSUME NEW id \in 0..MaxEntries, CreateBranchedSession(id) PROVE <2>2
      BY <1>1, <3>3 DEF CreateBranchedSession, NewFile, HasAssistant
    <3>4. CASE Quit \/ NewSession
      BY <1>1, <3>4 DEF Quit, NewSession, NewFile
    <3>5. CASE OpenSession \/ OpenFails
      BY <1>1, <3>5 DEF OpenSession, OpenFails, HasAssistant
    <3>6. CASE ForkFrom
      BY <1>1, <3>6 DEF ForkFrom, NewFile, HasAssistant
    <3> QED BY <1>2, <3>1, <3>2, <3>3, <3>4, <3>5, <3>6 DEF SessionFileNext
  <2> QED BY <2>1, <2>2 DEF FileBounds
<1>3. CASE UNCHANGED sessionFileVars
  BY <1>3 DEF sessionFileVars, FileBounds
<1> QED BY <1>2, <1>3

\* The file, torn or not, and what a process has of it hold entries and the header only,
\* and the leaf is among them.
THEOREM SessionFileTypes == SessionFileSpec => []SessionFileTypeOK
<1>1. FileInv /\ FileBounds => SessionFileTypeOK
  <2> SUFFICES ASSUME FileInv, FileBounds PROVE SessionFileTypeOK
    OBVIOUS
  <2>1. Kept(entryCount) \subseteq SessionEntry \cup {Header}
    BY DEF Kept, Entries
  <2>2. Seq(Kept(entryCount)) \subseteq Seq(SessionEntry \cup {Header})
    BY <2>1
  <2>3. Seq(Kept(entryCount) \cup {Junk}) \subseteq Seq(Line)
    BY <2>1 DEF Line
  <2>4. /\ disk \in [exists : BOOLEAN, lines : Seq(Line), terminated : BOOLEAN]
        /\ ~disk.terminated => disk.lines # <<>>
    BY <2>3 DEF FileInv, Typed, Disks
  <2>5. leafId \in 0..MaxEntries
    BY SessionFileAssumption DEF FileInv, FileBounds
  <2>6. unwritten \subseteq SessionEntry \cup {Header}
    BY <2>1 DEF FileInv
  <2> QED BY <2>2, <2>4, <2>5, <2>6 DEF FileInv, FileBounds, Typed, SessionFileTypeOK
<1>2. SessionFileInit => FileBounds
  <2>1. 0 \in 0..MaxEntries /\ 0 \in 0..MaxDeaths /\ 1 \in 1..MaxFiles
    BY SessionFileAssumption
  <2>2. SessionFileInit => /\ outdated \in BOOLEAN
                           /\ flushed \in BOOLEAN /\ damaged \in BOOLEAN /\ doubled \in BOOLEAN
    BY DEF SessionFileInit
  <2>3. SessionFileInit => entryCount \in 0..MaxEntries
    BY <2>1, SessionFileAssumption DEF SessionFileInit
  <2>4. SessionFileInit => deaths = 0 /\ files = 1
    BY DEF SessionFileInit
  <2> HIDE DEF SessionFileInit
  <2> QED BY <2>1, <2>2, <2>3, <2>4 DEF FileBounds
<1>3. SessionFileSpec => []FileInv
  BY FileInitially, FileStep, PTL DEF SessionFileSpec
<1>4. FileBounds /\ [SessionFileNext]_sessionFileVars => FileBounds'
  BY BoundsKept
<1> QED BY <1>1, <1>2, <1>3, <1>4, PTL DEF SessionFileSpec
=============================================================================
