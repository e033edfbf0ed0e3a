------------------------------ MODULE MCServices -----------------------------
(***************************************************************************)
(* Instances for TLC of the components that share no state with each other:   *)
(* a behaviour is one of theirs, chosen in its first state, while the others   *)
(* keep their initial values.                                                  *)
(***************************************************************************)
EXTENDS ProviderStream, FileMutationQueue, SessionFile, AuthStorage, Settings, Compaction,
        MomEvents, SessionRuntime, MomChannel

VARIABLE part

MCRemarks == { [kind |-> "ask", words |-> "hello"], [kind |-> "ask", words |-> "thanks"],
               [kind |-> "chat", words |-> "hello"], [kind |-> "stop", words |-> "stop"] }

ServicesInit ==
  /\ part \in {"stream", "mutation", "session", "auth", "settings", "compaction", "mom",
             "runtime", "channel"}
  /\ StreamInit /\ MutationInit /\ SessionFileInit /\ AuthInit
  /\ SettingsInit /\ CompactionInit /\ MomInit
  /\ RuntimeInit /\ SlackInit
  /\ part # "session" => ~outdated
  /\ part # "auth" => authFile = NoFileYet /\ ~authSymlink
  /\ part # "runtime" => byClient = [c \in Commands |-> TRUE]
  /\ part # "settings" => settingsFile = NoSettingsFile

ServicesNext ==
  /\ UNCHANGED part
  /\ \/ /\ part = "stream" /\ StreamNext
        /\ UNCHANGED <<mutationVars, sessionFileVars, authVars, settingsVars, compactionVars,
                       momVars, allRuntimeVars, channelVars>>
     \/ /\ part = "mutation" /\ MutationNext
        /\ UNCHANGED <<streamVars, sessionFileVars, authVars, settingsVars, compactionVars,
                       momVars, allRuntimeVars, channelVars>>
     \/ /\ part = "session" /\ SessionFileNext
        /\ UNCHANGED <<streamVars, mutationVars, authVars, settingsVars, compactionVars,
                       momVars, allRuntimeVars, channelVars>>
     \/ /\ part = "auth" /\ AuthNext
        /\ UNCHANGED <<streamVars, mutationVars, sessionFileVars, settingsVars, compactionVars,
                       momVars, allRuntimeVars, channelVars>>
     \/ /\ part = "settings" /\ SettingsNext
        /\ UNCHANGED <<streamVars, mutationVars, sessionFileVars, authVars, compactionVars,
                       momVars, allRuntimeVars, channelVars>>
     \/ /\ part = "compaction" /\ CompactionNext
        /\ UNCHANGED <<streamVars, mutationVars, sessionFileVars, authVars, settingsVars,
                       momVars, allRuntimeVars, channelVars>>
     \/ /\ part = "mom" /\ MomNext
        /\ UNCHANGED <<streamVars, mutationVars, sessionFileVars, authVars, settingsVars,
                       compactionVars, allRuntimeVars, channelVars>>
     \/ /\ part = "runtime" /\ RuntimeNext
        /\ UNCHANGED <<streamVars, mutationVars, sessionFileVars, authVars, settingsVars,
                       compactionVars, momVars, channelVars>>
     \/ /\ part = "channel" /\ SlackNext
        /\ UNCHANGED <<streamVars, mutationVars, sessionFileVars, authVars, settingsVars,
                       compactionVars, momVars, allRuntimeVars>>

servicesVars == <<part, streamVars, mutationVars, sessionFileVars, authVars, settingsVars,
                  compactionVars, momVars, allRuntimeVars, channelVars>>

\* The fairness of each part is asked of the behaviours of that part.
ServicesSpec ==
  /\ ServicesInit /\ [][ServicesNext]_servicesVars
  /\ WF_streamVars(part = "stream" /\ Forward) /\ WF_streamVars(part = "stream" /\ LoopReads)
  /\ \A c \in Mutations : WF_mutationVars(part = "mutation" /\ (Enter(c) \/ BodyStep(c)))
  /\ WF_momVars(part = "mom" /\ MomStep) /\ WF_momVars(part = "mom" /\ StartFsWatcher)
  /\ WF_channelVars(part = "channel" /\ RunStep)
  /\ WF_channelVars(part = "channel" /\ RecoveryEnds)

\* Every variable of the part under way has its type; those of the others stay as they were.
ServicesTypeOK ==
  CASE part = "stream"     -> StreamTypeOK
    [] part = "mutation"   -> MutationTypeOK
    [] part = "session"    -> SessionFileTypeOK
    [] part = "auth"       -> AuthTypeOK
    [] part = "settings"   -> SettingsTypeOK
    [] part = "compaction" -> CompactionTypeOK
    [] part = "mom"        -> MomTypeOK
    [] part = "runtime"    -> RuntimeTypeOK
    [] part = "channel"    -> ChannelTypeOK
=============================================================================
