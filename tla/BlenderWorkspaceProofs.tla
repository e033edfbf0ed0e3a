----------------------- MODULE BlenderWorkspaceProofs -----------------------
(***************************************************************************)
(* Theorems about the workspace tools, for any finite set of calls, any     *)
(* kinds and scripts and any number of deaths: types however the calls of a *)
(* batch are run, the rest for calls that run one at a time.                *)
(***************************************************************************)
EXTENDS BlenderWorkspace, FiniteSetTheorems, TLAPS

ManifestType == [latest : Nat, views : SUBSET Calls, renders : SUBSET Calls,
                 status : {"missing", "torn", "ok"}]

\* TypeOK but for the highest iteration there can be.
Types ==
  /\ manifest \in ManifestType /\ blend \subseteq Calls /\ requests \subseteq Calls
  /\ rootScript \in Scripts
  /\ archive \in [Iterations -> Scripts \cup {NoScript}]
  /\ pc \in [Calls -> {"new", "reading", "creating", "copying", "submitting", "waiting",
                       "committing", "writing", "ok", "failed"}]
  /\ kind \in [Calls -> Kinds] /\ copy \in [Calls -> ManifestType]
  /\ answer \in [Calls -> {"none", "ok", "exit1", "error"}]
  /\ sent \in [Calls -> Scripts \cup {NoScript}]
  /\ ran \in [Calls -> Scripts \cup {NoScript}] /\ crashes \in 0..MaxCrashes

\* What each kind of call is doing, and what it has heard from Blender.
Stages ==
  \A c \in Calls :
    /\ pc[c] = "creating" => kind[c] = "init"
    /\ pc[c] \in {"copying", "submitting"} => kind[c] = "execute"
    /\ pc[c] = "waiting" => kind[c] # "init"
    /\ pc[c] \in {"new", "reading", "creating", "copying", "submitting"} =>
         c \notin requests /\ answer[c] = "none"
    /\ c \in requests =>
         kind[c] = "execute" /\ pc[c] \in {"waiting", "failed"} /\ answer[c] = "none"
    /\ kind[c] = "execute" /\ pc[c] \in {"committing", "writing", "ok"} => answer[c] = "ok"

Executed == {c \in Calls : kind[c] = "execute" /\ pc[c] = "ok"}

\* The manifest, and every copy of it, counts no more iterations than were finished.
Counts ==
  /\ manifest.latest <= Cardinality(Executed)
  /\ \A c \in Calls : copy[c].latest <= Cardinality(Executed)

TypeInv == Types /\ Stages /\ Counts

LEMMA InitStages == Init => Stages
  BY DEF Init, Stages

LEMMA StagesStep == Types /\ Stages /\ [Next]_vars => Stages'
 <1> SUFFICES ASSUME Types, Stages, [Next]_vars PROVE Stages'
   OBVIOUS
 <1> USE WorkspaceAssumption DEF Stages, InProgress, Types, ManifestType
 <1>1. ASSUME NEW c \in Calls, Begin(c) PROVE Stages'
   BY <1>1 DEF Begin, fileVars, ghostVars
 <1>2. ASSUME NEW c \in Calls, ReadManifest(c) PROVE Stages'
   BY <1>2 DEF ReadManifest, fileVars, ghostVars, AfterReading
 <1>3. ASSUME NEW c \in Calls, CreateBlend(c) PROVE Stages'
   BY <1>3 DEF CreateBlend, ghostVars
 <1>4. ASSUME NEW c \in Calls, ArchiveScript(c) PROVE Stages'
   BY <1>4 DEF ArchiveScript
 <1>5. ASSUME NEW c \in Calls, SubmitExecution(c) PROVE Stages'
   BY <1>5 DEF SubmitExecution, ghostVars
 <1>6. ASSUME NEW c \in Calls, TimeOut(c) PROVE Stages'
   BY <1>6 DEF TimeOut, ghostVars
 <1>7. ASSUME NEW c \in Calls, AbortCall(c) PROVE Stages'
   BY <1>7 DEF AbortCall, fileVars, ghostVars
 <1>8. ASSUME NEW c \in Calls, NEW succeeded \in BOOLEAN, TakeAnswer(c, succeeded)
      PROVE  Stages'
   BY <1>8 DEF TakeAnswer, fileVars, ghostVars
 <1>9. ASSUME NEW c \in Calls, NEW a \in {"ok", "exit1", "error"}, BlenderRuns(c, a)
      PROVE  Stages'
   BY <1>9 DEF BlenderRuns
 <1>10. ASSUME NEW c \in Calls, TruncateManifest(c) PROVE Stages'
   BY <1>10 DEF TruncateManifest, ghostVars
 <1>11. ASSUME NEW c \in Calls, FillManifest(c) PROVE Stages'
   BY <1>11 DEF FillManifest, ghostVars
 <1>12. ASSUME NEW s \in Scripts, EditScript(s) PROVE Stages'
   BY <1>12 DEF EditScript, callVars, ghostVars
 <1>13. ASSUME AgentDies PROVE Stages'
   BY <1>13 DEF AgentDies, fileVars
 <1>14. CASE UNCHANGED vars
   BY <1>14 DEF vars, fileVars, callVars, ghostVars
 <1> HIDE DEF Stages, InProgress, Types, ManifestType
 <1> QED
   BY <1>1, <1>2, <1>3, <1>4, <1>5, <1>6, <1>7, <1>8, <1>9, <1>10, <1>11, <1>12, <1>13,
      <1>14
   DEF Next

\* As long as an execution is not finished there is a folder left for it.
LEMMA RoomLeft ==
  ASSUME IsFiniteSet(Calls), Types, Counts, NEW c \in Calls, c \notin Executed
  PROVE  Iteration(c) \in Iterations
 <1>1. Executed \subseteq Calls \ {c}
   BY DEF Executed
 <1>2. IsFiniteSet(Calls \ {c}) /\ Cardinality(Calls \ {c}) = Cardinality(Calls) - 1
   BY FS_RemoveElement
 <1>3. /\ Cardinality(Executed) <= Cardinality(Calls \ {c})
       /\ Cardinality(Executed) \in Nat /\ Cardinality(Calls) \in Nat
   BY <1>1, <1>2, FS_Subset, FS_CardinalityType
 <1>4. copy[c].latest \in Nat /\ copy[c].latest <= Cardinality(Executed)
   BY DEF Types, ManifestType, Counts
 <1> QED BY <1>2, <1>3, <1>4 DEF Iteration, Iterations

\* A finished execution stays finished.
LEMMA ExecutedGrows ==
  ASSUME IsFiniteSet(Calls), Types, Stages, [Next]_vars
  PROVE  /\ Cardinality(Executed) \in Nat /\ Cardinality(Executed') \in Nat
         /\ Cardinality(Executed) <= Cardinality(Executed')
 <1>1. Executed' \subseteq Calls
   BY DEF Executed
 <1>2. Executed \subseteq Executed'
   <2> SUFFICES ASSUME NEW d \in Calls, kind[d] = "execute", pc[d] = "ok"
                PROVE  kind'[d] = "execute" /\ pc'[d] = "ok"
     BY DEF Executed
 <2> USE DEF InProgress, Types, ManifestType
   <2>1. ASSUME NEW c \in Calls, Begin(c) PROVE kind'[d] = "execute" /\ pc'[d] = "ok"
     BY <2>1 DEF Begin, fileVars, ghostVars
   <2>2. ASSUME NEW c \in Calls, ReadManifest(c) PROVE kind'[d] = "execute" /\ pc'[d] = "ok"
     BY <2>2 DEF ReadManifest, fileVars, ghostVars
   <2>3. ASSUME NEW c \in Calls, CreateBlend(c) PROVE kind'[d] = "execute" /\ pc'[d] = "ok"
     BY <2>3 DEF CreateBlend, ghostVars
   <2>4. ASSUME NEW c \in Calls, ArchiveScript(c) PROVE kind'[d] = "execute" /\ pc'[d] = "ok"
     BY <2>4 DEF ArchiveScript
   <2>5. ASSUME NEW c \in Calls, SubmitExecution(c)
        PROVE  kind'[d] = "execute" /\ pc'[d] = "ok"
     BY <2>5 DEF SubmitExecution, ghostVars
   <2>6. ASSUME NEW c \in Calls, TimeOut(c) PROVE kind'[d] = "execute" /\ pc'[d] = "ok"
     BY <2>6 DEF TimeOut, ghostVars
   <2>7. ASSUME NEW c \in Calls, AbortCall(c) PROVE kind'[d] = "execute" /\ pc'[d] = "ok"
     BY <2>7 DEF AbortCall, fileVars, ghostVars
   <2>8. ASSUME NEW c \in Calls, NEW succeeded \in BOOLEAN, TakeAnswer(c, succeeded)
        PROVE  kind'[d] = "execute" /\ pc'[d] = "ok"
     BY <2>8 DEF TakeAnswer, fileVars, ghostVars
   <2>9. ASSUME NEW c \in Calls, NEW a \in {"ok", "exit1", "error"}, BlenderRuns(c, a)
        PROVE  kind'[d] = "execute" /\ pc'[d] = "ok"
     BY <2>9 DEF BlenderRuns
   <2>10. ASSUME NEW c \in Calls, TruncateManifest(c)
        PROVE  kind'[d] = "execute" /\ pc'[d] = "ok"
     BY <2>10 DEF TruncateManifest, ghostVars
   <2>11. ASSUME NEW c \in Calls, FillManifest(c) PROVE kind'[d] = "execute" /\ pc'[d] = "ok"
     BY <2>11 DEF FillManifest, ghostVars
   <2>12. ASSUME NEW s \in Scripts, EditScript(s) PROVE kind'[d] = "execute" /\ pc'[d] = "ok"
     BY <2>12 DEF EditScript, callVars, ghostVars
   <2>13. ASSUME AgentDies PROVE kind'[d] = "execute" /\ pc'[d] = "ok"
     BY <2>13 DEF AgentDies, fileVars
   <2>14. CASE UNCHANGED vars
     BY <2>14 DEF vars, fileVars, callVars, ghostVars
   <2> HIDE DEF InProgress, Types, ManifestType
   <2> QED
     BY <2>1, <2>2, <2>3, <2>4, <2>5, <2>6, <2>7, <2>8, <2>9, <2>10, <2>11, <2>12, <2>13,
        <2>14
     DEF Next
 <1> QED BY <1>1, <1>2, FS_Subset, FS_CardinalityType

\* What a call makes of its copy: the iteration an execution finishes, a view or render more.
LEMMA UpdatedManifest ==
  ASSUME Types, NEW c \in Calls
  PROVE  /\ Updated(c) \in ManifestType
         /\ Updated(c).latest = IF kind[c] = "execute" THEN copy[c].latest + 1
                               ELSE copy[c].latest
         /\ Updated(c).views = IF kind[c] = "saveView" THEN copy[c].views \cup {c}
                              ELSE copy[c].views
         /\ Updated(c).renders = IF kind[c] = "render" THEN copy[c].renders \cup {c}
                                ELSE copy[c].renders
         /\ Updated(c).status = copy[c].status
 <1>1. copy[c] \in ManifestType
   BY DEF Types
 <1>2. CASE kind[c] = "execute"
   BY <1>1, <1>2 DEF Updated, Iteration, ManifestType
 <1>3. CASE kind[c] = "saveView"
   BY <1>1, <1>3 DEF Updated, ManifestType
 <1>4. CASE kind[c] = "render"
   BY <1>1, <1>4 DEF Updated, ManifestType
 <1>5. CASE kind[c] \notin {"execute", "saveView", "render"}
   BY <1>1, <1>5 DEF Updated, ManifestType
 <1> QED BY <1>2, <1>3, <1>4, <1>5

LEMMA TypesStep ==
  ASSUME IsFiniteSet(Calls)
  PROVE  TypeInv /\ [Next]_vars => Types'
 <1> SUFFICES ASSUME TypeInv, [Next]_vars PROVE Types'
   OBVIOUS
 <1>0. \A c \in requests : Iteration(c) \in Iterations
   BY RoomLeft DEF TypeInv, Stages, Executed, Types
 <1> USE WorkspaceAssumption, <1>0 DEF TypeInv, InProgress, FreshManifest, Torn, Missing,
              Empty, Types, ManifestType
 <1>1. ASSUME NEW c \in Calls, Begin(c) PROVE Types'
   BY <1>1 DEF Begin, fileVars, ghostVars
 <1>2. ASSUME NEW c \in Calls, ReadManifest(c) PROVE Types'
   BY <1>2 DEF ReadManifest, fileVars, ghostVars, AfterReading
 <1>3. ASSUME NEW c \in Calls, CreateBlend(c) PROVE Types'
   BY <1>3 DEF CreateBlend, ghostVars
 <1>4. ASSUME NEW c \in Calls, ArchiveScript(c) PROVE Types'
   BY <1>4 DEF ArchiveScript
 <1>5. ASSUME NEW c \in Calls, SubmitExecution(c) PROVE Types'
   BY <1>5 DEF SubmitExecution, ghostVars
 <1>6. ASSUME NEW c \in Calls, TimeOut(c) PROVE Types'
   BY <1>6 DEF TimeOut, ghostVars
 <1>7. ASSUME NEW c \in Calls, AbortCall(c) PROVE Types'
   BY <1>7 DEF AbortCall, fileVars, ghostVars
 <1>8. ASSUME NEW c \in Calls, NEW succeeded \in BOOLEAN, TakeAnswer(c, succeeded)
      PROVE  Types'
   BY <1>8 DEF TakeAnswer, fileVars, ghostVars
 <1>9. ASSUME NEW c \in Calls, NEW a \in {"ok", "exit1", "error"}, BlenderRuns(c, a)
      PROVE  Types'
   BY <1>9 DEF BlenderRuns
 <1>10. ASSUME NEW c \in Calls, TruncateManifest(c) PROVE Types'
   BY <1>10 DEF TruncateManifest, ghostVars
 <1>11. ASSUME NEW c \in Calls, FillManifest(c) PROVE Types'
   BY UpdatedManifest, <1>11 DEF FillManifest, ghostVars
 <1>12. ASSUME NEW s \in Scripts, EditScript(s) PROVE Types'
   BY <1>12 DEF EditScript, callVars, ghostVars
 <1>13. ASSUME AgentDies PROVE Types'
   BY <1>13 DEF AgentDies, fileVars
 <1>14. CASE UNCHANGED vars
   BY <1>14 DEF vars, fileVars, callVars, ghostVars
 <1> HIDE DEF TypeInv, InProgress, FreshManifest, Torn, Missing, Empty, Types, ManifestType
 <1> QED
   BY <1>1, <1>2, <1>3, <1>4, <1>5, <1>6, <1>7, <1>8, <1>9, <1>10, <1>11, <1>12, <1>13,
      <1>14
   DEF Next

LEMMA CountsStep ==
  ASSUME IsFiniteSet(Calls)
  PROVE  TypeInv /\ [Next]_vars => Counts'
 <1> SUFFICES ASSUME TypeInv, [Next]_vars PROVE Counts'
   OBVIOUS
 <1>0. /\ Cardinality(Executed) \in Nat /\ Cardinality(Executed') \in Nat
       /\ Cardinality(Executed) <= Cardinality(Executed')
   BY ExecutedGrows DEF TypeInv
 <1> HIDE DEF Executed
 <1> USE <1>0 DEF TypeInv, Counts, InProgress, FreshManifest, Torn, Missing, Empty, Types,
              ManifestType
 <1>1. ASSUME NEW c \in Calls, Begin(c) PROVE Counts'
   BY <1>1 DEF Begin, fileVars, ghostVars
 <1>2. ASSUME NEW c \in Calls, ReadManifest(c) PROVE Counts'
   BY <1>2 DEF ReadManifest, fileVars, ghostVars
 <1>3. ASSUME NEW c \in Calls, CreateBlend(c) PROVE Counts'
   BY <1>3 DEF CreateBlend, ghostVars
 <1>4. ASSUME NEW c \in Calls, ArchiveScript(c) PROVE Counts'
   BY <1>4 DEF ArchiveScript
 <1>5. ASSUME NEW c \in Calls, SubmitExecution(c) PROVE Counts'
   BY <1>5 DEF SubmitExecution, ghostVars
 <1>6. ASSUME NEW c \in Calls, TimeOut(c) PROVE Counts'
   BY <1>6 DEF TimeOut, ghostVars
 <1>7. ASSUME NEW c \in Calls, AbortCall(c) PROVE Counts'
   BY <1>7 DEF AbortCall, fileVars, ghostVars
 <1>8. ASSUME NEW c \in Calls, NEW succeeded \in BOOLEAN, TakeAnswer(c, succeeded)
      PROVE  Counts'
   BY <1>8 DEF TakeAnswer, fileVars, ghostVars
 <1>9. ASSUME NEW c \in Calls, NEW a \in {"ok", "exit1", "error"}, BlenderRuns(c, a)
      PROVE  Counts'
   BY <1>9 DEF BlenderRuns
 <1>10. ASSUME NEW c \in Calls, TruncateManifest(c) PROVE Counts'
   BY <1>10 DEF TruncateManifest, ghostVars
 <1>11. ASSUME NEW c \in Calls, FillManifest(c) PROVE Counts'
   <2>1. /\ manifest' = Updated(c) /\ copy' = copy /\ kind' = kind
         /\ pc[c] = "writing" /\ pc' = [pc EXCEPT ![c] = "ok"]
     BY <1>11 DEF FillManifest, ghostVars
   <2>2. CASE kind[c] = "execute"
     <3>1. c \notin Executed /\ Executed' = Executed \cup {c}
       BY <2>1, <2>2 DEF Executed
     <3>2. IsFiniteSet(Executed)
       <4>1. Executed \subseteq Calls
         BY DEF Executed
       <4> QED BY <4>1, FS_Subset
     <3>3. Cardinality(Executed') = Cardinality(Executed) + 1
       BY <3>1, <3>2, FS_AddElement
     <3>4. manifest'.latest = copy[c].latest + 1
       BY <2>1, <2>2, UpdatedManifest
     <3> QED BY <2>1, <3>3, <3>4
   <2>3. CASE kind[c] # "execute"
     <3>1. manifest'.latest = copy[c].latest
       BY <2>1, <2>3, UpdatedManifest
     <3> QED BY <2>1, <3>1
   <2> QED BY <2>2, <2>3
 <1>12. ASSUME NEW s \in Scripts, EditScript(s) PROVE Counts'
   BY <1>12 DEF EditScript, callVars, ghostVars
 <1>13. ASSUME AgentDies PROVE Counts'
   BY <1>13 DEF AgentDies, fileVars
 <1>14. CASE UNCHANGED vars
   BY <1>14 DEF vars, fileVars, callVars, ghostVars
 <1> HIDE DEF TypeInv, Counts, InProgress, FreshManifest, Torn, Missing, Empty, Types,
              ManifestType
 <1> QED
   BY <1>1, <1>2, <1>3, <1>4, <1>5, <1>6, <1>7, <1>8, <1>9, <1>10, <1>11, <1>12, <1>13,
      <1>14
   DEF Next

LEMMA TypeInit == IsFiniteSet(Calls) /\ Init => TypeInv
 <1> SUFFICES ASSUME IsFiniteSet(Calls), Init PROVE TypeInv
   OBVIOUS
 <1>1. Types
   BY WorkspaceAssumption DEF Init, Types, ManifestType, Missing, Empty
 <1>2. Executed = {}
   BY DEF Init, Executed
 <1>3. Counts
   BY <1>2, FS_EmptySet DEF Init, Counts, Missing, Empty
 <1> QED BY <1>1, <1>3, InitStages DEF TypeInv

\* Every variable keeps its type; in particular no iteration has a number for which
\* there are not enough calls.
THEOREM TypeCorrect ==
  ASSUME IsFiniteSet(Calls)
  PROVE  Spec => []TypeOK
 <1>1. Init => TypeInv
   BY TypeInit
 <1>2. TypeInv /\ [Next]_vars => TypeInv'
   BY StagesStep, TypesStep, CountsStep DEF TypeInv
 <1>3. TypeInv => TypeOK
   <2> SUFFICES ASSUME TypeInv PROVE TypeOK
     OBVIOUS
   <2>1. Executed \subseteq Calls
     BY DEF Executed
   <2>2. /\ Cardinality(Executed) <= Cardinality(Calls)
         /\ Cardinality(Executed) \in Nat /\ Cardinality(Calls) \in Nat
     BY <2>1, FS_Subset, FS_CardinalityType
   <2>3. /\ manifest.latest \in 0..Cardinality(Calls)
         /\ \A c \in Calls : copy[c].latest \in 0..Cardinality(Calls)
     BY <2>2 DEF TypeInv, Types, ManifestType, Counts
   <2> QED BY <2>3 DEF TypeInv, Types, ManifestType, TypeOK
 <1> QED BY <1>1, <1>2, <1>3, PTL DEF Spec

-----------------------------------------------------------------------------
(* Calls that run one at a time.                                             *)

Alone == \A c, d \in Calls : InProgress(c) /\ InProgress(d) => c = d

LEMMA AloneStep ==
  ASSUME ToolExecution = "sequential"
  PROVE  Types /\ Alone /\ [Next]_vars => Alone'
 <1> SUFFICES ASSUME Types, Alone, [Next]_vars PROVE Alone'
   OBVIOUS
 <1> USE DEF Alone, InProgress, Types, ManifestType
 <1>1. ASSUME NEW c \in Calls, Begin(c) PROVE Alone'
   BY <1>1 DEF Begin, fileVars, ghostVars
 <1>2. ASSUME NEW c \in Calls, ReadManifest(c) PROVE Alone'
   BY <1>2 DEF ReadManifest, fileVars, ghostVars
 <1>3. ASSUME NEW c \in Calls, CreateBlend(c) PROVE Alone'
   BY <1>3 DEF CreateBlend, ghostVars
 <1>4. ASSUME NEW c \in Calls, ArchiveScript(c) PROVE Alone'
   BY <1>4 DEF ArchiveScript
 <1>5. ASSUME NEW c \in Calls, SubmitExecution(c) PROVE Alone'
   BY <1>5 DEF SubmitExecution, ghostVars
 <1>6. ASSUME NEW c \in Calls, TimeOut(c) PROVE Alone'
   BY <1>6 DEF TimeOut, ghostVars
 <1>7. ASSUME NEW c \in Calls, AbortCall(c) PROVE Alone'
   BY <1>7 DEF AbortCall, fileVars, ghostVars
 <1>8. ASSUME NEW c \in Calls, NEW succeeded \in BOOLEAN, TakeAnswer(c, succeeded)
      PROVE  Alone'
   BY <1>8 DEF TakeAnswer, fileVars, ghostVars
 <1>9. ASSUME NEW c \in Calls, NEW a \in {"ok", "exit1", "error"}, BlenderRuns(c, a)
      PROVE  Alone'
   BY <1>9 DEF BlenderRuns
 <1>10. ASSUME NEW c \in Calls, TruncateManifest(c) PROVE Alone'
   BY <1>10 DEF TruncateManifest, ghostVars
 <1>11. ASSUME NEW c \in Calls, FillManifest(c) PROVE Alone'
   BY <1>11 DEF FillManifest, ghostVars
 <1>12. ASSUME NEW s \in Scripts, EditScript(s) PROVE Alone'
   BY <1>12 DEF EditScript, callVars, ghostVars
 <1>13. ASSUME AgentDies PROVE Alone'
   BY <1>13 DEF AgentDies, fileVars
 <1>14. CASE UNCHANGED vars
   BY <1>14 DEF vars, fileVars, callVars, ghostVars
 <1> HIDE DEF Alone, InProgress, Types, ManifestType
 <1> QED
   BY <1>1, <1>2, <1>3, <1>4, <1>5, <1>6, <1>7, <1>8, <1>9, <1>10, <1>11, <1>12, <1>13,
      <1>14
   DEF Next

\* m has what every finished call has recorded.
RecordedIn(m, c) ==
  pc[c] = "ok" =>
    /\ kind[c] = "saveView" => c \in m.views
    /\ kind[c] = "render" => c \in m.renders
    /\ kind[c] = "execute" => m.latest >= Iteration(c)
    /\ m.status # "missing"
Recorded(m) == \A c \in Calls : RecordedIn(m, c)

Reads == {"copying", "submitting", "waiting", "committing"}

\* The call in progress works with the manifest as it is.
HandOf(c) ==
  /\ pc[c] \in {"creating", "committing"} /\ kind[c] = "init" => manifest = Missing
  /\ pc[c] \in {"committing", "writing"} /\ kind[c] = "init" => copy[c] = FreshManifest
  /\ pc[c] \in Reads /\ kind[c] # "init" => copy[c] = manifest /\ manifest.status = "ok"
  /\ pc[c] = "writing" =>
       manifest = Torn /\ copy[c].status = "ok" /\ Recorded(copy[c])

\* Half a manifest is one that somebody is writing, or died writing.
InHand ==
  /\ manifest.status = "missing" => manifest = Missing
  /\ manifest.status = "torn" <=> manifest = Torn
  /\ manifest = Torn => crashes > 0 \/ \E c \in Calls : pc[c] = "writing"
  /\ \A c \in Calls : HandOf(c)
  /\ manifest # Torn => Recorded(manifest)

\* Nothing is recorded in a manifest that is not there.
LEMMA NothingRecordedYet ==
  ASSUME Types, Recorded(Missing), NEW c \in Calls
  PROVE  pc[c] # "ok"
  BY DEF Recorded, RecordedIn, Missing, Empty

LEMMA Statuses ==
  /\ Missing.status = "missing" /\ Torn.status = "torn" /\ FreshManifest.status = "ok"
  BY DEF Missing, Torn, FreshManifest, Empty

LEMMA UpdatedKeeps ==
  ASSUME Types, NEW c \in Calls
  PROVE  /\ copy[c].views \subseteq Updated(c).views
         /\ copy[c].renders \subseteq Updated(c).renders
         /\ copy[c].latest \in Nat /\ Updated(c).latest \in Nat
         /\ Updated(c).latest >= copy[c].latest
         /\ kind[c] = "saveView" => c \in Updated(c).views
         /\ kind[c] = "render" => c \in Updated(c).renders
         /\ kind[c] = "execute" => Updated(c).latest >= Iteration(c)
         /\ Updated(c).status = copy[c].status
 <1>1. copy[c].latest \in Nat
   BY DEF Types, ManifestType
 <1>2. Updated(c).latest = copy[c].latest \/ Updated(c).latest = copy[c].latest + 1
   BY UpdatedManifest
 <1>3. kind[c] = "execute" => Updated(c).latest = copy[c].latest + 1
   BY UpdatedManifest
 <1>4. /\ copy[c].latest \in Nat /\ Updated(c).latest \in Nat
       /\ Updated(c).latest >= copy[c].latest
       /\ kind[c] = "execute" => Updated(c).latest >= Iteration(c)
   BY <1>1, <1>2, <1>3 DEF Iteration
 <1> QED BY <1>4, UpdatedManifest

LEMMA ReadingIs ==
  ASSUME Types, NEW c \in Calls, ReadManifest(c)
  PROVE  /\ manifest' = manifest /\ kind' = kind /\ crashes' = crashes /\ pc[c] = "reading"
         /\ \A d \in Calls : d # c => copy'[d] = copy[d] /\ pc'[d] = pc[d]
         /\ copy'[c] = manifest /\ pc'[c] \in {"failed", "creating", "ok", "copying", "waiting"}
         /\ pc'[c] = "creating" => manifest = Missing
         /\ pc'[c] \in {"copying", "waiting"} => manifest # Missing /\ manifest # Torn
         /\ pc'[c] = "ok" => kind[c] = "init" /\ manifest # Missing /\ manifest # Torn
         /\ pc'[c] = "waiting" => kind[c] # "execute"
 <1>1. /\ copy \in [Calls -> ManifestType]
       /\ pc \in [Calls -> {"new", "reading", "creating", "copying", "submitting", "waiting",
                            "committing", "writing", "ok", "failed"}]
   BY DEF Types
 <1>2. /\ manifest' = manifest /\ kind' = kind /\ crashes' = crashes /\ pc[c] = "reading"
       /\ \A d \in Calls : d # c => copy'[d] = copy[d] /\ pc'[d] = pc[d]
       /\ copy'[c] = manifest
   BY <1>1 DEF ReadManifest, fileVars, ghostVars
 <1>3. AfterReading(kind[c]) = IF kind[c] = "init" THEN "ok"
                              ELSE IF kind[c] = "execute" THEN "copying" ELSE "waiting"
   BY DEF AfterReading
 <1>4. CASE manifest = Torn
   BY <1>1, <1>2, <1>4, Statuses DEF ReadManifest
 <1>5. CASE manifest = Missing
   BY <1>1, <1>2, <1>5, Statuses DEF ReadManifest
 <1>6. CASE manifest # Torn /\ manifest # Missing
   <2>1. pc'[c] = AfterReading(kind[c])
     BY <1>1, <1>6 DEF ReadManifest
   <2> QED BY <1>2, <1>3, <1>6, <2>1
 <1> QED BY <1>4, <1>5, <1>6

LEMMA InHandStep ==
  ASSUME ToolExecution = "sequential"
  PROVE  Types /\ Stages /\ Alone /\ InHand /\ [Next]_vars => InHand'
 <1> SUFFICES ASSUME Types, Stages, Alone, InHand, [Next]_vars PROVE InHand'
   OBVIOUS
 <1> USE Statuses DEF Alone, InHand, HandOf, Stages, Recorded, RecordedIn, Reads,
              InProgress, Iteration, Types, ManifestType
 <1>1. ASSUME NEW c \in Calls, Begin(c) PROVE InHand'
   BY <1>1 DEF Begin, fileVars, ghostVars
 <1>2. ASSUME NEW c \in Calls, ReadManifest(c) PROVE InHand'
   <2>1. /\ manifest' = manifest /\ kind' = kind /\ crashes' = crashes /\ pc[c] = "reading"
         /\ \A d \in Calls : d # c => copy'[d] = copy[d] /\ pc'[d] = pc[d]
         /\ copy'[c] = manifest /\ pc'[c] \in {"failed", "creating", "ok", "copying", "waiting"}
         /\ pc'[c] = "creating" => manifest = Missing
         /\ pc'[c] \in {"copying", "waiting"} => manifest # Missing /\ manifest # Torn
         /\ pc'[c] = "ok" => kind[c] = "init" /\ manifest # Missing /\ manifest # Torn
     BY <1>2, ReadingIs
   <2>2. manifest \notin {Missing, Torn} => manifest.status = "ok"
     OBVIOUS
   <2>3. \A d \in Calls : pc'[d] # "writing" /\ pc[d] # "writing"
     BY <2>1
   <2>4. manifest' # Torn => Recorded(manifest)'
     BY <2>1, <2>2, Statuses
   <2>5. ASSUME NEW d \in Calls PROVE HandOf(d)'
     <3>1. CASE d = c
       BY <2>1, <2>2, Statuses, <3>1
     <3>2. CASE d # c
       BY <2>1, <2>3, <3>2
     <3> QED BY <3>1, <3>2
   <2> QED BY <2>1, <2>2, <2>3, <2>4, <2>5, Statuses
 <1>3. ASSUME NEW c \in Calls, CreateBlend(c) PROVE InHand'
   <2>1. /\ manifest' = manifest /\ kind' = kind /\ crashes' = crashes /\ pc[c] = "creating"
         /\ \A d \in Calls : d # c => copy'[d] = copy[d] /\ pc'[d] = pc[d]
         /\ copy'[c] = FreshManifest /\ pc'[c] = "committing" /\ kind[c] = "init"
         /\ manifest = Missing
     BY <1>3 DEF CreateBlend, ghostVars
   <2>2. \A d \in Calls : d # c => ~InProgress(d)
     BY <2>1
   <2>3. manifest' # Torn => Recorded(manifest)'
     BY <2>1
   <2>4. ASSUME NEW d \in Calls PROVE HandOf(d)'
     <3>1. CASE d = c
       BY <2>1, <3>1
     <3>2. CASE d # c
       BY <2>1, <2>2, <3>2
     <3> QED BY <3>1, <3>2
   <2> QED BY <2>1, <2>3, <2>4, Statuses
 <1>4. ASSUME NEW c \in Calls, ArchiveScript(c) PROVE InHand'
   BY <1>4 DEF ArchiveScript
 <1>5. ASSUME NEW c \in Calls, SubmitExecution(c) PROVE InHand'
   BY <1>5 DEF SubmitExecution, ghostVars
 <1>6. ASSUME NEW c \in Calls, TimeOut(c) PROVE InHand'
   BY <1>6 DEF TimeOut, ghostVars
 <1>7. ASSUME NEW c \in Calls, AbortCall(c) PROVE InHand'
   BY <1>7 DEF AbortCall, fileVars, ghostVars
 <1>8. ASSUME NEW c \in Calls, NEW succeeded \in BOOLEAN, TakeAnswer(c, succeeded)
      PROVE  InHand'
   BY <1>8 DEF TakeAnswer, fileVars, ghostVars
 <1>9. ASSUME NEW c \in Calls, NEW a \in {"ok", "exit1", "error"}, BlenderRuns(c, a)
      PROVE  InHand'
   BY <1>9 DEF BlenderRuns
 <1>10. ASSUME NEW c \in Calls, TruncateManifest(c) PROVE InHand'
   <2>1. /\ manifest' = Torn /\ pc[c] = "committing" /\ pc' = [pc EXCEPT ![c] = "writing"]
         /\ kind' = kind /\ copy' = copy /\ crashes' = crashes
     BY <1>10 DEF TruncateManifest, ghostVars
   <2>2. \A d \in Calls : d # c => ~InProgress(d)
     BY <2>1
   <2>3. copy[c].status = "ok" /\ Recorded(copy[c])
     <3>1. CASE kind[c] = "init"
       <4>1. manifest = Missing /\ copy[c] = FreshManifest
         BY <2>1, <3>1
       <4>2. \A d \in Calls : pc[d] # "ok"
         BY <4>1, Statuses, NothingRecordedYet
       <4> QED BY <4>1, <4>2, Statuses
     <3>2. CASE kind[c] # "init"
       BY <2>1, <3>2, Statuses
     <3> QED BY <3>1, <3>2
   <2>4. Recorded(copy[c])'
     BY <2>1, <2>3
   <2>5. ASSUME NEW d \in Calls PROVE HandOf(d)'
     <3>1. CASE d = c
       BY <2>1, <2>3, <2>4, <3>1
     <3>2. CASE d # c
       BY <2>1, <2>2, <3>2
     <3> QED BY <3>1, <3>2
   <2> QED BY <2>1, <2>5, Statuses
 <1>11. ASSUME NEW c \in Calls, FillManifest(c) PROVE InHand'
   <2>1. /\ manifest' = Updated(c) /\ pc[c] = "writing" /\ pc' = [pc EXCEPT ![c] = "ok"]
         /\ kind' = kind /\ copy' = copy /\ crashes' = crashes
     BY <1>11 DEF FillManifest, ghostVars
   <2>2. \A d \in Calls : d # c => ~InProgress(d)
     BY <2>1
   <2>3. copy[c].status = "ok" /\ Recorded(copy[c])
     BY <2>1
   <2>4. /\ manifest'.status = "ok"
         /\ copy[c].views \subseteq manifest'.views
         /\ copy[c].renders \subseteq manifest'.renders
         /\ copy[c].latest \in Nat /\ manifest'.latest \in Nat
         /\ manifest'.latest >= copy[c].latest
         /\ kind[c] = "saveView" => c \in manifest'.views
         /\ kind[c] = "render" => c \in manifest'.renders
         /\ kind[c] = "execute" => manifest'.latest >= Iteration(c)
     BY <2>1, <2>3, UpdatedKeeps
   <2>5. ASSUME NEW d \in Calls PROVE RecordedIn(manifest, d)'
     <3>1. CASE d = c
       BY <2>1, <2>4, <3>1
     <3>2. CASE d # c /\ pc[d] = "ok"
       <4>1. pc'[d] = "ok" /\ RecordedIn(copy[c], d) /\ copy[d].latest \in Nat
         BY <2>1, <2>3, <3>2
       <4>2. kind[d] = "execute" => manifest'.latest >= copy[d].latest + 1
         BY <2>4, <3>2, <4>1
       <4> QED BY <2>1, <2>4, <3>2, <4>1, <4>2
     <3>3. CASE d # c /\ pc[d] # "ok"
       BY <2>1, <3>3
     <3> QED BY <3>1, <3>2, <3>3
   <2>6. Recorded(manifest)'
     BY <2>5
   <2>7. ASSUME NEW d \in Calls PROVE HandOf(d)'
     <3>1. CASE d = c
       BY <2>1, <3>1
     <3>2. CASE d # c
       BY <2>1, <2>2, <3>2
     <3> QED BY <3>1, <3>2
   <2> QED BY <2>1, <2>4, <2>6, <2>7, Statuses
 <1>12. ASSUME NEW s \in Scripts, EditScript(s) PROVE InHand'
   BY <1>12 DEF EditScript, callVars, ghostVars
 <1>13. ASSUME AgentDies PROVE InHand'
   BY <1>13 DEF AgentDies, fileVars
 <1>14. CASE UNCHANGED vars
   BY <1>14 DEF vars, fileVars, callVars, ghostVars
 <1> HIDE DEF Alone, InHand, HandOf, Stages, Recorded, RecordedIn, Reads, InProgress,
              Iteration, Types, ManifestType
 <1> QED
   BY <1>1, <1>2, <1>3, <1>4, <1>5, <1>6, <1>7, <1>8, <1>9, <1>10, <1>11, <1>12, <1>13,
      <1>14
   DEF Next

LEMMA InHandInit == Init => Alone /\ InHand
  BY Statuses DEF Init, Alone, InProgress, InHand, HandOf, Recorded, RecordedIn, Reads

SafetyInv == TypeInv /\ Alone /\ InHand

LEMMA Safety ==
  ASSUME IsFiniteSet(Calls), ToolExecution = "sequential"
  PROVE  /\ Init => SafetyInv
         /\ SafetyInv /\ [Next]_vars => SafetyInv'
 <1>1. Init => SafetyInv
   BY TypeInit, InHandInit DEF SafetyInv
 <1>2. SafetyInv /\ [Next]_vars => SafetyInv'
   BY StagesStep, TypesStep, CountsStep, AloneStep, InHandStep DEF SafetyInv, TypeInv
 <1> QED BY <1>1, <1>2

\* When calls run one at a time, what a successful one recorded stays in the manifest,
\* and only a death of the agent leaves a manifest nobody can read.
THEOREM NothingIsLost ==
  ASSUME IsFiniteSet(Calls), ToolExecution = "sequential"
  PROVE  Spec => []NothingLost
 <1>1. SafetyInv => NothingLost
   <2> SUFFICES ASSUME SafetyInv PROVE NothingLost
     OBVIOUS
   <2>1. manifest = Torn => crashes > 0 \/ \E c \in Calls : pc[c] = "writing"
     BY DEF SafetyInv, InHand
   <2>2. ASSUME manifest # Torn, NEW c \in Calls, pc[c] = "ok"
         PROVE  InManifest(c)
     <3>1. RecordedIn(manifest, c)
       BY <2>2 DEF SafetyInv, InHand, Recorded
     <3>2. manifest # Missing
       BY <2>2, <3>1, Statuses DEF RecordedIn
     <3>3. CASE kind[c] = "saveView"
       BY <2>2, <3>1, <3>3 DEF RecordedIn, InManifest
     <3>4. CASE kind[c] = "render"
       BY <2>2, <3>1, <3>4 DEF RecordedIn, InManifest
     <3>5. CASE kind[c] = "execute"
       BY <2>2, <3>1, <3>5 DEF RecordedIn, InManifest
     <3>6. CASE kind[c] \notin {"saveView", "render", "execute"}
       BY <3>2, <3>6 DEF InManifest
     <3> QED BY <3>3, <3>4, <3>5, <3>6
   <2> QED BY <2>1, <2>2 DEF NothingLost
 <1> QED BY <1>1, Safety, PTL DEF Spec

-----------------------------------------------------------------------------
\* Nothing is asked of Blender before there is a manifest, and what it finished is in
\* model.blend.
Work ==
  /\ manifest = Missing => requests = {} /\ \A c \in Calls : answer[c] = "none"
  /\ \A c \in Calls : answer[c] = "ok" => c \in blend

LEMMA WorkStep == SafetyInv /\ Work /\ [Next]_vars => Work'
 <1> SUFFICES ASSUME Types, Stages, InHand, Work, [Next]_vars PROVE Work'
   BY DEF SafetyInv, TypeInv
 <1> USE Statuses DEF Work, Stages, InProgress, Types, ManifestType
 <1>1. ASSUME NEW c \in Calls, Begin(c) PROVE Work'
   BY <1>1 DEF Begin, fileVars, ghostVars
 <1>2. ASSUME NEW c \in Calls, ReadManifest(c) PROVE Work'
   BY <1>2 DEF ReadManifest, fileVars, ghostVars
 <1>3. ASSUME NEW c \in Calls, CreateBlend(c) PROVE Work'
   BY <1>3 DEF CreateBlend, ghostVars, InHand, HandOf
 <1>4. ASSUME NEW c \in Calls, ArchiveScript(c) PROVE Work'
   BY <1>4 DEF ArchiveScript
 <1>5. ASSUME NEW c \in Calls, SubmitExecution(c) PROVE Work'
   BY <1>5 DEF SubmitExecution, ghostVars, InHand, HandOf, Reads
 <1>6. ASSUME NEW c \in Calls, TimeOut(c) PROVE Work'
   BY <1>6 DEF TimeOut, ghostVars
 <1>7. ASSUME NEW c \in Calls, AbortCall(c) PROVE Work'
   BY <1>7 DEF AbortCall, fileVars, ghostVars
 <1>8. ASSUME NEW c \in Calls, NEW succeeded \in BOOLEAN, TakeAnswer(c, succeeded)
      PROVE  Work'
   BY <1>8 DEF TakeAnswer, fileVars, ghostVars
 <1>9. ASSUME NEW c \in Calls, NEW a \in {"ok", "exit1", "error"}, BlenderRuns(c, a)
      PROVE  Work'
   <2>1. /\ c \in requests /\ manifest' = manifest /\ requests' = requests \ {c}
         /\ answer' = [answer EXCEPT ![c] = a]
         /\ blend' = IF a = "ok" THEN blend \cup {c} ELSE blend
     BY <1>9 DEF BlenderRuns
   <2>2. manifest # Missing
     BY <2>1
   <2>3. ASSUME NEW d \in Calls, answer'[d] = "ok" PROVE d \in blend'
     BY <2>1, <2>3
   <2> QED BY <2>1, <2>2, <2>3
 <1>10. ASSUME NEW c \in Calls, TruncateManifest(c) PROVE Work'
   BY <1>10 DEF TruncateManifest, ghostVars
 <1>11. ASSUME NEW c \in Calls, FillManifest(c) PROVE Work'
   <2>1. manifest' # Missing
     <3>1. manifest' = Updated(c) /\ copy[c].status = "ok"
       BY <1>11 DEF FillManifest, InHand, HandOf
     <3> QED BY <3>1, UpdatedKeeps, Statuses
   <2> QED BY <1>11, <2>1 DEF FillManifest, ghostVars
 <1>12. ASSUME NEW s \in Scripts, EditScript(s) PROVE Work'
   BY <1>12 DEF EditScript, callVars, ghostVars
 <1>13. ASSUME AgentDies PROVE Work'
   BY <1>13 DEF AgentDies, fileVars
 <1>14. CASE UNCHANGED vars
   BY <1>14 DEF vars, fileVars, callVars, ghostVars
 <1> HIDE DEF Work, Stages, InProgress, Types, ManifestType
 <1> QED
   BY <1>1, <1>2, <1>3, <1>4, <1>5, <1>6, <1>7, <1>8, <1>9, <1>10, <1>11, <1>12, <1>13,
      <1>14
   DEF Next

\* When calls run one at a time, no init blanks the scene of a finished execution.
THEOREM WorkIsKept ==
  ASSUME IsFiniteSet(Calls), ToolExecution = "sequential"
  PROVE  Spec => []WorkKept
 <1>1. Init => Work
   BY DEF Init, Work
 <1>2. SafetyInv /\ Work => WorkKept
   BY DEF SafetyInv, TypeInv, Stages, Work, WorkKept
 <1> QED BY <1>1, <1>2, Safety, WorkStep, PTL DEF Spec

\* The folder of an execution under way or finished holds what it sent; what Blender
\* ran while the call waited is that.
Folders ==
  \A c \in Calls : kind[c] = "execute" =>
    /\ pc[c] \in {"submitting", "waiting", "committing", "writing", "ok"} =>
         archive[Iteration(c)] = sent[c]
    /\ pc[c] \in {"waiting", "committing", "writing", "ok"} /\ answer[c] \in {"ok", "exit1"} =>
         ran[c] = sent[c]

LEMMA FoldersStep ==
  ASSUME IsFiniteSet(Calls)
  PROVE  SafetyInv /\ Folders /\ [Next]_vars => Folders'
 <1> SUFFICES ASSUME Types, Counts, Stages, Alone, InHand, Folders, [Next]_vars PROVE Folders'
   BY DEF SafetyInv, TypeInv
 <1> USE DEF Folders, Stages, Alone, InProgress, Iteration, Types, ManifestType
 <1>1. ASSUME NEW c \in Calls, Begin(c) PROVE Folders'
   BY <1>1 DEF Begin, fileVars, ghostVars
 <1>2. ASSUME NEW c \in Calls, ReadManifest(c) PROVE Folders'
   <2>1. UNCHANGED <<archive, sent, ran, answer>>
     BY <1>2 DEF ReadManifest, fileVars, ghostVars
   <2>2. kind[c] = "execute" => pc'[c] \notin {"ok", "waiting"}
     BY <1>2, ReadingIs
   <2>3. answer[c] = "none"
     BY <1>2, ReadingIs
   <2>4. ASSUME NEW d \in Calls, d # c
         PROVE  copy'[d] = copy[d] /\ pc'[d] = pc[d] /\ kind'[d] = kind[d]
     BY <1>2, <2>4, ReadingIs
   <2>5. pc'[c] \notin {"submitting", "committing", "writing"} /\ kind' = kind
     BY <1>2, ReadingIs
   <2> QED BY <2>1, <2>2, <2>3, <2>4, <2>5
 <1>3. ASSUME NEW c \in Calls, CreateBlend(c) PROVE Folders'
   BY <1>3 DEF CreateBlend, ghostVars
 <1>4. ASSUME NEW c \in Calls, ArchiveScript(c) PROVE Folders'
   <2>1. /\ pc[c] = "copying" /\ sent' = [sent EXCEPT ![c] = rootScript]
         /\ archive' = [archive EXCEPT ![Iteration(c)] = rootScript]
         /\ pc' = [pc EXCEPT ![c] = "submitting"]
         /\ kind' = kind /\ copy' = copy /\ answer' = answer /\ ran' = ran
         /\ requests' = requests
     BY <1>4 DEF ArchiveScript
   <2>2. Iteration(c) \in Iterations
     BY <2>1, RoomLeft DEF Executed
   <2>3. ASSUME NEW d \in Calls, d # c, kind[d] = "execute", pc[d] = "ok"
         PROVE  Iteration(d) # Iteration(c)
     <3>1. kind[c] = "execute" /\ copy[c] = manifest /\ manifest.status = "ok"
       BY <2>1 DEF InHand, HandOf, Reads
     <3>2. Recorded(manifest)
       BY <3>1, Statuses DEF InHand
     <3>3. manifest.latest >= Iteration(d)
       BY <2>3, <3>2 DEF Recorded, RecordedIn
     <3> QED BY <3>1, <3>3
   <2>4. ASSUME NEW d \in Calls, d # c PROVE ~InProgress(d)
     BY <2>1, <2>4
   <2>5. archive'[Iteration(c)] = rootScript
     BY <2>1, <2>2
   <2>6. \A d \in Calls : d # c /\ kind[d] = "execute" /\ pc[d] = "ok" =>
           archive'[Iteration(d)] = archive[Iteration(d)]
     BY <2>1, <2>3
   <2> QED BY <2>1, <2>4, <2>5, <2>6
 <1>5. ASSUME NEW c \in Calls, SubmitExecution(c) PROVE Folders'
   BY <1>5 DEF SubmitExecution, ghostVars
 <1>6. ASSUME NEW c \in Calls, TimeOut(c) PROVE Folders'
   BY <1>6 DEF TimeOut, ghostVars
 <1>7. ASSUME NEW c \in Calls, AbortCall(c) PROVE Folders'
   BY <1>7 DEF AbortCall, fileVars, ghostVars
 <1>8. ASSUME NEW c \in Calls, NEW succeeded \in BOOLEAN, TakeAnswer(c, succeeded)
      PROVE  Folders'
   BY <1>8 DEF TakeAnswer, fileVars, ghostVars
 <1>9. ASSUME NEW c \in Calls, NEW a \in {"ok", "exit1", "error"}, BlenderRuns(c, a)
      PROVE  Folders'
   BY <1>9 DEF BlenderRuns
 <1>10. ASSUME NEW c \in Calls, TruncateManifest(c) PROVE Folders'
   BY <1>10 DEF TruncateManifest, ghostVars
 <1>11. ASSUME NEW c \in Calls, FillManifest(c) PROVE Folders'
   BY <1>11 DEF FillManifest, ghostVars
 <1>12. ASSUME NEW s \in Scripts, EditScript(s) PROVE Folders'
   BY <1>12 DEF EditScript, callVars, ghostVars
 <1>13. ASSUME AgentDies PROVE Folders'
   BY <1>13 DEF AgentDies, fileVars
 <1>14. CASE UNCHANGED vars
   BY <1>14 DEF vars, fileVars, callVars, ghostVars
 <1> HIDE DEF Folders, Stages, Alone, InProgress, Iteration, Types, ManifestType
 <1> QED
   BY <1>1, <1>2, <1>3, <1>4, <1>5, <1>6, <1>7, <1>8, <1>9, <1>10, <1>11, <1>12, <1>13,
      <1>14
   DEF Next

\* When calls run one at a time, the folder of a finished iteration holds for good the
\* script Blender ran for it, whatever was aborted, withdrawn or cut short around it.
THEOREM FoldersShowWhatRan ==
  ASSUME IsFiniteSet(Calls), ToolExecution = "sequential"
  PROVE  Spec => []FolderShowsWhatRan
 <1>1. Init => Folders
   BY DEF Init, Folders
 <1>2. SafetyInv /\ Folders => FolderShowsWhatRan
   BY DEF SafetyInv, TypeInv, Stages, Folders, FolderShowsWhatRan
 <1> QED BY <1>1, <1>2, Safety, FoldersStep, PTL DEF Spec

=============================================================================
