------------------------ MODULE BlenderBridgeProofs -------------------------
(***************************************************************************)
(* Theorems about the bridge, for any requests, .blend files and payloads,  *)
(* any number of deaths, and (types, timeouts and the progress of polls)    *)
(* any number of Blenders.                                                  *)
(***************************************************************************)
EXTENDS BlenderBridge, TLAPS

Busy == {"loaded", "unsaved", "handled", "answering", "answered"}

\* A Blender that is busy with a request has one.
Working == \A b \in Blenders : phase[b] \in Busy => current[b] \in Requests

TypeInv == TypeOK /\ Working

LEMMA TypeInit == Init => TypeInv
 <1> SUFFICES ASSUME Init PROVE TypeInv
   OBVIOUS
 <1> USE DEF Init
 <1>1. PICK payload \in [Requests -> Payloads] :
         /\ kind = [r \in Requests |-> payload[r][1]]
         /\ target = [r \in Requests |-> payload[r][2]]
   OBVIOUS
 <1>2. \A r \in Requests : payload[r] \in Kinds \X Blends
   BY BridgeAssumption
 <1>3. kind \in [Requests -> Kinds] /\ target \in [Requests -> Blends]
   BY <1>1, <1>2
 <1>4. TypeOK
   BY <1>3, BridgeAssumption DEF TypeOK, Kinds, Replies, Settled
 <1>5. Working
   BY DEF Working, Busy
 <1> QED BY <1>4, <1>5 DEF TypeInv

LEMMA TypeStep == TypeInv /\ [Next]_vars => TypeInv'
 <1> SUFFICES ASSUME TypeInv, [Next]_vars PROVE TypeInv'
   OBVIOUS
 <1> USE BridgeAssumption DEF TypeInv, TypeOK, Working, Busy, Kinds, Replies, Settled,
                Saves, CanOpen, SceneAfterOpen, clientVars, pollVars, sceneVars
 <1>1. ASSUME NEW r \in Requests, Submit(r) PROVE TypeInv'
   BY <1>1 DEF Submit, pollVars, sceneVars
 <1>2. ASSUME NEW r \in Requests, TakeResponse(r) PROVE TypeInv'
   BY <1>2 DEF TakeResponse, pollVars, sceneVars
 <1>3. ASSUME NEW r \in Requests, TimeOut(r) PROVE TypeInv'
   BY <1>3 DEF TimeOut, pollVars, sceneVars
 <1>4. ASSUME NEW r \in Requests, AbortCall(r) PROVE TypeInv'
   BY <1>4 DEF AbortCall, pollVars, sceneVars
 <1>5. ASSUME NEW b \in Blenders, StartBlender(b) PROVE TypeInv'
   BY <1>5 DEF StartBlender, clientVars, sceneVars
 <1>6. ASSUME NEW b \in Blenders, Poll(b) PROVE TypeInv'
   BY <1>6 DEF Poll, clientVars, sceneVars
 <1>7. ASSUME NEW b \in Blenders, NEW r \in Requests, LoadRequest(b, r) PROVE TypeInv'
   BY <1>7 DEF LoadRequest, clientVars, sceneVars
 <1>8. ASSUME NEW b \in Blenders, RefuseRequest(b) PROVE TypeInv'
   BY <1>8 DEF RefuseRequest, clientVars, sceneVars
 <1>9. ASSUME NEW b \in Blenders, ReportContext(b) PROVE TypeInv'
   BY <1>9 DEF ReportContext, clientVars, sceneVars
 <1>10. ASSUME NEW b \in Blenders, NEW answer \in {"ok", "exit1"},
              NEW saveBefore \in BOOLEAN, NEW leavesDirty \in BOOLEAN,
             HandleRequest(b, answer, saveBefore, leavesDirty)
      PROVE  TypeInv'
   BY <1>10 DEF HandleRequest, clientVars
 <1>11. ASSUME NEW b \in Blenders, SaveMainfile(b) PROVE TypeInv'
   BY <1>11 DEF SaveMainfile, clientVars
 <1>12. ASSUME NEW b \in Blenders, OpenResponse(b) PROVE TypeInv'
   BY <1>12 DEF OpenResponse, clientVars, sceneVars
 <1>13. ASSUME NEW b \in Blenders, FillResponse(b) PROVE TypeInv'
   BY <1>13 DEF FillResponse, clientVars, sceneVars
 <1>14. ASSUME NEW b \in Blenders, RemoveRequest(b) PROVE TypeInv'
   BY <1>14 DEF RemoveRequest, clientVars, sceneVars
 <1>15. ASSUME NEW b \in Blenders, UserEdits(b) PROVE TypeInv'
   BY <1>15 DEF UserEdits, clientVars, pollVars
 <1>16. ASSUME NEW b \in Blenders, UserSaves(b) PROVE TypeInv'
   BY <1>16 DEF UserSaves, clientVars, pollVars
 <1>17. ASSUME NEW b \in Blenders, NEW f \in Blends, UserOpens(b, f) PROVE TypeInv'
   BY <1>17 DEF UserOpens, clientVars, pollVars
 <1>18. ASSUME NEW b \in Blenders, Crash(b) PROVE TypeInv'
   BY <1>18 DEF Crash, clientVars
 <1>19. CASE UNCHANGED vars
   BY <1>19 DEF vars, clientVars, pollVars, sceneVars
 <1> QED
   BY <1>1, <1>2, <1>3, <1>4, <1>5, <1>6, <1>7, <1>8, <1>9, <1>10, <1>11, <1>12, <1>13,
      <1>14, <1>15, <1>16, <1>17, <1>18, <1>19
   DEF Next, ClientStep, BlenderStep, Environment

\* Every variable keeps its type.
THEOREM TypeCorrect == Spec => []TypeOK
 <1>1. Spec => []TypeInv
   BY TypeInit, TypeStep, PTL DEF Spec
 <1>2. TypeInv => TypeOK
   BY DEF TypeInv
 <1> QED BY <1>1, <1>2, PTL

-----------------------------------------------------------------------------
(* A request that timed out.                                                 *)

Withdrawn == \A r \in Requests : client[r] = "timeout" => r \notin requestFiles

LEMMA WithdrawnStep == TypeInv /\ Withdrawn /\ [Next]_vars => Withdrawn'
 <1> SUFFICES ASSUME TypeInv, Withdrawn, [Next]_vars PROVE Withdrawn'
   OBVIOUS
 <1> USE DEF Withdrawn, TypeInv, TypeOK, Replies
 <1>1. ASSUME NEW r \in Requests, Submit(r) PROVE Withdrawn'
   BY <1>1 DEF Submit, pollVars, sceneVars
 <1>2. ASSUME NEW r \in Requests, TakeResponse(r) PROVE Withdrawn'
   BY <1>2 DEF TakeResponse, pollVars, sceneVars
 <1>3. ASSUME NEW r \in Requests, TimeOut(r) PROVE Withdrawn'
   BY <1>3 DEF TimeOut, pollVars, sceneVars
 <1>4. ASSUME NEW r \in Requests, AbortCall(r) PROVE Withdrawn'
   BY <1>4 DEF AbortCall, pollVars, sceneVars
 <1>5. ASSUME NEW b \in Blenders, StartBlender(b) PROVE Withdrawn'
   BY <1>5 DEF StartBlender, clientVars, sceneVars
 <1>6. ASSUME NEW b \in Blenders, Poll(b) PROVE Withdrawn'
   BY <1>6 DEF Poll, clientVars, sceneVars
 <1>7. ASSUME NEW b \in Blenders, NEW r \in Requests, LoadRequest(b, r) PROVE Withdrawn'
   BY <1>7 DEF LoadRequest, clientVars, sceneVars
 <1>8. ASSUME NEW b \in Blenders, RefuseRequest(b) PROVE Withdrawn'
   BY <1>8 DEF RefuseRequest, clientVars, sceneVars
 <1>9. ASSUME NEW b \in Blenders, ReportContext(b) PROVE Withdrawn'
   BY <1>9 DEF ReportContext, clientVars, sceneVars
 <1>10. ASSUME NEW b \in Blenders, NEW answer \in {"ok", "exit1"},
              NEW saveBefore \in BOOLEAN, NEW leavesDirty \in BOOLEAN,
             HandleRequest(b, answer, saveBefore, leavesDirty)
      PROVE  Withdrawn'
   BY <1>10 DEF HandleRequest, clientVars
 <1>11. ASSUME NEW b \in Blenders, SaveMainfile(b) PROVE Withdrawn'
   BY <1>11 DEF SaveMainfile, clientVars
 <1>12. ASSUME NEW b \in Blenders, OpenResponse(b) PROVE Withdrawn'
   BY <1>12 DEF OpenResponse, clientVars, sceneVars
 <1>13. ASSUME NEW b \in Blenders, FillResponse(b) PROVE Withdrawn'
   BY <1>13 DEF FillResponse, clientVars, sceneVars
 <1>14. ASSUME NEW b \in Blenders, RemoveRequest(b) PROVE Withdrawn'
   BY <1>14 DEF RemoveRequest, clientVars, sceneVars
 <1>15. ASSUME NEW b \in Blenders, UserEdits(b) PROVE Withdrawn'
   BY <1>15 DEF UserEdits, clientVars, pollVars
 <1>16. ASSUME NEW b \in Blenders, UserSaves(b) PROVE Withdrawn'
   BY <1>16 DEF UserSaves, clientVars, pollVars
 <1>17. ASSUME NEW b \in Blenders, NEW f \in Blends, UserOpens(b, f) PROVE Withdrawn'
   BY <1>17 DEF UserOpens, clientVars, pollVars
 <1>18. ASSUME NEW b \in Blenders, Crash(b) PROVE Withdrawn'
   BY <1>18 DEF Crash, clientVars
 <1>19. CASE UNCHANGED vars
   BY <1>19 DEF vars, clientVars, pollVars, sceneVars
 <1> QED
   BY <1>1, <1>2, <1>3, <1>4, <1>5, <1>6, <1>7, <1>8, <1>9, <1>10, <1>11, <1>12, <1>13,
      <1>14, <1>15, <1>16, <1>17, <1>18, <1>19
   DEF Next, ClientStep, BlenderStep, Environment

\* Only LoadRequest begins with a request, and it needs its file.
LEMMA NeverBegun ==
  TypeInv /\ Withdrawn /\ [Next]_vars =>
    \A r \in Requests, c \in Blenders :
      client[r] = "timeout" /\ phase[c] # "loaded" =>
        ~(phase'[c] = "loaded" /\ current'[c] = r)
 <1> SUFFICES ASSUME TypeInv, Withdrawn, [Next]_vars,
                     NEW s \in Requests, NEW c \in Blenders,
                     client[s] = "timeout", phase[c] # "loaded"
              PROVE  ~(phase'[c] = "loaded" /\ current'[c] = s)
   OBVIOUS
 <1> USE DEF TypeInv, TypeOK, Withdrawn
 <1>1. ASSUME NEW r \in Requests, Submit(r) PROVE ~(phase'[c] = "loaded" /\ current'[c] = s)
   BY <1>1 DEF Submit, pollVars, sceneVars
 <1>2. ASSUME NEW r \in Requests, TakeResponse(r)
      PROVE  ~(phase'[c] = "loaded" /\ current'[c] = s)
   BY <1>2 DEF TakeResponse, pollVars, sceneVars
 <1>3. ASSUME NEW r \in Requests, TimeOut(r)
      PROVE  ~(phase'[c] = "loaded" /\ current'[c] = s)
   BY <1>3 DEF TimeOut, pollVars, sceneVars
 <1>4. ASSUME NEW r \in Requests, AbortCall(r)
      PROVE  ~(phase'[c] = "loaded" /\ current'[c] = s)
   BY <1>4 DEF AbortCall, pollVars, sceneVars
 <1>5. ASSUME NEW b \in Blenders, StartBlender(b)
      PROVE  ~(phase'[c] = "loaded" /\ current'[c] = s)
   BY <1>5 DEF StartBlender, clientVars, sceneVars
 <1>6. ASSUME NEW b \in Blenders, Poll(b) PROVE ~(phase'[c] = "loaded" /\ current'[c] = s)
   BY <1>6 DEF Poll, clientVars, sceneVars
 <1>7. ASSUME NEW b \in Blenders, NEW r \in Requests, LoadRequest(b, r)
      PROVE  ~(phase'[c] = "loaded" /\ current'[c] = s)
   BY <1>7 DEF LoadRequest, clientVars, sceneVars
 <1>8. ASSUME NEW b \in Blenders, RefuseRequest(b)
      PROVE  ~(phase'[c] = "loaded" /\ current'[c] = s)
   BY <1>8 DEF RefuseRequest, clientVars, sceneVars
 <1>9. ASSUME NEW b \in Blenders, ReportContext(b)
      PROVE  ~(phase'[c] = "loaded" /\ current'[c] = s)
   BY <1>9 DEF ReportContext, clientVars, sceneVars
 <1>10. ASSUME NEW b \in Blenders, NEW answer \in {"ok", "exit1"},
              NEW saveBefore \in BOOLEAN, NEW leavesDirty \in BOOLEAN,
             HandleRequest(b, answer, saveBefore, leavesDirty)
      PROVE  ~(phase'[c] = "loaded" /\ current'[c] = s)
   BY <1>10 DEF HandleRequest, clientVars
 <1>11. ASSUME NEW b \in Blenders, SaveMainfile(b)
      PROVE  ~(phase'[c] = "loaded" /\ current'[c] = s)
   BY <1>11 DEF SaveMainfile, clientVars
 <1>12. ASSUME NEW b \in Blenders, OpenResponse(b)
      PROVE  ~(phase'[c] = "loaded" /\ current'[c] = s)
   BY <1>12 DEF OpenResponse, clientVars, sceneVars
 <1>13. ASSUME NEW b \in Blenders, FillResponse(b)
      PROVE  ~(phase'[c] = "loaded" /\ current'[c] = s)
   BY <1>13 DEF FillResponse, clientVars, sceneVars
 <1>14. ASSUME NEW b \in Blenders, RemoveRequest(b)
      PROVE  ~(phase'[c] = "loaded" /\ current'[c] = s)
   BY <1>14 DEF RemoveRequest, clientVars, sceneVars
 <1>15. ASSUME NEW b \in Blenders, UserEdits(b)
      PROVE  ~(phase'[c] = "loaded" /\ current'[c] = s)
   BY <1>15 DEF UserEdits, clientVars, pollVars
 <1>16. ASSUME NEW b \in Blenders, UserSaves(b)
      PROVE  ~(phase'[c] = "loaded" /\ current'[c] = s)
   BY <1>16 DEF UserSaves, clientVars, pollVars
 <1>17. ASSUME NEW b \in Blenders, NEW f \in Blends, UserOpens(b, f)
      PROVE  ~(phase'[c] = "loaded" /\ current'[c] = s)
   BY <1>17 DEF UserOpens, clientVars, pollVars
 <1>18. ASSUME NEW b \in Blenders, Crash(b) PROVE ~(phase'[c] = "loaded" /\ current'[c] = s)
   BY <1>18 DEF Crash, clientVars
 <1>19. CASE UNCHANGED vars
   BY <1>19 DEF vars, clientVars, pollVars, sceneVars
 <1> QED
   BY <1>1, <1>2, <1>3, <1>4, <1>5, <1>6, <1>7, <1>8, <1>9, <1>10, <1>11, <1>12, <1>13,
      <1>14, <1>15, <1>16, <1>17, <1>18, <1>19
   DEF Next, ClientStep, BlenderStep, Environment

\* A call that timed out has withdrawn its request: no Blender, of however many,
\* begins with it afterwards (bridge.ts removes the file before it throws).
THEOREM TimeoutsWithdraw == Spec => TimeoutWithdraws
 <1>1. Init => Withdrawn
   BY DEF Init, Withdrawn
 <1>2. Spec => []TypeInv
   BY TypeInit, TypeStep, PTL DEF Spec
 <1>3. Spec => []Withdrawn
   BY <1>1, <1>2, WithdrawnStep, PTL DEF Spec
 <1>4. TypeInv /\ Withdrawn /\ [Next]_vars =>
         [\A r \in Requests, b \in Blenders :
            client[r] = "timeout" /\ phase[b] # "loaded" =>
              ~(phase'[b] = "loaded" /\ current'[b] = r)]_vars
   BY NeverBegun
 <1> QED BY <1>2, <1>3, <1>4, PTL DEF Spec, TimeoutWithdraws

-----------------------------------------------------------------------------
(* One Blender on the bridge directory.                                      *)

\* Blender has done what it will do for the request it works on.
Done(b, r) == current[b] = r /\ phase[b] \in {"unsaved", "handled", "answering", "answered"}

\* A request nobody has sent is nowhere.
Unsent ==
  \A r \in Requests : client[r] = "new" =>
    /\ executions[r] = 0 /\ r \notin requestFiles /\ response[r] = "none"
    /\ \A b \in Blenders : r \notin agenda[b] /\ current[b] # r

\* A Blender with nothing to do has no current request.
Idle == \A b \in Blenders : phase[b] \notin Busy => current[b] = NoRequest

\* A request whose file is there, and which is not done with, has been executed
\* only by Blenders that died.
Counted ==
  \A r \in Requests :
    /\ executions[r] <= 1 + crashes
    /\ \A b \in Blenders :
         \/ r \in requestFiles /\ ~Done(b, r)
         \/ phase[b] = "loaded" /\ current[b] = r
         => executions[r] <= crashes

LEMMA UnsentStep == TypeInv /\ Unsent /\ [Next]_vars => Unsent'
 <1> SUFFICES ASSUME TypeInv, Unsent, [Next]_vars PROVE Unsent'
   OBVIOUS
 <1> USE BridgeAssumption DEF Unsent, Busy, TypeInv, TypeOK, Working, Replies
 <1>1. ASSUME NEW r \in Requests, Submit(r) PROVE Unsent'
   BY <1>1 DEF Submit, pollVars, sceneVars
 <1>2. ASSUME NEW r \in Requests, TakeResponse(r) PROVE Unsent'
   BY <1>2 DEF TakeResponse, pollVars, sceneVars
 <1>3. ASSUME NEW r \in Requests, TimeOut(r) PROVE Unsent'
   BY <1>3 DEF TimeOut, pollVars, sceneVars
 <1>4. ASSUME NEW r \in Requests, AbortCall(r) PROVE Unsent'
   BY <1>4 DEF AbortCall, pollVars, sceneVars
 <1>5. ASSUME NEW b \in Blenders, StartBlender(b) PROVE Unsent'
   BY <1>5 DEF StartBlender, clientVars, sceneVars
 <1>6. ASSUME NEW b \in Blenders, Poll(b) PROVE Unsent'
   BY <1>6 DEF Poll, clientVars, sceneVars
 <1>7. ASSUME NEW b \in Blenders, NEW r \in Requests, LoadRequest(b, r) PROVE Unsent'
   BY <1>7 DEF LoadRequest, clientVars, sceneVars
 <1>8. ASSUME NEW b \in Blenders, RefuseRequest(b) PROVE Unsent'
   BY <1>8 DEF RefuseRequest, clientVars, sceneVars
 <1>9. ASSUME NEW b \in Blenders, ReportContext(b) PROVE Unsent'
   BY <1>9 DEF ReportContext, clientVars, sceneVars
 <1>10. ASSUME NEW b \in Blenders, NEW answer \in {"ok", "exit1"},
              NEW saveBefore \in BOOLEAN, NEW leavesDirty \in BOOLEAN,
             HandleRequest(b, answer, saveBefore, leavesDirty)
      PROVE  Unsent'
   BY <1>10 DEF HandleRequest, clientVars
 <1>11. ASSUME NEW b \in Blenders, SaveMainfile(b) PROVE Unsent'
   BY <1>11 DEF SaveMainfile, clientVars
 <1>12. ASSUME NEW b \in Blenders, OpenResponse(b) PROVE Unsent'
   BY <1>12 DEF OpenResponse, clientVars, sceneVars
 <1>13. ASSUME NEW b \in Blenders, FillResponse(b) PROVE Unsent'
   BY <1>13 DEF FillResponse, clientVars, sceneVars
 <1>14. ASSUME NEW b \in Blenders, RemoveRequest(b) PROVE Unsent'
   BY <1>14 DEF RemoveRequest, clientVars, sceneVars
 <1>15. ASSUME NEW b \in Blenders, UserEdits(b) PROVE Unsent'
   BY <1>15 DEF UserEdits, clientVars, pollVars
 <1>16. ASSUME NEW b \in Blenders, UserSaves(b) PROVE Unsent'
   BY <1>16 DEF UserSaves, clientVars, pollVars
 <1>17. ASSUME NEW b \in Blenders, NEW f \in Blends, UserOpens(b, f) PROVE Unsent'
   BY <1>17 DEF UserOpens, clientVars, pollVars
 <1>18. ASSUME NEW b \in Blenders, Crash(b) PROVE Unsent'
   BY <1>18 DEF Crash, clientVars
 <1>19. CASE UNCHANGED vars
   BY <1>19 DEF vars, clientVars, pollVars, sceneVars
 <1> QED
   BY <1>1, <1>2, <1>3, <1>4, <1>5, <1>6, <1>7, <1>8, <1>9, <1>10, <1>11, <1>12, <1>13,
      <1>14, <1>15, <1>16, <1>17, <1>18, <1>19
   DEF Next, ClientStep, BlenderStep, Environment

LEMMA IdleStep == TypeInv /\ Idle /\ [Next]_vars => Idle'
 <1> SUFFICES ASSUME TypeInv, Idle, [Next]_vars PROVE Idle'
   OBVIOUS
 <1> USE BridgeAssumption DEF Idle, Busy, TypeInv, TypeOK, Working
 <1>1. ASSUME NEW r \in Requests, Submit(r) PROVE Idle'
   BY <1>1 DEF Submit, pollVars, sceneVars
 <1>2. ASSUME NEW r \in Requests, TakeResponse(r) PROVE Idle'
   BY <1>2 DEF TakeResponse, pollVars, sceneVars
 <1>3. ASSUME NEW r \in Requests, TimeOut(r) PROVE Idle'
   BY <1>3 DEF TimeOut, pollVars, sceneVars
 <1>4. ASSUME NEW r \in Requests, AbortCall(r) PROVE Idle'
   BY <1>4 DEF AbortCall, pollVars, sceneVars
 <1>5. ASSUME NEW b \in Blenders, StartBlender(b) PROVE Idle'
   BY <1>5 DEF StartBlender, clientVars, sceneVars
 <1>6. ASSUME NEW b \in Blenders, Poll(b) PROVE Idle'
   BY <1>6 DEF Poll, clientVars, sceneVars
 <1>7. ASSUME NEW b \in Blenders, NEW r \in Requests, LoadRequest(b, r) PROVE Idle'
   BY <1>7 DEF LoadRequest, clientVars, sceneVars
 <1>8. ASSUME NEW b \in Blenders, RefuseRequest(b) PROVE Idle'
   BY <1>8 DEF RefuseRequest, clientVars, sceneVars
 <1>9. ASSUME NEW b \in Blenders, ReportContext(b) PROVE Idle'
   BY <1>9 DEF ReportContext, clientVars, sceneVars
 <1>10. ASSUME NEW b \in Blenders, NEW answer \in {"ok", "exit1"},
              NEW saveBefore \in BOOLEAN, NEW leavesDirty \in BOOLEAN,
             HandleRequest(b, answer, saveBefore, leavesDirty)
      PROVE  Idle'
   BY <1>10 DEF HandleRequest, clientVars
 <1>11. ASSUME NEW b \in Blenders, SaveMainfile(b) PROVE Idle'
   BY <1>11 DEF SaveMainfile, clientVars
 <1>12. ASSUME NEW b \in Blenders, OpenResponse(b) PROVE Idle'
   BY <1>12 DEF OpenResponse, clientVars, sceneVars
 <1>13. ASSUME NEW b \in Blenders, FillResponse(b) PROVE Idle'
   BY <1>13 DEF FillResponse, clientVars, sceneVars
 <1>14. ASSUME NEW b \in Blenders, RemoveRequest(b) PROVE Idle'
   BY <1>14 DEF RemoveRequest, clientVars, sceneVars
 <1>15. ASSUME NEW b \in Blenders, UserEdits(b) PROVE Idle'
   BY <1>15 DEF UserEdits, clientVars, pollVars
 <1>16. ASSUME NEW b \in Blenders, UserSaves(b) PROVE Idle'
   BY <1>16 DEF UserSaves, clientVars, pollVars
 <1>17. ASSUME NEW b \in Blenders, NEW f \in Blends, UserOpens(b, f) PROVE Idle'
   BY <1>17 DEF UserOpens, clientVars, pollVars
 <1>18. ASSUME NEW b \in Blenders, Crash(b) PROVE Idle'
   BY <1>18 DEF Crash, clientVars
 <1>19. CASE UNCHANGED vars
   BY <1>19 DEF vars, clientVars, pollVars, sceneVars
 <1> QED
   BY <1>1, <1>2, <1>3, <1>4, <1>5, <1>6, <1>7, <1>8, <1>9, <1>10, <1>11, <1>12, <1>13,
      <1>14, <1>15, <1>16, <1>17, <1>18, <1>19
   DEF Next, ClientStep, BlenderStep, Environment

LEMMA CountedStep ==
  ASSUME NEW theBlender, Blenders = {theBlender}
  PROVE  TypeInv /\ Unsent /\ Idle /\ Counted /\ [Next]_vars => Counted'
 <1> SUFFICES ASSUME TypeInv, Unsent, Idle, Counted, [Next]_vars PROVE Counted'
   OBVIOUS
 <1> USE BridgeAssumption DEF Unsent, Idle, Counted, Done, Busy, TypeInv, TypeOK, Working
 <1>1. ASSUME NEW r \in Requests, Submit(r) PROVE Counted'
   BY <1>1 DEF Submit, pollVars, sceneVars
 <1>2. ASSUME NEW r \in Requests, TakeResponse(r) PROVE Counted'
   BY <1>2 DEF TakeResponse, pollVars, sceneVars
 <1>3. ASSUME NEW r \in Requests, TimeOut(r) PROVE Counted'
   BY <1>3 DEF TimeOut, pollVars, sceneVars
 <1>4. ASSUME NEW r \in Requests, AbortCall(r) PROVE Counted'
   BY <1>4 DEF AbortCall, pollVars, sceneVars
 <1>5. ASSUME NEW b \in Blenders, StartBlender(b) PROVE Counted'
   BY <1>5 DEF StartBlender, clientVars, sceneVars
 <1>6. ASSUME NEW b \in Blenders, Poll(b) PROVE Counted'
   BY <1>6 DEF Poll, clientVars, sceneVars
 <1>7. ASSUME NEW b \in Blenders, NEW r \in Requests, LoadRequest(b, r) PROVE Counted'
   BY <1>7 DEF LoadRequest, clientVars, sceneVars
 <1>8. ASSUME NEW b \in Blenders, RefuseRequest(b) PROVE Counted'
   BY <1>8 DEF RefuseRequest, clientVars, sceneVars
 <1>9. ASSUME NEW b \in Blenders, ReportContext(b) PROVE Counted'
   BY <1>9 DEF ReportContext, clientVars, sceneVars
 <1>10. ASSUME NEW b \in Blenders, NEW answer \in {"ok", "exit1"},
              NEW saveBefore \in BOOLEAN, NEW leavesDirty \in BOOLEAN,
             HandleRequest(b, answer, saveBefore, leavesDirty)
      PROVE  Counted'
   BY <1>10 DEF HandleRequest, clientVars
 <1>11. ASSUME NEW b \in Blenders, SaveMainfile(b) PROVE Counted'
   BY <1>11 DEF SaveMainfile, clientVars
 <1>12. ASSUME NEW b \in Blenders, OpenResponse(b) PROVE Counted'
   BY <1>12 DEF OpenResponse, clientVars, sceneVars
 <1>13. ASSUME NEW b \in Blenders, FillResponse(b) PROVE Counted'
   BY <1>13 DEF FillResponse, clientVars, sceneVars
 <1>14. ASSUME NEW b \in Blenders, RemoveRequest(b) PROVE Counted'
   BY <1>14 DEF RemoveRequest, clientVars, sceneVars
 <1>15. ASSUME NEW b \in Blenders, UserEdits(b) PROVE Counted'
   BY <1>15 DEF UserEdits, clientVars, pollVars
 <1>16. ASSUME NEW b \in Blenders, UserSaves(b) PROVE Counted'
   BY <1>16 DEF UserSaves, clientVars, pollVars
 <1>17. ASSUME NEW b \in Blenders, NEW f \in Blends, UserOpens(b, f) PROVE Counted'
   BY <1>17 DEF UserOpens, clientVars, pollVars
 <1>18. ASSUME NEW b \in Blenders, Crash(b) PROVE Counted'
   BY <1>18 DEF Crash, clientVars
 <1>19. CASE UNCHANGED vars
   BY <1>19 DEF vars, clientVars, pollVars, sceneVars
 <1> QED
   BY <1>1, <1>2, <1>3, <1>4, <1>5, <1>6, <1>7, <1>8, <1>9, <1>10, <1>11, <1>12, <1>13,
      <1>14, <1>15, <1>16, <1>17, <1>18, <1>19
   DEF Next, ClientStep, BlenderStep, Environment

\* A request is executed once, and once more at most for every death of Blender:
\* the file is only taken away after the execution (live-bridge.py:433).
THEOREM RunsOncePerLife ==
  ASSUME NEW theBlender, Blenders = {theBlender}
  PROVE  Spec => []OncePerLife
 <1>1. Init => Unsent /\ Idle /\ Counted
   BY BridgeAssumption DEF Init, Unsent, Idle, Counted, Done, Busy
 <1>2. Spec => []TypeInv
   BY TypeInit, TypeStep, PTL DEF Spec
 <1>3. TypeInv /\ Unsent /\ Idle /\ Counted /\ [Next]_vars => (Unsent /\ Idle /\ Counted)'
   BY UnsentStep, IdleStep, CountedStep
 <1>4. Counted => OncePerLife
   BY DEF Counted, OncePerLife
 <1> QED BY <1>1, <1>2, <1>3, <1>4, PTL DEF Spec

\* The request Blender works on is no longer on its list.
Away == \A b \in Blenders : current[b] \notin agenda[b]

LEMMA AwayStep == TypeInv /\ Idle /\ Away /\ [Next]_vars => Away'
 <1> SUFFICES ASSUME TypeInv, Idle, Away, [Next]_vars PROVE Away'
   OBVIOUS
 <1> USE BridgeAssumption DEF Idle, Away, Busy, TypeInv, TypeOK, Working
 <1>1. ASSUME NEW r \in Requests, Submit(r) PROVE Away'
   BY <1>1 DEF Submit, pollVars, sceneVars
 <1>2. ASSUME NEW r \in Requests, TakeResponse(r) PROVE Away'
   BY <1>2 DEF TakeResponse, pollVars, sceneVars
 <1>3. ASSUME NEW r \in Requests, TimeOut(r) PROVE Away'
   BY <1>3 DEF TimeOut, pollVars, sceneVars
 <1>4. ASSUME NEW r \in Requests, AbortCall(r) PROVE Away'
   BY <1>4 DEF AbortCall, pollVars, sceneVars
 <1>5. ASSUME NEW b \in Blenders, StartBlender(b) PROVE Away'
   BY <1>5 DEF StartBlender, clientVars, sceneVars
 <1>6. ASSUME NEW b \in Blenders, Poll(b) PROVE Away'
   BY <1>6 DEF Poll, clientVars, sceneVars
 <1>7. ASSUME NEW b \in Blenders, NEW r \in Requests, LoadRequest(b, r) PROVE Away'
   BY <1>7 DEF LoadRequest, clientVars, sceneVars
 <1>8. ASSUME NEW b \in Blenders, RefuseRequest(b) PROVE Away'
   BY <1>8 DEF RefuseRequest, clientVars, sceneVars
 <1>9. ASSUME NEW b \in Blenders, ReportContext(b) PROVE Away'
   BY <1>9 DEF ReportContext, clientVars, sceneVars
 <1>10. ASSUME NEW b \in Blenders, NEW answer \in {"ok", "exit1"},
              NEW saveBefore \in BOOLEAN, NEW leavesDirty \in BOOLEAN,
             HandleRequest(b, answer, saveBefore, leavesDirty)
      PROVE  Away'
   BY <1>10 DEF HandleRequest, clientVars
 <1>11. ASSUME NEW b \in Blenders, SaveMainfile(b) PROVE Away'
   BY <1>11 DEF SaveMainfile, clientVars
 <1>12. ASSUME NEW b \in Blenders, OpenResponse(b) PROVE Away'
   BY <1>12 DEF OpenResponse, clientVars, sceneVars
 <1>13. ASSUME NEW b \in Blenders, FillResponse(b) PROVE Away'
   BY <1>13 DEF FillResponse, clientVars, sceneVars
 <1>14. ASSUME NEW b \in Blenders, RemoveRequest(b) PROVE Away'
   BY <1>14 DEF RemoveRequest, clientVars, sceneVars
 <1>15. ASSUME NEW b \in Blenders, UserEdits(b) PROVE Away'
   BY <1>15 DEF UserEdits, clientVars, pollVars
 <1>16. ASSUME NEW b \in Blenders, UserSaves(b) PROVE Away'
   BY <1>16 DEF UserSaves, clientVars, pollVars
 <1>17. ASSUME NEW b \in Blenders, NEW f \in Blends, UserOpens(b, f) PROVE Away'
   BY <1>17 DEF UserOpens, clientVars, pollVars
 <1>18. ASSUME NEW b \in Blenders, Crash(b) PROVE Away'
   BY <1>18 DEF Crash, clientVars
 <1>19. CASE UNCHANGED vars
   BY <1>19 DEF vars, clientVars, pollVars, sceneVars
 <1> QED
   BY <1>1, <1>2, <1>3, <1>4, <1>5, <1>6, <1>7, <1>8, <1>9, <1>10, <1>11, <1>12, <1>13,
      <1>14, <1>15, <1>16, <1>17, <1>18, <1>19
   DEF Next, ClientStep, BlenderStep, Environment

Answers == {"ok", "exit1", "error"}

\* A request that has been answered: no Blender has an answer to it before it.
Past(b, r) ==
  /\ r \notin agenda[b]
  /\ r \in requestFiles => current[b] = r /\ phase[b] \in {"answering", "answered"}
  /\ ~(current[b] = r /\ phase[b] \in {"loaded", "unsaved", "handled"})

\* As long as no Blender died a request is answered once, and the call that took
\* the answer left none.
AnsweredOnce ==
  crashes = 0 =>
    \A r \in Requests :
      /\ response[r] # "none" \/ client[r] \in Answers => \A b \in Blenders : Past(b, r)
      /\ client[r] \in Answers => response[r] = "none"

LEMMA AnsweredOnceStep ==
  ASSUME NEW theBlender, Blenders = {theBlender}
  PROVE  TypeInv /\ Unsent /\ Idle /\ Away /\ AnsweredOnce /\ [Next]_vars => AnsweredOnce'
 <1> SUFFICES ASSUME TypeInv, Unsent, Idle, Away, AnsweredOnce, [Next]_vars
              PROVE  AnsweredOnce'
   OBVIOUS
 <1> USE BridgeAssumption DEF Unsent, Idle, Away, AnsweredOnce, Past, Answers, Busy,
                TypeInv, TypeOK, Working, Replies
 <1>1. ASSUME NEW r \in Requests, Submit(r) PROVE AnsweredOnce'
   BY <1>1 DEF Submit, pollVars, sceneVars
 <1>2. ASSUME NEW r \in Requests, TakeResponse(r) PROVE AnsweredOnce'
   BY <1>2 DEF TakeResponse, pollVars, sceneVars
 <1>3. ASSUME NEW r \in Requests, TimeOut(r) PROVE AnsweredOnce'
   BY <1>3 DEF TimeOut, pollVars, sceneVars
 <1>4. ASSUME NEW r \in Requests, AbortCall(r) PROVE AnsweredOnce'
   BY <1>4 DEF AbortCall, pollVars, sceneVars
 <1>5. ASSUME NEW b \in Blenders, StartBlender(b) PROVE AnsweredOnce'
   BY <1>5 DEF StartBlender, clientVars, sceneVars
 <1>6. ASSUME NEW b \in Blenders, Poll(b) PROVE AnsweredOnce'
   BY <1>6 DEF Poll, clientVars, sceneVars
 <1>7. ASSUME NEW b \in Blenders, NEW r \in Requests, LoadRequest(b, r) PROVE AnsweredOnce'
   BY <1>7 DEF LoadRequest, clientVars, sceneVars
 <1>8. ASSUME NEW b \in Blenders, RefuseRequest(b) PROVE AnsweredOnce'
   BY <1>8 DEF RefuseRequest, clientVars, sceneVars
 <1>9. ASSUME NEW b \in Blenders, ReportContext(b) PROVE AnsweredOnce'
   BY <1>9 DEF ReportContext, clientVars, sceneVars
 <1>10. ASSUME NEW b \in Blenders, NEW answer \in {"ok", "exit1"},
              NEW saveBefore \in BOOLEAN, NEW leavesDirty \in BOOLEAN,
             HandleRequest(b, answer, saveBefore, leavesDirty)
      PROVE  AnsweredOnce'
   BY <1>10 DEF HandleRequest, clientVars
 <1>11. ASSUME NEW b \in Blenders, SaveMainfile(b) PROVE AnsweredOnce'
   BY <1>11 DEF SaveMainfile, clientVars
 <1>12. ASSUME NEW b \in Blenders, OpenResponse(b) PROVE AnsweredOnce'
   BY <1>12 DEF OpenResponse, clientVars, sceneVars
 <1>13. ASSUME NEW b \in Blenders, FillResponse(b) PROVE AnsweredOnce'
   BY <1>13 DEF FillResponse, clientVars, sceneVars
 <1>14. ASSUME NEW b \in Blenders, RemoveRequest(b) PROVE AnsweredOnce'
   BY <1>14 DEF RemoveRequest, clientVars, sceneVars
 <1>15. ASSUME NEW b \in Blenders, UserEdits(b) PROVE AnsweredOnce'
   BY <1>15 DEF UserEdits, clientVars, pollVars
 <1>16. ASSUME NEW b \in Blenders, UserSaves(b) PROVE AnsweredOnce'
   BY <1>16 DEF UserSaves, clientVars, pollVars
 <1>17. ASSUME NEW b \in Blenders, NEW f \in Blends, UserOpens(b, f) PROVE AnsweredOnce'
   BY <1>17 DEF UserOpens, clientVars, pollVars
 <1>18. ASSUME NEW b \in Blenders, Crash(b) PROVE AnsweredOnce'
   BY <1>18 DEF Crash, clientVars
 <1>19. CASE UNCHANGED vars
   BY <1>19 DEF vars, clientVars, pollVars, sceneVars
 <1> QED
   BY <1>1, <1>2, <1>3, <1>4, <1>5, <1>6, <1>7, <1>8, <1>9, <1>10, <1>11, <1>12, <1>13,
      <1>14, <1>15, <1>16, <1>17, <1>18, <1>19
   DEF Next, ClientStep, BlenderStep, Environment

\* A call that got its answer leaves no response behind, unless a Blender died and
\* the next one answered again.
THEOREM AnswersConsumed ==
  ASSUME NEW theBlender, Blenders = {theBlender}
  PROVE  Spec => []AnswerConsumed
 <1>1. Init => Unsent /\ Idle /\ Away /\ AnsweredOnce
   BY BridgeAssumption DEF Init, Unsent, Idle, Away, AnsweredOnce, Answers, Busy
 <1>2. Spec => []TypeInv
   BY TypeInit, TypeStep, PTL DEF Spec
 <1>3. TypeInv /\ Unsent /\ Idle /\ Away /\ AnsweredOnce /\ [Next]_vars
         => (Unsent /\ Idle /\ Away /\ AnsweredOnce)'
   BY UnsentStep, IdleStep, AwayStep, AnsweredOnceStep
 <1>4. TypeInv /\ AnsweredOnce => AnswerConsumed
   BY BridgeAssumption DEF TypeInv, TypeOK, AnsweredOnce, Answers, AnswerConsumed
 <1> QED BY <1>1, <1>2, <1>3, <1>4, PTL DEF Spec

-----------------------------------------------------------------------------
(* What was saved stays saved.                                               *)

\* The scene in memory shows what the file it was opened from shows, and more.
SceneCovers ==
  \A b \in Blenders : opened[b] # NoBlend => disk[opened[b]] \subseteq scene[b]

LEMMA SceneCoversStep ==
  ASSUME NEW theBlender, Blenders = {theBlender}
  PROVE  TypeInv /\ SceneCovers /\ [Next]_vars => SceneCovers'
 <1> SUFFICES ASSUME TypeInv, SceneCovers, [Next]_vars PROVE SceneCovers'
   OBVIOUS
 <1> USE BridgeAssumption DEF SceneCovers, CanOpen, SceneAfterOpen, Busy, TypeInv, TypeOK,
                Working
 <1>1. ASSUME NEW r \in Requests, Submit(r) PROVE SceneCovers'
   BY <1>1 DEF Submit, pollVars, sceneVars
 <1>2. ASSUME NEW r \in Requests, TakeResponse(r) PROVE SceneCovers'
   BY <1>2 DEF TakeResponse, pollVars, sceneVars
 <1>3. ASSUME NEW r \in Requests, TimeOut(r) PROVE SceneCovers'
   BY <1>3 DEF TimeOut, pollVars, sceneVars
 <1>4. ASSUME NEW r \in Requests, AbortCall(r) PROVE SceneCovers'
   BY <1>4 DEF AbortCall, pollVars, sceneVars
 <1>5. ASSUME NEW b \in Blenders, StartBlender(b) PROVE SceneCovers'
   BY <1>5 DEF StartBlender, clientVars, sceneVars
 <1>6. ASSUME NEW b \in Blenders, Poll(b) PROVE SceneCovers'
   BY <1>6 DEF Poll, clientVars, sceneVars
 <1>7. ASSUME NEW b \in Blenders, NEW r \in Requests, LoadRequest(b, r) PROVE SceneCovers'
   BY <1>7 DEF LoadRequest, clientVars, sceneVars
 <1>8. ASSUME NEW b \in Blenders, RefuseRequest(b) PROVE SceneCovers'
   BY <1>8 DEF RefuseRequest, clientVars, sceneVars
 <1>9. ASSUME NEW b \in Blenders, ReportContext(b) PROVE SceneCovers'
   BY <1>9 DEF ReportContext, clientVars, sceneVars
 <1>10. ASSUME NEW b \in Blenders, NEW answer \in {"ok", "exit1"},
              NEW saveBefore \in BOOLEAN, NEW leavesDirty \in BOOLEAN,
             HandleRequest(b, answer, saveBefore, leavesDirty)
      PROVE  SceneCovers'
   BY <1>10 DEF HandleRequest, clientVars
 <1>11. ASSUME NEW b \in Blenders, SaveMainfile(b) PROVE SceneCovers'
   BY <1>11 DEF SaveMainfile, clientVars
 <1>12. ASSUME NEW b \in Blenders, OpenResponse(b) PROVE SceneCovers'
   BY <1>12 DEF OpenResponse, clientVars, sceneVars
 <1>13. ASSUME NEW b \in Blenders, FillResponse(b) PROVE SceneCovers'
   BY <1>13 DEF FillResponse, clientVars, sceneVars
 <1>14. ASSUME NEW b \in Blenders, RemoveRequest(b) PROVE SceneCovers'
   BY <1>14 DEF RemoveRequest, clientVars, sceneVars
 <1>15. ASSUME NEW b \in Blenders, UserEdits(b) PROVE SceneCovers'
   BY <1>15 DEF UserEdits, clientVars, pollVars
 <1>16. ASSUME NEW b \in Blenders, UserSaves(b) PROVE SceneCovers'
   BY <1>16 DEF UserSaves, clientVars, pollVars
 <1>17. ASSUME NEW b \in Blenders, NEW f \in Blends, UserOpens(b, f) PROVE SceneCovers'
   BY <1>17 DEF UserOpens, clientVars, pollVars
 <1>18. ASSUME NEW b \in Blenders, Crash(b) PROVE SceneCovers'
   BY <1>18 DEF Crash, clientVars
 <1>19. CASE UNCHANGED vars
   BY <1>19 DEF vars, clientVars, pollVars, sceneVars
 <1> QED
   BY <1>1, <1>2, <1>3, <1>4, <1>5, <1>6, <1>7, <1>8, <1>9, <1>10, <1>11, <1>12, <1>13,
      <1>14, <1>15, <1>16, <1>17, <1>18, <1>19
   DEF Next, ClientStep, BlenderStep, Environment

\* No step takes anything out of a file on disk.
LEMMA DiskGrows ==
  ASSUME NEW theBlender, Blenders = {theBlender},
         TypeInv, SceneCovers, [Next]_vars
  PROVE  \A g \in Blends : disk[g] \subseteq disk'[g]
 <1> SUFFICES ASSUME NEW g \in Blends PROVE disk[g] \subseteq disk'[g]
   OBVIOUS
 <1> USE BridgeAssumption DEF SceneCovers, SceneAfterOpen, TypeInv, TypeOK, Working
 <1>1. ASSUME NEW r \in Requests, Submit(r) PROVE disk[g] \subseteq disk'[g]
   BY <1>1 DEF Submit, pollVars, sceneVars
 <1>2. ASSUME NEW r \in Requests, TakeResponse(r) PROVE disk[g] \subseteq disk'[g]
   BY <1>2 DEF TakeResponse, pollVars, sceneVars
 <1>3. ASSUME NEW r \in Requests, TimeOut(r) PROVE disk[g] \subseteq disk'[g]
   BY <1>3 DEF TimeOut, pollVars, sceneVars
 <1>4. ASSUME NEW r \in Requests, AbortCall(r) PROVE disk[g] \subseteq disk'[g]
   BY <1>4 DEF AbortCall, pollVars, sceneVars
 <1>5. ASSUME NEW b \in Blenders, StartBlender(b) PROVE disk[g] \subseteq disk'[g]
   BY <1>5 DEF StartBlender, clientVars, sceneVars
 <1>6. ASSUME NEW b \in Blenders, Poll(b) PROVE disk[g] \subseteq disk'[g]
   BY <1>6 DEF Poll, clientVars, sceneVars
 <1>7. ASSUME NEW b \in Blenders, NEW r \in Requests, LoadRequest(b, r)
      PROVE  disk[g] \subseteq disk'[g]
   BY <1>7 DEF LoadRequest, clientVars, sceneVars
 <1>8. ASSUME NEW b \in Blenders, RefuseRequest(b) PROVE disk[g] \subseteq disk'[g]
   BY <1>8 DEF RefuseRequest, clientVars, sceneVars
 <1>9. ASSUME NEW b \in Blenders, ReportContext(b) PROVE disk[g] \subseteq disk'[g]
   BY <1>9 DEF ReportContext, clientVars, sceneVars
 <1>10. ASSUME NEW b \in Blenders, NEW answer \in {"ok", "exit1"},
              NEW saveBefore \in BOOLEAN, NEW leavesDirty \in BOOLEAN,
             HandleRequest(b, answer, saveBefore, leavesDirty)
      PROVE  disk[g] \subseteq disk'[g]
   BY <1>10 DEF HandleRequest, clientVars
 <1>11. ASSUME NEW b \in Blenders, SaveMainfile(b) PROVE disk[g] \subseteq disk'[g]
   BY <1>11 DEF SaveMainfile, clientVars
 <1>12. ASSUME NEW b \in Blenders, OpenResponse(b) PROVE disk[g] \subseteq disk'[g]
   BY <1>12 DEF OpenResponse, clientVars, sceneVars
 <1>13. ASSUME NEW b \in Blenders, FillResponse(b) PROVE disk[g] \subseteq disk'[g]
   BY <1>13 DEF FillResponse, clientVars, sceneVars
 <1>14. ASSUME NEW b \in Blenders, RemoveRequest(b) PROVE disk[g] \subseteq disk'[g]
   BY <1>14 DEF RemoveRequest, clientVars, sceneVars
 <1>15. ASSUME NEW b \in Blenders, UserEdits(b) PROVE disk[g] \subseteq disk'[g]
   BY <1>15 DEF UserEdits, clientVars, pollVars
 <1>16. ASSUME NEW b \in Blenders, UserSaves(b) PROVE disk[g] \subseteq disk'[g]
   BY <1>16 DEF UserSaves, clientVars, pollVars
 <1>17. ASSUME NEW b \in Blenders, NEW f \in Blends, UserOpens(b, f)
      PROVE  disk[g] \subseteq disk'[g]
   BY <1>17 DEF UserOpens, clientVars, pollVars
 <1>18. ASSUME NEW b \in Blenders, Crash(b) PROVE disk[g] \subseteq disk'[g]
   BY <1>18 DEF Crash, clientVars
 <1>19. CASE UNCHANGED vars
   BY <1>19 DEF vars, clientVars, pollVars, sceneVars
 <1> QED
   BY <1>1, <1>2, <1>3, <1>4, <1>5, <1>6, <1>7, <1>8, <1>9, <1>10, <1>11, <1>12, <1>13,
      <1>14, <1>15, <1>16, <1>17, <1>18, <1>19
   DEF Next, ClientStep, BlenderStep, Environment

OnDisk(r) == r \in disk[target[r]]

\* Between handler and save the scene shows the request, in the right file; from then
\* on an ok means that the disk does, be it Blender's, the file's or the call's.
SavedBeforeOk ==
  /\ \A b \in Blenders :
       /\ phase[b] \in {"off", "idle", "polling", "loaded"} => reply[b] = "error"
       /\ phase[b] = "unsaved" =>
            opened[b] = target[current[b]] /\ current[b] \in scene[b]
       /\ phase[b] \in {"handled", "answering", "answered"} /\ reply[b] = "ok"
            /\ kind[current[b]] \in Saves => OnDisk(current[b])
  /\ \A r \in Requests :
       (response[r] = "ok" \/ client[r] = "ok") /\ kind[r] \in Saves => OnDisk(r)

LEMMA SavedBeforeOkStep ==
  ASSUME NEW theBlender, Blenders = {theBlender}
  PROVE  TypeInv /\ SceneCovers /\ SavedBeforeOk /\ [Next]_vars => SavedBeforeOk'
 <1> SUFFICES ASSUME TypeInv, SceneCovers, SavedBeforeOk, [Next]_vars PROVE SavedBeforeOk'
   OBVIOUS
 <1>0. \A r \in Requests : target[r] \in Blends /\ disk[target[r]] \subseteq disk'[target[r]]
   BY DiskGrows DEF TypeInv, TypeOK
 <1> USE BridgeAssumption, <1>0 DEF SavedBeforeOk, OnDisk, Busy, Saves, TypeInv, TypeOK,
                Working
 <1>1. ASSUME NEW r \in Requests, Submit(r) PROVE SavedBeforeOk'
   BY <1>1 DEF Submit, pollVars, sceneVars
 <1>2. ASSUME NEW r \in Requests, TakeResponse(r) PROVE SavedBeforeOk'
   BY <1>2 DEF TakeResponse, pollVars, sceneVars
 <1>3. ASSUME NEW r \in Requests, TimeOut(r) PROVE SavedBeforeOk'
   BY <1>3 DEF TimeOut, pollVars, sceneVars
 <1>4. ASSUME NEW r \in Requests, AbortCall(r) PROVE SavedBeforeOk'
   BY <1>4 DEF AbortCall, pollVars, sceneVars
 <1>5. ASSUME NEW b \in Blenders, StartBlender(b) PROVE SavedBeforeOk'
   BY <1>5 DEF StartBlender, clientVars, sceneVars
 <1>6. ASSUME NEW b \in Blenders, Poll(b) PROVE SavedBeforeOk'
   BY <1>6 DEF Poll, clientVars, sceneVars
 <1>7. ASSUME NEW b \in Blenders, NEW r \in Requests, LoadRequest(b, r) PROVE SavedBeforeOk'
   BY <1>7 DEF LoadRequest, clientVars, sceneVars
 <1>8. ASSUME NEW b \in Blenders, RefuseRequest(b) PROVE SavedBeforeOk'
   BY <1>8 DEF RefuseRequest, clientVars, sceneVars
 <1>9. ASSUME NEW b \in Blenders, ReportContext(b) PROVE SavedBeforeOk'
   BY <1>9 DEF ReportContext, clientVars, sceneVars
 <1>10. ASSUME NEW b \in Blenders, NEW answer \in {"ok", "exit1"},
              NEW saveBefore \in BOOLEAN, NEW leavesDirty \in BOOLEAN,
             HandleRequest(b, answer, saveBefore, leavesDirty)
      PROVE  SavedBeforeOk'
   BY <1>10 DEF HandleRequest, clientVars
 <1>11. ASSUME NEW b \in Blenders, SaveMainfile(b) PROVE SavedBeforeOk'
   BY <1>11 DEF SaveMainfile, clientVars
 <1>12. ASSUME NEW b \in Blenders, OpenResponse(b) PROVE SavedBeforeOk'
   BY <1>12 DEF OpenResponse, clientVars, sceneVars
 <1>13. ASSUME NEW b \in Blenders, FillResponse(b) PROVE SavedBeforeOk'
   BY <1>13 DEF FillResponse, clientVars, sceneVars
 <1>14. ASSUME NEW b \in Blenders, RemoveRequest(b) PROVE SavedBeforeOk'
   BY <1>14 DEF RemoveRequest, clientVars, sceneVars
 <1>15. ASSUME NEW b \in Blenders, UserEdits(b) PROVE SavedBeforeOk'
   BY <1>15 DEF UserEdits, clientVars, pollVars
 <1>16. ASSUME NEW b \in Blenders, UserSaves(b) PROVE SavedBeforeOk'
   BY <1>16 DEF UserSaves, clientVars, pollVars
 <1>17. ASSUME NEW b \in Blenders, NEW f \in Blends, UserOpens(b, f) PROVE SavedBeforeOk'
   BY <1>17 DEF UserOpens, clientVars, pollVars
 <1>18. ASSUME NEW b \in Blenders, Crash(b) PROVE SavedBeforeOk'
   BY <1>18 DEF Crash, clientVars
 <1>19. CASE UNCHANGED vars
   BY <1>19 DEF vars, clientVars, pollVars, sceneVars
 <1> QED
   BY <1>1, <1>2, <1>3, <1>4, <1>5, <1>6, <1>7, <1>8, <1>9, <1>10, <1>11, <1>12, <1>13,
      <1>14, <1>15, <1>16, <1>17, <1>18, <1>19
   DEF Next, ClientStep, BlenderStep, Environment

\* With one Blender, what was answered ok is in its file for good: no later
\* request, refusal, switch of files, save or death of Blender undoes it.
THEOREM OkIsForGood ==
  ASSUME NEW theBlender, Blenders = {theBlender}
  PROVE  Spec => []OkIsDurable
 <1>1. Init => SceneCovers /\ SavedBeforeOk
   BY BridgeAssumption DEF Init, SceneCovers, SavedBeforeOk
 <1>2. Spec => []TypeInv
   BY TypeInit, TypeStep, PTL DEF Spec
 <1>3. TypeInv /\ SceneCovers /\ SavedBeforeOk /\ [Next]_vars => (SceneCovers /\ SavedBeforeOk)'
   BY SceneCoversStep, SavedBeforeOkStep
 <1>4. SavedBeforeOk => OkIsDurable
   BY DEF SavedBeforeOk, OnDisk, OkIsDurable
 <1> QED BY <1>1, <1>2, <1>3, <1>4, PTL DEF Spec

-----------------------------------------------------------------------------
(* Progress: what keeps a request from waiting for ever in front of a Blender   *)
(* that polls.  The fairness of its timer does the rest.                          *)

\* A Blender that has begun a poll has a request to load or one in its hands.
BlenderNeverStuck ==
  \A b \in Blenders :
    /\ phase[b] = "polling" => \E r \in Requests : r \in agenda[b]
    /\ phase[b] \in Busy <=> current[b] \in Requests

\* The request is in the snapshot of this Blender, or in its hands.
Taken(b, r) == r \in agenda[b] \/ current[b] = r

\* What a Blender has taken up stays with it until its file is gone or the Blender is closed.
TakenUntilGone ==
  [][\A b \in Blenders, r \in Requests :
       Taken(b, r) /\ r \in requestFiles =>
         Taken(b, r)' \/ r \notin requestFiles' \/ phase'[b] = "off"]_vars

\* How far the request in hand is from its end.
PhaseLeft == [loaded |-> 5, unsaved |-> 4, handled |-> 3, answering |-> 2, answered |-> 1,
              polling |-> 0, idle |-> 0]

\* A poll's own steps leave it fewer requests, or bring the one in hand closer to its end; no
\* client, other Blender or user adds to it.
AgendaWindsDown ==
  [][\A b \in Blenders : phase[b] \in {"polling"} \cup Busy =>
       IF BlenderStep(b)
       THEN \/ agenda'[b] \subseteq agenda[b] /\ agenda'[b] # agenda[b]
            \/ agenda'[b] = agenda[b] /\ PhaseLeft[phase'[b]] < PhaseLeft[phase[b]]
       ELSE phase'[b] = "off" \/ (agenda'[b] = agenda[b] /\ phase'[b] = phase[b])]_vars

PollingHasMore == \A b \in Blenders : phase[b] = "polling" => agenda[b] # {}

LEMMA PollingStep == TypeInv /\ PollingHasMore /\ [Next]_vars => PollingHasMore'
 <1> SUFFICES ASSUME TypeInv, PollingHasMore, [Next]_vars PROVE PollingHasMore'
   OBVIOUS
 <1> USE DEF TypeInv, TypeOK, PollingHasMore
 <1>1. CASE (\E r \in Requests : ClientStep(r)) \/ UNCHANGED vars
   BY <1>1 DEF ClientStep, Submit, TakeResponse, TimeOut, AbortCall, vars, pollVars
 <1>2. ASSUME NEW b \in Blenders, BlenderStep(b) PROVE PollingHasMore'
   <2>1. CASE StartBlender(b)
     BY <2>1 DEF StartBlender
   <2>2. CASE Poll(b)
     BY <2>2 DEF Poll
   <2>3. ASSUME NEW r \in Requests, LoadRequest(b, r) PROVE PollingHasMore'
     BY <2>3 DEF LoadRequest
   <2>4. CASE RefuseRequest(b) \/ ReportContext(b)
     BY <2>4 DEF RefuseRequest, ReportContext
   <2>5. ASSUME NEW answer \in {"ok", "exit1"}, NEW saveBefore \in BOOLEAN,
                NEW leavesDirty \in BOOLEAN, HandleRequest(b, answer, saveBefore, leavesDirty)
         PROVE  PollingHasMore'
     BY <2>5 DEF HandleRequest
   <2>6. CASE SaveMainfile(b) \/ OpenResponse(b) \/ FillResponse(b)
     BY <2>6 DEF SaveMainfile, OpenResponse, FillResponse
   <2>7. CASE RemoveRequest(b)
     BY <2>7 DEF RemoveRequest
   <2> QED BY <1>2, <2>1, <2>2, <2>3, <2>4, <2>5, <2>6, <2>7 DEF BlenderStep
 <1>3. ASSUME NEW b \in Blenders, Environment(b) PROVE PollingHasMore'
   BY <1>3 DEF Environment, UserEdits, UserSaves, UserOpens, Crash, pollVars
 <1> QED BY <1>1, <1>2, <1>3 DEF Next

\* A poll never waits for a request it has not got (poll_requests): every busy Blender has one
\* to work on, for any number of Blenders and requests.
THEOREM BlenderIsNeverStuck == Spec => []BlenderNeverStuck
 <1>1. Init => Idle /\ PollingHasMore
   BY DEF Init, Idle, PollingHasMore, Busy
 <1>2. TypeInv /\ Idle /\ PollingHasMore => BlenderNeverStuck
   BY BridgeAssumption
      DEF TypeInv, TypeOK, Working, Idle, PollingHasMore, BlenderNeverStuck
 <1> QED BY <1>1, <1>2, TypeInit, TypeStep, IdleStep, PollingStep, PTL DEF Spec

LEMMA TakenStep ==
  ASSUME TypeInv, Idle, [Next]_vars, NEW b \in Blenders, NEW r \in Requests,
         Taken(b, r), r \in requestFiles
  PROVE  Taken(b, r)' \/ r \notin requestFiles' \/ phase'[b] = "off"
 <1> USE DEF TypeInv, TypeOK, Taken
 <1>1. CASE agenda'[b] = agenda[b] /\ current'[b] = current[b]
   BY <1>1
 <1>2. CASE (\E q \in Requests : ClientStep(q)) \/ UNCHANGED vars
   BY <1>1, <1>2 DEF ClientStep, Submit, TakeResponse, TimeOut, AbortCall, vars, pollVars
 <1>3. ASSUME NEW c \in Blenders, BlenderStep(c), c # b
       PROVE  agenda'[b] = agenda[b] /\ current'[b] = current[b]
   BY <1>3 DEF BlenderStep, StartBlender, Poll, LoadRequest, RefuseRequest, ReportContext,
               HandleRequest, SaveMainfile, OpenResponse, FillResponse, RemoveRequest
 <1>4. ASSUME BlenderStep(b)
       PROVE  Taken(b, r)' \/ r \notin requestFiles'
   <2>1. CASE \/ StartBlender(b) \/ RefuseRequest(b) \/ ReportContext(b)
              \/ SaveMainfile(b) \/ OpenResponse(b) \/ FillResponse(b)
     BY <2>1 DEF StartBlender, RefuseRequest, ReportContext, SaveMainfile, OpenResponse,
                 FillResponse
   <2>2. ASSUME NEW answer \in {"ok", "exit1"}, NEW saveBefore \in BOOLEAN,
                NEW leavesDirty \in BOOLEAN, HandleRequest(b, answer, saveBefore, leavesDirty)
         PROVE  Taken(b, r)'
     BY <2>2 DEF HandleRequest
   <2>3. CASE Poll(b)
     BY <2>3 DEF Poll
   <2>4. ASSUME NEW q \in Requests, LoadRequest(b, q) PROVE Taken(b, r)'
     <3>1. current[b] # r
       BY <2>4, BridgeAssumption DEF LoadRequest, Idle, Busy
     <3> QED BY <2>4, <3>1 DEF LoadRequest
   <2>5. CASE RemoveRequest(b)
     BY <2>5 DEF RemoveRequest
   <2> QED BY <1>4, <2>1, <2>2, <2>3, <2>4, <2>5 DEF BlenderStep
 <1>5. ASSUME NEW c \in Blenders, Environment(c)
       PROVE  Taken(b, r)' \/ phase'[b] = "off"
   BY <1>5 DEF Environment, UserEdits, UserSaves, UserOpens, Crash, pollVars
 <1> QED BY <1>1, <1>2, <1>3, <1>4, <1>5 DEF Next

\* A request a Blender has seen in the directory is not forgotten by its poll: it remains in
\* the snapshot or in hand until its file is removed.
THEOREM RequestsAreTaken == Spec => TakenUntilGone
 <1>1. Init => Idle
   BY DEF Init, Idle, Busy
 <1>2. TypeInv /\ Idle /\ [Next]_vars
         => [\A b \in Blenders, r \in Requests :
               Taken(b, r) /\ r \in requestFiles =>
                 Taken(b, r)' \/ r \notin requestFiles' \/ phase'[b] = "off"]_vars
   BY TakenStep
 <1> QED BY <1>1, <1>2, TypeInit, TypeStep, IdleStep, PTL DEF Spec, TakenUntilGone

LEMMA AgendaStep ==
  ASSUME TypeInv, [Next]_vars, NEW b \in Blenders, phase[b] \in {"polling"} \cup Busy
  PROVE  IF BlenderStep(b)
         THEN \/ agenda'[b] \subseteq agenda[b] /\ agenda'[b] # agenda[b]
              \/ agenda'[b] = agenda[b] /\ PhaseLeft[phase'[b]] < PhaseLeft[phase[b]]
         ELSE phase'[b] = "off" \/ (agenda'[b] = agenda[b] /\ phase'[b] = phase[b])
 <1> USE DEF TypeInv, TypeOK
 <1>1. ASSUME BlenderStep(b)
       PROVE  \/ agenda'[b] \subseteq agenda[b] /\ agenda'[b] # agenda[b]
              \/ agenda'[b] = agenda[b] /\ PhaseLeft[phase'[b]] < PhaseLeft[phase[b]]
   <2>1. ~StartBlender(b) /\ ~Poll(b)
     BY DEF StartBlender, Poll, Busy
   <2>2. ASSUME NEW r \in Requests, LoadRequest(b, r)
         PROVE  agenda'[b] \subseteq agenda[b] /\ agenda'[b] # agenda[b]
     BY <2>2 DEF LoadRequest
   <2>3. CASE RefuseRequest(b) \/ ReportContext(b)
     BY <2>3 DEF RefuseRequest, ReportContext, PhaseLeft
   <2>4. ASSUME NEW answer \in {"ok", "exit1"}, NEW saveBefore \in BOOLEAN,
                NEW leavesDirty \in BOOLEAN, HandleRequest(b, answer, saveBefore, leavesDirty)
         PROVE  agenda'[b] = agenda[b] /\ PhaseLeft[phase'[b]] < PhaseLeft[phase[b]]
     <3>1. phase[b] = "loaded" /\ phase'[b] \in {"unsaved", "handled"} /\ agenda' = agenda
       BY <2>4 DEF HandleRequest
     <3> QED BY <3>1 DEF PhaseLeft
   <2>5. CASE SaveMainfile(b) \/ OpenResponse(b) \/ FillResponse(b)
     BY <2>5 DEF SaveMainfile, OpenResponse, FillResponse, PhaseLeft
   <2>6. CASE RemoveRequest(b)
     BY <2>6 DEF RemoveRequest, PhaseLeft
   <2> QED BY <1>1, <2>1, <2>2, <2>3, <2>4, <2>5, <2>6 DEF BlenderStep
 <1>2. ASSUME ~BlenderStep(b)
       PROVE  phase'[b] = "off" \/ (agenda'[b] = agenda[b] /\ phase'[b] = phase[b])
   <2>1. CASE (\E r \in Requests : ClientStep(r)) \/ UNCHANGED vars
     BY <2>1 DEF ClientStep, Submit, TakeResponse, TimeOut, AbortCall, vars, pollVars
   <2>2. ASSUME NEW c \in Blenders, BlenderStep(c)
         PROVE  agenda'[b] = agenda[b] /\ phase'[b] = phase[b]
     <3>1. c # b
       BY <1>2, <2>2
     <3> QED BY <2>2, <3>1
             DEF BlenderStep, StartBlender, Poll, LoadRequest, RefuseRequest, ReportContext,
                 HandleRequest, SaveMainfile, OpenResponse, FillResponse, RemoveRequest
   <2>3. ASSUME NEW c \in Blenders, Environment(c)
         PROVE  phase'[b] = "off" \/ (agenda'[b] = agenda[b] /\ phase'[b] = phase[b])
     BY <2>3 DEF Environment, UserEdits, UserSaves, UserOpens, Crash, pollVars
   <2> QED BY <2>1, <2>2, <2>3 DEF Next
 <1> QED BY <1>1, <1>2

\* A poll works its snapshot off and does not begin again before: requests that come meanwhile
\* wait for the next one, so that none can keep a Blender from the requests it has seen.
THEOREM AgendaAlwaysWindsDown == Spec => AgendaWindsDown
 <1>1. TypeInv /\ [Next]_vars
         => [\A b \in Blenders : phase[b] \in {"polling"} \cup Busy =>
               IF BlenderStep(b)
               THEN \/ agenda'[b] \subseteq agenda[b] /\ agenda'[b] # agenda[b]
                    \/ agenda'[b] = agenda[b] /\ PhaseLeft[phase'[b]] < PhaseLeft[phase[b]]
               ELSE phase'[b] = "off" \/ (agenda'[b] = agenda[b] /\ phase'[b] = phase[b])]_vars
   BY AgendaStep
 <1> QED BY <1>1, TypeInit, TypeStep, PTL DEF Spec, AgendaWindsDown
=============================================================================
