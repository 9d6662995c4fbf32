-------------------------- MODULE TranscriptProofs --------------------------
(***************************************************************************)
(* Proofs about Transcript for any number of lines, viewers, concurrent    *)
(* handlers and faults.                                                    *)
(***************************************************************************)
EXTENDS Transcript, TLAPS

(* The records a handler and a viewer start from.                          *)
LEMMA IdleInRequests == IdleReq \in Requests /\ Away \in ViewerStates
BY TranscriptAssumption DEF IdleReq, Requests, ReqSteps, Lines, Away, ViewerStates

(* The answer to a request keeps the worker's variables well typed.        *)
LEMMA AnswerType ==
  ASSUME TypeOK, NEW r \in Slots, NEW have \in 0 .. MaxLines,
         NEW conflict \in BOOLEAN, Answer(r, have, conflict)
  PROVE  /\ made' \in 0 .. MaxLines /\ acked' \in 0 .. MaxLines
         /\ oos' \in BOOLEAN /\ waiting' \in Slots \cup {NoSlot} /\ faults' \in Nat
         /\ req' = [req EXCEPT ![r] = IdleReq]
<1>1. CASE waiting = r
  BY <1>1 DEF TypeOK, Answer, Fault
<1>2. CASE waiting # r
  BY <1>2 DEF TypeOK, Answer
<1> QED BY <1>1, <1>2

(* A handler that ends leaves the handlers well typed.                     *)
LEMMA IdleType ==
  ASSUME TypeOK, NEW r \in Slots, req' = [req EXCEPT ![r] = IdleReq]
  PROVE  req' \in [Slots -> Requests]
<1>1. IdleReq \in Requests
  BY IdleInRequests
<1> QED BY <1>1 DEF TypeOK

(* A handler that moves on stays well typed.                               *)
LEMMA StepType ==
  ASSUME TypeOK, NEW r \in Slots, NEW s \in ReqSteps
  PROVE  /\ req[r] \in Requests
         /\ [req EXCEPT ![r].step = s] \in [Slots -> Requests]
         /\ \A i \in Lines :
              [req EXCEPT ![r].step = s, ![r].id = i] \in [Slots -> Requests]
         /\ \A c \in SUBSET Lines :
              [req EXCEPT ![r].step = s, ![r].carry = c] \in [Slots -> Requests]
<1>1. req \in [Slots -> Requests] /\ req[r] \in Requests
  BY DEF TypeOK
<1>2. [req[r] EXCEPT !.step = s] \in Requests
  BY <1>1 DEF Requests
<1>3. ASSUME NEW i \in Lines PROVE [req[r] EXCEPT !.step = s, !.id = i] \in Requests
  BY <1>1 DEF Requests
<1>4. ASSUME NEW c \in SUBSET Lines PROVE [req[r] EXCEPT !.step = s, !.carry = c] \in Requests
  BY <1>1 DEF Requests
<1>5. [req EXCEPT ![r].step = s] = [req EXCEPT ![r] = [req[r] EXCEPT !.step = s]]
  BY <1>1
<1>6. ASSUME NEW i \in Lines
      PROVE  [req EXCEPT ![r].step = s, ![r].id = i]
               = [req EXCEPT ![r] = [req[r] EXCEPT !.step = s, !.id = i]]
  BY <1>1
<1>7. ASSUME NEW c \in SUBSET Lines
      PROVE  [req EXCEPT ![r].step = s, ![r].carry = c]
               = [req EXCEPT ![r] = [req[r] EXCEPT !.step = s, !.carry = c]]
  BY <1>1
<1> QED BY <1>1, <1>2, <1>3, <1>4, <1>5, <1>6, <1>7

(* A newLine broadcast keeps the viewers well typed.                       *)
LEMMA ToldType ==
  ASSUME TypeOK, NEW i \in Lines, Told(i)
  PROVE  viewer' \in [Viewers -> ViewerStates]
<1>1. ASSUME NEW v \in Viewers
      PROVE  /\ viewer[v] \in ViewerStates
             /\ [viewer[v] EXCEPT !.has = @ \cup {i}, !.told = @ \cup {i}] \in ViewerStates
  <2>1. viewer[v] \in ViewerStates
    BY DEF TypeOK
  <2> QED BY <2>1 DEF ViewerStates
<1> QED BY <1>1 DEF Told

(* A step of the /line and /sync handlers keeps the type invariant.        *)
LEMMA HandleType ==
  ASSUME TypeOK, NEW r \in Slots, Handle(r)
  PROVE  TypeOK'
<1>1. CASE Insert(r)
  <2>1. req' \in [Slots -> Requests] /\ req[r].id \in Lines
    BY <1>1, StepType DEF Insert, ReqSteps, Requests
  <2> QED BY <1>1, <2>1 DEF TypeOK, Insert, workerVars
<1>2. CASE InsertConflict(r)
  <2>1. acked \in 0 .. MaxLines /\ Answer(r, acked, TRUE)
    BY <1>2 DEF TypeOK, InsertConflict
  <2> QED BY <1>2, <2>1, AnswerType, IdleType DEF TypeOK, InsertConflict, tableVars
<1>3. CASE LineCast(r)
  <2>0. req[r].id \in Lines
    BY DEF TypeOK, Requests
  <2>1. /\ req[r].id \in Lines /\ req[r].id + 1 \in 0 .. MaxLines
        /\ Answer(r, req[r].id + 1, FALSE) /\ Told(req[r].id)
    <3>1. \A i \in Lines : i + 1 \in 0 .. MaxLines
      BY TranscriptAssumption DEF Lines
    <3> QED BY <1>3, <2>0, <3>1 DEF LineCast
  <2> QED BY <1>3, <2>1, AnswerType, IdleType, ToldType DEF TypeOK, LineCast, tableVars
<1>4. CASE SyncUpsert(r)
  <2>1. req' \in [Slots -> Requests]
    BY <1>4, StepType DEF SyncUpsert, ReqSteps
  <2> QED BY <1>4, <2>1 DEF TypeOK, SyncUpsert, workerVars
<1>5. CASE SyncCarry(r)
  <2>0. avail \in SUBSET Lines
    BY DEF TypeOK
  <2>1. req' \in [Slots -> Requests]
    BY <1>5, <2>0, StepType DEF SyncCarry, ReqSteps
  <2> QED BY <1>5, <2>1 DEF TypeOK, SyncCarry, tableVars, workerVars
<1>6. CASE SyncReplace(r)
  <2>0. req[r].upto \in 0 .. MaxLines
    BY DEF TypeOK, Requests
  <2>1. lines' \subseteq Lines /\ avail' \subseteq lines' /\ ok' \subseteq lines'
    BY <1>6, <2>0, TranscriptAssumption DEF SyncReplace, Lines
  <2>2. req' \in [Slots -> Requests]
    BY <1>6, StepType DEF SyncReplace, ReqSteps
  <2>3. viewer' \in [Viewers -> ViewerStates]
    <3>1. ASSUME NEW v \in Viewers
          PROVE  viewer[v] \in ViewerStates /\ [viewer[v] EXCEPT !.behind = TRUE] \in ViewerStates
      <4>1. viewer[v] \in ViewerStates
        BY DEF TypeOK
      <4> QED BY <4>1 DEF ViewerStates
    <3> QED BY <1>6, <3>1 DEF SyncReplace
  <2> QED BY <1>6, <2>1, <2>2, <2>3 DEF TypeOK, SyncReplace, workerVars
<1>7. CASE SyncRefresh(r)
  <2>1. PICK last \in lines :
          req' = [req EXCEPT ![r].step = "syncCast", ![r].id = last]
    BY <1>7 DEF SyncRefresh
  <2>2. last \in Lines /\ "syncCast" \in ReqSteps
    BY DEF TypeOK, ReqSteps
  <2>3. req' \in [Slots -> Requests]
    BY <2>1, <2>2, StepType
  <2> QED BY <1>7, <2>3 DEF TypeOK, SyncRefresh, tableVars, workerVars
<1>8. CASE SyncRefreshEmpty(r)
  <2>1. req[r].upto \in 0 .. MaxLines /\ Answer(r, req[r].upto, FALSE)
    BY <1>8 DEF TypeOK, SyncRefreshEmpty, Requests
  <2> QED BY <1>8, <2>1, AnswerType, IdleType DEF TypeOK, SyncRefreshEmpty, tableVars
<1>9. CASE SyncCast(r)
  <2>1. /\ req[r].id \in Lines /\ req[r].upto \in 0 .. MaxLines
        /\ Answer(r, req[r].upto, FALSE) /\ Told(req[r].id)
    BY <1>9 DEF TypeOK, SyncCast, Requests
  <2> QED BY <1>9, <2>1, AnswerType, IdleType, ToldType DEF TypeOK, SyncCast, tableVars
<1> QED BY <1>1, <1>2, <1>3, <1>4, <1>5, <1>6, <1>7, <1>8, <1>9 DEF Handle

(* A step of a /media handler keeps the type invariant.                    *)
LEMMA UploadType ==
  ASSUME TypeOK, NEW i \in Lines, Upload(i)
  PROVE  TypeOK'
<1> USE DEF tableVars, workerVars, UpSteps
<1>1. CASE UpStart(i)
  BY <1>1 DEF TypeOK, UpStart
<1>2. CASE UpStore(i)
  BY <1>2 DEF TypeOK, UpStore
<1>3. CASE UpFails(i)
  BY <1>3 DEF TypeOK, UpFails
<1>4. CASE SetMediaAvailable(i)
  <2>1. raced' \subseteq Lines
    BY <1>4 DEF TypeOK, SetMediaAvailable
  <2> QED BY <1>4, <2>1 DEF TypeOK, SetMediaAvailable
<1>5. CASE SetMediaNotFound(i)
  BY <1>5 DEF TypeOK, SetMediaNotFound
<1> QED BY <1>1, <1>2, <1>3, <1>4, <1>5 DEF Upload

(* A step of a viewer's connection keeps the type invariant.               *)
LEMMA ViewType ==
  ASSUME TypeOK, NEW v \in Viewers, View(v)
  PROVE  TypeOK'
<1> USE DEF tableVars, workerVars
<1>1. CASE Register(v)
  BY <1>1 DEF TypeOK, Register, ViewerStates
<1>2. CASE ReadTranscript(v)
  <2>1. viewer[v] \in ViewerStates /\ lines \in SUBSET Lines
    BY DEF TypeOK
  <2>2. [viewer[v] EXCEPT !.at = "read", !.snap = lines] \in ViewerStates
    BY <2>1 DEF ViewerStates
  <2>3. viewer' \in [Viewers -> ViewerStates]
    BY <1>2, <2>2 DEF TypeOK, ReadTranscript
  <2> QED BY <1>2, <2>3 DEF TypeOK, ReadTranscript
<1>3. CASE SyncClient(v)
  <2>1. viewer[v] \in ViewerStates
    BY DEF TypeOK
  <2>2. [viewer[v] EXCEPT !.at = "synced", !.has = viewer[v].snap,
                          !.told = @ \cup viewer[v].snap] \in ViewerStates
    BY <2>1 DEF ViewerStates
  <2>3. viewer' \in [Viewers -> ViewerStates]
    BY <1>3, <2>2 DEF TypeOK, SyncClient
  <2> QED BY <1>3, <2>3 DEF TypeOK, SyncClient
<1>4. CASE Leave(v)
  BY <1>4, IdleInRequests DEF TypeOK, Leave
<1> QED BY <1>1, <1>2, <1>3, <1>4 DEF View

(* Every step keeps the type invariant.                                    *)
LEMMA TypeStep == TypeOK /\ [Next]_vars => TypeOK'
<1> SUFFICES ASSUME TypeOK, [Next]_vars PROVE TypeOK'
  OBVIOUS
<1> USE DEF tableVars, workerVars
<1>1. CASE UNCHANGED vars
  BY <1>1 DEF TypeOK, vars
<1>2. CASE MakeLine
  BY <1>2, TranscriptAssumption DEF TypeOK, MakeLine
<1>3. CASE Abandon
  BY <1>3 DEF TypeOK, Abandon, Fault
<1>4. ASSUME NEW r \in Slots, SendLine(r) PROVE TypeOK'
  <2>1. acked \in Lines
    BY <1>4, TranscriptAssumption DEF TypeOK, SendLine, Lines
  <2>2. req' \in [Slots -> Requests]
    <3>1. [IdleReq EXCEPT !.step = "insert", !.id = acked] \in Requests
      BY <2>1, IdleInRequests DEF Requests, ReqSteps
    <3> QED BY <1>4, <3>1 DEF TypeOK, SendLine
  <2> QED BY <1>4, <2>2 DEF TypeOK, SendLine
<1>5. ASSUME NEW r \in Slots, SendSync(r) PROVE TypeOK'
  <2>1. req' \in [Slots -> Requests]
    <3>1. made \in 0 .. MaxLines
      BY DEF TypeOK
    <3>2. [IdleReq EXCEPT !.step = "upsert", !.upto = made] \in Requests
      BY <3>1, IdleInRequests DEF Requests, ReqSteps
    <3> QED BY <1>5, <3>2 DEF TypeOK, SendSync
  <2> QED BY <1>5, <2>1 DEF TypeOK, SendSync
<1>6. ASSUME NEW r \in Slots, Cancelled(r) PROVE TypeOK'
  BY <1>6, IdleType DEF TypeOK, Cancelled
<1>7. CASE DeleteStreamCascade
  <2>1. viewer' \in [Viewers -> ViewerStates]
    BY <1>7 DEF TypeOK, DeleteStreamCascade, ViewerStates
  <2>2. row' \in BOOLEAN
    BY <1>7, Zenon DEF DeleteStreamCascade
  <2>3. faults' \in Nat
    BY <1>7 DEF TypeOK, DeleteStreamCascade, Fault
  <2> QED BY <1>7, <2>1, <2>2, <2>3 DEF TypeOK, DeleteStreamCascade
<1>8. CASE CleanupOrphaned
  <2>1. viewer' \in [Viewers -> ViewerStates]
    BY <1>8 DEF TypeOK, CleanupOrphaned, ViewerStates
  <2> QED BY <1>8, <2>1 DEF TypeOK, CleanupOrphaned
<1>9. CASE Crash
  <2>1. req' \in [Slots -> Requests]
    BY <1>9, IdleInRequests DEF Crash
  <2>2. up' \in [Lines -> UpSteps]
    BY <1>9 DEF Crash, UpSteps
  <2>3. viewer' \in [Viewers -> ViewerStates]
    BY <1>9, IdleInRequests DEF Crash
  <2> QED BY <1>9, <2>1, <2>2, <2>3 DEF TypeOK, Crash, Fault
<1> QED BY <1>1, <1>2, <1>3, <1>4, <1>5, <1>6, <1>7, <1>8, <1>9,
           HandleType, UploadType, ViewType DEF Next

(* The initial state is well typed.                                        *)
LEMMA TypeInit == Init => TypeOK
<1> SUFFICES ASSUME Init PROVE TypeOK
  OBVIOUS
<1>1. row \in BOOLEAN /\ oos \in BOOLEAN
  BY Zenon DEF Init
<1>2. req \in [Slots -> Requests] /\ viewer \in [Viewers -> ViewerStates]
  BY IdleInRequests DEF Init
<1>3. made \in 0 .. MaxLines /\ acked \in 0 .. MaxLines /\ faults \in Nat
  BY TranscriptAssumption DEF Init
<1>4. up \in [Lines -> UpSteps]
  BY DEF Init, UpSteps
<1> QED BY <1>1, <1>2, <1>3, <1>4 DEF Init, TypeOK

(* The variables keep their types in every reachable state.                *)
THEOREM TypeCorrect == Spec => []TypeOK
BY TypeInit, TypeStep, PTL DEF Spec

-----------------------------------------------------------------------------
(* The stored transcript has no hole                                       *)

(* Only an accepted /line, a /sync and a delete change which lines are     *)
(* stored.                                                                 *)
LEMMA LinesFrame ==
  ASSUME [Next]_vars
  PROVE  \/ lines' = lines
         \/ lines' = {}
         \/ \E r \in Slots : Insert(r) \/ SyncReplace(r)
<1> USE DEF tableVars
<1>1. ASSUME NEW r \in Slots, Handle(r), ~Insert(r), ~SyncReplace(r)
      PROVE  lines' = lines
  BY <1>1 DEF Handle, InsertConflict, LineCast, SyncUpsert, SyncCarry, SyncRefresh,
              SyncRefreshEmpty, SyncCast
<1>2. ASSUME NEW r \in Slots, SendLine(r) \/ SendSync(r) \/ Cancelled(r)
      PROVE  lines' = lines
  BY <1>2 DEF SendLine, SendSync, Cancelled
<1>3. ASSUME NEW i \in Lines, Upload(i) PROVE lines' = lines
  BY <1>3 DEF Upload, UpStart, UpStore, UpFails, SetMediaAvailable, SetMediaNotFound
<1>4. ASSUME NEW v \in Viewers, View(v) PROVE lines' = lines
  BY <1>4 DEF View, Register, ReadTranscript, SyncClient, Leave
<1>5. CASE MakeLine \/ Abandon \/ Crash \/ UNCHANGED vars
  BY <1>5 DEF MakeLine, Abandon, Crash, vars
<1>6. CASE DeleteStreamCascade \/ CleanupOrphaned
  BY <1>6 DEF DeleteStreamCascade, CleanupOrphaned
<1> QED BY <1>1, <1>2, <1>3, <1>4, <1>5, <1>6 DEF Next

(* Every step keeps the transcript without holes: InsertNextLine adds one  *)
(* past the last, ReplaceTranscript stores an initial segment.             *)
LEMMA ContiguousStep == TypeOK /\ Contiguous /\ [Next]_vars => Contiguous'
<1> SUFFICES ASSUME TypeOK, Contiguous, [Next]_vars PROVE Contiguous'
  OBVIOUS
<1>1. CASE lines' = lines \/ lines' = {}
  BY <1>1 DEF Contiguous
<1>2. ASSUME NEW r \in Slots, Insert(r) PROVE Contiguous'
  <2>1. PICK last \in lines \cup {-1} :
          (\A i \in lines : i <= last) /\ req[r].id = last + 1
    BY <1>2 DEF Insert, IsNext, IsLast
  <2>2. lines' = lines \cup {last + 1} /\ lines \subseteq Lines /\ last \in Int
    BY <1>2, <2>1, TranscriptAssumption DEF Insert, TypeOK, Lines
  <2>3. \A j \in Lines : j < last + 1 => j \in lines
    BY <2>1, <2>2, TranscriptAssumption DEF Contiguous, Lines
  <2> QED BY <2>2, <2>3 DEF Contiguous
<1>3. ASSUME NEW r \in Slots, SyncReplace(r) PROVE Contiguous'
  <2>1. req[r].upto \in 0 .. MaxLines
    BY DEF TypeOK, Requests
  <2>2. lines' = 0 .. req[r].upto - 1
    BY <1>3 DEF SyncReplace
  <2> QED BY <2>1, <2>2, TranscriptAssumption DEF Contiguous, Lines
<1> QED BY <1>1, <1>2, <1>3, LinesFrame

-----------------------------------------------------------------------------
(* Media                                                                   *)

(* What a step of one handler leaves of all of them.                       *)
LEMMA ReqFields ==
  ASSUME TypeOK, NEW r \in Slots, NEW s, NEW q \in Slots
  PROVE  /\ LET n == [req EXCEPT ![r].step = s] IN
              /\ n[q].carry = req[q].carry /\ n[q].id = req[q].id
              /\ n[q].step = IF q = r THEN s ELSE req[q].step
         /\ \A x : LET n == [req EXCEPT ![r] = x] IN
              n[q] = IF q = r THEN x ELSE req[q]
<1>1. req \in [Slots -> Requests] /\ req[r] \in Requests /\ req[q] \in Requests
  BY DEF TypeOK
<1>2. CASE q = r
  BY <1>1, <1>2 DEF Requests
<1>3. CASE q # r
  BY <1>1, <1>3
<1> QED BY <1>2, <1>3

(* A handler holds the flags it read, or has ended, or reads them now.     *)
Kept(q) == /\ req'[q].carry = req[q].carry
           /\ req'[q].step = "replace" => req[q].step = "replace"
Dropped(q) == req'[q].carry = {} /\ req'[q].step # "replace"
Carried(q) == SyncCarry(q) /\ req'[q].carry = avail

(* Those are the only three cases.                                         *)
LEMMA CarryFrame ==
  ASSUME TypeOK, [Next]_vars, NEW q \in Slots
  PROVE  Kept(q) \/ Dropped(q) \/ Carried(q)
<1> USE DEF Kept, Dropped
<1>0. CASE req' = req
  BY <1>0
<1>1. ASSUME NEW r \in Slots, req' = [req EXCEPT ![r] = IdleReq]
      PROVE  Kept(q) \/ Dropped(q)
  BY <1>1, ReqFields DEF IdleReq
<1>2. ASSUME NEW r \in Slots, Handle(r) PROVE Kept(q) \/ Dropped(q) \/ Carried(q)
  <2>1. CASE Insert(r)
    BY <2>1, ReqFields DEF Insert
  <2>2. CASE InsertConflict(r)
    BY <2>2, <1>1 DEF InsertConflict, Answer
  <2>3. CASE LineCast(r)
    BY <2>3, <1>1 DEF LineCast, Answer
  <2>4. CASE SyncUpsert(r)
    BY <2>4, ReqFields DEF SyncUpsert
  <2>5. CASE SyncCarry(r)
    <3>1. req \in [Slots -> Requests] /\ req[r] \in Requests
      BY DEF TypeOK
    <3>2. CASE q = r
      <4>1. req'[r].carry = avail
        BY <2>5, <3>1 DEF SyncCarry, Requests
      <4> QED BY <2>5, <3>2, <4>1 DEF Carried
    <3>3. CASE q # r
      BY <2>5, <3>1, <3>3 DEF SyncCarry
    <3> QED BY <3>2, <3>3
  <2>6. CASE SyncReplace(r)
    BY <2>6, ReqFields DEF SyncReplace
  <2>7. CASE SyncRefresh(r)
    <3>1. req \in [Slots -> Requests] /\ req[r] \in Requests
      BY DEF TypeOK
    <3>2. PICK last \in lines :
            req' = [req EXCEPT ![r].step = "syncCast", ![r].id = last]
      BY <2>7 DEF SyncRefresh
    <3>3. req'[r].carry = req[r].carry /\ req'[r].step = "syncCast"
      BY <3>1, <3>2 DEF Requests
    <3>4. q # r => req'[q] = req[q]
      BY <3>1, <3>2
    <3> QED BY <3>3, <3>4
  <2>8. CASE SyncRefreshEmpty(r)
    BY <2>8, <1>1 DEF SyncRefreshEmpty, Answer
  <2>9. CASE SyncCast(r)
    BY <2>9, <1>1 DEF SyncCast, Answer
  <2> QED BY <1>2, <2>1, <2>2, <2>3, <2>4, <2>5, <2>6, <2>7, <2>8, <2>9 DEF Handle
<1>3. ASSUME NEW r \in Slots, SendLine(r) \/ SendSync(r) PROVE Kept(q) \/ Dropped(q)
  <2>1. CASE SendLine(r)
    <3>1. req' = [req EXCEPT ![r] = [IdleReq EXCEPT !.step = "insert", !.id = acked]]
      BY <2>1 DEF SendLine
    <3>2. req'[q] = IF q = r THEN [IdleReq EXCEPT !.step = "insert", !.id = acked]
                              ELSE req[q]
      BY <3>1 DEF TypeOK
    <3> QED BY <3>2 DEF IdleReq
  <2>2. CASE SendSync(r)
    <3>1. req' = [req EXCEPT ![r] = [IdleReq EXCEPT !.step = "upsert", !.upto = made]]
      BY <2>2 DEF SendSync
    <3>2. req'[q] = IF q = r THEN [IdleReq EXCEPT !.step = "upsert", !.upto = made]
                              ELSE req[q]
      BY <3>1 DEF TypeOK
    <3> QED BY <3>2 DEF IdleReq
  <2> QED BY <1>3, <2>1, <2>2
<1>4. ASSUME NEW r \in Slots, Cancelled(r) PROVE Kept(q) \/ Dropped(q)
  BY <1>4, <1>1 DEF Cancelled
<1>5. ASSUME NEW i \in Lines, Upload(i) PROVE req' = req
  BY <1>5 DEF Upload, UpStart, UpStore, UpFails, SetMediaAvailable, SetMediaNotFound
<1>6. ASSUME NEW v \in Viewers, View(v) PROVE req' = req
  BY <1>6 DEF View, Register, ReadTranscript, SyncClient, Leave
<1>7. CASE MakeLine \/ Abandon \/ DeleteStreamCascade \/ CleanupOrphaned \/ UNCHANGED vars
  <2>1. req' = req
    BY <1>7 DEF MakeLine, Abandon, DeleteStreamCascade, CleanupOrphaned, vars
  <2> QED BY <2>1, <1>0
<1>8. CASE Crash
  BY <1>8 DEF Crash, IdleReq
<1> QED BY <1>0, <1>2, <1>3, <1>4, <1>5, <1>6, <1>7, <1>8 DEF Next

(* Who changes the flags, the files and the uploads.                       *)
LEMMA MediaFrame ==
  ASSUME [Next]_vars
  PROVE  \/ \E i \in Lines : Upload(i)
         \/ \E r \in Slots : SyncReplace(r)
         \/ DeleteStreamCascade \/ CleanupOrphaned \/ Crash
         \/ UNCHANGED <<avail, files, up, ok, raced>>
<1> USE DEF tableVars
<1>1. ASSUME NEW r \in Slots, Handle(r), ~SyncReplace(r)
      PROVE  UNCHANGED <<avail, files, up, ok, raced>>
  BY <1>1 DEF Handle, Insert, InsertConflict, LineCast, SyncUpsert, SyncCarry,
              SyncRefresh, SyncRefreshEmpty, SyncCast
<1>2. ASSUME NEW r \in Slots, SendLine(r) \/ SendSync(r) \/ Cancelled(r)
      PROVE  UNCHANGED <<avail, files, up, ok, raced>>
  BY <1>2 DEF SendLine, SendSync, Cancelled
<1>3. ASSUME NEW v \in Viewers, View(v)
      PROVE  UNCHANGED <<avail, files, up, ok, raced>>
  BY <1>3 DEF View, Register, ReadTranscript, SyncClient, Leave
<1>4. CASE MakeLine \/ Abandon \/ UNCHANGED vars
  BY <1>4 DEF MakeLine, Abandon, vars
<1> QED BY <1>1, <1>2, <1>3, <1>4 DEF Next

(* Files go to storage before the line is marked, and stay there.          *)
LEMMA FilesStep ==
  TypeOK /\ FilesFirst /\ AvailHasFile /\ [Next]_vars => FilesFirst' /\ AvailHasFile'
<1> SUFFICES ASSUME TypeOK, FilesFirst, AvailHasFile, [Next]_vars
             PROVE  FilesFirst' /\ AvailHasFile'
  OBVIOUS
<1> USE DEF tableVars
<1>1. /\ files \subseteq files'
      /\ AvailHasFile'
      /\ \A i \in Lines : up'[i] \in {"stored", "retry"} => i \in files'
  <2>1. ASSUME NEW i \in Lines, Upload(i)
        PROVE  /\ files \subseteq files' /\ avail' \subseteq files'
               /\ \A j \in Lines : up'[j] \in {"stored", "retry"} => j \in files'
    <3>1. CASE UpStart(i)
      BY <3>1 DEF TypeOK, UpStart, FilesFirst, AvailHasFile
    <3>2. CASE UpStore(i)
      BY <3>2 DEF TypeOK, UpStore, FilesFirst, AvailHasFile
    <3>3. CASE UpFails(i)
      BY <3>3 DEF TypeOK, UpFails, FilesFirst, AvailHasFile
    <3>4. CASE SetMediaAvailable(i)
      BY <3>4 DEF TypeOK, SetMediaAvailable, FilesFirst, AvailHasFile
    <3>5. CASE SetMediaNotFound(i)
      BY <3>5 DEF TypeOK, SetMediaNotFound, FilesFirst, AvailHasFile
    <3> QED BY <2>1, <3>1, <3>2, <3>3, <3>4, <3>5 DEF Upload
  <2>2. ASSUME NEW r \in Slots, SyncReplace(r)
        PROVE  avail' \subseteq files /\ files' = files /\ up' = up
    BY <2>2 DEF SyncReplace, FilesFirst
  <2>3. CASE DeleteStreamCascade \/ CleanupOrphaned
    BY <2>3 DEF DeleteStreamCascade, CleanupOrphaned, FilesFirst, AvailHasFile
  <2>4. CASE Crash
    BY <2>4 DEF Crash, FilesFirst, AvailHasFile
  <2>5. CASE UNCHANGED <<avail, files, up, ok, raced>>
    BY <2>5 DEF FilesFirst, AvailHasFile
  <2> QED BY <2>1, <2>2, <2>3, <2>4, <2>5, MediaFrame DEF AvailHasFile, FilesFirst
<1>2. ASSUME NEW q \in Slots PROVE req'[q].carry \subseteq files
  BY <1>2, CarryFrame DEF Kept, Dropped, Carried, FilesFirst, AvailHasFile
<1> QED BY <1>1, <1>2 DEF FilesFirst

(* A /sync still covers every answered upload it will not find raced.      *)
LEMMA CarryStep ==
  TypeOK /\ CarryFresh /\ MediaCarried /\ [Next]_vars => CarryFresh' /\ MediaCarried'
<1> SUFFICES ASSUME TypeOK, CarryFresh, MediaCarried, [Next]_vars
             PROVE  CarryFresh' /\ MediaCarried'
  OBVIOUS
<1> USE DEF tableVars
<1>1. ASSUME NEW i \in Lines, SetMediaAvailable(i)
      PROVE  CarryFresh' /\ MediaCarried'
  <2>1. req' = req /\ avail' = avail \cup {i} /\ ok' = ok \cup {i}
    BY <1>1 DEF SetMediaAvailable
  <2>2. CASE \E r \in Slots : req[r].step = "replace"
    <3>1. raced' = raced \cup {i}
      BY <1>1, <2>2 DEF SetMediaAvailable
    <3> QED BY <2>1, <3>1 DEF CarryFresh, MediaCarried
  <2>3. CASE ~\E r \in Slots : req[r].step = "replace"
    <3>1. raced' = raced \ {i}
      BY <1>1, <2>3 DEF SetMediaAvailable
    <3> QED BY <2>1, <2>3, <3>1 DEF CarryFresh, MediaCarried
  <2> QED BY <2>2, <2>3
<1>2. CASE /\ ok' \subseteq ok /\ raced' = raced
           /\ ok' \subseteq avail' \cup raced
  <2>1. ASSUME NEW q \in Slots, req'[q].step = "replace"
        PROVE  ok' \subseteq req'[q].carry \cup raced'
    BY <1>2, <2>1, CarryFrame DEF Kept, Dropped, Carried, CarryFresh, MediaCarried
  <2> QED BY <1>2, <2>1 DEF CarryFresh, MediaCarried
<1>3. ASSUME NEW r \in Slots, SyncReplace(r)
      PROVE  /\ ok' \subseteq ok /\ raced' = raced
             /\ ok' \subseteq avail' \cup raced
  BY <1>3 DEF SyncReplace, CarryFresh
<1>4. ASSUME NEW i \in Lines, Upload(i), ~SetMediaAvailable(i)
      PROVE  UNCHANGED <<avail, ok, raced>>
  BY <1>4 DEF Upload, UpStart, UpStore, UpFails, SetMediaNotFound
<1>5. CASE DeleteStreamCascade \/ CleanupOrphaned
  <2>1. ok' = {} /\ raced' = raced
    BY <1>5 DEF DeleteStreamCascade, CleanupOrphaned
  <2> QED BY <2>1, <1>2
<1>6. CASE Crash
  <2>1. UNCHANGED <<avail, ok, raced>>
    BY <1>6 DEF Crash
  <2> QED BY <2>1, <1>2 DEF MediaCarried
<1>7. CASE UNCHANGED <<avail, ok, raced>>
  BY <1>2, <1>7 DEF MediaCarried
<1> QED BY <1>1, <1>2, <1>3, <1>4, <1>5, <1>6, <1>7, MediaFrame

-----------------------------------------------------------------------------
(* Viewers                                                                 *)

(* Only handler r moves, and it is not about to broadcast a line.          *)
Alone(r) == /\ req[r].step # "lineCast"
            /\ \A q \in Slots : q # r => req'[q] = req[q]

(* Every step of a handler but LineCast is such a step.                    *)
LEMMA HandlerAlone ==
  ASSUME TypeOK, NEW r \in Slots, ~LineCast(r),
         Handle(r) \/ SendLine(r) \/ SendSync(r) \/ Cancelled(r)
  PROVE  Alone(r)
<1>0. req \in [Slots -> Requests]
  BY DEF TypeOK
<1>1. CASE Insert(r)
  BY <1>0, <1>1 DEF Insert, Alone
<1>2. CASE InsertConflict(r)
  BY <1>0, <1>2 DEF InsertConflict, Answer, Alone
<1>3. CASE SyncUpsert(r)
  BY <1>0, <1>3 DEF SyncUpsert, Alone
<1>4. CASE SyncCarry(r)
  BY <1>0, <1>4 DEF SyncCarry, Alone
<1>5. CASE SyncReplace(r)
  BY <1>0, <1>5 DEF SyncReplace, Alone
<1>6. CASE SyncRefresh(r)
  BY <1>0, <1>6 DEF SyncRefresh, Alone
<1>7. CASE SyncRefreshEmpty(r)
  BY <1>0, <1>7 DEF SyncRefreshEmpty, Answer, Alone
<1>8. CASE SyncCast(r)
  BY <1>0, <1>8 DEF SyncCast, Answer, Alone
<1>9. CASE SendLine(r)
  BY <1>0, <1>9 DEF SendLine, Alone
<1>10. CASE SendSync(r)
  BY <1>0, <1>10 DEF SendSync, Alone
<1>11. CASE Cancelled(r)
  BY <1>0, <1>11 DEF Cancelled, Alone
<1> QED BY <1>1, <1>2, <1>3, <1>4, <1>5, <1>6, <1>7, <1>8, <1>9, <1>10, <1>11 DEF Handle

(* Such a step leaves the lines that are on their way.                     *)
LEMMA WayKept ==
  ASSUME NEW r \in Slots, Alone(r), NEW i, OnItsWay(i)
  PROVE  OnItsWay(i)'
BY DEF Alone, OnItsWay

(* What a viewer was told covers the stored lines, up to broadcasts on     *)
(* their way; before its sync message is queued, together with what that   *)
(* message will carry.                                                     *)
Covers(v) ==
  /\ viewer[v].at = "read" /\ ~viewer[v].behind =>
       \A i \in lines \ (viewer[v].told \cup viewer[v].snap) : OnItsWay(i)
  /\ viewer[v].at = "synced" /\ ~viewer[v].behind =>
       \A i \in lines \ viewer[v].told : OnItsWay(i)

(* A viewer that only learns, while no line loses its broadcast, stays     *)
(* covered.                                                                *)
LEMMA CoversKept ==
  ASSUME NEW v \in Viewers, Covers(v),
         viewer'[v].at = viewer[v].at, viewer'[v].behind = viewer[v].behind,
         viewer'[v].snap = viewer[v].snap, viewer[v].told \subseteq viewer'[v].told,
         \A i \in lines' \ viewer'[v].told : i \in lines /\ OnItsWay(i) => OnItsWay(i)',
         \A i \in lines' \ lines : i \in viewer'[v].told \/ OnItsWay(i)'
  PROVE  Covers(v)'
BY DEF Covers

(* A newLine broadcast teaches a connected viewer and changes nothing      *)
(* else of it.                                                             *)
LEMMA ToldLearns ==
  ASSUME TypeOK, NEW i, Told(i), NEW v \in Viewers
  PROVE  /\ viewer'[v].at = viewer[v].at /\ viewer'[v].behind = viewer[v].behind
         /\ viewer'[v].snap = viewer[v].snap
         /\ viewer[v].told \subseteq viewer'[v].told
         /\ viewer[v].at # "away" => i \in viewer'[v].told
<1>1. viewer[v] \in ViewerStates
  BY DEF TypeOK
<1>2. CASE viewer[v].at = "away"
  BY <1>2 DEF Told
<1>3. CASE viewer[v].at # "away"
  <2>1. viewer'[v] = [viewer[v] EXCEPT !.has = @ \cup {i}, !.told = @ \cup {i}]
    BY <1>3 DEF Told
  <2> QED BY <1>1, <2>1 DEF ViewerStates
<1> QED BY <1>2, <1>3

(* A step of a /line or /sync handler keeps every viewer covered.          *)
LEMMA HandleCovers ==
  ASSUME TypeOK, NEW r \in Slots, Handle(r), NEW v \in Viewers, Covers(v)
  PROVE  Covers(v)'
<1> USE DEF tableVars
<1>1. CASE LineCast(r)
  <2>1. /\ lines' = lines /\ Told(req[r].id)
        /\ \A q \in Slots : q # r => req'[q] = req[q]
    BY <1>1 DEF LineCast, Answer, TypeOK
  <2>2. CASE viewer[v].at = "away"
    BY <2>1, <2>2, ToldLearns DEF Covers
  <2>3. CASE viewer[v].at # "away"
    <3>1. req[r].id \in viewer'[v].told
      BY <2>1, <2>3, ToldLearns
    <3>2. ASSUME NEW i \in lines' \ viewer'[v].told, OnItsWay(i) PROVE OnItsWay(i)'
      BY <2>1, <3>1, <3>2 DEF OnItsWay
    <3> QED BY <2>1, <3>2, ToldLearns, CoversKept
  <2> QED BY <2>2, <2>3
<1>2. CASE Insert(r)
  <2>1. /\ lines' = lines \cup {req[r].id} /\ viewer' = viewer
        /\ req'[r].step = "lineCast" /\ req'[r].id = req[r].id
    BY <1>2, ReqFields DEF Insert
  <2>2. OnItsWay(req[r].id)'
    BY <2>1 DEF OnItsWay
  <2>3. Alone(r)
    BY <1>2, HandlerAlone DEF Handle, Insert, LineCast
  <2>4. \A i : OnItsWay(i) => OnItsWay(i)'
    BY <2>3, WayKept
  <2> QED BY <2>1, <2>2, <2>4, CoversKept
<1>3. CASE SyncReplace(r)
  <2>1. viewer[v] \in ViewerStates
    BY DEF TypeOK
  <2>2. CASE viewer[v].at \in {"read", "synced"}
    <3>1. viewer'[v].behind
      BY <1>3, <2>1, <2>2 DEF SyncReplace, ViewerStates
    <3> QED BY <3>1 DEF Covers
  <2>3. CASE viewer[v].at \notin {"read", "synced"}
    <3>1. viewer'[v] = viewer[v]
      BY <1>3, <2>3 DEF SyncReplace
    <3> QED BY <2>3, <3>1 DEF Covers
  <2> QED BY <2>2, <2>3
<1>4. CASE SyncCast(r)
  <2>1. lines' = lines /\ Told(req[r].id)
    BY <1>4 DEF SyncCast
  <2>2. Alone(r)
    BY <1>4, HandlerAlone DEF Handle, SyncCast, LineCast
  <2>3. \A i : OnItsWay(i) => OnItsWay(i)'
    BY <2>2, WayKept
  <2> QED BY <2>1, <2>3, ToldLearns, CoversKept
<1>5. CASE \/ InsertConflict(r) \/ SyncUpsert(r) \/ SyncCarry(r) \/ SyncRefresh(r)
           \/ SyncRefreshEmpty(r)
  <2>1. lines' = lines /\ viewer' = viewer /\ req[r].step # "lineCast"
    BY <1>5 DEF InsertConflict, SyncUpsert, SyncCarry, SyncRefresh, SyncRefreshEmpty
  <2>2. Alone(r)
    BY <2>1, HandlerAlone DEF LineCast
  <2>3. \A i : OnItsWay(i) => OnItsWay(i)'
    BY <2>2, WayKept
  <2> QED BY <2>1, <2>3, CoversKept
<1> QED BY <1>1, <1>2, <1>3, <1>4, <1>5 DEF Handle

(* A step of a viewer's connection keeps every viewer covered: the sync    *)
(* message carries what was read after the registration.                   *)
LEMMA ViewCovers ==
  ASSUME TypeOK, NEW w \in Viewers, View(w), NEW v \in Viewers, Covers(v)
  PROVE  Covers(v)'
<1> USE DEF tableVars
<1>1. lines' = lines /\ req' = req
  BY DEF View, Register, ReadTranscript, SyncClient, Leave
<1>2. \A i : OnItsWay(i)' <=> OnItsWay(i)
  BY <1>1 DEF OnItsWay
<1>3. viewer \in [Viewers -> ViewerStates] /\ viewer[v] \in ViewerStates
  BY DEF TypeOK
<1>4. CASE v # w
  <2>1. viewer'[v] = viewer[v]
    BY <1>3, <1>4 DEF View, Register, ReadTranscript, SyncClient, Leave
  <2> QED BY <1>1, <1>2, <2>1 DEF Covers
<1>5. CASE v = w
  <2>1. CASE Register(w)
    <3>1. viewer'[v].at = "registered"
      BY <1>3, <1>5, <2>1 DEF Register, ViewerStates
    <3> QED BY <3>1 DEF Covers
  <2>2. CASE ReadTranscript(w)
    <3>1. viewer'[v].at = "read" /\ viewer'[v].snap = lines
      BY <1>3, <1>5, <2>2 DEF ReadTranscript, ViewerStates
    <3> QED BY <1>1, <3>1 DEF Covers
  <2>3. CASE SyncClient(w)
    <3>1. /\ viewer'[v].at = "synced" /\ viewer'[v].behind = viewer[v].behind
          /\ viewer'[v].told = viewer[v].told \cup viewer[v].snap
          /\ viewer[v].at = "read"
      BY <1>3, <1>5, <2>3 DEF SyncClient, ViewerStates
    <3> QED BY <1>1, <1>2, <3>1 DEF Covers
  <2>4. CASE Leave(w)
    <3>1. viewer'[v].at = "away"
      BY <1>3, <1>5, <2>4 DEF Leave, Away
    <3> QED BY <3>1 DEF Covers
  <2> QED BY <2>1, <2>2, <2>3, <2>4 DEF View
<1> QED BY <1>4, <1>5

(* Every step keeps every viewer covered.                                  *)
LEMMA CoversStep ==
  TypeOK /\ SnapCovers /\ NoLineMissed /\ [Next]_vars => SnapCovers' /\ NoLineMissed'
<1> SUFFICES ASSUME TypeOK, SnapCovers, NoLineMissed, [Next]_vars
             PROVE  SnapCovers' /\ NoLineMissed'
  OBVIOUS
<1> SUFFICES ASSUME NEW v \in Viewers PROVE Covers(v)'
  BY DEF Covers, SnapCovers, NoLineMissed
<1>0. Covers(v)
  BY DEF Covers, SnapCovers, NoLineMissed
<1> USE DEF tableVars
<1>1. ASSUME NEW r \in Slots, Handle(r) PROVE Covers(v)'
  BY <1>0, <1>1, HandleCovers
<1>2. ASSUME NEW w \in Viewers, View(w) PROVE Covers(v)'
  BY <1>0, <1>2, ViewCovers
<1>3. ASSUME NEW r \in Slots, SendLine(r) \/ SendSync(r) \/ Cancelled(r) PROVE Covers(v)'
  <2>1. lines' = lines /\ viewer' = viewer /\ req[r].step # "lineCast"
    BY <1>3 DEF SendLine, SendSync, Cancelled
  <2>2. Alone(r)
    BY <1>3, <2>1, HandlerAlone DEF LineCast
  <2>3. \A i : OnItsWay(i) => OnItsWay(i)'
    BY <2>2, WayKept
  <2> QED BY <1>0, <2>1, <2>3, CoversKept
<1>4. ASSUME NEW i \in Lines, Upload(i) PROVE UNCHANGED <<lines, viewer, req>>
  BY <1>4 DEF Upload, UpStart, UpStore, UpFails, SetMediaAvailable, SetMediaNotFound
<1>5. CASE MakeLine \/ Abandon \/ UNCHANGED vars
  <2>1. UNCHANGED <<lines, viewer, req>>
    BY <1>5 DEF MakeLine, Abandon, vars
  <2> QED BY <1>0, <2>1 DEF Covers, OnItsWay
<1>6. CASE UNCHANGED <<lines, viewer, req>>
  BY <1>0, <1>6 DEF Covers, OnItsWay
<1>7. CASE DeleteStreamCascade \/ CleanupOrphaned
  <2>1. lines' = {}
    BY <1>7 DEF DeleteStreamCascade, CleanupOrphaned
  <2> QED BY <2>1 DEF Covers
<1>8. CASE Crash
  <2>1. viewer'[v].at = "away"
    BY <1>8 DEF Crash, Away
  <2> QED BY <2>1 DEF Covers
<1> QED BY <1>1, <1>2, <1>3, <1>4, <1>5, <1>6, <1>7, <1>8 DEF Next

-----------------------------------------------------------------------------
(* The invariant holds initially and every step keeps it.                  *)
THEOREM Inductive == Spec => []IndInv
<1>1. Init => IndInv
  <2> SUFFICES ASSUME Init PROVE IndInv
    OBVIOUS
  <2>1. TypeOK
    BY TypeInit
  <2>2. Contiguous /\ AvailHasFile /\ MediaCarried
    BY DEF Init, Contiguous, AvailHasFile, MediaCarried
  <2>3. FilesFirst /\ CarryFresh
    BY DEF Init, FilesFirst, CarryFresh, IdleReq
  <2>4. SnapCovers /\ NoLineMissed
    BY DEF Init, SnapCovers, NoLineMissed
  <2> QED BY <2>1, <2>2, <2>3, <2>4 DEF IndInv
<1>2. IndInv /\ [Next]_vars => IndInv'
  BY TypeStep, ContiguousStep, FilesStep, CarryStep, CoversStep DEF IndInv
<1> QED BY <1>1, <1>2, PTL DEF Spec

(* The stored transcript is an initial segment of the line numbers in      *)
(* every reachable state.                                                  *)
THEOREM NoHoles == Spec => []Contiguous
<1>1. IndInv => Contiguous
  BY DEF IndInv
<1> QED BY <1>1, Inductive, PTL

(* A connected viewer is told of every line.                               *)
THEOREM ViewersTold == Spec => []NoLineMissed
<1>1. IndInv => NoLineMissed
  BY DEF IndInv
<1> QED BY <1>1, Inductive, PTL

(* Availability flags survive a /sync that did not overlap the commit.     *)
THEOREM FlagsCarried == Spec => []MediaCarried
<1>1. IndInv => MediaCarried
  BY DEF IndInv
<1> QED BY <1>1, Inductive, PTL

(* Media marked available is in storage.                                   *)
THEOREM MarkedIsStored == Spec => []AvailHasFile
<1>1. IndInv => AvailHasFile
  BY DEF IndInv
<1> QED BY <1>1, Inductive, PTL
=============================================================================
