----------------------------- MODULE Transcript -----------------------------
(***************************************************************************)
(* The transcript of one stream: the worker's /line, /sync and /media      *)
(* requests (internal/server/handlers_worker.go), the transcripts table    *)
(* (internal/store/transcripts.go) and what a connecting viewer is sent    *)
(* (internal/server/websocket.go, lifecycle.go).                           *)
(*                                                                         *)
(* Each database call is one step: transactions are BEGIN IMMEDIATE.  The  *)
(* worker uploads media beside its lines, and may give up on a request     *)
(* whose handler is still running.  Messages reach a viewer in the order   *)
(* they were queued and without loss (Hub), so a viewer's state is what    *)
(* the messages queued for it add up to.                                   *)
(***************************************************************************)
EXTENDS Integers

CONSTANTS
  MaxLines,   \* bound on the lines of the stream
  MediaType,  \* the stream's media_type: with "none" no media is uploaded
  Viewers,    \* connection attempts
  Slots,      \* handlers of /line and /sync that may run at once
  Faults,     \* what may go wrong: "lost", "abandon", "crash", "delete"
  MaxFaults   \* how often

ASSUME TranscriptAssumption ==
  /\ MaxLines \in Nat \ {0} /\ MaxFaults \in Nat
  /\ MediaType \in {"none", "audio", "video"}
  /\ "none" \notin Slots
  /\ Faults \subseteq {"lost", "abandon", "crash", "delete"}

Lines == 0 .. MaxLines - 1
NoSlot == "none"

VARIABLES
  row,      \* does the stream have a row in streams
  lines,    \* line_ids in transcripts
  avail,    \* of these, the ones with media_available set
  files,    \* lines whose raw and audio files are in storage
  made,     \* worker: lines transcribed so far
  acked,    \* worker: lines it takes the server to have
  oos,      \* worker: it was answered 409 and owes a /sync
  waiting,  \* worker: the handler whose answer it waits for
  req,      \* the /line and /sync handlers
  up,       \* the /media handler of each line
  viewer,   \* the viewers
  faults,   \* faults so far
  ok,       \* history: stored lines whose /media was answered 200
  raced     \* history: lines committed while a /sync held an older read

workerVars == <<made, acked, oos, waiting>>
tableVars == <<row, lines, avail>>
vars == <<row, lines, avail, files, made, acked, oos, waiting, req, up, viewer,
          faults, ok, raced>>

(* A handler: the line it carries, the length of the transcript it was     *)
(* sent and the lines it read to have media.                               *)
IdleReq == [step |-> "idle", id |-> 0, upto |-> 0, carry |-> {}]
(* A viewer: the transcript its sync message will carry, the lines it      *)
(* holds, the lines some message told it, and whether a /sync replaced the *)
(* transcript behind its back.                                             *)
Away == [at |-> "away", snap |-> {}, has |-> {}, told |-> {}, behind |-> FALSE]

ReqSteps == {"idle", "insert", "lineCast", "upsert", "carry", "replace",
             "refresh", "syncCast"}
Requests == [step : ReqSteps, id : Lines, upto : 0 .. MaxLines,
             carry : SUBSET Lines]
ViewerStates == [at : {"away", "registered", "read", "synced"},
                 snap : SUBSET Lines, has : SUBSET Lines, told : SUBSET Lines,
                 behind : BOOLEAN]
UpSteps == {"idle", "verified", "stored", "retry", "done"}

Init ==
  /\ row = TRUE /\ lines = {} /\ avail = {} /\ files = {}
  /\ made = 0 /\ acked = 0 /\ oos = FALSE /\ waiting = NoSlot
  /\ req = [r \in Slots |-> IdleReq]
  /\ up = [i \in Lines |-> "idle"]
  /\ viewer = [v \in Viewers |-> Away]
  /\ faults = 0 /\ ok = {} /\ raced = {}

Fault(f) == f \in Faults /\ faults < MaxFaults /\ faults' = faults + 1

(* ORDER BY line_id DESC LIMIT 1, -1 for an empty transcript.              *)
IsLast(last) ==
  /\ last \in lines \cup {-1}
  /\ \A i \in lines : i <= last

(* Faulty variant: any later line will do.                                 *)
IsNextLoose(i) == \E last \in lines \cup {-1} : IsLast(last) /\ i > last

(* InsertNextLine accepts exactly the next line.                           *)
IsNext(i) == \E last \in lines \cup {-1} : IsLast(last) /\ i = last + 1

(* Faulty variant: a client joins the hub only after its sync.             *)
ToldSynced(i) ==
  viewer' = [v \in Viewers |->
    IF viewer[v].at # "synced" THEN viewer[v]
    ELSE [viewer[v] EXCEPT !.has = @ \cup {i}, !.told = @ \cup {i}]]

(* Hub.Broadcast of a newLine event.                                       *)
Told(i) ==
  viewer' = [v \in Viewers |->
    IF viewer[v].at = "away" THEN viewer[v]
    ELSE [viewer[v] EXCEPT !.has = @ \cup {i}, !.told = @ \cup {i}]]

-----------------------------------------------------------------------------
(* The worker (external): sends the next line, and its whole state after a *)
(* 409.                                                                    *)

MakeLine ==
  /\ made < MaxLines
  /\ made' = made + 1
  /\ UNCHANGED <<tableVars, files, acked, oos, waiting, req, up, viewer, faults,
                 ok, raced>>

SendLine(r) ==
  /\ waiting = NoSlot /\ ~oos /\ acked < made /\ req[r].step = "idle"
  /\ req' = [req EXCEPT ![r] = [IdleReq EXCEPT !.step = "insert", !.id = acked]]
  /\ waiting' = r
  /\ UNCHANGED <<tableVars, files, made, acked, oos, up, viewer, faults, ok, raced>>

SendSync(r) ==
  /\ waiting = NoSlot /\ oos /\ req[r].step = "idle"
  /\ req' = [req EXCEPT ![r] = [IdleReq EXCEPT !.step = "upsert",
                                               !.upto = made]]
  /\ waiting' = r
  /\ UNCHANGED <<tableVars, files, made, acked, oos, up, viewer, faults, ok, raced>>

(* The worker stops waiting; the handler may still run to its end.         *)
Abandon ==
  /\ waiting # NoSlot /\ Fault("abandon")
  /\ waiting' = NoSlot
  /\ UNCHANGED <<tableVars, files, made, acked, oos, req, up, viewer, ok, raced>>

(* Handler r ends with an answer: what the worker then knows, unless the   *)
(* answer is lost or nobody waits for it.                                  *)
Answer(r, have, conflict) ==
  /\ req' = [req EXCEPT ![r] = IdleReq]
  /\ IF waiting = r
       THEN /\ waiting' = NoSlot
            /\ \/ acked' = have /\ oos' = conflict /\ UNCHANGED faults
               \/ Fault("lost") /\ UNCHANGED <<acked, oos>>
       ELSE UNCHANGED <<waiting, acked, oos, faults>>
  /\ UNCHANGED made

(* The request context of an abandoned request is cancelled: its next      *)
(* database call fails.  A newLine broadcast needs no database.            *)
Cancelled(r) ==
  /\ waiting # r /\ req[r].step \in {"insert", "upsert", "carry", "replace", "refresh"}
  /\ req' = [req EXCEPT ![r] = IdleReq]
  /\ UNCHANGED <<tableVars, files, workerVars, up, viewer, faults, ok, raced>>

-----------------------------------------------------------------------------
(* lineHandler: InsertNextLine, then broadcast and answer; or 409.         *)

Insert(r) ==
  /\ req[r].step = "insert" /\ IsNext(req[r].id)
  /\ lines' = lines \cup {req[r].id}
  /\ req' = [req EXCEPT ![r].step = "lineCast"]
  /\ UNCHANGED <<row, avail, files, workerVars, up, viewer, faults, ok, raced>>

(* Faulty variant: an answer that does not ask for the worker's state.     *)
InsertConflictSilent(r) ==
  /\ req[r].step = "insert" /\ ~IsNext(req[r].id)
  /\ Answer(r, acked, FALSE)
  /\ UNCHANGED <<tableVars, files, up, viewer, ok, raced>>

InsertConflict(r) ==
  /\ req[r].step = "insert" /\ ~IsNext(req[r].id)
  /\ Answer(r, acked, TRUE)
  /\ UNCHANGED <<tableVars, files, up, viewer, ok, raced>>

LineCast(r) ==
  /\ req[r].step = "lineCast"
  /\ Told(req[r].id)
  /\ Answer(r, req[r].id + 1, FALSE)
  /\ UNCHANGED <<tableVars, files, up, ok, raced>>

-----------------------------------------------------------------------------
(* syncHandler: upsert the stream, read which lines have media, replace    *)
(* the transcript, read its last line, broadcast it.                       *)

SyncUpsert(r) ==
  /\ req[r].step = "upsert"
  /\ row' = TRUE
  /\ req' = [req EXCEPT ![r].step = "carry"]
  /\ UNCHANGED <<lines, avail, files, workerVars, up, viewer, faults, ok, raced>>

(* Faulty variant: the flags are not carried over.                         *)
SyncCarryNothing(r) ==
  /\ req[r].step = "carry"
  /\ req' = [req EXCEPT ![r].step = "replace"]
  /\ UNCHANGED <<tableVars, files, workerVars, up, viewer, faults, ok, raced>>

SyncCarry(r) ==
  /\ req[r].step = "carry"
  /\ req' = [req EXCEPT ![r].step = "replace", ![r].carry = avail]
  /\ UNCHANGED <<tableVars, files, workerVars, up, viewer, faults, ok, raced>>

SyncReplace(r) ==
  /\ req[r].step = "replace"
  /\ lines' = 0 .. req[r].upto - 1
  /\ avail' = req[r].carry \cap lines'
  /\ req' = [req EXCEPT ![r].step = "refresh"]
  /\ viewer' = [v \in Viewers |->
       IF viewer[v].at \in {"read", "synced"} THEN [viewer[v] EXCEPT !.behind = TRUE]
       ELSE viewer[v]]
  /\ ok' = ok \cap lines'
  /\ UNCHANGED <<row, files, workerVars, up, faults, raced>>

SyncRefresh(r) ==
  /\ req[r].step = "refresh"
  /\ \E last \in lines :
       /\ IsLast(last)
       /\ req' = [req EXCEPT ![r].step = "syncCast", ![r].id = last]
  /\ UNCHANGED <<tableVars, files, workerVars, up, viewer, faults, ok, raced>>

(* An empty transcript has no last line: nothing to broadcast.             *)
SyncRefreshEmpty(r) ==
  /\ req[r].step = "refresh" /\ lines = {}
  /\ Answer(r, req[r].upto, FALSE)
  /\ UNCHANGED <<tableVars, files, up, viewer, ok, raced>>

SyncCast(r) ==
  /\ req[r].step = "syncCast"
  /\ Told(req[r].id)
  /\ Answer(r, req[r].upto, FALSE)
  /\ UNCHANGED <<tableVars, files, up, ok, raced>>

-----------------------------------------------------------------------------
(* mediaHandler: 404 without the stream's row; convert and store; mark the *)
(* line, once more after 500 ms when it is not there yet; answer 200.      *)

UpStart(i) ==
  /\ MediaType # "none" /\ up[i] = "idle" /\ i < made /\ row
  /\ up' = [up EXCEPT ![i] = "verified"]
  /\ UNCHANGED <<tableVars, files, workerVars, req, viewer, faults, ok, raced>>

(* Faulty variant: a failed upload is ignored.                             *)
UpStoreIgnored(i) ==
  /\ up[i] = "verified"
  /\ up' = [up EXCEPT ![i] = "stored"]
  /\ UNCHANGED <<tableVars, files, workerVars, req, viewer, faults, ok, raced>>

UpStore(i) ==
  /\ up[i] = "verified"
  /\ files' = files \cup {i}
  /\ up' = [up EXCEPT ![i] = "stored"]
  /\ UNCHANGED <<tableVars, workerVars, req, viewer, faults, ok, raced>>

(* The conversion or an upload failed, or the line is still not there: 500.*)
UpFails(i) ==
  /\ up[i] = "verified" \/ (up[i] = "retry" /\ i \notin lines)
  /\ up' = [up EXCEPT ![i] = "idle"]
  /\ UNCHANGED <<tableVars, files, workerVars, req, viewer, faults, ok, raced>>

(* Faulty variant: the number of updated rows is not looked at.            *)
SetMediaUnchecked(i) ==
  /\ up[i] \in {"stored", "retry"}
  /\ avail' = avail \cup {i}
  /\ up' = [up EXCEPT ![i] = "done"]
  /\ ok' = ok \cup {i}
  /\ UNCHANGED <<row, lines, files, workerVars, req, viewer, faults, raced>>

(* The commit, the 200 and the newMedia broadcast.                         *)
SetMediaAvailable(i) ==
  /\ up[i] \in {"stored", "retry"} /\ i \in lines
  /\ avail' = avail \cup {i}
  /\ up' = [up EXCEPT ![i] = "done"]
  /\ raced' = IF \E r \in Slots : req[r].step = "replace" THEN raced \cup {i}
                                                          ELSE raced \ {i}
  /\ ok' = ok \cup {i}
  /\ UNCHANGED <<row, lines, files, workerVars, req, viewer, faults>>

SetMediaNotFound(i) ==
  /\ up[i] = "stored" /\ i \notin lines
  /\ up' = [up EXCEPT ![i] = "retry"]
  /\ UNCHANGED <<tableVars, files, workerVars, req, viewer, faults, ok, raced>>

-----------------------------------------------------------------------------
(* Viewers: wsHandler registers the client with the hub, then syncClient   *)
(* reads the transcript and queues it.                                     *)

Register(v) ==
  /\ viewer[v].at = "away"
  /\ viewer' = [viewer EXCEPT ![v].at = "registered"]
  /\ UNCHANGED <<tableVars, files, workerVars, req, up, faults, ok, raced>>

ReadTranscript(v) ==
  /\ viewer[v].at = "registered"
  /\ viewer' = [viewer EXCEPT ![v].at = "read", ![v].snap = lines]
  /\ UNCHANGED <<tableVars, files, workerVars, req, up, faults, ok, raced>>

(* The sync event replaces what the viewer holds.                          *)
SyncClient(v) ==
  /\ viewer[v].at = "read"
  /\ viewer' = [viewer EXCEPT ![v].at = "synced", ![v].has = viewer[v].snap,
                              ![v].told = @ \cup viewer[v].snap]
  /\ UNCHANGED <<tableVars, files, workerVars, req, up, faults, ok, raced>>

Leave(v) ==
  /\ viewer[v].at # "away"
  /\ viewer' = [viewer EXCEPT ![v] = Away]
  /\ UNCHANGED <<tableVars, files, workerVars, req, up, faults, ok, raced>>

-----------------------------------------------------------------------------
(* Deletes, the cleanup sweep, restarts                                    *)

(* DeleteStreamCascade, from retention, the prune sweep or an admin.       *)
DeleteStreamCascade ==
  /\ row /\ Fault("delete")
  /\ row' = FALSE /\ lines' = {} /\ avail' = {} /\ ok' = {}
  /\ viewer' = [v \in Viewers |-> [viewer[v] EXCEPT !.told = {}]]
  /\ UNCHANGED <<files, workerVars, req, up, raced>>

(* databaseCleanup: lines without a stream.                                *)
CleanupOrphaned ==
  /\ ~row /\ lines # {}
  /\ lines' = {} /\ avail' = {} /\ ok' = {}
  /\ viewer' = [v \in Viewers |-> [viewer[v] EXCEPT !.told = {}]]
  /\ UNCHANGED <<row, files, workerVars, req, up, faults, raced>>

Crash ==
  /\ Fault("crash")
  /\ req' = [r \in Slots |-> IdleReq]
  /\ up' = [i \in Lines |-> IF up[i] = "done" THEN "done" ELSE "idle"]
  /\ viewer' = [v \in Viewers |-> Away]
  /\ waiting' = NoSlot
  /\ UNCHANGED <<tableVars, files, made, acked, oos, ok, raced>>

Handle(r) ==
  \/ Insert(r) \/ InsertConflict(r) \/ LineCast(r)
  \/ SyncUpsert(r) \/ SyncCarry(r) \/ SyncReplace(r)
  \/ SyncRefresh(r) \/ SyncRefreshEmpty(r) \/ SyncCast(r)
Upload(i) ==
  \/ UpStart(i) \/ UpStore(i) \/ UpFails(i)
  \/ SetMediaAvailable(i) \/ SetMediaNotFound(i)
View(v) == Register(v) \/ ReadTranscript(v) \/ SyncClient(v) \/ Leave(v)

Next ==
  \/ MakeLine \/ Abandon
  \/ \E r \in Slots : SendLine(r) \/ SendSync(r) \/ Handle(r) \/ Cancelled(r)
  \/ \E i \in Lines : Upload(i)
  \/ \E v \in Viewers : View(v)
  \/ DeleteStreamCascade \/ CleanupOrphaned \/ Crash

Spec == Init /\ [][Next]_vars

(* The worker goes on, and so does every running handler.                  *)
FairSpec ==
  /\ Spec
  /\ WF_vars(MakeLine)
  /\ WF_vars(\E r \in Slots : SendLine(r) \/ SendSync(r))
  /\ \A r \in Slots : WF_vars(Handle(r))

-----------------------------------------------------------------------------
(* Properties                                                              *)

(* Type invariant.                                                         *)
TypeOK ==
  /\ row \in BOOLEAN /\ lines \subseteq Lines /\ avail \subseteq lines
  /\ files \subseteq Lines
  /\ made \in 0 .. MaxLines /\ acked \in 0 .. MaxLines /\ oos \in BOOLEAN
  /\ waiting \in Slots \cup {NoSlot}
  /\ req \in [Slots -> Requests]
  /\ up \in [Lines -> UpSteps]
  /\ viewer \in [Viewers -> ViewerStates]
  /\ faults \in Nat /\ ok \subseteq lines /\ raced \subseteq Lines

(* The stored transcript never has a hole, whatever is retried, abandoned, *)
(* answered late or deleted in between.                                    *)
Contiguous == \A i \in lines : \A j \in Lines : j < i => j \in lines

(* The broadcast of a stored line is still to come.                        *)
OnItsWay(i) == \E r \in Slots : req[r].step = "lineCast" /\ req[r].id = i

(* Register before read: a connected viewer whose sync was queued was told *)
(* of every stored line, by the sync or by a newLine event, except lines   *)
(* whose broadcast is still to come and those a /sync brought in bulk.     *)
NoLineMissed ==
  \A v \in Viewers : viewer[v].at = "synced" /\ ~viewer[v].behind =>
    \A i \in lines \ viewer[v].told : OnItsWay(i)

(* /sync carries the availability flags over: media answered 200 stays     *)
(* available as long as its line is stored, unless it was committed        *)
(* between a /sync's read of the flags and its replace.                    *)
MediaCarried == ok \subseteq avail \cup raced

(* A line is marked available only once its files are in storage.          *)
AvailHasFile == avail \subseteq files

(* After answers are lost and the server restarts, the 409 and the /sync   *)
(* that follows bring the server to the worker's transcript for good.      *)
CatchesUp == made = MaxLines ~> [](lines = Lines)

(***************************************************************************)
(* The parts that make these inductive: what a handler or a viewer read    *)
(* earlier still covers what it is going to be used for.                   *)
(***************************************************************************)
FilesFirst ==
  /\ \A i \in Lines : up[i] \in {"stored", "retry"} => i \in files
  /\ \A r \in Slots : req[r].carry \subseteq files

CarryFresh ==
  \A r \in Slots : req[r].step = "replace" => ok \subseteq req[r].carry \cup raced

SnapCovers ==
  \A v \in Viewers : viewer[v].at = "read" /\ ~viewer[v].behind =>
    \A i \in lines \ (viewer[v].told \cup viewer[v].snap) : OnItsWay(i)

IndInv ==
  /\ TypeOK /\ Contiguous /\ FilesFirst /\ AvailHasFile
  /\ CarryFresh /\ MediaCarried /\ SnapCovers /\ NoLineMissed

(* "the current state is sent to the client": a viewer that connected and  *)
(* that no /sync has left behind holds the stored transcript, once no      *)
(* newLine is on its way.                                                  *)
ViewerHasAll ==
  \A v \in Viewers :
    viewer[v].at = "synced" /\ ~viewer[v].behind
      /\ (\A r \in Slots : req[r].step # "lineCast")
    => lines \subseteq viewer[v].has

(* "a 200 always means the media is actually retrievable": the line of an  *)
(* answered /media keeps its flag while it is stored.                      *)
MediaRetrievable == ok \subseteq avail
=============================================================================
