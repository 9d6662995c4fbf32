------------------------------- MODULE Render -------------------------------
(***************************************************************************)
(* The renders of one stream: full VODs (internal/server/vod.go), clips    *)
(* and trims (handlers_public.go), each with its merge, ffmpeg and upload, *)
(* beside everything that changes the stream under them: media that        *)
(* arrives, an admin's edit of the media type, the removal of the stream   *)
(* and of its folder, the end of the server.  A request makes at most one  *)
(* call of MergeRawAudio and is identified with it; a VOD request that     *)
(* starts a build goes on as the build's goroutine.  Renders of different  *)
(* streams share nothing.                                                  *)
(*                                                                         *)
(* Lines are numbered from 0; a line's file id is its number.  ffmpeg and  *)
(* the storage are external: a call succeeds or fails.  Save makes an      *)
(* object visible at once on both backends (a rename, a PUT).              *)
(***************************************************************************)
EXTENDS Merge

CONSTANTS
  Admins,       \* requests that may ask for a VOD,
  Clippers,     \* for a clip,
  Trimmers,     \* for a trim
  MaxClipSize,  \* App.MaxClipSize, in lines
  Formats,      \* the clip formats asked for, of "mp4", "m4a", "mp3"
  Ranges,       \* the clip ranges asked for, first and last line
  MediaTypes,   \* the media types workers and admins set
  MaxEdits      \* bound on the changes of the stream

ASSUME RenderAssumption ==
  /\ Admins \cup Clippers \cup Trimmers = Calls
  /\ Files \subseteq Nat /\ IsFiniteSet(Files)
  /\ MaxClipSize \in Nat /\ MaxEdits \in Nat
  /\ Formats \subseteq {"mp4", "m4a", "mp3"}
  /\ MediaTypes \subseteq {"video", "audio", "none"} /\ Ranges \subseteq Int \X Int
  /\ "none" \notin Calls

VARIABLES
  row,       \* the stream's row: exists, live, media type
  avail,     \* lines with media_available and a file id
  req,       \* the requests and builds
  temp,      \* files in TempDir besides those of the merges
  defers,    \* the files each request removes when it returns
  job,       \* vodJob.State of the job each request installed
  registry,  \* vodRegistry: whose job it holds
  forgot,    \* history: jobs dropped with the stream
  met,       \* history: VOD requests that were in flight together
  vods,      \* objects under VodPrefix
  clips,     \* objects under clips/
  deleting,  \* a background DeleteFolder is under way
  closing,   \* App.Close has cancelled app.ctx
  edits      \* changes of the stream so far

streamVars == <<row, avail, edits>>
jobVars == <<job, registry, forgot, met>>
storageVars == <<vods, clips, deleting>>
tempVars == <<temp, defers>>
vars == <<mergeVars, streamVars, req, tempVars, jobVars, storageVars, closing>>

None == "none"

(* The id of a render is the request; want: the chunks it is to consist of.*)
Render == [id : Calls, ext : {"mp4", "m4a", "mp3"}, content : Seq(Files), want : Seq(Files)]

NoReq == [kind |-> None, at |-> "idle", ext |-> None, want |-> <<>>, files |-> <<>>,
          side |-> FALSE]
Ended == [NoReq EXCEPT !.at = "ended"]
At(r, where) == req[r].at = where
Move(r, where) == req' = [req EXCEPT ![r].at = where]

Building(r) == req[r].kind = "vod" /\ req[r].at \in {"start", "merge", "encode", "upload"}
InFlight(r) == ~(req[r].at \in {"idle", "ended", "killed"})

(* ORDER BY line_id.                                                       *)
InOrder(S) ==
  CHOOSE s \in [1 .. Cardinality(S) -> S] : \A i, j \in DOMAIN s : i < j => s[i] < s[j]

(* vodExtension                                                            *)
Extension == IF row.media = "video" THEN "mp4" ELSE "m4a"

(* A stream has ended, its media is stored; a line may lack it.            *)
Init ==
  /\ MergeInit /\ stored = Files
  /\ row \in [exists : {TRUE}, live : {FALSE}, media : {"video"}]
  /\ avail \in {Files, Files \ {1}}
  /\ req = [r \in Calls |-> NoReq]
  /\ temp = {} /\ defers = [r \in Calls |-> {}]
  /\ job = [r \in Calls |-> None] /\ registry = None /\ forgot = {} /\ met = {}
  /\ vods = {} /\ clips = {} /\ deleting = FALSE
  /\ closing = FALSE /\ edits = 0

-----------------------------------------------------------------------------
(* Returning: a build tells its job the outcome, the deferred removals     *)
(* run.  left: files the failing step itself leaves behind.                *)

(* Faulty variant: a failing build does not finish its job.                *)
ReturnUnfinished(r, outcome, left) ==
  /\ req' = [req EXCEPT ![r] = Ended]
  /\ temp' = (temp \cup left) \ {<<r, f>> : f \in defers[r]}
  /\ defers' = [defers EXCEPT ![r] = {}]
  /\ m' = [m EXCEPT ![r] = [NoCall EXCEPT !.disk = m[r].disk,
                                          !.raw = m[r].raw /\ "raw" \notin defers[r]]]
  /\ ctx' = ctx \ {r}
  /\ job' = IF Building(r) /\ outcome = "done" THEN [job EXCEPT ![r] = outcome] ELSE job
  /\ UNCHANGED <<registry, forgot, met>>

Return(r, outcome, left) ==
  /\ req' = [req EXCEPT ![r] = Ended]
  /\ temp' = (temp \cup left) \ {<<r, f>> : f \in defers[r]}
  /\ defers' = [defers EXCEPT ![r] = {}]
  /\ m' = [m EXCEPT ![r] = [NoCall EXCEPT !.disk = m[r].disk,
                                          !.raw = m[r].raw /\ "raw" \notin defers[r]]]
  /\ ctx' = ctx \ {r}
  /\ job' = IF Building(r) THEN [job EXCEPT ![r] = outcome] ELSE job
  /\ UNCHANGED <<registry, forgot, met>>

-----------------------------------------------------------------------------
(* POST /{channel}/admin/vod/{streamID}.  Every answer but a build's start *)
(* ends the request; what it says is left out.                             *)

(* An ended stream with a VOD format, then lines with media.  The row and  *)
(* the counts are two reads; a removal between them is refused like one    *)
(* before.                                                                 *)
resolveVodTarget == row.exists /\ ~row.live /\ row.media # "none"
CountTranscriptMedia == Cardinality(avail)

PostVod(r) ==
  /\ At(r, "idle") /\ ~closing
  /\ req' = [req EXCEPT ![r] =
       IF resolveVodTarget /\ CountTranscriptMedia # 0
         THEN [NoReq EXCEPT !.kind = "vod", !.at = "status", !.ext = Extension]
         ELSE Ended]
  /\ met' = met \cup {{r, q} : q \in {p \in Calls : InFlight(p)}}
  /\ UNCHANGED <<mergeVars, streamVars, tempVars, job, registry, forgot, storageVars, closing>>

(* vodResponse: first the job, then the storage.                           *)
JobRunning == registry # None /\ job[registry] = "running"

VodStatus(r) ==
  /\ At(r, "status")
  /\ req' = [req EXCEPT ![r] = IF JobRunning THEN Ended ELSE [@ EXCEPT !.at = "list"]]
  /\ UNCHANGED <<mergeVars, streamVars, tempVars, jobVars, storageVars, closing>>

(* Faulty variant: the artifact is looked up under another prefix.         *)
findVodNothing(r) ==
  /\ At(r, "list")
  /\ Move(r, "files")
  /\ UNCHANGED <<mergeVars, streamVars, tempVars, jobVars, storageVars, closing>>

findVodArtifact(r) ==
  /\ At(r, "list")
  /\ req' = [req EXCEPT ![r] = IF \E v \in vods : v.ext = req[r].ext
                                 THEN Ended ELSE [@ EXCEPT !.at = "files"]]
  /\ UNCHANGED <<mergeVars, streamVars, tempVars, jobVars, storageVars, closing>>

GetAllMediaFileIDs(r) ==
  /\ At(r, "files") /\ req[r].kind = "vod"
  /\ req' = [req EXCEPT ![r] =
       IF avail = {} THEN Ended
       ELSE [@ EXCEPT !.at = "claim", !.files = InOrder(avail), !.want = InOrder(avail)]]
  /\ UNCHANGED <<mergeVars, streamVars, tempVars, jobVars, storageVars, closing>>

(* Faulty variant: a running job is replaced too.                          *)
ClaimAlways(r) ==
  /\ At(r, "claim")
  /\ registry' = r /\ job' = [job EXCEPT ![r] = "running"] /\ Move(r, "start")
  /\ UNCHANGED <<mergeVars, streamVars, tempVars, forgot, met, storageVars, closing>>

(* The caller that installed the job runs the build.                       *)
claim(r) ==
  /\ At(r, "claim")
  /\ IF JobRunning
       THEN req' = [req EXCEPT ![r] = Ended] /\ UNCHANGED jobVars
       ELSE /\ registry' = r /\ job' = [job EXCEPT ![r] = "running"]
            /\ Move(r, "start") /\ UNCHANGED <<forgot, met>>
  /\ UNCHANGED <<mergeVars, streamVars, tempVars, storageVars, closing>>

-----------------------------------------------------------------------------
(* POST /{channel}/clip                                                    *)

PostClip(r, ext, start, end) ==
  /\ At(r, "idle") /\ ~closing
  /\ req' = [req EXCEPT ![r] =
       IF \/ ext = "mp4" /\ ~(row.exists /\ row.media = "video")
          \/ start < 0 \/ end < start \/ end - start >= MaxClipSize
         THEN Ended
         ELSE [NoReq EXCEPT !.kind = "clip", !.at = "files", !.ext = ext,
                            !.want = [i \in 1 .. end - start + 1 |-> start + i - 1]]]
  /\ UNCHANGED <<mergeVars, streamVars, tempVars, jobVars, storageVars, closing>>

(* GetFileIDsInRange                                                       *)
InRange(r) == {f \in avail : f >= req[r].want[1] /\ f <= req[r].want[Len(req[r].want)]}

(* Faulty variant: a range with a gap is clipped all the same.             *)
ClipAnyFiles(r) ==
  /\ At(r, "files") /\ req[r].kind = "clip"
  /\ req' = [req EXCEPT ![r] = IF InRange(r) = {} THEN Ended
                               ELSE [@ EXCEPT !.at = "start", !.files = InOrder(InRange(r))]]
  /\ UNCHANGED <<mergeVars, streamVars, tempVars, jobVars, storageVars, closing>>

ClipFiles(r) ==
  /\ At(r, "files") /\ req[r].kind = "clip"
  /\ req' = [req EXCEPT ![r] = IF Cardinality(InRange(r)) # Len(req[r].want) THEN Ended
                               ELSE [@ EXCEPT !.at = "start", !.files = InOrder(InRange(r))]]
  /\ UNCHANGED <<mergeVars, streamVars, tempVars, jobVars, storageVars, closing>>

(* POST /{channel}/trim: the source clip is copied to TempDir, or is not   *)
(* found.                                                                  *)
PostTrim(r) ==
  /\ At(r, "idle") /\ ~closing
  /\ \/ \E c \in clips :
          /\ req' = [req EXCEPT ![r] = [NoReq EXCEPT !.kind = "trim", !.at = "trim",
                                          !.ext = c.ext, !.want = c.content]]
          /\ temp' = temp \cup {<<r, "src">>}
          /\ defers' = [defers EXCEPT ![r] = {"src"}]
     \/ req' = [req EXCEPT ![r] = Ended] /\ UNCHANGED tempVars
  /\ UNCHANGED <<mergeVars, streamVars, jobVars, storageVars, closing>>

Trim(r) ==
  /\ At(r, "trim")
  /\ temp' = temp \cup {<<r, "trim">>}
  /\ defers' = [defers EXCEPT ![r] = @ \cup {"trim"}]
  /\ Move(r, "upload")
  /\ UNCHANGED <<mergeVars, streamVars, jobVars, storageVars, closing>>

(* Whatever ffmpeg wrote before it failed stays.                           *)
TrimFails(r) ==
  /\ At(r, "trim") /\ Fault
  /\ \E left \in SUBSET {<<r, "trim">>} : Return(r, "failed", left)
  /\ UNCHANGED <<stored, streamVars, storageVars, closing>>

-----------------------------------------------------------------------------
(* What builds and clips do alike: merge, encode, upload.                  *)

StartMerge(r) ==
  /\ At(r, "start") /\ Move(r, "merge")
  /\ MergeRawAudio(r, req[r].files) \/ MergeRefused(r)
  /\ UNCHANGED <<streamVars, tempVars, jobVars, storageVars, closing>>

Merged(r) ==
  /\ At(r, "merge") /\ m[r].at = "ok"
  /\ defers' = [defers EXCEPT ![r] = @ \cup {"raw"}]
  /\ Move(r, "encode")
  /\ UNCHANGED <<mergeVars, streamVars, temp, jobVars, storageVars, closing>>

MergeFailed(r) ==
  /\ At(r, "merge") /\ m[r].at = "err"
  /\ Return(r, "failed", {})
  /\ UNCHANGED <<stored, faults, streamVars, storageVars, closing>>

(* Remux to mp4, Convert to anything else.                                 *)
Encode(r) ==
  /\ At(r, "encode")
  /\ temp' = temp \cup {<<r, "out">>}
  /\ defers' = [defers EXCEPT ![r] = @ \cup {"out"}]
  /\ Move(r, IF req[r].kind = "clip" /\ req[r].ext = "mp4" THEN "sidecar" ELSE "upload")
  /\ UNCHANGED <<mergeVars, streamVars, jobVars, storageVars, closing>>

(* Faulty variant: the partial output is not removed.                      *)
EncodeFailsLeaving(r) ==
  /\ At(r, "encode") /\ Fault
  /\ Return(r, "failed", {<<r, "out">>})
  /\ UNCHANGED <<stored, streamVars, storageVars, closing>>

EncodeFails(r) ==
  /\ At(r, "encode") /\ Fault
  /\ Return(r, "failed", {})
  /\ UNCHANGED <<stored, streamVars, storageVars, closing>>

(* An mp4 clip gets an m4a beside it, if that can be had.                  *)
Sidecar(r) ==
  /\ At(r, "sidecar")
  /\ \/ /\ temp' = temp \cup {<<r, "side">>}
        /\ defers' = [defers EXCEPT ![r] = @ \cup {"side"}]
        /\ req' = [req EXCEPT ![r].at = "upload", ![r].side = TRUE]
        /\ UNCHANGED mergeVars
     \/ Fault /\ Move(r, "upload") /\ UNCHANGED <<tempVars, m, ctx, stored>>
  /\ UNCHANGED <<streamVars, jobVars, storageVars, closing>>

Content(r) == IF req[r].kind = "trim" THEN req[r].want ELSE m[r].out
Object(r, ext) == [id |-> r, ext |-> ext, content |-> Content(r), want |-> req[r].want]

(* uploadFile under a context nobody cancels.                              *)
UploadVod(r) ==
  /\ At(r, "upload") /\ req[r].kind = "vod"
  /\ vods' = vods \cup {Object(r, req[r].ext)}
  /\ Return(r, "done", {})
  /\ UNCHANGED <<stored, faults, streamVars, clips, deleting, closing>>

UploadClip(r) ==
  /\ At(r, "upload") /\ req[r].kind # "vod"
  /\ clips' = clips \cup {Object(r, req[r].ext)}
  /\ IF req[r].side THEN Move(r, "upside") /\ UNCHANGED <<m, ctx, tempVars, jobVars>>
                    ELSE Return(r, "done", {})
  /\ UNCHANGED <<stored, faults, streamVars, vods, deleting, closing>>

UploadFails(r) ==
  /\ At(r, "upload") /\ Fault
  /\ Return(r, "failed", {})
  /\ UNCHANGED <<stored, streamVars, storageVars, closing>>

(* The sidecar's upload may fail: the clip is answered all the same.       *)
UploadSidecar(r) ==
  /\ At(r, "upside")
  /\ Return(r, "done", {})
  /\ \/ clips' = clips \cup {Object(r, "m4a")} /\ UNCHANGED faults
     \/ Fault /\ UNCHANGED clips
  /\ UNCHANGED <<stored, streamVars, vods, deleting, closing>>

(* A database or storage call fails, or the client of a clip has gone.     *)
ReadFails(r) ==
  /\ req[r].at \in {"list", "files"}
  /\ Return(r, "failed", {})
  /\ Fault \/ (r \in ctx /\ req[r].kind = "clip" /\ UNCHANGED faults)
  /\ UNCHANGED <<stored, streamVars, storageVars, closing>>

ClientGone(r) ==
  /\ req[r].kind = "clip" /\ req[r].at \in {"files", "start", "merge"} /\ r \notin ctx
  /\ ctx' = ctx \cup {r}
  /\ UNCHANGED <<m, stored, faults, streamVars, req, tempVars, jobVars, storageVars, closing>>

-----------------------------------------------------------------------------
(* The stream changes.                                                     *)

Change == edits < MaxEdits /\ edits' = edits + 1

(* POST /{channel}/admin/stream/{streamID}: the media type.                *)
EditMediaType(type) ==
  /\ row.exists /\ row.media # type /\ Change
  /\ row' = [row EXCEPT !.media = type]
  /\ UNCHANGED <<mergeVars, avail, req, tempVars, jobVars, storageVars, closing>>

(* removeStream: rows, the job, and with deleteMedia the folder.  What a   *)
(* request does between the cascade and forget it may as well do before.   *)
removeStream(deleteMedia) ==
  /\ row.exists /\ ~row.live /\ Change
  /\ row' = [row EXCEPT !.exists = FALSE] /\ avail' = {}
  /\ registry' = None /\ forgot' = forgot \cup ({registry} \cap Calls)
  /\ deleting' = (deleting \/ deleteMedia)
  /\ UNCHANGED <<mergeVars, req, tempVars, job, met, vods, clips, closing>>

(* The folder goes in one step, or some kinds of its objects stay because  *)
(* a batch fails.                                                          *)
DeleteFolder ==
  /\ deleting /\ deleting' = FALSE
  /\ \/ stored' = {} /\ vods' = {} /\ clips' = {} /\ UNCHANGED faults
     \/ /\ Fault
        /\ stored' \in {stored, {}} /\ vods' \in {vods, {}} /\ clips' \in {clips, {}}
  /\ UNCHANGED <<m, ctx, streamVars, req, tempVars, jobVars, closing>>

(* The worker goes back to the stream, ends it, uploads media late: see    *)
(* Lifecycle and Transcript.                                               *)
Activate(type) ==
  /\ ~row.live /\ Change
  /\ row' = [exists |-> TRUE, live |-> TRUE, media |-> type]
  /\ UNCHANGED <<mergeVars, avail, req, tempVars, jobVars, storageVars, closing>>

Deactivate ==
  /\ row.live
  /\ row' = [row EXCEPT !.live = FALSE]
  /\ UNCHANGED <<mergeVars, avail, edits, req, tempVars, jobVars, storageVars, closing>>

MediaArrives(f) ==
  /\ row.exists /\ f \notin avail /\ Change
  /\ stored' = stored \cup {f} /\ avail' = avail \cup {f}
  /\ UNCHANGED <<m, ctx, faults, row, req, tempVars, jobVars, storageVars, closing>>

(* App.Close cancels app.ctx, which is the context of the builds' merges;  *)
(* nobody waits for them, and the process ends.                            *)
Close ==
  /\ ~closing /\ closing' = TRUE
  /\ ctx' = ctx \cup {r \in Calls : req[r].kind = "vod"}
  /\ UNCHANGED <<m, stored, faults, streamVars, req, tempVars, jobVars, storageVars>>

(* The process ends, in order or not, and starts again.  The files of its  *)
(* requests stay where they are and, their names being unique, nobody      *)
(* touches them again: they are not followed any further.                  *)
Restart ==
  /\ (closing /\ UNCHANGED faults) \/ Fault
  /\ req' = [r \in Calls |-> IF InFlight(r) THEN [NoReq EXCEPT !.at = "killed"] ELSE req[r]]
  /\ m' = [r \in Calls |-> IF InFlight(r) THEN NoCall ELSE m[r]]
  /\ temp' = {f \in temp : ~InFlight(f[1])}
  /\ ctx' = {} /\ defers' = [r \in Calls |-> {}]
  /\ job' = [r \in Calls |-> None] /\ registry' = None /\ forgot' = {}
  /\ deleting' = FALSE /\ closing' = FALSE
  /\ UNCHANGED <<stored, streamVars, met, vods, clips>>

-----------------------------------------------------------------------------
renderVars == <<streamVars, req, tempVars, jobVars, storageVars, closing>>

Handle(r) ==
  \/ VodStatus(r) \/ findVodArtifact(r) \/ GetAllMediaFileIDs(r) \/ claim(r)
  \/ ClipFiles(r) \/ Trim(r) \/ StartMerge(r) \/ Merged(r) \/ MergeFailed(r)
  \/ Encode(r) \/ Sidecar(r) \/ UploadVod(r) \/ UploadClip(r) \/ UploadSidecar(r)
Fails(r) == TrimFails(r) \/ EncodeFails(r) \/ UploadFails(r) \/ ReadFails(r)

Next ==
  \/ \E r \in Admins : PostVod(r)
  \/ \E r \in Trimmers : PostTrim(r)
  \/ \E r \in Clippers, ext \in Formats, range \in Ranges : PostClip(r, ext, range[1], range[2])
  \/ \E r \in Calls :
       \/ Handle(r) \/ Fails(r) \/ ClientGone(r)
       \/ MergeStep(r) /\ UNCHANGED renderVars
  \/ \E type \in MediaTypes : EditMediaType(type) \/ Activate(type)
  \/ \E deleteMedia \in BOOLEAN : removeStream(deleteMedia)
  \/ \E f \in Files : MediaArrives(f)
  \/ DeleteFolder \/ Deactivate \/ Close \/ Restart

Spec == Init /\ [][Next]_vars

-----------------------------------------------------------------------------
(* Properties                                                              *)

(* Type invariant.                                                         *)
TypeOK ==
  /\ DOMAIN m = Calls
  /\ \A c \in Calls :
       /\ m[c].at \in WriterStates /\ m[c].slots \in Int /\ m[c].slots <= Concurrency
       /\ \A i \in DOMAIN m[c].chunk : m[c].chunk[i] \in ChunkStates
  /\ ctx \subseteq Calls /\ stored \subseteq Files /\ faults \in 0 .. MaxFaults
  /\ row \in [exists : BOOLEAN, live : BOOLEAN, media : MediaTypes \cup {"video"}]
  /\ avail \subseteq Files
  /\ DOMAIN req = Calls /\ DOMAIN defers = Calls
  /\ temp \subseteq Calls \X {"out", "side", "src", "trim"}
  /\ job \in [Calls -> {None, "running", "done", "failed"}]
  /\ registry \in Calls \cup {None} /\ forgot \subseteq Calls
  /\ vods \subseteq Render /\ clips \subseteq Render
  /\ {deleting, closing} \subseteq BOOLEAN /\ edits \in 0 .. MaxEdits

(* "an interrupted build simply leaves no artifact to find": every VOD and *)
(* clip in storage is whole.  It has exactly the chunks it was asked for,  *)
(* in order: a clip each line of its range, though the lines' media and    *)
(* the stream come and go, downloads fail and the server is restarted.     *)
ArtifactsWhole == \A v \in vods \cup clips : v.content = v.want

(* A request that has returned leaves nothing in TempDir, whichever step   *)
(* failed; the one exception is the output of a failed Trim.               *)
TempClean ==
  \A r \in Calls : At(r, "ended") =>
    /\ m[r].disk = {} /\ ~m[r].raw
    /\ \A f \in {"out", "side", "src"} : <<r, f>> \notin temp

(* A job is "running" exactly as long as a goroutine builds for it, so     *)
(* that a failed or abandoned build never keeps the admins from another.   *)
JobFollowsBuild == \A r \in Calls : job[r] = "running" <=> Building(r)

(* "a second admin pressing the button joins that build instead of         *)
(* starting a rival one": two builds of the stream run at once only when   *)
(* the stream was removed under one of them.                               *)
NoRival ==
  \A r, q \in Calls : Building(r) /\ Building(q) /\ r # q => r \in forgot \/ q \in forgot

(* "a build is skipped entirely when the artifact is already in storage":  *)
(* the stream has two VODs of one format only from requests that were in   *)
(* flight together, the later one having looked before the first was       *)
(* stored and claimed after it had finished.                               *)
CopiesOverlap ==
  \A v, w \in vods : v.id # w.id /\ v.ext = w.ext => {v.id, w.id} \in met

(* Nobody waits for ever: a request in flight can always go on, its writer *)
(* waiting for downloads, the producer for a slot and wg.Wait for both.    *)
(* It needs no fault to do so; that it then ends is RendersWindDown.       *)
NeverStuck ==
  \A r \in Calls : InFlight(r) =>
    ENABLED (\/ Handle(r)
             \/ /\ Writer(r) \/ Producer(r) \/ \E i \in 1 .. Size(r) : Downloader(r, i)
                /\ UNCHANGED renderVars)

(* The steps of the handlers have their guards in the same way.            *)
HandlerReady(r) ==
  \/ req[r].at \in {"status", "list", "claim", "trim", "encode", "sidecar", "upload", "upside"}
  \/ At(r, "files") /\ req[r].kind \in {"vod", "clip"}
  \/ At(r, "start") /\ m[r].at = "none" /\ req[r].files # <<>>
  \/ At(r, "merge") /\ m[r].at \in {"ok", "err"}

(* NeverStuck with the guards written out, so that it can be proved.       *)
AlwaysReady == \A r \in Calls : InFlight(r) => HandlerReady(r) \/ MergeReady(r)

(* The way of a request.                                                   *)
Phase == [idle |-> 0, status |-> 1, list |-> 2, files |-> 3, claim |-> 4, start |-> 5,
          trim |-> 5, merge |-> 6, encode |-> 7, sidecar |-> 8, upload |-> 9,
          upside |-> 10, ended |-> 11, killed |-> 11]

(* Every request and every build ends: whatever fails, is cancelled or is  *)
(* removed under it, each of its steps takes it further on its way or is   *)
(* one of the at most 5 * Len(files) + 1 of its merge.                     *)
RendersWindDown ==
  [][\A r \in Calls : req'[r] # req[r] \/ m'[r] # m[r] =>
       \/ Phase[req'[r].at] > Phase[req[r].at]
       \/ /\ req'[r] = req[r]
          /\ 0 <= StepsLeft(m'[r]) /\ StepsLeft(m'[r]) < StepsLeft(m[r])]_vars

-----------------------------------------------------------------------------
(* The inductive invariant                                                 *)

ReqType == [kind : {None, "vod", "clip", "trim"},
            at : {"idle", "status", "list", "files", "claim", "trim", "start", "merge",
                  "encode", "sidecar", "upload", "upside", "ended", "killed"},
            ext : {None, "mp4", "m4a", "mp3"}, want : Seq(Nat), files : Seq(Files),
            side : BOOLEAN]

(* Where a request is says what it asks for,                               *)
Stage(r) ==
  /\ req[r].kind = None <=> req[r].at \in {"idle", "ended", "killed"}
  /\ req[r].at \in {"status", "list", "claim"} => req[r].kind = "vod"
  /\ req[r].at \in {"files", "start", "merge", "encode"} => req[r].kind \in {"vod", "clip"}
  /\ req[r].at \in {"sidecar", "upside"} \/ req[r].side => req[r].kind = "clip"
  /\ req[r].at = "trim" => req[r].kind = "trim"
  /\ req[r].kind # None => req[r].ext # None

(* which chunks,                                                           *)
Wanted(r) ==
  LET q == req[r] IN
    /\ q.kind = "clip" /\ q.at = "files" =>
         q.want # <<>> /\ \A i \in 1 .. Len(q.want) : q.want[i] = q.want[1] + i - 1
    /\ q.kind \in {"vod", "clip"} /\ q.at \notin {"status", "list", "files"} =>
         q.files # <<>> /\ q.want = q.files
    /\ q.kind = "trim" => q.want \in Seq(Files)

(* how far its merge is,                                                   *)
HasMerged(r) ==
  req[r].kind \in {"vod", "clip"} /\ req[r].at \in {"encode", "sidecar", "upload", "upside"}
Merging(r) ==
  /\ req[r].at = "merge" =>
       m[r].at # "none" /\ (m[r].at # "err" => m[r].files = req[r].files)
  /\ HasMerged(r) => m[r].at = "ok" /\ m[r].files = req[r].files
  /\ req[r].at # "merge" /\ ~HasMerged(r) => m[r].at = "none"

(* and which files it will remove.                                         *)
Removes(r) ==
  /\ HasMerged(r) => "raw" \in defers[r]
  /\ req[r].at \notin {"trim", "encode", "sidecar", "upload", "upside"} => defers[r] = {}
  /\ \A f \in {"out", "side", "src"} : <<r, f>> \in temp => f \in defers[r]

ReqOK(r) == Stage(r) /\ Wanted(r) /\ Merging(r) /\ Removes(r)

(* A build is in the registry until the stream is removed.                 *)
Registered == \A r \in Calls : Building(r) => registry = r \/ r \in forgot

(* A request that did not find a VOD has met every one that stored one     *)
(* since.                                                                  *)
Met ==
  /\ \A r, q \in Calls : r # q /\ req[r].kind = "vod" /\ req[q].kind = "vod" => {r, q} \in met
  /\ \A r \in Calls, v \in vods :
       req[r].kind = "vod" /\ req[r].at \notin {"status", "list"} /\ v.ext = req[r].ext /\ v.id # r
         => {r, v.id} \in met

IndInv ==
  /\ TypeOK /\ req \in [Calls -> ReqType] /\ MergeInv
  /\ \A r \in Calls : ReqOK(r)
  /\ JobFollowsBuild /\ Registered
  /\ ArtifactsWhole
  /\ Met /\ CopiesOverlap
=============================================================================
