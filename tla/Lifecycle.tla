------------------------------ MODULE Lifecycle ------------------------------
(***************************************************************************)
(* The streams table of one channel and every operation that changes it:   *)
(* activate, deactivate and sync from the worker                           *)
(* (internal/server/handlers_worker.go, lifecycle.go), retention after an  *)
(* activation, the admin's delete (handlers_admin.go), the pruning sweep   *)
(* (maintenance.go), and the storage folders they leave or remove.         *)
(*                                                                         *)
(* Each database or storage call is one step; a request keeps what it read *)
(* in its own record and may use it after others have written.  At most    *)
(* one worker request, one admin request and one sweep are in flight.      *)
(***************************************************************************)
EXTENDS Integers, FiniteSets

CONSTANTS
  Streams,         \* stream ids
  NumPastStreams,  \* ChannelState.NumPastStreams
  Local,           \* Storage.IsLocal(): TRUE local disk, FALSE R2
  Reactivates,     \* may the worker go back to a stream it had left
  Faults,          \* what may happen: "error", "crash", "delete"
  MaxClock,        \* bound on activations that read the clock
  MaxFaults        \* bound on failing calls, restarts and admin deletes

ASSUME LifecycleAssumption ==
  /\ IsFiniteSet(Streams)
  /\ "none" \notin Streams
  /\ {NumPastStreams, MaxClock, MaxFaults} \subseteq Nat
  /\ {Local, Reactivates} \subseteq BOOLEAN
  /\ Faults \subseteq {"error", "crash", "delete"}

VARIABLES
  rows,       \* streams with a row in the table
  live,       \* rows with is_live set
  act,        \* activated_time; 0 for a row inserted by /sync
  clock,      \* time.Now().UnixMicro()
  media,      \* streams with files in storage
  aged,       \* rows older than the sweep's minimum age
  deleting,   \* streams whose folder a background goroutine will delete
  req,        \* the request or sweep in flight, per requester
  current,    \* the stream the worker is on
  wish,       \* does the worker want it live
  settled,    \* has the worker's last request been answered
  announced,  \* the last newStream or status event viewers were sent
  errors,     \* failed database and storage calls so far
  crashes,    \* restarts so far
  deletes     \* admin deletes so far

tableVars == <<rows, live, act, aged>>
workerVars == <<current, wish, settled>>
faultVars == <<errors, crashes, deletes>>
vars == <<rows, live, act, clock, media, aged, deleting, req, current, wish,
          settled, announced, errors, crashes, deletes>>

NoStream == "none"
Requesters == {"worker", "admin", "prune"}
Steps == {"idle", "demote", "upsert", "retain", "purge", "probe", "drop",
          "announceNew", "relive", "announceLive", "unlive", "announceEnd",
          "cascade"}

(* A request: its step, the stream it is about, the stream it read or is   *)
(* at in a loop, the activation time it took, the streams left to visit    *)
(* and those of them whose activated_time was old when they were read.     *)
Idle == [step |-> "idle", s |-> NoStream, cur |-> NoStream, at |-> 0,
         todo |-> {}, old |-> {}]

Init ==
  /\ rows = {} /\ live = {} /\ aged = {} /\ media = {} /\ deleting = {}
  /\ act = [s \in Streams |-> 0]
  /\ clock = 0
  /\ req = [r \in Requesters |-> Idle]
  /\ current = NoStream /\ wish = FALSE /\ settled = TRUE
  /\ announced = [s |-> NoStream, live |-> FALSE]
  /\ errors = 0 /\ crashes = 0 /\ deletes = 0

Fault(f) == f \in Faults /\ errors + crashes + deletes < MaxFaults

(* A database or storage call fails.                                       *)
CallFails == Fault("error") /\ errors' = errors + 1 /\ UNCHANGED <<crashes, deletes>>

At(r, step) == req[r].step = step
Goto(r, step) == req' = [req EXCEPT ![r].step = step]

(* GetRecentStream: a row of the latest activated_time.                    *)
Recent == {s \in rows : \A t \in rows : act[s] >= act[t]}

(* DeleteStreamCascade (the transcript goes with the row).                 *)
DeleteRow(s) ==
  /\ rows' = rows \ {s} /\ live' = live \ {s} /\ aged' = aged \ {s}
  /\ UNCHANGED act

(* SetStreamLive updates a row that may be gone by now.                    *)
SetStreamLive(s, on) ==
  /\ live' = IF on THEN live \cup ({s} \cap rows) ELSE live \ {s}
  /\ UNCHANGED <<rows, act, aged>>

(* Faulty variant: the flag of a row that was never inserted.              *)
UpsertStreamNoInsert(s, on, at) ==
  /\ live' = IF on THEN live \cup {s} ELSE live \ {s}
  /\ act' = IF s \in rows THEN act ELSE [act EXCEPT ![s] = at]
  /\ UNCHANGED <<rows, aged>>

(* UpsertStream keeps activated_time on conflict.                          *)
UpsertStream(s, on, at) ==
  /\ rows' = rows \cup {s}
  /\ live' = IF on THEN live \cup {s} ELSE live \ {s}
  /\ act' = IF s \in rows THEN act ELSE [act EXCEPT ![s] = at]
  /\ UNCHANGED aged

-----------------------------------------------------------------------------
(* The worker                                                              *)

(* External: the worker sends one request at a time, and again when it got *)
(* no answer; it goes on with the stream it is on or starts one it never   *)
(* used, unless Reactivates lets it ask for anything.                      *)
MayActivate(s) ==
  \/ Reactivates
  \/ s = current /\ (settled \/ wish)
  \/ settled /\ act[s] = 0 /\ s \notin rows
MayDeactivate == current # NoStream /\ (Reactivates \/ settled \/ ~wish)

Ask(s, on) ==
  /\ At("worker", "idle")
  /\ current' = s /\ wish' = on /\ settled' = FALSE

Answer == settled' = TRUE /\ UNCHANGED <<current, wish>>

(* activateStream reads the most recent row.  Another stream: demote the   *)
(* recent one if it was live, then upsert.  The same, ended: set it live.  *)
(* The same and live: 208 and nothing else.                                *)
ActivateNew(s) ==
  /\ MayActivate(s) /\ Ask(s, TRUE) /\ clock < MaxClock
  /\ clock' = clock + 1
  /\ \E cur \in IF rows = {} THEN {NoStream} ELSE Recent \ {s} :
       req' = [req EXCEPT !["worker"] =
                 [step |-> IF cur \in live THEN "demote" ELSE "upsert",
                  s |-> s, cur |-> cur, at |-> clock + 1, todo |-> {}, old |-> {}]]
  /\ UNCHANGED <<tableVars, media, deleting, announced, faultVars>>

ActivateSame(s) ==
  /\ MayActivate(s) /\ Ask(s, TRUE) /\ s \in Recent \ live
  /\ req' = [req EXCEPT !["worker"] = [Idle EXCEPT !.step = "relive", !.s = s]]
  /\ UNCHANGED <<tableVars, clock, media, deleting, announced, faultVars>>

ActivateAgain(s) ==
  /\ MayActivate(s) /\ At("worker", "idle") /\ s \in Recent \cap live
  /\ current' = s /\ wish' = TRUE /\ settled' = TRUE
  /\ UNCHANGED <<tableVars, clock, media, deleting, req, announced, faultVars>>

(* Faulty variant: the previous stream stays live.                         *)
DemoteForgotten ==
  /\ At("worker", "demote")
  /\ Goto("worker", "upsert")
  /\ UNCHANGED <<tableVars, clock, media, deleting, workerVars, announced, faultVars>>

(* A failing demotion is only logged.                                      *)
Demote ==
  /\ At("worker", "demote")
  /\ \/ SetStreamLive(req["worker"].cur, FALSE) /\ UNCHANGED faultVars
     \/ CallFails /\ UNCHANGED tableVars
  /\ Goto("worker", "upsert")
  /\ UNCHANGED <<clock, media, deleting, workerVars, announced>>

Upsert ==
  /\ At("worker", "upsert")
  /\ UpsertStream(req["worker"].s, TRUE, req["worker"].at)
  /\ req' = [req EXCEPT !["worker"] =
                [Idle EXCEPT !.step = "retain", !.s = req["worker"].s]]
  /\ UNCHANGED <<clock, media, deleting, workerVars, announced, faultVars>>

(* Faulty variant: a failed write is announced all the same.               *)
WriteFailsAnnounced ==
  /\ req["worker"].step \in {"upsert", "relive", "unlive"} /\ CallFails
  /\ Goto("worker", IF At("worker", "unlive") THEN "announceEnd" ELSE "announceNew")
  /\ UNCHANGED <<tableVars, clock, media, deleting, workerVars, announced>>

(* A failing write makes activateStream or deactivateStream return false:  *)
(* the worker is answered 208 as well.                                     *)
WriteFails ==
  /\ req["worker"].step \in {"upsert", "relive", "unlive"} /\ CallFails
  /\ req' = [req EXCEPT !["worker"] = Idle]
  /\ Answer
  /\ UNCHANGED <<tableVars, clock, media, deleting, announced>>

(* So does a failing read of the most recent row.                          *)
ReadFails(s, on) ==
  /\ At("worker", "idle") /\ CallFails
  /\ IF on THEN MayActivate(s) ELSE MayDeactivate /\ s = current
  /\ current' = s /\ wish' = on /\ settled' = TRUE
  /\ UNCHANGED <<tableVars, clock, media, deleting, req, announced>>

Relive ==
  /\ At("worker", "relive")
  /\ SetStreamLive(req["worker"].s, TRUE)
  /\ Goto("worker", "announceLive")
  /\ UNCHANGED <<clock, media, deleting, workerVars, announced, faultVars>>

(* Faulty variant: every status event says live.                           *)
AnnounceAlwaysLive ==
  /\ req["worker"].step \in {"announceNew", "announceLive", "announceEnd"}
  /\ announced' = [s |-> req["worker"].s, live |-> TRUE]
  /\ req' = [req EXCEPT !["worker"] = Idle]
  /\ Answer
  /\ UNCHANGED <<tableVars, clock, media, deleting, faultVars>>

(* The broadcast that ends an activation or a deactivation.                *)
AnnounceStatus ==
  /\ req["worker"].step \in {"announceNew", "announceLive", "announceEnd"}
  /\ announced' = [s |-> req["worker"].s, live |-> ~At("worker", "announceEnd")]
  /\ req' = [req EXCEPT !["worker"] = Idle]
  /\ Answer
  /\ UNCHANGED <<tableVars, clock, media, deleting, faultVars>>

(* deactivateStream acts only on the most recent row, and only if live.    *)
Deactivate ==
  /\ MayDeactivate /\ Ask(current, FALSE)
  /\ current \in Recent \cap live
  /\ req' = [req EXCEPT !["worker"] = [Idle EXCEPT !.step = "unlive", !.s = current]]
  /\ UNCHANGED <<tableVars, clock, media, deleting, announced, faultVars>>

DeactivateIgnored ==
  /\ MayDeactivate /\ At("worker", "idle")
  /\ Recent # {current} \/ current \notin live
  /\ wish' = FALSE /\ settled' = TRUE
  /\ UNCHANGED <<tableVars, clock, media, deleting, req, current, announced, faultVars>>

Unlive ==
  /\ At("worker", "unlive")
  /\ SetStreamLive(req["worker"].s, FALSE)
  /\ Goto("worker", "announceEnd")
  /\ UNCHANGED <<clock, media, deleting, workerVars, announced, faultVars>>

(* syncHandler's UpsertStream: activated_time 0 and the worker's own idea  *)
(* of is_live; nothing is announced.                                       *)
Sync ==
  /\ current # NoStream /\ At("worker", "idle") /\ settled
  /\ UpsertStream(current, wish, 0)
  /\ UNCHANGED <<clock, media, deleting, req, workerVars, announced, faultVars>>

-----------------------------------------------------------------------------
(* applyRetention, within the activation                                   *)

(* Faulty variant: one past stream too many is kept.                       *)
RetainLocalOneMore ==
  /\ Local /\ At("worker", "retain")
  /\ LET others == rows \ {req["worker"].s} IN
     \E drop \in SUBSET others :
       /\ Cardinality(others \ drop) =
            IF Cardinality(others) <= NumPastStreams THEN Cardinality(others)
                                                     ELSE NumPastStreams + 1
       /\ \A k \in others \ drop, d \in drop : act[k] >= act[d]
       /\ req' = [req EXCEPT !["worker"].step = "purge", !["worker"].todo = drop]
  /\ UNCHANGED <<tableVars, clock, media, deleting, workerVars, announced, faultVars>>

(* On local disk: keep the NumPastStreams most recent others.              *)
RetainLocal ==
  /\ Local /\ At("worker", "retain")
  /\ LET others == rows \ {req["worker"].s} IN
     \E drop \in SUBSET others :
       /\ Cardinality(others \ drop) =
            IF Cardinality(others) < NumPastStreams THEN Cardinality(others)
                                                    ELSE NumPastStreams
       /\ \A k \in others \ drop, d \in drop : act[k] >= act[d]
       /\ req' = [req EXCEPT !["worker"].step = "purge", !["worker"].todo = drop]
  /\ UNCHANGED <<tableVars, clock, media, deleting, workerVars, announced, faultVars>>

Purge ==
  /\ At("worker", "purge")
  /\ \E d \in req["worker"].todo :
       /\ \/ DeleteRow(d) /\ deleting' = deleting \cup {d} /\ UNCHANGED faultVars
          \/ CallFails /\ UNCHANGED <<tableVars, deleting>>
       /\ req' = [req EXCEPT !["worker"].todo = @ \ {d}]
  /\ UNCHANGED <<clock, media, workerVars, announced>>

(* On R2: probe every other stream's folder, drop the rows without one.    *)
RetainR2 ==
  /\ ~Local /\ At("worker", "retain")
  /\ req' = [req EXCEPT !["worker"].step = "probe",
                        !["worker"].todo = IF Cardinality(rows) <= 1 THEN {}
                                           ELSE rows \ {req["worker"].s}]
  /\ UNCHANGED <<tableVars, clock, media, deleting, workerVars, announced, faultVars>>

RetainFails ==
  /\ At("worker", "retain") /\ CallFails
  /\ Goto("worker", "announceNew")
  /\ UNCHANGED <<tableVars, clock, media, deleting, workerVars, announced>>

(* The sweep's age test on activated_time: 0 is 1970.                      *)
OldEnough(s) == s \in aged \/ act[s] = 0

(* Faulty variant: the sweep leaves the most recent stream out.            *)
PruneStartSkipsRecent ==
  /\ ~Local /\ At("prune", "idle") /\ rows # {}
  /\ req' = [req EXCEPT !["prune"] =
                [Idle EXCEPT !.step = "probe", !.todo = rows \ Recent,
                             !.old = {s \in rows : OldEnough(s)}]]
  /\ UNCHANGED <<tableVars, clock, media, deleting, workerVars, announced, faultVars>>

(* The sweep: read all rows, then probe them one by one.                   *)
PruneStart ==
  /\ ~Local /\ At("prune", "idle") /\ rows # {}
  /\ req' = [req EXCEPT !["prune"] =
                [Idle EXCEPT !.step = "probe", !.todo = rows,
                             !.old = {s \in rows : OldEnough(s)}]]
  /\ UNCHANGED <<tableVars, clock, media, deleting, workerVars, announced, faultVars>>

(* One round of either loop: the sweep first skips a young stream.         *)
Skipped(r, s) ==
  \/ s \in media
  \/ r = "prune" /\ s \notin req[r].old /\ s \notin aged

(* Faulty variant: the loop never moves on from a stream that exists.      *)
ProbeStuck(r) ==
  /\ At(r, "probe")
  /\ \E s \in req[r].todo :
       req' = [req EXCEPT
         ![r].cur = IF Skipped(r, s) THEN NoStream ELSE s,
         ![r].step = IF Skipped(r, s) THEN @ ELSE "drop"]
  /\ UNCHANGED <<tableVars, clock, media, deleting, workerVars, announced, faultVars>>

Probe(r) ==
  /\ At(r, "probe")
  /\ \E s \in req[r].todo :
       req' = [req EXCEPT
         ![r].todo = @ \ {s}, ![r].old = @ \ {s},
         ![r].cur = IF Skipped(r, s) THEN NoStream ELSE s,
         ![r].step = IF Skipped(r, s) THEN @ ELSE "drop"]
  /\ UNCHANGED <<tableVars, clock, media, deleting, workerVars, announced, faultVars>>

Drop(r) ==
  /\ At(r, "drop")
  /\ \/ DeleteRow(req[r].cur) /\ UNCHANGED faultVars
     \/ CallFails /\ UNCHANGED tableVars
  /\ req' = [req EXCEPT ![r].step = "probe", ![r].cur = NoStream]
  /\ UNCHANGED <<clock, media, deleting, workerVars, announced>>

(* A stream whose probe fails is left alone.                               *)
ProbeFails(r) ==
  /\ At(r, "probe") /\ CallFails
  /\ \E s \in req[r].todo : req' = [req EXCEPT ![r].todo = @ \ {s}, ![r].old = @ \ {s}]
  /\ UNCHANGED <<tableVars, clock, media, deleting, workerVars, announced>>

LoopEnds(r) ==
  /\ req[r].step \in {"purge", "probe"} /\ req[r].todo = {}
  /\ req' = IF r = "worker" THEN [req EXCEPT ![r].step = "announceNew"]
                            ELSE [req EXCEPT ![r] = Idle]
  /\ UNCHANGED <<tableVars, clock, media, deleting, workerVars, announced, faultVars>>

-----------------------------------------------------------------------------
(* The admin: look the stream up, refuse a live one, delete.               *)

AdminLookup(s) ==
  /\ At("admin", "idle") /\ s \in rows \ live
  /\ Fault("delete") /\ deletes' = deletes + 1 /\ UNCHANGED <<errors, crashes>>
  /\ req' = [req EXCEPT !["admin"] = [Idle EXCEPT !.step = "cascade", !.s = s]]
  /\ UNCHANGED <<tableVars, clock, media, deleting, workerVars, announced>>

AdminDelete(withMedia) ==
  /\ At("admin", "cascade")
  /\ DeleteRow(req["admin"].s)
  /\ deleting' = IF withMedia THEN deleting \cup {req["admin"].s} ELSE deleting
  /\ req' = [req EXCEPT !["admin"] = Idle]
  /\ UNCHANGED <<clock, media, workerVars, announced, faultVars>>

-----------------------------------------------------------------------------
(* Storage, time and restarts                                              *)

(* mediaHandler stores files only for a stream that has a row.             *)
Upload(s) ==
  /\ s \in rows \ media
  /\ media' = media \cup {s}
  /\ UNCHANGED <<tableVars, clock, deleting, req, workerVars, announced, faultVars>>

(* R2's lifecycle rule expires old media.                                  *)
Expire(s) ==
  /\ ~Local /\ s \in media /\ (s \in aged \/ s \notin rows)
  /\ media' = media \ {s}
  /\ UNCHANGED <<tableVars, clock, deleting, req, workerVars, announced, faultVars>>

DeleteFolder(s) ==
  /\ s \in deleting
  /\ deleting' = deleting \ {s} /\ media' = media \ {s}
  /\ UNCHANGED <<tableVars, clock, req, workerVars, announced, faultVars>>

(* A row passes the sweep's minimum age: 24 hours, or 7 days without media.*)
Age(s) ==
  /\ ~Local /\ s \in rows \ aged
  /\ aged' = aged \cup {s}
  /\ UNCHANGED <<rows, live, act, clock, media, deleting, req, workerVars,
                 announced, faultVars>>

(* A restart loses every request, the background deletes and the viewers;  *)
(* the tables and the files stay.                                          *)
Crash ==
  /\ Fault("crash") /\ crashes' = crashes + 1
  /\ req' = [r \in Requesters |-> Idle]
  /\ deleting' = {}
  /\ announced' = [s |-> NoStream, live |-> FALSE]
  /\ UNCHANGED <<tableVars, clock, media, workerVars, errors, deletes>>

Worker ==
  \/ \E s \in Streams : \/ ActivateNew(s) \/ ActivateSame(s) \/ ActivateAgain(s)
                        \/ \E on \in BOOLEAN : ReadFails(s, on)
  \/ Demote \/ Upsert \/ WriteFails \/ Relive \/ AnnounceStatus
  \/ Deactivate \/ DeactivateIgnored \/ Unlive \/ Sync
Sweep ==
  \/ RetainLocal \/ RetainR2 \/ RetainFails \/ Purge \/ PruneStart
  \/ \E r \in {"worker", "prune"} : Probe(r) \/ ProbeFails(r) \/ Drop(r) \/ LoopEnds(r)
Admin ==
  \/ \E s \in Streams : AdminLookup(s)
  \/ \E m \in BOOLEAN : AdminDelete(m)
Environment ==
  \/ \E s \in Streams : Upload(s) \/ Expire(s) \/ DeleteFolder(s) \/ Age(s)
  \/ Crash

Next == Worker \/ Sweep \/ Admin \/ Environment

Spec == Init /\ [][Next]_vars

(* The goroutine of a request in flight.                                   *)
WorkerRuns ==
  \/ Demote \/ Upsert \/ Relive \/ Unlive \/ AnnounceStatus
  \/ RetainLocal \/ RetainR2 \/ Purge
  \/ Probe("worker") \/ Drop("worker") \/ LoopEnds("worker")

(* A request in flight runs on; the sweep comes round again (runPeriodic)  *)
(* and runs to its end.                                                    *)
FairSpec ==
  /\ Spec
  /\ WF_vars(WorkerRuns)
  /\ WF_vars(PruneStart)
  /\ WF_vars(Probe("prune") \/ Drop("prune") \/ LoopEnds("prune"))

-----------------------------------------------------------------------------
(* Properties                                                              *)

(* Type invariant.                                                         *)
TypeOK ==
  /\ rows \subseteq Streams /\ live \subseteq rows /\ aged \subseteq rows
  /\ media \subseteq Streams /\ deleting \subseteq Streams
  /\ act \in [Streams -> Nat] /\ clock \in Nat
  /\ req \in [Requesters -> [step : Steps, s : Streams \cup {NoStream},
                             cur : Streams \cup {NoStream}, at : Nat,
                             todo : SUBSET Streams, old : SUBSET Streams]]
  /\ current \in Streams \cup {NoStream} /\ wish \in BOOLEAN /\ settled \in BOOLEAN
  /\ announced \in [s : Streams \cup {NoStream}, live : BOOLEAN]
  /\ errors \in Nat /\ crashes \in Nat /\ deletes \in Nat

WorkerIdle == At("worker", "idle")

(* With a worker that never goes back to an older stream, and as long as no*)
(* call fails: between its requests exactly the stream it asked for is     *)
(* live, and none after it deactivated, across restarts at any point of an *)
(* activation and without a transaction around demotion and upsert.        *)
LiveFollowsWorker ==
  WorkerIdle /\ settled /\ errors = 0 => live = IF wish THEN {current} ELSE {}

(* No step deletes the row of a live stream: retention spares the stream   *)
(* just activated, and the one before it was demoted.                      *)
NoLiveDelete == [][errors = 0 => \A s \in live : s \in rows']_vars

(* Retention on local disk: between requests the table holds the current   *)
(* stream and NumPastStreams others, plus at most one for every activation *)
(* that a restart cut short or whose retention failed.                     *)
RetentionBound ==
  Local /\ WorkerIdle => Cardinality(rows) <= NumPastStreams + 1 + crashes + errors

(* What viewers were last told about a stream is what the table says, once *)
(* the request that told them has ended and as long as no call failed.     *)
ViewersAgree ==
  WorkerIdle /\ errors = 0 /\ announced.s \in rows =>
    (announced.live <=> announced.s \in live)

(* Viewers are only told what the database already holds, whichever        *)
(* database call of the request fails on the way.                          *)
AnnounceCommitted ==
  [][announced' # announced => (announced'.live <=> announced'.s \in live)]_vars

(* A worker's request always comes to an end: retention probes and deletes *)
(* each stream once, also when the probes or the deletes fail.             *)
RequestEnds == ~WorkerIdle ~> WorkerIdle

(* On R2 an old stream whose media has expired is eventually removed,      *)
(* unless its media comes back, also when a probe or a delete fails: the   *)
(* sweep comes round again.                                                *)
ExpiredPruned ==
  \A s \in Streams : (s \in aged /\ s \notin media) ~> (s \notin rows \/ s \in media)

(* "Stream ends: worker calls /{key}/deactivate, server updates live to    *)
(* false": after an answered deactivate the stream is not live.            *)
EndedNotLive ==
  WorkerIdle /\ settled /\ ~wish /\ errors = 0 => current \notin live

-----------------------------------------------------------------------------
(* The inductive invariant                                                 *)

WorkerSteps == Steps \ {"cascade"}
Activated == {"retain", "purge", "announceNew", "announceLive"}

(* A worker's request is about the stream the worker is on; the loops over *)
(* R2 folders run only there, and the admin's delete has been counted.     *)
RequestsOK ==
  /\ req["worker"].step \in WorkerSteps
  /\ ~WorkerIdle => req["worker"].s = current /\ current \in Streams /\ ~settled
  /\ At("worker", "purge") => current \notin req["worker"].todo
  /\ req["worker"].step \in {"probe", "drop"} => ~Local
  /\ req["prune"].step \in {"idle", "probe", "drop"}
  /\ ~At("prune", "idle") => ~Local
  /\ req["admin"].step \in {"idle", "cascade"}
  /\ At("admin", "cascade") => deletes # 0 /\ req["admin"].s \in Streams

(* On local disk, and until the admin deletes: what the announcement at    *)
(* the end of a request will say is already in the table.                  *)
Committed ==
  Local /\ deletes = 0 =>
    /\ req["worker"].step \in Activated => current \in live
    /\ At("worker", "relive") => current \in rows
    /\ At("worker", "announceEnd") => current \notin live

(* The rows retention has to bound, with the one a /sync may bring back,   *)
(* and the bound.  An activation may be one over until it has purged.      *)
Held == rows \cup ({current} \ {NoStream})
Allowed == NumPastStreams + 1 + crashes + errors

Retained ==
  Local =>
    /\ Cardinality(Held) <= Allowed + 1
    /\ req["worker"].step \notin {"demote", "upsert", "retain", "purge"} =>
         Cardinality(Held) <= Allowed
    /\ At("worker", "purge") => Cardinality(Held \ req["worker"].todo) <= Allowed

(* On local disk, with a worker that never goes back, and until a call     *)
(* fails or the admin deletes.                                             *)
Undisturbed == Local /\ ~Reactivates /\ errors = 0 /\ deletes = 0

(* Activation times tell the rows apart, and the worker's stream is the    *)
(* latest once it has a row.                                               *)
Ordered ==
  /\ \A s \in rows : act[s] > 0 /\ act[s] <= clock
  /\ \A s, t \in rows : act[s] = act[t] => s = t
  /\ current \in rows => current \in Recent

(* Only the latest row is ever live; what is live at each step of a        *)
(* request, and what the worker finds after a restart in between.          *)
OneLive ==
  /\ live \subseteq Recent
  /\ req["worker"].step \in {"demote", "upsert"} =>
       /\ wish /\ current \notin rows /\ req["worker"].at = clock /\ clock > 0
       /\ \A s \in rows : act[s] < clock
       /\ live \subseteq IF At("worker", "demote") THEN {req["worker"].cur} ELSE {}
  /\ req["worker"].step \in Activated => wish
  /\ At("worker", "relive") => wish /\ live = {}
  /\ req["worker"].step \in {"unlive", "announceEnd"} => ~wish /\ current \in rows
  /\ WorkerIdle /\ settled => current \in rows \cup {NoStream}
  /\ WorkerIdle /\ ~settled /\ ~wish => current \in rows

(* What viewers were told outlives no request of the worker's.             *)
Told ==
  WorkerIdle /\ announced.s # NoStream =>
    settled /\ announced.s = current /\ announced.live = wish

IndInv ==
  /\ TypeOK
  /\ RequestsOK
  /\ Committed
  /\ Retained
  /\ Undisturbed => Ordered /\ OneLive /\ LiveFollowsWorker /\ Told
=============================================================================
