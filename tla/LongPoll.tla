------------------------------ MODULE LongPoll ------------------------------
(***************************************************************************)
(* The long polls and the signals they carry: the notifier                 *)
(* (internal/notify), GET /events and GET /{channel}/admin/poll            *)
(* (internal/server/handlers_events.go), the incoming queue and the        *)
(* restart flags with every handler that changes them (handlers_worker.go, *)
(* handlers_admin.go, app.go, maintenance.go).                             *)
(*                                                                         *)
(* Of the notifier's signal channels a poll sees only whether the one it   *)
(* holds is still open: Notify closes it and every later Subscribe gets a  *)
(* fresh one.  Time is in seconds.  Each database call, the bump of a      *)
(* channel's counter and Notify are steps of their own.                    *)
(***************************************************************************)
EXTENDS Integers, FiniteSets

CONSTANTS
  Channels,   \* channel keys, all of them polled by the worker
  Pages,      \* channels with an admin page open
  Urls,       \* announced stream URLs
  Writers,    \* handlers that may be changing a queue or a flag
  TTL,        \* App.IncomingStreamTTL
  MaxWrites,  \* bound on the writes
  MaxErrors,  \* bound on the failing database calls
  MaxClock    \* bound on the clock

ASSUME LongPollAssumption ==
  /\ Pages \subseteq Channels
  /\ "worker" \notin Channels /\ "none" \notin Channels /\ "none" \notin Urls
  /\ TTL \in Nat /\ MaxWrites \in Nat /\ MaxErrors \in Nat /\ MaxClock \in Nat \ {0}

VARIABLES
  queue,     \* incoming_streams: received_at, 0 when not queued
  restart,   \* worker_restart_requests: requested_at, 0 when none
  counter,   \* ChannelState.AdminChangeCounter
  clock,     \* time.Now().Unix()
  writer,    \* the handlers that write
  writes,    \* writes begun
  released,  \* the notifier's shutdown channel is closed
  poll,      \* where each long poll is, and whether its signal is open
  resp,      \* the worker's WorkerEventsResponse in the making
  info,      \* what each admin page got from its last GET /admin/info
  silent,    \* history: URLs removed without a bump
  errors     \* database calls that have failed

tableVars == <<queue, restart, counter>>
clientVars == <<resp, info>>
vars == <<queue, restart, counter, clock, writer, writes, released,
          poll, resp, info, silent, errors>>

None == "none"
Pollers == Pages \cup {"worker"}
Ops == {"queue", "unqueue", "restart", "clear", "stop"}
Free == [at |-> "idle", op |-> "clear", ch |-> None, url |-> None, t |-> 0]
NoResp == [todo |-> {}, half |-> None, cursor |-> 0, incoming |-> {}, restart |-> {}]

Queued(ch) == {u \in Urls : queue[ch][u] # 0}

Init ==
  /\ queue = [ch \in Channels |-> [u \in Urls |-> 0]]
  /\ restart = [ch \in Channels |-> 0]
  /\ counter = [ch \in Channels |-> 0]
  /\ clock = 1
  /\ writer = [w \in Writers |-> Free] /\ writes = 0
  /\ released = FALSE
  /\ poll = [p \in Pollers |-> [at |-> "idle", open |-> FALSE,
                                since |-> IF p = "worker" THEN 0 ELSE -1]]
  /\ resp = NoResp
  /\ info = [ch \in Pages |-> [urls |-> {}, restart |-> 0, ok |-> FALSE]]
  /\ silent = [ch \in Channels |-> {}]
  /\ errors = 0

-----------------------------------------------------------------------------
(* The handlers that write: read the clock, commit, bump the counter,      *)
(* Notify.                                                                 *)

(* Faulty variant: milliseconds where the columns hold seconds.            *)
StartMillis(w, op, ch, u) ==
  writer' = [writer EXCEPT ![w] =
    [at |-> "commit", op |-> op, ch |-> ch, url |-> u, t |-> 1000 * clock]]

Start(w, op, ch, u) ==
  writer' = [writer EXCEPT ![w] =
    [at |-> IF op = "stop" THEN "empty" ELSE "commit",
     op |-> op, ch |-> ch, url |-> u,
     t |-> IF op \in {"queue", "restart"} THEN clock ELSE 0]]

Begin(w, op, ch, u) ==
  /\ writer[w].at = "idle" /\ writes < MaxWrites
  /\ Start(w, op, ch, u)
  /\ writes' = writes + 1
  /\ UNCHANGED <<tableVars, clock, released, poll, clientVars, silent, errors>>

(* postAdminStop first empties the queue, then asks for a restart.         *)
StopClears(w) ==
  /\ writer[w].at = "empty"
  /\ queue' = [queue EXCEPT ![writer[w].ch] = [u \in Urls |-> 0]]
  /\ writer' = [writer EXCEPT ![w].at = "commit", ![w].t = clock]
  /\ UNCHANGED <<restart, counter, clock, writes, released, poll, resp,
                 info, silent, errors>>

(* The delete handlers bump only when a row was removed.                   *)
Commit(w) ==
  /\ writer[w].at = "commit"
  /\ LET ch == writer[w].ch
         u == writer[w].url
         op == writer[w].op
         hit == CASE op = "unqueue" -> u \in Queued(ch)
                  [] op = "clear" -> restart[ch] # 0
                  [] OTHER -> TRUE
     IN
     /\ queue' = CASE op = "queue" -> [queue EXCEPT ![ch][u] = writer[w].t]
                   [] op = "unqueue" -> [queue EXCEPT ![ch][u] = 0]
                   [] OTHER -> queue
     /\ silent' = IF op = "queue" THEN [silent EXCEPT ![ch] = @ \ {u}] ELSE silent
     /\ restart' = CASE op \in {"restart", "stop"} -> [restart EXCEPT ![ch] = writer[w].t]
                     [] op = "clear" -> [restart EXCEPT ![ch] = 0]
                     [] OTHER -> restart
     /\ writer' = [writer EXCEPT ![w] = IF hit THEN [Free EXCEPT !.at = "add", !.ch = ch] ELSE Free]
  /\ UNCHANGED <<counter, clock, writes, released, poll, resp, info, errors>>

(* A failing write is answered with a 500, without a bump: a stop that     *)
(* fails here has already emptied the queue.                               *)
CallFails(w) ==
  /\ writer[w].at \in {"empty", "commit"} /\ errors < MaxErrors
  /\ silent' = IF writer[w].op = "stop" /\ writer[w].at = "commit"
                  THEN [silent EXCEPT ![writer[w].ch] = @ \cup (Urls \ Queued(writer[w].ch))]
                  ELSE silent
  /\ writer' = [writer EXCEPT ![w] = Free]
  /\ errors' = errors + 1
  /\ UNCHANGED <<tableVars, clock, writes, released, poll, clientVars>>

(* Faulty variant: the counter is not advanced.                            *)
AddCounterForgotten(w) ==
  /\ writer[w].at = "add"
  /\ writer' = [writer EXCEPT ![w].at = "notify"]
  /\ UNCHANGED <<tableVars, clock, writes, released, poll, clientVars, silent, errors>>

(* bumpAdminChange: the counter, then every parked poll.                   *)
AddCounter(w) ==
  /\ writer[w].at = "add"
  /\ counter' = [counter EXCEPT ![writer[w].ch] = @ + 1]
  /\ writer' = [writer EXCEPT ![w].at = "notify"]
  /\ UNCHANGED <<queue, restart, clock, writes, released, poll, clientVars,
                 silent, errors>>

(* Faulty variant: the channel is replaced but not closed for its waiters. *)
NotifySilent(w) ==
  /\ writer[w].at = "notify"
  /\ writer' = [writer EXCEPT ![w] = Free]
  /\ UNCHANGED <<tableVars, clock, writes, released, poll, clientVars, silent, errors>>

Notify(w) ==
  /\ writer[w].at = "notify"
  /\ poll' = [p \in Pollers |-> [poll[p] EXCEPT !.open = FALSE]]
  /\ writer' = [writer EXCEPT ![w] = Free]
  /\ UNCHANGED <<tableVars, clock, writes, released, clientVars, silent, errors>>

(* cleanupIncomingStreams: the expired URLs of all channels go in one      *)
(* statement, and nobody is told.                                          *)
Expired(ch) == {u \in Queued(ch) : queue[ch][u] < clock - TTL}

CleanupExpired ==
  /\ \E ch \in Channels : Expired(ch) # {}
  /\ queue' = [ch \in Channels |-> [u \in Urls |->
                IF u \in Expired(ch) THEN 0 ELSE queue[ch][u]]]
  /\ silent' = [ch \in Channels |-> silent[ch] \cup Expired(ch)]
  /\ UNCHANGED <<restart, counter, clock, writer, writes, released, poll,
                 resp, info, errors>>

Tick ==
  /\ clock < MaxClock
  /\ clock' = clock + 1
  /\ UNCHANGED <<tableVars, writer, writes, released, poll, clientVars, silent, errors>>

-----------------------------------------------------------------------------
(* Notifier.Wait: subscribe, check, park; a wakeup starts over.            *)

At(p, where) == poll[p].at = where
Move(p, where) ==
  poll' = [poll EXCEPT ![p].at = where, ![p].open = @ /\ where = "parked"]

(* A client polls again as long as the server takes requests.              *)
PollStarts(p) ==
  /\ At(p, "idle") /\ ~released
  /\ Move(p, "subscribe")
  /\ UNCHANGED <<tableVars, clock, writer, writes, released, clientVars, silent, errors>>

Subscribe(p) ==
  /\ At(p, "subscribe")
  /\ poll' = [poll EXCEPT ![p].at = "check", ![p].open = TRUE]
  /\ resp' = IF p = "worker" THEN [NoResp EXCEPT !.todo = Channels,
                                                 !.cursor = poll[p].since]
                             ELSE resp
  /\ UNCHANGED <<tableVars, clock, writer, writes, released, info,
                 silent, errors>>

Wake(p) ==
  /\ At(p, "parked") /\ ~poll[p].open
  /\ Move(p, "subscribe")
  /\ UNCHANGED <<tableVars, clock, writer, writes, released, clientVars, silent, errors>>

(* Timeout (204), or the client went away.                                 *)
PollEnds(p) ==
  /\ At(p, "parked")
  /\ Move(p, "idle")
  /\ UNCHANGED <<tableVars, clock, writer, writes, released, clientVars, silent, errors>>

(* Faulty variant: a select without the shutdown case.                     *)
EndReleasedMissing(p) ==
  /\ At(p, "parked") /\ released /\ ~poll[p].open
  /\ Move(p, "idle")
  /\ UNCHANGED <<tableVars, clock, writer, writes, released, clientVars, silent, errors>>

EndReleased(p) ==
  /\ At(p, "parked") /\ released
  /\ Move(p, "idle")
  /\ UNCHANGED <<tableVars, clock, writer, writes, released, clientVars, silent, errors>>

(* main releases the polls before it shuts the HTTP server down.           *)
Release ==
  /\ ~released
  /\ released' = TRUE
  /\ UNCHANGED <<tableVars, clock, writer, writes, poll, clientVars, silent, errors>>

-----------------------------------------------------------------------------
(* GET /{channel}/admin/poll and the page (admin_ui.html): an answer makes *)
(* it read /admin/info, the queue first.                                   *)

CheckPage(ch) ==
  /\ At(ch, "check")
  /\ poll' = [poll EXCEPT ![ch].since = counter[ch],
                          ![ch].at = IF counter[ch] # poll[ch].since THEN "ready" ELSE "parked",
                          ![ch].open = @ /\ counter[ch] = poll[ch].since]
  /\ UNCHANGED <<tableVars, clock, writer, writes, released, clientVars, silent, errors>>

InfoQueue(ch) ==
  /\ At(ch, "ready")
  /\ info' = [info EXCEPT ![ch].urls = Queued(ch)]
  /\ Move(ch, "half")
  /\ UNCHANGED <<tableVars, clock, writer, writes, released, resp, silent, errors>>

InfoRestart(ch) ==
  /\ At(ch, "half")
  /\ info' = [info EXCEPT ![ch].restart = restart[ch], ![ch].ok = TRUE]
  /\ Move(ch, "idle")
  /\ UNCHANGED <<tableVars, clock, writer, writes, released, resp, silent, errors>>

(* A 500 from /admin/info: the page keeps the counter it was told.         *)
InfoFails(ch) ==
  /\ At(ch, "ready") \/ At(ch, "half")
  /\ errors < MaxErrors
  /\ info' = [info EXCEPT ![ch].ok = FALSE]
  /\ errors' = errors + 1
  /\ Move(ch, "idle")
  /\ UNCHANGED <<tableVars, clock, writer, writes, released, resp, silent>>

-----------------------------------------------------------------------------
(* GET /events: collectWorkerEvents reads channel by channel.              *)

(* GetLatestIncomingTime: the newest received_at, 0 for an empty queue.    *)
IsLatest(ch, t) ==
  /\ t \in {queue[ch][u] : u \in Urls} \cup {0}
  /\ \A u \in Urls : queue[ch][u] <= t

CollectIncoming(ch) ==
  /\ At("worker", "check") /\ resp.half = None /\ ch \in resp.todo
  /\ \E latest \in 0 .. MaxClock :
       /\ IsLatest(ch, latest)
       /\ resp' = [resp EXCEPT
            !.todo = @ \ {ch}, !.half = ch,
            !.incoming = IF latest > poll["worker"].since THEN @ \cup {ch} ELSE @,
            !.cursor = IF latest > @ THEN latest ELSE @]
  /\ UNCHANGED <<tableVars, clock, writer, writes, released, poll, info, silent, errors>>

CollectRestart(ch) ==
  /\ At("worker", "check") /\ resp.half = ch
  /\ resp' = [resp EXCEPT
       !.half = None,
       !.restart = IF restart[ch] > 0 THEN @ \cup {ch} ELSE @]
  /\ UNCHANGED <<tableVars, clock, writer, writes, released, poll, info, silent, errors>>

(* A database error ends the poll with a 500.                              *)
CollectFails ==
  /\ At("worker", "check") /\ resp.todo \cup {resp.half} # {None} /\ errors < MaxErrors
  /\ Move("worker", "idle")
  /\ resp' = NoResp
  /\ errors' = errors + 1
  /\ UNCHANGED <<tableVars, clock, writer, writes, released, info, silent>>

Collected == At("worker", "check") /\ resp.todo = {} /\ resp.half = None

(* Faulty variant: subscribing after the check.                            *)
NothingPendingLate ==
  /\ Collected /\ resp.incoming = {} /\ resp.restart = {}
  /\ poll' = [poll EXCEPT !["worker"].at = "parked", !["worker"].open = TRUE]
  /\ resp' = NoResp
  /\ UNCHANGED <<tableVars, clock, writer, writes, released, info,
                 silent, errors>>

NothingPending ==
  /\ Collected /\ resp.incoming = {} /\ resp.restart = {}
  /\ Move("worker", "parked")
  /\ resp' = NoResp
  /\ UNCHANGED <<tableVars, clock, writer, writes, released, info,
                 silent, errors>>

Answered ==
  /\ Collected /\ resp.incoming \cup resp.restart # {}
  /\ poll' = [poll EXCEPT !["worker"].at = "ready", !["worker"].since = resp.cursor,
                          !["worker"].open = FALSE]
  /\ UNCHANGED <<tableVars, clock, writer, writes, released, clientVars, silent, errors>>

(* External: told of a restart, the worker acts on it and acknowledges it  *)
(* with DELETE /{channel}/restart.                                         *)
WorkerRestarts(ch, w) ==
  /\ At("worker", "ready") /\ ch \in resp.restart /\ writer[w].at = "idle"
  /\ Start(w, "clear", ch, None)
  /\ resp' = [resp EXCEPT !.restart = @ \ {ch}]
  /\ UNCHANGED <<tableVars, clock, writes, released, poll, info, silent, errors>>

WorkerDone ==
  /\ At("worker", "ready") /\ resp.restart = {}
  /\ Move("worker", "idle")
  /\ resp' = NoResp
  /\ UNCHANGED <<tableVars, clock, writer, writes, released, info,
                 silent, errors>>

Write(w) == StopClears(w) \/ Commit(w) \/ AddCounter(w) \/ Notify(w)
Page(ch) == CheckPage(ch) \/ InfoQueue(ch) \/ InfoRestart(ch)
Collect == \/ \E ch \in Channels : CollectIncoming(ch) \/ CollectRestart(ch)
           \/ NothingPending \/ Answered
WorkerActs == (\E ch \in Channels, w \in Writers : WorkerRestarts(ch, w)) \/ WorkerDone
Wait(p) == PollStarts(p) \/ Subscribe(p) \/ Wake(p)

Next ==
  \/ \E w \in Writers :
       \/ \E op \in Ops, ch \in Channels, u \in Urls : Begin(w, op, ch, u)
       \/ Write(w) \/ CallFails(w)
  \/ CleanupExpired \/ Tick \/ Release
  \/ \E p \in Pollers : Wait(p) \/ PollEnds(p) \/ EndReleased(p)
  \/ \E ch \in Pages : Page(ch) \/ InfoFails(ch)
  \/ Collect \/ CollectFails \/ WorkerActs

Spec == Init /\ [][Next]_vars

(* Handlers run to their end and the clients poll on.  No fairness on      *)
(* timeouts, on the clock or on new writes: a poll must be woken, not time *)
(* out.                                                                    *)
FairSpec ==
  /\ Spec
  /\ \A w \in Writers : WF_vars(Write(w))
  /\ \A p \in Pollers : WF_vars(Wait(p)) /\ WF_vars(EndReleased(p))
  /\ \A ch \in Pages : WF_vars(Page(ch))
  /\ WF_vars(Collect) /\ WF_vars(WorkerActs)

-----------------------------------------------------------------------------
(* Properties                                                              *)

(* Type invariant.                                                         *)
TypeOK ==
  /\ queue \in [Channels -> [Urls -> 0 .. clock]]
  /\ restart \in [Channels -> 0 .. clock] /\ counter \in [Channels -> Nat]
  /\ clock \in 1 .. MaxClock /\ writes \in 0 .. MaxWrites
  /\ writer \in [Writers -> [at : {"idle", "empty", "commit", "add", "notify"}, op : Ops,
                             ch : Channels \cup {None}, url : Urls \cup {None},
                             t : 0 .. clock]]
  /\ released \in BOOLEAN
  /\ poll \in [Pollers -> [at : {"idle", "subscribe", "check", "parked", "ready", "half"},
                           open : BOOLEAN, since : Nat \cup {-1}]]
  /\ resp \in [todo : SUBSET Channels, half : Channels \cup {None}, cursor : 0 .. clock,
               incoming : SUBSET Channels, restart : SUBSET Channels]
  /\ silent \in [Channels -> SUBSET Urls]
  /\ info \in [Pages -> [urls : SUBSET Urls, restart : 0 .. clock, ok : BOOLEAN]]
  /\ errors \in 0 .. MaxErrors

(* A handler has committed a change of ch and has not notified yet.        *)
Bumping(ch) == \E w \in Writers : writer[w].ch = ch /\ writer[w].at \in {"add", "notify"}

(* What the poll's check would find in channel ch.                         *)
Pending(p, ch) ==
  IF p = "worker" THEN restart[ch] # 0 \/ \E u \in Urls : queue[ch][u] > poll[p].since
                  ELSE ch = p /\ counter[ch] # poll[p].since

(* "re-subscribes before every state check so no wakeup can be lost": a    *)
(* poll parked on the open signal while its check would succeed is about   *)
(* to be notified by the very handler that made the change.                *)
NoLostWakeup ==
  \A p \in Pollers, ch \in Channels :
    At(p, "parked") /\ poll[p].open /\ Pending(p, ch) => Bumping(ch)

(* What the poll made an admin page fetch is current: while the poll is    *)
(* parked with the current counter, and no handler is still under way, the *)
(* page has the queue and the restart flag as they are, unless its fetch   *)
(* failed; only URLs removed without a bump may linger.  It takes the      *)
(* commit before the counter, and the counter's answer before /admin/info. *)
PageFresh ==
  \A ch \in Pages :
    /\ At(ch, "parked") /\ poll[ch].since = counter[ch] /\ info[ch].ok
    /\ \A w \in Writers : writer[w].ch = ch => writer[w].at \in {"idle", "notify"}
    => /\ info[ch].restart = restart[ch]
       /\ Queued(ch) \subseteq info[ch].urls
       /\ info[ch].urls \ Queued(ch) \subseteq silent[ch]

(* A signal reaches the worker by a wakeup, never only because a timeout   *)
(* ended its poll: a restart request, or a URL newer than its cursor, is   *)
(* reported unless it is taken back or the server shuts down.  (A cursor   *)
(* that another channel's newer URL moves past it takes it back too.)      *)
SignalReported ==
  \A ch \in Channels :
    Pending("worker", ch) ~> \/ At("worker", "ready") /\ ch \in resp.incoming \cup resp.restart
                             \/ ~Pending("worker", ch) \/ released

(* Release "unblocks every parked and future Wait": no poll outlives it.   *)
ReleasedPollsEnd == released ~> \A p \in Pollers : At(p, "idle")

-----------------------------------------------------------------------------
(* The inductive invariant                                                 *)

(* A handler under way works on a channel, and on a URL if its write is    *)
(* about one; only a stop empties the queue first.                         *)
WriterOK(w) ==
  /\ writer[w].at # "idle" => writer[w].ch \in Channels
  /\ writer[w].at = "empty" => writer[w].op = "stop"
  /\ writer[w].at = "commit" /\ writer[w].op \in {"queue", "unqueue"} => writer[w].url \in Urls

(* What the check has read of a channel it has reported, or a handler that *)
(* committed after the read has yet to notify.  The two halves of a        *)
(* channel are read one after the other.                                   *)
NewUrl(ch) == \E u \in Urls : queue[ch][u] > poll["worker"].since

WorkerInformed ==
  At("worker", "check") /\ poll["worker"].open =>
    \A ch \in Channels \ resp.todo :
      /\ NewUrl(ch) => ch \in resp.incoming \/ Bumping(ch)
      /\ restart[ch] # 0 => ch \in resp.restart \cup {resp.half} \/ Bumping(ch)

(* A handler has committed a change of ch the counter does not show yet.   *)
Unseen(ch) == \E w \in Writers : writer[w].ch = ch /\ writer[w].at = "add"

(* A stop has emptied the queue of ch and has not committed its restart.   *)
Stopping(ch) ==
  \E w \in Writers : writer[w].ch = ch /\ writer[w].at = "commit" /\ writer[w].op = "stop"

UrlsFresh(ch) ==
  /\ Queued(ch) \subseteq info[ch].urls
  /\ info[ch].urls \ Queued(ch) \subseteq silent[ch] \/ Stopping(ch)

(* What a page has read since it was told the counter is current as long   *)
(* as the counter is and no change is missing from it.                     *)
Fetched(ch) == info[ch].ok /\ poll[ch].at \in {"idle", "subscribe", "check", "parked"}

PageInformed(ch) ==
  /\ poll[ch].since <= counter[ch]
  /\ poll[ch].since = counter[ch] /\ ~Unseen(ch) =>
       /\ At(ch, "half") \/ Fetched(ch) => UrlsFresh(ch)
       /\ Fetched(ch) => info[ch].restart = restart[ch]

IndInv ==
  /\ TypeOK
  /\ \A w \in Writers : WriterOK(w)
  /\ poll["worker"].since \in 0 .. clock
  /\ WorkerInformed
  /\ NoLostWakeup
  /\ \A ch \in Pages : PageInformed(ch)
=============================================================================
