--------------------------- MODULE LongPollProofs ---------------------------
(***************************************************************************)
(* Proofs about LongPoll, for every set of channels, pages, URLs and       *)
(* handlers and for every bound: the types, that no wakeup is lost, and    *)
(* that what an admin page fetched is current.                             *)
(***************************************************************************)
EXTENDS LongPoll, TLAPS

Stages == {"idle", "subscribe", "check", "parked", "ready", "half"}
PollType == [at : Stages, open : BOOLEAN, since : Nat \cup {-1}]
WriterType(now) == [at : {"idle", "empty", "commit", "add", "notify"}, op : Ops,
                    ch : Channels \cup {None}, url : Urls \cup {None}, t : 0 .. now]
RespType(now) == [todo : SUBSET Channels, half : Channels \cup {None}, cursor : 0 .. now,
                  incoming : SUBSET Channels, restart : SUBSET Channels]
InfoType(now) == [urls : SUBSET Urls, restart : 0 .. now, ok : BOOLEAN]

-----------------------------------------------------------------------------
(* What the invariant says, one fact at a time                             *)

(* The types of the parts, for a reader of one record.                     *)
LEMMA Types ==
  ASSUME TypeOK
  PROVE  /\ clock \in Nat /\ clock >= 1 /\ clock <= MaxClock
         /\ queue \in [Channels -> [Urls -> 0 .. clock]]
         /\ restart \in [Channels -> 0 .. clock]
         /\ counter \in [Channels -> Nat]
         /\ writer \in [Writers -> WriterType(clock)]
         /\ poll \in [Pollers -> PollType]
         /\ resp \in RespType(clock)
         /\ info \in [Pages -> InfoType(clock)]
         /\ silent \in [Channels -> SUBSET Urls]
         /\ writes \in 0 .. MaxWrites /\ errors \in 0 .. MaxErrors
         /\ released \in BOOLEAN
BY LongPollAssumption DEF TypeOK, WriterType, PollType, Stages, RespType, InfoType

(* The same in the next state, in the other direction.                     *)
LEMMA TypesNext ==
  ASSUME clock' \in 1 .. MaxClock,
         queue' \in [Channels -> [Urls -> 0 .. clock']],
         restart' \in [Channels -> 0 .. clock'],
         counter' \in [Channels -> Nat],
         writer' \in [Writers -> WriterType(clock')],
         poll' \in [Pollers -> PollType],
         resp' \in RespType(clock'),
         info' \in [Pages -> InfoType(clock')],
         silent' \in [Channels -> SUBSET Urls],
         writes' \in 0 .. MaxWrites, errors' \in 0 .. MaxErrors,
         released' \in BOOLEAN
  PROVE  TypeOK'
BY DEF TypeOK, WriterType, PollType, Stages, RespType, InfoType

(* The pollers are the pages, which are channels, and the worker.          *)
LEMMA Who ==
  /\ "worker" \in Pollers /\ "worker" \notin Pages /\ "worker" \notin Channels
  /\ None \notin Channels
  /\ \A ch \in Pages : ch \in Pollers /\ ch \in Channels /\ ch # "worker"
BY LongPollAssumption DEF Pollers, None

-----------------------------------------------------------------------------
(* What leaves each part of the invariant alone                            *)

(* No handler lets go of a change it has to announce: what was being       *)
(* announced still is.                                                     *)
StillBumping == \A ch \in Channels : Bumping(ch) => Bumping(ch)'

(* A step outside the worker's poll keeps the worker informed, if what it  *)
(* adds to the tables is about to be announced.                            *)
LEMMA WorkerFrame ==
  ASSUME WorkerInformed, StillBumping, resp' = resp,
         poll'["worker"] = poll["worker"],
         \A ch \in Channels : NewUrl(ch)' => NewUrl(ch) \/ Bumping(ch)',
         \A ch \in Channels : restart'[ch] # 0 => restart[ch] # 0 \/ Bumping(ch)'
  PROVE  WorkerInformed'
<1> SUFFICES ASSUME At("worker", "check")', poll'["worker"].open,
                    NEW ch \in Channels \ resp'.todo
             PROVE  /\ NewUrl(ch)' => ch \in resp'.incoming \/ Bumping(ch)'
                    /\ restart'[ch] # 0 => ch \in resp'.restart \cup {resp'.half} \/ Bumping(ch)'
  BY DEF WorkerInformed
<1>1. At("worker", "check") /\ poll["worker"].open
  BY DEF At
<1>2. ch \in Channels \ resp.todo
  OBVIOUS
<1>3. /\ NewUrl(ch) => ch \in resp.incoming \/ Bumping(ch)
      /\ restart[ch] # 0 => ch \in resp.restart \cup {resp.half} \/ Bumping(ch)
  BY <1>1, <1>2 DEF WorkerInformed
<1> QED
  BY <1>3 DEF StillBumping

(* A step that parks no poll loses no wakeup, if what it makes pending is  *)
(* about to be announced.                                                  *)
LEMMA WakeupFrame ==
  ASSUME NoLostWakeup, StillBumping,
         \A p \in Pollers : At(p, "parked")' /\ poll'[p].open => At(p, "parked") /\ poll[p].open,
         \A p \in Pollers, ch \in Channels :
           At(p, "parked") /\ Pending(p, ch)' => Pending(p, ch) \/ Bumping(ch)'
  PROVE  NoLostWakeup'
BY DEF NoLostWakeup, StillBumping

(* A page stays informed through a step that neither tells it anything nor *)
(* changes what it has fetched, if a change of the tables is not yet in    *)
(* the counter.                                                            *)
LEMMA PageFrame ==
  ASSUME NEW ch \in Pages, PageInformed(ch),
         poll'[ch].since = poll[ch].since, counter'[ch] = counter[ch],
         At(ch, "half")' => At(ch, "half"), Fetched(ch)' => Fetched(ch),
         Unseen(ch) => Unseen(ch)',
         UrlsFresh(ch) => UrlsFresh(ch)' \/ Unseen(ch)',
         info'[ch].restart = info[ch].restart,
         restart'[ch] = restart[ch] \/ Unseen(ch)'
  PROVE  PageInformed(ch)'
BY DEF PageInformed

(* The poll of a page, its fetch and the tables untouched.                 *)
LEMMA PageUntouched ==
  ASSUME NEW ch \in Pages, PageInformed(ch),
         poll'[ch] = poll[ch], info'[ch] = info[ch],
         UNCHANGED <<queue, restart, counter, writer, silent>>
  PROVE  PageInformed(ch)'
<1>1. (At(ch, "half")' => At(ch, "half")) /\ (Fetched(ch)' => Fetched(ch))
  BY DEF At, Fetched
<1>2. Unseen(ch) => Unseen(ch)'
  BY DEF Unseen
<1>3. UrlsFresh(ch) => UrlsFresh(ch)'
  BY DEF UrlsFresh, Queued, Stopping
<1> QED
  BY <1>1, <1>2, <1>3, PageFrame

(* With the handlers untouched, what was being announced still is.         *)
LEMMA BumpingKept ==
  ASSUME writer' = writer
  PROVE  /\ StillBumping
         /\ (\A w \in Writers : WriterOK(w)) => \A w \in Writers : WriterOK(w)'
BY DEF StillBumping, Bumping, WriterOK

-----------------------------------------------------------------------------
(* Moves of a poll                                                         *)

(* A move changes one poll's place and may only let go of its signal.      *)
LEMMA MoveFacts ==
  ASSUME poll \in [Pollers -> PollType],
         NEW p \in Pollers, NEW where \in Stages, Move(p, where)
  PROVE  /\ poll' \in [Pollers -> PollType]
         /\ \A q \in Pollers : q # p => poll'[q] = poll[q]
         /\ poll'[p].at = where
         /\ poll'[p].since = poll[p].since
         /\ poll'[p].open => poll[p].open /\ where = "parked"
<1> DEFINE o == poll[p].open /\ where = "parked"
           r == [poll[p] EXCEPT !.at = where, !.open = o]
<1>1. poll' = [poll EXCEPT ![p] = r]
  BY DEF Move, PollType
<1>2. o \in BOOLEAN
  OBVIOUS
<1>3. o => poll[p].open /\ where = "parked"
  OBVIOUS
<1> HIDE DEF o
<1>4. r \in PollType /\ r.at = where /\ r.since = poll[p].since /\ r.open = o
  BY <1>2 DEF PollType
<1> HIDE DEF r
<1> QED
  BY <1>1, <1>3, <1>4

(* A poll that starts, wakes up or ends between two checks: nothing it was *)
(* told or has fetched changes.                                            *)
LEMMA BetweenChecks ==
  ASSUME IndInv, NEW p \in Pollers, NEW where \in {"idle", "subscribe"},
         poll[p].at \in {"idle", "parked"}, Move(p, where),
         UNCHANGED <<tableVars, clock, writer, writes, released, clientVars, silent, errors>>
  PROVE  IndInv'
<1> USE DEF tableVars, clientVars
<1>1. TypeOK
  BY DEF IndInv
<1>2. /\ poll' \in [Pollers -> PollType]
      /\ \A q \in Pollers : q # p => poll'[q] = poll[q]
      /\ poll'[p].at = where
      /\ poll'[p].since = poll[p].since
  BY <1>1, Types, MoveFacts DEF Stages
<1>3. TypeOK'
  BY <1>1, <1>2, Types, TypesNext
<1>4. StillBumping /\ \A w \in Writers : WriterOK(w)'
  BY BumpingKept DEF IndInv
<1>5. poll'["worker"].since \in 0 .. clock'
  BY <1>2, Who DEF IndInv
<1>6. WorkerInformed'
  <2>1. CASE p = "worker"
    BY <1>2, <2>1 DEF WorkerInformed, At
  <2>2. CASE p # "worker"
    <3>1. poll'["worker"] = poll["worker"]
      BY <1>2, <2>2, Who
    <3> QED
      BY <1>4, <3>1, WorkerFrame DEF IndInv, NewUrl
  <2> QED
    BY <2>1, <2>2
<1>7. NoLostWakeup'
  BY <1>2, <1>4, WakeupFrame DEF IndInv, At, Pending
<1>8. \A ch \in Pages : PageInformed(ch)'
  <2> SUFFICES ASSUME NEW ch \in Pages PROVE PageInformed(ch)'
    OBVIOUS
  <2>1. poll'[ch].since = poll[ch].since
    BY <1>2, Who
  <2>2. (At(ch, "half")' => At(ch, "half")) /\ (Fetched(ch)' => Fetched(ch))
    BY <1>2, Who DEF At, Fetched
  <2>3. Unseen(ch) => Unseen(ch)'
    BY DEF Unseen
  <2>4. UrlsFresh(ch) => UrlsFresh(ch)'
    BY DEF UrlsFresh, Queued, Stopping
  <2> QED
    BY <2>1, <2>2, <2>3, <2>4, PageFrame DEF IndInv
<1> QED
  BY <1>3, <1>4, <1>5, <1>6, <1>7, <1>8 DEF IndInv

(* Subscribing: the worker's check starts from nothing read.               *)
LEMMA SubscribeKeeps ==
  ASSUME IndInv, NEW p \in Pollers, Subscribe(p)
  PROVE  IndInv'
<1> USE DEF Subscribe, tableVars
<1>1. TypeOK
  BY DEF IndInv
<1>2. /\ poll' \in [Pollers -> PollType]
      /\ \A q \in Pollers : q # p => poll'[q] = poll[q]
      /\ poll'[p].at = "check"
      /\ poll'[p].since = poll[p].since
  BY <1>1, Types DEF PollType, Stages
<1>3. resp' \in RespType(clock) /\ (p = "worker" => resp'.todo = Channels) /\ (p # "worker" => resp' = resp)
  <2>1. CASE p = "worker"
    BY <1>1, <2>1, Types DEF IndInv, NoResp, RespType, None
  <2>2. CASE p # "worker"
    BY <1>1, <2>2, Types
  <2> QED
    BY <2>1, <2>2
<1>4. TypeOK'
  BY <1>1, <1>2, <1>3, Types, TypesNext
<1>5. StillBumping /\ \A w \in Writers : WriterOK(w)'
  BY BumpingKept DEF IndInv
<1>6. poll'["worker"].since \in 0 .. clock'
  BY <1>2, Who DEF IndInv
<1>7. WorkerInformed'
  <2>1. CASE p = "worker"
    BY <1>3, <2>1 DEF WorkerInformed
  <2>2. CASE p # "worker"
    <3>1. poll'["worker"] = poll["worker"] /\ resp' = resp
      BY <1>2, <1>3, <2>2, Who
    <3> QED
      BY <1>5, <3>1, WorkerFrame DEF IndInv, NewUrl
  <2> QED
    BY <2>1, <2>2
<1>8. NoLostWakeup'
  BY <1>2, <1>5, WakeupFrame DEF IndInv, At, Pending
<1>9. \A ch \in Pages : PageInformed(ch)'
  <2> SUFFICES ASSUME NEW ch \in Pages PROVE PageInformed(ch)'
    OBVIOUS
  <2>1. poll'[ch].since = poll[ch].since
    BY <1>2, Who
  <2>2. (At(ch, "half")' => At(ch, "half")) /\ (Fetched(ch)' => Fetched(ch))
    BY <1>2, Who DEF At, Fetched
  <2>3. Unseen(ch) => Unseen(ch)'
    BY DEF Unseen
  <2>4. UrlsFresh(ch) => UrlsFresh(ch)'
    BY DEF UrlsFresh, Queued, Stopping
  <2> QED
    BY <2>1, <2>2, <2>3, <2>4, PageFrame DEF IndInv
<1> QED
  BY <1>4, <1>5, <1>6, <1>7, <1>8, <1>9 DEF IndInv

-----------------------------------------------------------------------------
(* The admin page                                                          *)

(* A step of one page's poll and fetch alone: the worker and the other     *)
(* pages see nothing of it.                                                *)
LEMMA OnePage ==
  ASSUME IndInv, NEW ch \in Pages,
         poll' \in [Pollers -> PollType], info' \in [Pages -> InfoType(clock)],
         \A q \in Pollers : q # ch => poll'[q] = poll[q],
         \A c \in Pages : c # ch => info'[c] = info[c],
         UNCHANGED <<queue, restart, counter, clock, writer, writes, released, resp, silent>>,
         errors' \in 0 .. MaxErrors,
         At(ch, "parked")' /\ poll'[ch].open => ~Pending(ch, ch)',
         PageInformed(ch)'
  PROVE  IndInv'
<1>1. TypeOK /\ TypeOK'
  BY Types, TypesNext DEF IndInv
<1>2. StillBumping /\ \A w \in Writers : WriterOK(w)'
  BY BumpingKept DEF IndInv
<1>3. poll'["worker"] = poll["worker"]
  BY Who
<1>4. WorkerInformed'
  BY <1>2, <1>3, WorkerFrame DEF IndInv, NewUrl
<1>5. NoLostWakeup'
  <2> SUFFICES ASSUME NEW q \in Pollers, NEW c \in Channels,
                      At(q, "parked")', poll'[q].open, Pending(q, c)'
               PROVE  Bumping(c)'
    BY DEF NoLostWakeup
  <2>1. q # ch
    BY Who DEF Pending
  <2>2. At(q, "parked") /\ poll[q].open /\ Pending(q, c)
    BY <2>1 DEF At, Pending
  <2> QED
    BY <1>2, <2>2 DEF IndInv, NoLostWakeup, StillBumping
<1>6. \A c \in Pages : PageInformed(c)'
  <2> SUFFICES ASSUME NEW c \in Pages, c # ch PROVE PageInformed(c)'
    OBVIOUS
  <2> QED
    BY Who, PageUntouched DEF IndInv
<1> QED
  BY <1>1, <1>2, <1>3, <1>4, <1>5, <1>6 DEF IndInv

(* The check of a page parks it only on the counter it read.               *)
LEMMA CheckPageKeeps ==
  ASSUME IndInv, NEW ch \in Pages, CheckPage(ch)
  PROVE  IndInv'
<1> USE DEF CheckPage, tableVars, clientVars
<1>1. TypeOK
  BY DEF IndInv
<1>2. ch \in Pollers /\ ch \in Channels /\ ch # "worker" /\ counter[ch] \in Nat
  BY <1>1, Who, Types
<1> DEFINE o == poll[ch].open /\ counter[ch] = poll[ch].since
           a == IF counter[ch] # poll[ch].since THEN "ready" ELSE "parked"
           r == [poll[ch] EXCEPT !.since = counter[ch], !.at = a, !.open = o]
<1>3. poll[ch] \in PollType
  BY <1>1, <1>2, Types
<1>4. poll' = [poll EXCEPT ![ch] = r]
  BY <1>2, <1>3 DEF PollType
<1>5. o \in BOOLEAN /\ a \in Stages
  BY DEF Stages
<1>6. (a = "ready" /\ counter[ch] # poll[ch].since) \/ (a = "parked" /\ counter[ch] = poll[ch].since)
  OBVIOUS
<1> HIDE DEF o, a
<1>7. r \in PollType /\ r.since = counter[ch] /\ r.at = a
  BY <1>2, <1>3, <1>5 DEF PollType
<1> HIDE DEF r
<1>8. /\ poll' \in [Pollers -> PollType]
      /\ \A q \in Pollers : q # ch => poll'[q] = poll[q]
      /\ poll'[ch].since = counter'[ch]
      /\ poll'[ch].at = a
  <2>1. poll \in [Pollers -> PollType] /\ counter' = counter
    BY <1>1, Types
  <2> HIDE DEF CheckPage, tableVars, clientVars
  <2>2. poll' \in [Pollers -> PollType] /\ poll'[ch] = r
    BY <1>2, <1>4, <1>7, <2>1
  <2>3. \A q \in Pollers : q # ch => poll'[q] = poll[q]
    BY <1>2, <1>4, <2>1
  <2> QED BY <1>7, <2>1, <2>2, <2>3
<1>9. ~Pending(ch, ch)'
  BY <1>2, <1>8 DEF Pending
<1>10. PageInformed(ch)'
  <2>1. CASE a = "ready"
    BY <1>2, <1>8, <2>1 DEF PageInformed, At, Fetched
  <2>2. CASE a = "parked" /\ counter[ch] = poll[ch].since
    <3>1. Unseen(ch) => Unseen(ch)'
      BY DEF Unseen
    <3>2. UrlsFresh(ch) => UrlsFresh(ch)'
      BY DEF UrlsFresh, Queued, Stopping
    <3>3. ~At(ch, "half")' /\ (Fetched(ch)' => Fetched(ch))
      BY <1>8, <2>2 DEF At, Fetched
    <3> QED
      BY <1>8, <2>2, <3>1, <3>2, <3>3, PageFrame DEF IndInv
  <2> QED
    BY <1>6, <2>1, <2>2
<1> QED
  BY <1>1, <1>8, <1>9, <1>10, Types, OnePage

(* The page's read of the queue: what it gets is what there is.            *)
LEMMA InfoQueueKeeps ==
  ASSUME IndInv, NEW ch \in Pages, InfoQueue(ch)
  PROVE  IndInv'
<1> USE DEF InfoQueue, tableVars
<1>1. TypeOK
  BY DEF IndInv
<1>2. ch \in Pollers /\ ch \in Channels
  BY Who
<1>3. /\ poll' \in [Pollers -> PollType]
      /\ \A q \in Pollers : q # ch => poll'[q] = poll[q]
      /\ poll'[ch].at = "half"
      /\ poll'[ch].since = poll[ch].since
  BY <1>1, <1>2, Types, MoveFacts DEF Stages
<1>4. /\ info' \in [Pages -> InfoType(clock)]
      /\ \A c \in Pages : c # ch => info'[c] = info[c]
      /\ info'[ch].urls = Queued(ch)
  BY <1>1, Types DEF InfoType, Queued
<1>5. Unseen(ch) => Unseen(ch)'
  BY DEF Unseen
<1>6. UrlsFresh(ch)'
  BY <1>4 DEF UrlsFresh, Queued
<1>7. PageInformed(ch)'
  BY <1>3, <1>5, <1>6 DEF IndInv, PageInformed, At, Fetched
<1> QED
  BY <1>1, <1>3, <1>4, <1>7, Types, OnePage DEF At

(* The read of the restart flag completes the fetch.                       *)
LEMMA InfoRestartKeeps ==
  ASSUME IndInv, NEW ch \in Pages, InfoRestart(ch)
  PROVE  IndInv'
<1> USE DEF InfoRestart, tableVars
<1>1. TypeOK
  BY DEF IndInv
<1>2. ch \in Pollers /\ ch \in Channels
  BY Who
<1>3. /\ poll' \in [Pollers -> PollType]
      /\ \A q \in Pollers : q # ch => poll'[q] = poll[q]
      /\ poll'[ch].at = "idle"
      /\ poll'[ch].since = poll[ch].since
  BY <1>1, <1>2, Types, MoveFacts DEF Stages
<1>4. /\ info' \in [Pages -> InfoType(clock)]
      /\ \A c \in Pages : c # ch => info'[c] = info[c]
      /\ info'[ch].urls = info[ch].urls /\ info'[ch].restart = restart[ch]
  BY <1>1, <1>2, Types DEF InfoType
<1>5. Unseen(ch) => Unseen(ch)'
  BY DEF Unseen
<1>6. UrlsFresh(ch) => UrlsFresh(ch)'
  BY <1>4 DEF UrlsFresh, Queued, Stopping
<1>7. PageInformed(ch)'
  BY <1>3, <1>4, <1>5, <1>6 DEF IndInv, PageInformed, At, Fetched
<1> QED
  BY <1>1, <1>3, <1>4, <1>7, Types, OnePage DEF At

(* A failed fetch claims nothing.                                          *)
LEMMA InfoFailsKeeps ==
  ASSUME IndInv, NEW ch \in Pages, InfoFails(ch)
  PROVE  IndInv'
<1> USE DEF InfoFails, tableVars
<1>1. TypeOK
  BY DEF IndInv
<1>2. ch \in Pollers /\ ch \in Channels
  BY Who
<1>3. /\ poll' \in [Pollers -> PollType]
      /\ \A q \in Pollers : q # ch => poll'[q] = poll[q]
      /\ poll'[ch].at = "idle"
      /\ poll'[ch].since = poll[ch].since
  BY <1>1, <1>2, Types, MoveFacts DEF Stages
<1>4. /\ info' \in [Pages -> InfoType(clock)]
      /\ \A c \in Pages : c # ch => info'[c] = info[c]
      /\ info'[ch].ok = FALSE
  BY <1>1, Types DEF InfoType
<1>5. PageInformed(ch)'
  BY <1>3, <1>4 DEF IndInv, PageInformed, At, Fetched
<1>6. errors' \in 0 .. MaxErrors
  BY <1>1, Types, LongPollAssumption
<1> QED
  BY <1>3, <1>4, <1>5, <1>6, OnePage DEF At

-----------------------------------------------------------------------------
(* The worker's poll                                                       *)

(* A step of the worker's poll alone: no page sees anything of it.         *)
LEMMA OnlyWorker ==
  ASSUME IndInv,
         poll' \in [Pollers -> PollType], resp' \in RespType(clock),
         \A q \in Pollers : q # "worker" => poll'[q] = poll[q],
         poll'["worker"].since \in 0 .. clock,
         UNCHANGED <<queue, restart, counter, clock, writer, writes, released, info, silent>>,
         errors' \in 0 .. MaxErrors,
         At("worker", "parked")' /\ poll'["worker"].open =>
           \A ch \in Channels : Pending("worker", ch)' => Bumping(ch),
         WorkerInformed'
  PROVE  IndInv'
<1>1. TypeOK /\ TypeOK'
  BY Types, TypesNext DEF IndInv
<1>2. StillBumping /\ \A w \in Writers : WriterOK(w)'
  BY BumpingKept DEF IndInv
<1>3. NoLostWakeup'
  <2> SUFFICES ASSUME NEW q \in Pollers, NEW c \in Channels,
                      At(q, "parked")', poll'[q].open, Pending(q, c)'
               PROVE  Bumping(c)'
    BY DEF NoLostWakeup
  <2>1. CASE q = "worker"
    BY <1>2, <2>1 DEF StillBumping
  <2>2. CASE q # "worker"
    <3>1. At(q, "parked") /\ poll[q].open /\ Pending(q, c)
      BY <2>2 DEF At, Pending
    <3> QED
      BY <1>2, <3>1 DEF IndInv, NoLostWakeup, StillBumping
  <2> QED
    BY <2>1, <2>2
<1>4. \A c \in Pages : PageInformed(c)'
  BY Who, PageUntouched DEF IndInv
<1> QED
  BY <1>1, <1>2, <1>3, <1>4 DEF IndInv

(* The read of a channel's queue: a URL newer than the cursor is reported. *)
LEMMA CollectIncomingKeeps ==
  ASSUME IndInv, NEW ch \in Channels, CollectIncoming(ch)
  PROVE  IndInv'
<1> USE DEF CollectIncoming, tableVars
<1>1. TypeOK
  BY DEF IndInv
<1>2. PICK latest \in 0 .. MaxClock :
        /\ IsLatest(ch, latest)
        /\ resp' = [resp EXCEPT
             !.todo = @ \ {ch}, !.half = ch,
             !.incoming = IF latest > poll["worker"].since THEN @ \cup {ch} ELSE @,
             !.cursor = IF latest > @ THEN latest ELSE @]
  OBVIOUS
<1>3. latest \in 0 .. clock
  BY <1>1, <1>2, Types DEF IsLatest
<1>4. resp \in RespType(clock)
  BY <1>1, Types
<1>5. /\ resp' \in RespType(clock)
      /\ resp'.todo = resp.todo \ {ch} /\ resp'.half = ch
      /\ resp.incoming \subseteq resp'.incoming
      /\ resp'.restart = resp.restart
      /\ latest > poll["worker"].since => ch \in resp'.incoming
  BY <1>1, <1>2, <1>3, <1>4 DEF RespType
<1>6. poll["worker"] \in PollType /\ poll["worker"].since \in 0 .. clock
  BY <1>1, Types, Who DEF IndInv
<1>7. NewUrl(ch) => ch \in resp'.incoming
  BY <1>1, <1>2, <1>5, <1>6, Types DEF NewUrl, IsLatest
<1>8. WorkerInformed'
  <2> SUFFICES ASSUME At("worker", "check")', poll'["worker"].open,
                      NEW c \in Channels \ resp'.todo
               PROVE  /\ NewUrl(c)' => c \in resp'.incoming \/ Bumping(c)'
                      /\ restart'[c] # 0 => c \in resp'.restart \cup {resp'.half} \/ Bumping(c)'
    BY DEF WorkerInformed
  <2>1. (NewUrl(c)' <=> NewUrl(c)) /\ (Bumping(c)' <=> Bumping(c))
    BY DEF NewUrl, Bumping
  <2>2. CASE c = ch
    BY <1>5, <1>7, <2>1, <2>2
  <2>3. CASE c # ch
    <3>1. c \in Channels \ resp.todo /\ At("worker", "check") /\ poll["worker"].open
      BY <1>5, <2>3 DEF At
    <3>2. /\ NewUrl(c) => c \in resp.incoming \/ Bumping(c)
          /\ restart[c] # 0 => c \in resp.restart \cup {resp.half} \/ Bumping(c)
      BY <3>1 DEF IndInv, WorkerInformed
    <3>3. resp.half # c
      BY Who
    <3> QED
      BY <1>5, <2>1, <3>2, <3>3
  <2> QED
    BY <2>2, <2>3
<1> QED
  BY <1>1, <1>5, <1>6, <1>8, Types, OnlyWorker DEF At

(* The read of a channel's restart flag.                                   *)
LEMMA CollectRestartKeeps ==
  ASSUME IndInv, NEW ch \in Channels, CollectRestart(ch)
  PROVE  IndInv'
<1> USE DEF CollectRestart, tableVars
<1>1. TypeOK
  BY DEF IndInv
<1>2. resp \in RespType(clock)
  BY <1>1, Types
<1>3. /\ resp' \in RespType(clock)
      /\ resp'.todo = resp.todo /\ resp'.incoming = resp.incoming
      /\ resp.restart \subseteq resp'.restart
      /\ restart[ch] > 0 => ch \in resp'.restart
  BY <1>2 DEF RespType
<1>4. poll["worker"] \in PollType /\ poll["worker"].since \in 0 .. clock
  BY <1>1, Types, Who DEF IndInv
<1>5. WorkerInformed'
  <2> SUFFICES ASSUME At("worker", "check")', poll'["worker"].open,
                      NEW c \in Channels \ resp'.todo
               PROVE  /\ NewUrl(c)' => c \in resp'.incoming \/ Bumping(c)'
                      /\ restart'[c] # 0 => c \in resp'.restart \/ Bumping(c)'
    BY DEF WorkerInformed
  <2>1. (NewUrl(c)' <=> NewUrl(c)) /\ (Bumping(c)' <=> Bumping(c))
    BY DEF NewUrl, Bumping
  <2>2. c \in Channels \ resp.todo /\ At("worker", "check") /\ poll["worker"].open
    BY <1>3 DEF At
  <2>3. /\ NewUrl(c) => c \in resp.incoming \/ Bumping(c)
        /\ restart[c] # 0 => c \in resp.restart \cup {ch} \/ Bumping(c)
    BY <2>2 DEF IndInv, WorkerInformed
  <2>4. restart[c] \in Nat
    BY <1>1, Types
  <2> QED
    BY <1>3, <2>1, <2>3, <2>4
<1> QED
  BY <1>1, <1>3, <1>4, <1>5, Types, OnlyWorker DEF At

(* A poll that answers, fails or has been served is not at its check and   *)
(* not parked.                                                             *)
LEMMA WorkerLeaves ==
  ASSUME IndInv,
         poll' \in [Pollers -> PollType], resp' \in RespType(clock),
         \A q \in Pollers : q # "worker" => poll'[q] = poll[q],
         poll'["worker"].at \in {"idle", "ready"},
         poll'["worker"].since \in 0 .. clock,
         UNCHANGED <<queue, restart, counter, clock, writer, writes, released, info, silent>>,
         errors' \in 0 .. MaxErrors
  PROVE  IndInv'
<1>1. ~At("worker", "check")' /\ ~At("worker", "parked")'
  BY DEF At
<1>2. WorkerInformed'
  BY <1>1 DEF WorkerInformed
<1> QED
  BY <1>1, <1>2, OnlyWorker

LEMMA NoRespTyped ==
  ASSUME TypeOK
  PROVE  NoResp \in RespType(clock)
BY Types DEF NoResp, RespType, None

LEMMA CollectFailsKeeps ==
  ASSUME IndInv, CollectFails
  PROVE  IndInv'
<1> USE DEF CollectFails, tableVars
<1>1. TypeOK
  BY DEF IndInv
<1>2. /\ poll' \in [Pollers -> PollType]
      /\ \A q \in Pollers : q # "worker" => poll'[q] = poll[q]
      /\ poll'["worker"].at = "idle"
      /\ poll'["worker"].since = poll["worker"].since
  BY <1>1, Who, Types, MoveFacts DEF Stages
<1>3. errors' \in 0 .. MaxErrors
  BY <1>1, Types, LongPollAssumption
<1> QED
  BY <1>1, <1>2, <1>3, NoRespTyped, WorkerLeaves DEF IndInv

LEMMA WorkerDoneKeeps ==
  ASSUME IndInv, WorkerDone
  PROVE  IndInv'
<1> USE DEF WorkerDone, tableVars
<1>1. TypeOK
  BY DEF IndInv
<1>2. /\ poll' \in [Pollers -> PollType]
      /\ \A q \in Pollers : q # "worker" => poll'[q] = poll[q]
      /\ poll'["worker"].at = "idle"
      /\ poll'["worker"].since = poll["worker"].since
  BY <1>1, Who, Types, MoveFacts DEF Stages
<1> QED
  BY <1>1, <1>2, Types, NoRespTyped, WorkerLeaves DEF IndInv

(* An answer moves the cursor to the newest URL the check has read.        *)
LEMMA AnsweredKeeps ==
  ASSUME IndInv, Answered
  PROVE  IndInv'
<1> USE DEF Answered, tableVars, clientVars
<1>1. TypeOK
  BY DEF IndInv
<1>2. resp.cursor \in 0 .. clock
  BY <1>1, Types DEF RespType
<1>3. /\ poll' \in [Pollers -> PollType]
      /\ \A q \in Pollers : q # "worker" => poll'[q] = poll[q]
      /\ poll'["worker"].at = "ready"
      /\ poll'["worker"].since = resp.cursor
  <2> DEFINE r == [poll["worker"] EXCEPT !.at = "ready", !.since = resp.cursor, !.open = FALSE]
  <2>1. poll["worker"] \in PollType /\ poll \in [Pollers -> PollType] /\ resp.cursor \in Nat
    BY <1>1, <1>2, Who, Types
  <2>2. poll' = [poll EXCEPT !["worker"] = r]
    BY <2>1 DEF PollType
  <2>3. r \in PollType /\ r.at = "ready" /\ r.since = resp.cursor
    BY <2>1 DEF PollType, Stages
  <2> HIDE DEF r, Answered, tableVars, clientVars
  <2>4. poll' \in [Pollers -> PollType] /\ poll'["worker"] = r
    BY <2>1, <2>2, <2>3, Who
  <2>5. \A q \in Pollers : q # "worker" => poll'[q] = poll[q]
    BY <2>1, <2>2
  <2> QED
    BY <2>3, <2>4, <2>5
<1> QED
  BY <1>1, <1>2, <1>3, Types, WorkerLeaves

(* The worker parks only when the check has found nothing in any channel:  *)
(* what is pending by now was committed after the check read it, and its   *)
(* handler has yet to notify.                                              *)
LEMMA NothingPendingKeeps ==
  ASSUME IndInv, NothingPending
  PROVE  IndInv'
<1> USE DEF NothingPending, tableVars
<1>1. TypeOK
  BY DEF IndInv
<1>2. /\ poll' \in [Pollers -> PollType]
      /\ \A q \in Pollers : q # "worker" => poll'[q] = poll[q]
      /\ poll'["worker"].at = "parked"
      /\ poll'["worker"].since = poll["worker"].since
      /\ poll'["worker"].open => poll["worker"].open
  BY <1>1, Who, Types, MoveFacts DEF Stages
<1>3. ASSUME poll'["worker"].open, NEW ch \in Channels, Pending("worker", ch)'
      PROVE  Bumping(ch)
  <2>1. At("worker", "check") /\ poll["worker"].open /\ ch \in Channels \ resp.todo
    BY <1>2, <1>3 DEF Collected
  <2>2. /\ NewUrl(ch) => ch \in resp.incoming \/ Bumping(ch)
        /\ restart[ch] # 0 => ch \in resp.restart \cup {resp.half} \/ Bumping(ch)
    BY <2>1 DEF IndInv, WorkerInformed
  <2>3. ch \notin resp.incoming /\ ch \notin resp.restart \cup {resp.half}
    BY Who DEF Collected
  <2>4. NewUrl(ch) \/ restart[ch] # 0
    BY <1>2, <1>3 DEF Pending, NewUrl
  <2> QED
    BY <2>2, <2>3, <2>4
<1>4. WorkerInformed'
  BY <1>2 DEF WorkerInformed, At
<1> QED
  BY <1>1, <1>2, <1>3, <1>4, Types, NoRespTyped, OnlyWorker DEF IndInv

-----------------------------------------------------------------------------
(* The handlers that write                                                 *)

(* A handler that has announced nothing yet takes a step: whatever was     *)
(* committed and unseen, or being announced, still is.                     *)
LEMMA HandlerSteps ==
  ASSUME writer \in [Writers -> WriterType(clock)],
         NEW w \in Writers, NEW r \in WriterType(clock),
         writer' = [writer EXCEPT ![w] = r],
         writer[w].at \in {"idle", "empty", "commit"}
  PROVE  /\ writer' \in [Writers -> WriterType(clock)]
         /\ writer'[w] = r
         /\ \A v \in Writers : v # w => writer'[v] = writer[v]
         /\ StillBumping
         /\ \A ch \in Channels : Unseen(ch) => Unseen(ch)'
<1>1. /\ writer' \in [Writers -> WriterType(clock)]
      /\ writer'[w] = r
      /\ \A v \in Writers : v # w => writer'[v] = writer[v]
  OBVIOUS
<1>2. \A ch \in Channels : Unseen(ch) => Unseen(ch)'
  BY <1>1 DEF Unseen
<1>3. StillBumping
  BY <1>1 DEF StillBumping, Bumping
<1> QED
  BY <1>1, <1>2, <1>3

(* A handler starts.                                                       *)
LEMMA StartFacts ==
  ASSUME TypeOK, \A v \in Writers : WriterOK(v),
         NEW w \in Writers, NEW op \in Ops, NEW ch \in Channels, NEW u \in Urls \cup {None},
         op \in {"queue", "unqueue"} => u \in Urls,
         writer[w].at = "idle", Start(w, op, ch, u)
  PROVE  /\ writer' \in [Writers -> WriterType(clock)]
         /\ \A v \in Writers : WriterOK(v)'
         /\ StillBumping
         /\ \A c \in Channels : Unseen(c) => Unseen(c)'
         /\ \A c \in Channels : Stopping(c) => Stopping(c)'
<1> DEFINE at == IF op = "stop" THEN "empty" ELSE "commit"
           t == IF op \in {"queue", "restart"} THEN clock ELSE 0
           r == [at |-> at, op |-> op, ch |-> ch, url |-> u, t |-> t]
<1>1. writer' = [writer EXCEPT ![w] = r]
  BY DEF Start
<1>2. t \in 0 .. clock /\ at \in {"empty", "commit"} /\ (at = "empty" => op = "stop")
  BY Types
<1> HIDE DEF at, t
<1>3. r \in WriterType(clock)
  BY <1>2 DEF WriterType
<1>4. r.at = at /\ r.op = op /\ r.ch = ch /\ r.url = u
  OBVIOUS
<1> HIDE DEF r
<1>5. writer \in [Writers -> WriterType(clock)]
  BY Types
<1>6. /\ writer' \in [Writers -> WriterType(clock)]
      /\ writer'[w] = r
      /\ \A v \in Writers : v # w => writer'[v] = writer[v]
      /\ StillBumping
      /\ \A c \in Channels : Unseen(c) => Unseen(c)'
  BY <1>1, <1>3, <1>5, HandlerSteps
<1>7. \A v \in Writers : WriterOK(v)'
  BY <1>2, <1>4, <1>6 DEF WriterOK
<1>8. \A c \in Channels : Stopping(c) => Stopping(c)'
  BY <1>6 DEF Stopping
<1> QED
  BY <1>6, <1>7, <1>8

(* The tables, the polls and the pages untouched, the handlers moved on:   *)
(* no page notices.                                                        *)
LEMMA PagesUnchanged ==
  ASSUME IndInv, UNCHANGED <<queue, restart, counter, silent, poll, info>>,
         \A c \in Channels : Unseen(c) => Unseen(c)',
         \A c \in Channels : Stopping(c) => Stopping(c)'
  PROVE  \A ch \in Pages : PageInformed(ch)'
<1> SUFFICES ASSUME NEW ch \in Pages PROVE PageInformed(ch)'
  OBVIOUS
<1>1. (At(ch, "half")' => At(ch, "half")) /\ (Fetched(ch)' => Fetched(ch))
  BY DEF At, Fetched
<1>2. UrlsFresh(ch) => UrlsFresh(ch)'
  BY Who DEF UrlsFresh, Queued
<1> QED
  BY <1>1, <1>2, Who, PageFrame DEF IndInv

LEMMA BeginKeeps ==
  ASSUME IndInv, NEW w \in Writers, NEW op \in Ops, NEW ch \in Channels, NEW u \in Urls,
         Begin(w, op, ch, u)
  PROVE  IndInv'
<1> USE DEF Begin, tableVars, clientVars
<1>1. TypeOK /\ \A v \in Writers : WriterOK(v)
  BY DEF IndInv
<1>2. /\ writer' \in [Writers -> WriterType(clock)]
      /\ \A v \in Writers : WriterOK(v)'
      /\ StillBumping
      /\ \A c \in Channels : Unseen(c) => Unseen(c)'
      /\ \A c \in Channels : Stopping(c) => Stopping(c)'
  BY <1>1, StartFacts
<1>3. writes' \in 0 .. MaxWrites
  BY <1>1, Types, LongPollAssumption
<1>4. TypeOK'
  BY <1>1, <1>2, <1>3, Types, TypesNext
<1>5. WorkerInformed'
  BY <1>2, WorkerFrame DEF IndInv, NewUrl
<1>6. NoLostWakeup'
  BY <1>2, WakeupFrame DEF IndInv, At, Pending
<1>7. \A c \in Pages : PageInformed(c)'
  BY <1>2, PagesUnchanged
<1> QED
  BY <1>2, <1>4, <1>5, <1>6, <1>7 DEF IndInv

(* The worker's acknowledgement starts a handler like any other.           *)
LEMMA WorkerRestartsKeeps ==
  ASSUME IndInv, NEW ch \in Channels, NEW w \in Writers, WorkerRestarts(ch, w)
  PROVE  IndInv'
<1> USE DEF WorkerRestarts, tableVars
<1>1. TypeOK /\ \A v \in Writers : WriterOK(v)
  BY DEF IndInv
<1>2. /\ writer' \in [Writers -> WriterType(clock)]
      /\ \A v \in Writers : WriterOK(v)'
      /\ StillBumping
      /\ \A c \in Channels : Unseen(c) => Unseen(c)'
      /\ \A c \in Channels : Stopping(c) => Stopping(c)'
  BY <1>1, StartFacts DEF Ops
<1>3. resp' \in RespType(clock)
  BY <1>1, Types DEF RespType
<1>4. TypeOK'
  BY <1>1, <1>2, <1>3, Types, TypesNext
<1>5. WorkerInformed'
  BY DEF WorkerInformed, At
<1>6. NoLostWakeup'
  BY <1>2, WakeupFrame DEF IndInv, At, Pending
<1>7. \A c \in Pages : PageInformed(c)'
  BY <1>2, PagesUnchanged
<1> QED
  BY <1>2, <1>4, <1>5, <1>6, <1>7 DEF IndInv

(* A stop empties the queue: nothing new for the worker, and the page's    *)
(* URLs may be old until the stop has committed or failed.                 *)
LEMMA StopClearsKeeps ==
  ASSUME IndInv, NEW w \in Writers, StopClears(w)
  PROVE  IndInv'
<1> USE DEF StopClears
<1>1. TypeOK /\ \A v \in Writers : WriterOK(v)
  BY DEF IndInv
<1> DEFINE x == writer[w].ch
           r == [writer[w] EXCEPT !.at = "commit", !.t = clock]
<1>2. x \in Channels /\ writer[w].op = "stop"
  BY <1>1 DEF WriterOK
<1>3. writer[w] \in WriterType(clock) /\ writer \in [Writers -> WriterType(clock)] /\ clock \in 0 .. clock
  BY <1>1, Types
<1>4. writer' = [writer EXCEPT ![w] = r]
  BY <1>3 DEF WriterType
<1>5. r \in WriterType(clock) /\ r.at = "commit" /\ r.op = "stop" /\ r.ch = x
  BY <1>2, <1>3 DEF WriterType
<1> HIDE DEF r
<1>6. /\ writer' \in [Writers -> WriterType(clock)]
      /\ writer'[w] = r
      /\ \A v \in Writers : v # w => writer'[v] = writer[v]
      /\ StillBumping
      /\ \A c \in Channels : Unseen(c) => Unseen(c)'
  BY <1>3, <1>4, <1>5, HandlerSteps
<1>7. \A v \in Writers : WriterOK(v)'
  BY <1>1, <1>2, <1>5, <1>6 DEF WriterOK
<1>8. /\ queue' \in [Channels -> [Urls -> 0 .. clock]]
      /\ \A u \in Urls : queue'[x][u] = 0
      /\ \A c \in Channels : c # x => queue'[c] = queue[c]
  <2>1. [u \in Urls |-> 0] \in [Urls -> 0 .. clock]
    BY <1>1, Types
  <2> QED
    BY <1>1, <1>2, <2>1, Types
<1>9. TypeOK'
  BY <1>1, <1>6, <1>8, Types, TypesNext
<1>10. \A c \in Channels : NewUrl(c)' => NewUrl(c)
  <2>1. poll["worker"].since \in Nat
    BY <1>1, Types DEF IndInv
  <2> QED
    BY <1>8, <2>1 DEF NewUrl
<1>11. WorkerInformed'
  BY <1>6, <1>10, WorkerFrame DEF IndInv
<1>12. NoLostWakeup'
  <2>1. \A p \in Pollers, c \in Channels : Pending(p, c)' => Pending(p, c)
    BY <1>10 DEF Pending, NewUrl
  <2> QED
    BY <1>6, <2>1, WakeupFrame DEF IndInv, At
<1>13. \A c \in Pages : PageInformed(c)'
  <2> SUFFICES ASSUME NEW c \in Pages PROVE PageInformed(c)'
    OBVIOUS
  <2>1. (At(c, "half")' => At(c, "half")) /\ (Fetched(c)' => Fetched(c))
    BY DEF At, Fetched
  <2>2. UrlsFresh(c) => UrlsFresh(c)'
    <3>1. CASE c = x
      <4>1. Stopping(c)'
        BY <1>5, <1>6, <3>1 DEF Stopping
      <4>2. Queued(c)' = {}
        BY <1>8, <3>1 DEF Queued
      <4> QED
        BY <4>1, <4>2 DEF UrlsFresh
    <3>2. CASE c # x
      <4>1. Stopping(c) => Stopping(c)'
        BY <1>6 DEF Stopping
      <4>2. Queued(c)' = Queued(c)
        BY <1>8, <3>2, Who DEF Queued
      <4> QED
        BY <4>1, <4>2 DEF UrlsFresh
    <3> QED
      BY <3>1, <3>2
  <2> QED
    BY <1>6, <2>1, <2>2, Who, PageFrame DEF IndInv
<1> QED
  BY <1>7, <1>9, <1>11, <1>12, <1>13 DEF IndInv

(* A commit touches its own channel, and either is about to be announced   *)
(* or has changed nothing.                                                 *)
LEMMA CommitFacts ==
  ASSUME IndInv, NEW w \in Writers, Commit(w)
  PROVE  /\ queue' \in [Channels -> [Urls -> 0 .. clock]]
         /\ restart' \in [Channels -> 0 .. clock]
         /\ silent' \in [Channels -> SUBSET Urls]
         /\ \A c \in Channels : c # writer[w].ch =>
              queue'[c] = queue[c] /\ restart'[c] = restart[c] /\ silent'[c] = silent[c]
         /\ \/ writer' = [writer EXCEPT ![w] = [Free EXCEPT !.at = "add", !.ch = writer[w].ch]]
            \/ /\ writer' = [writer EXCEPT ![w] = Free]
               /\ queue' = queue /\ restart' = restart /\ silent' = silent
               /\ writer[w].op # "stop"
<1> DEFINE ch == writer[w].ch
           u == writer[w].url
           op == writer[w].op
           hit == CASE op = "unqueue" -> u \in Queued(ch)
                    [] op = "clear" -> restart[ch] # 0
                    [] OTHER -> TRUE
<1>1. TypeOK /\ WriterOK(w)
  BY DEF IndInv
<1>2. /\ queue' = CASE op = "queue" -> [queue EXCEPT ![ch][u] = writer[w].t]
                    [] op = "unqueue" -> [queue EXCEPT ![ch][u] = 0]
                    [] OTHER -> queue
      /\ silent' = IF op = "queue" THEN [silent EXCEPT ![ch] = @ \ {u}] ELSE silent
      /\ restart' = CASE op \in {"restart", "stop"} -> [restart EXCEPT ![ch] = writer[w].t]
                      [] op = "clear" -> [restart EXCEPT ![ch] = 0]
                      [] OTHER -> restart
      /\ writer' = [writer EXCEPT ![w] = IF hit THEN [Free EXCEPT !.at = "add", !.ch = ch] ELSE Free]
  BY DEF Commit
<1>3. /\ ch \in Channels /\ op \in Ops /\ writer[w].t \in 0 .. clock
      /\ op \in {"queue", "unqueue"} => u \in Urls
  BY <1>1, Types DEF Commit, WriterOK, WriterType
<1>4. /\ queue \in [Channels -> [Urls -> 0 .. clock]]
      /\ restart \in [Channels -> 0 .. clock]
      /\ silent \in [Channels -> SUBSET Urls]
      /\ 0 \in 0 .. clock
  BY <1>1, Types
<1>5. CASE op = "queue"
  <2>1. hit
    BY <1>5
  <2> HIDE DEF hit, ch, u, op
  <2> QED
    BY <1>2, <1>3, <1>4, <1>5, <2>1 DEF ch
<1>6. CASE op = "unqueue"
  <2>1. hit <=> u \in Queued(ch)
    BY <1>6
  <2>2. u \notin Queued(ch) => [queue EXCEPT ![ch][u] = 0] = queue
    BY <1>3, <1>4, <1>6 DEF Queued
  <2> HIDE DEF hit, ch, u, op
  <2> QED
    BY <1>2, <1>3, <1>4, <1>6, <2>1, <2>2 DEF ch, op
<1>7. CASE op = "clear"
  <2>1. hit <=> restart[ch] # 0
    BY <1>7
  <2>2. restart[ch] = 0 => [restart EXCEPT ![ch] = 0] = restart
    BY <1>3, <1>4
  <2> HIDE DEF hit, ch, u, op
  <2> QED
    BY <1>2, <1>3, <1>4, <1>7, <2>1, <2>2 DEF ch, op
<1>8. CASE op \in {"restart", "stop"}
  <2>1. hit
    BY <1>8
  <2> HIDE DEF hit, ch, u, op
  <2> QED
    BY <1>2, <1>3, <1>4, <1>8, <2>1 DEF ch
<1> QED
  BY <1>3, <1>5, <1>6, <1>7, <1>8 DEF Ops

LEMMA FreeTyped ==
  ASSUME TypeOK
  PROVE  /\ Free \in WriterType(clock) /\ Free.at = "idle"
         /\ \A ch \in Channels :
              LET r == [Free EXCEPT !.at = "add", !.ch = ch] IN
              r \in WriterType(clock) /\ r.at = "add" /\ r.ch = ch
<1>1. 0 \in 0 .. clock
  BY Types
<1>2. Free \in WriterType(clock) /\ Free.at = "idle"
  BY <1>1 DEF Free, WriterType, Ops
<1>3. ASSUME NEW ch \in Channels
      PROVE  LET r == [Free EXCEPT !.at = "add", !.ch = ch] IN
             r \in WriterType(clock) /\ r.at = "add" /\ r.ch = ch
  BY <1>2 DEF WriterType
<1> QED
  BY <1>2, <1>3

(* A commit: a change of the tables makes its handler one that has a       *)
(* change to announce.                                                     *)
LEMMA CommitKeeps ==
  ASSUME IndInv, NEW w \in Writers, Commit(w)
  PROVE  IndInv'
<1>1. TypeOK /\ \A v \in Writers : WriterOK(v)
  BY DEF IndInv
<1> DEFINE x == writer[w].ch
<1>2. /\ x \in Channels /\ writer[w].at = "commit"
      /\ UNCHANGED <<counter, clock, writes, released, poll, resp, info, errors>>
  BY <1>1 DEF WriterOK, Commit
<1>3. writer \in [Writers -> WriterType(clock)]
  BY <1>1, Types
<1>4. /\ queue' \in [Channels -> [Urls -> 0 .. clock]]
      /\ restart' \in [Channels -> 0 .. clock]
      /\ silent' \in [Channels -> SUBSET Urls]
      /\ \A c \in Channels : c # x =>
           queue'[c] = queue[c] /\ restart'[c] = restart[c] /\ silent'[c] = silent[c]
  BY CommitFacts
<1>5. PICK r \in WriterType(clock) :
        /\ writer' = [writer EXCEPT ![w] = r]
        /\ \/ r.at = "add" /\ r.ch = x
           \/ /\ r.at = "idle"
              /\ queue' = queue /\ restart' = restart /\ silent' = silent
              /\ writer[w].op # "stop"
  BY <1>1, <1>2, CommitFacts, FreeTyped
<1>6. /\ writer' \in [Writers -> WriterType(clock)]
      /\ writer'[w] = r
      /\ \A v \in Writers : v # w => writer'[v] = writer[v]
      /\ StillBumping
      /\ \A c \in Channels : Unseen(c) => Unseen(c)'
  BY <1>2, <1>3, <1>5, HandlerSteps
<1>7. \A v \in Writers : WriterOK(v)'
  BY <1>1, <1>2, <1>5, <1>6 DEF WriterOK
<1>8. TypeOK'
  BY <1>1, <1>2, <1>4, <1>6, Types, TypesNext
<1>9. \A c \in Channels :
        \/ Bumping(c)' /\ Unseen(c)'
        \/ /\ queue'[c] = queue[c] /\ restart'[c] = restart[c] /\ silent'[c] = silent[c]
           /\ Stopping(c) => Stopping(c)'
  <2> SUFFICES ASSUME NEW c \in Channels
               PROVE  \/ Bumping(c)' /\ Unseen(c)'
                      \/ /\ queue'[c] = queue[c] /\ restart'[c] = restart[c] /\ silent'[c] = silent[c]
                         /\ Stopping(c) => Stopping(c)'
    OBVIOUS
  <2>1. CASE c # x
    BY <1>4, <1>6, <2>1 DEF Stopping
  <2>2. CASE c = x /\ r.at = "add" /\ r.ch = x
    BY <1>6, <2>2 DEF Bumping, Unseen
  <2>3. CASE queue' = queue /\ restart' = restart /\ silent' = silent /\ writer[w].op # "stop"
    BY <1>6, <2>3 DEF Stopping
  <2> QED
    BY <1>5, <2>1, <2>2, <2>3
<1>10. WorkerInformed'
  BY <1>2, <1>6, <1>9, WorkerFrame DEF IndInv, NewUrl
<1>11. NoLostWakeup'
  <2>1. \A p \in Pollers, c \in Channels : Pending(p, c)' => Pending(p, c) \/ Bumping(c)'
    BY <1>2, <1>9 DEF Pending
  <2> QED
    BY <1>2, <1>6, <2>1, WakeupFrame DEF IndInv, At
<1>12. \A c \in Pages : PageInformed(c)'
  <2> SUFFICES ASSUME NEW c \in Pages PROVE PageInformed(c)'
    OBVIOUS
  <2>1. (At(c, "half")' => At(c, "half")) /\ (Fetched(c)' => Fetched(c))
    BY <1>2 DEF At, Fetched
  <2>2. UrlsFresh(c) => UrlsFresh(c)' \/ Unseen(c)'
    BY <1>2, <1>9, Who DEF UrlsFresh, Queued
  <2>3. restart'[c] = restart[c] \/ Unseen(c)'
    BY <1>9, Who
  <2> QED
    BY <1>2, <1>6, <2>1, <2>2, <2>3, Who, PageFrame DEF IndInv
<1> QED
  BY <1>2, <1>7, <1>8, <1>10, <1>11, <1>12 DEF IndInv

(* A failing write: of what a stop has already removed, everything counts  *)
(* as removed without a bump.                                              *)
LEMMA CallFailsKeeps ==
  ASSUME IndInv, NEW w \in Writers, CallFails(w)
  PROVE  IndInv'
<1> USE DEF CallFails, tableVars, clientVars
<1>1. TypeOK /\ \A v \in Writers : WriterOK(v)
  BY DEF IndInv
<1> DEFINE x == writer[w].ch
<1>2. x \in Channels
  BY <1>1 DEF WriterOK
<1>3. writer \in [Writers -> WriterType(clock)] /\ Free \in WriterType(clock) /\ Free.at = "idle"
  BY <1>1, Types, FreeTyped
<1>4. /\ writer' \in [Writers -> WriterType(clock)]
      /\ writer'[w] = Free
      /\ \A v \in Writers : v # w => writer'[v] = writer[v]
      /\ StillBumping
      /\ \A c \in Channels : Unseen(c) => Unseen(c)'
  BY <1>3, HandlerSteps
<1>5. \A v \in Writers : WriterOK(v)'
  BY <1>1, <1>3, <1>4 DEF WriterOK
<1>6. /\ silent' \in [Channels -> SUBSET Urls]
      /\ \A c \in Channels : silent[c] \subseteq silent'[c]
      /\ writer[w].op = "stop" /\ writer[w].at = "commit" => Urls \ Queued(x) \subseteq silent'[x]
  BY <1>1, <1>2, Types DEF Queued
<1>7. TypeOK'
  <2>1. errors' \in 0 .. MaxErrors
    BY <1>1, Types, LongPollAssumption
  <2> QED
    BY <1>1, <1>4, <1>6, <2>1, Types, TypesNext
<1>8. WorkerInformed'
  BY <1>4, WorkerFrame DEF IndInv, NewUrl
<1>9. NoLostWakeup'
  BY <1>4, WakeupFrame DEF IndInv, At, Pending
<1>10. \A c \in Pages : PageInformed(c)'
  <2> SUFFICES ASSUME NEW c \in Pages PROVE PageInformed(c)'
    OBVIOUS
  <2>1. (At(c, "half")' => At(c, "half")) /\ (Fetched(c)' => Fetched(c))
    BY DEF At, Fetched
  <2>2. Queued(c)' = Queued(c)
    BY DEF Queued
  <2>3. ASSUME Stopping(c)
        PROVE  Stopping(c)' \/ Urls \ Queued(c) \subseteq silent'[c]
    BY <1>4, <1>6, <2>3 DEF Stopping
  <2>4. info[c].urls \subseteq Urls
    BY <1>1, Types DEF InfoType
  <2>5. UrlsFresh(c) => UrlsFresh(c)'
    BY <1>6, <2>2, <2>3, <2>4, Who DEF UrlsFresh
  <2> QED
    BY <1>4, <2>1, <2>5, Who, PageFrame DEF IndInv
<1> QED
  BY <1>5, <1>7, <1>8, <1>9, <1>10 DEF IndInv

(* The counter moves past what the page of the channel was told.           *)
LEMMA AddCounterKeeps ==
  ASSUME IndInv, NEW w \in Writers, AddCounter(w)
  PROVE  IndInv'
<1> USE DEF AddCounter, clientVars
<1>1. TypeOK /\ \A v \in Writers : WriterOK(v)
  BY DEF IndInv
<1> DEFINE x == writer[w].ch
<1>2. x \in Channels
  BY <1>1 DEF WriterOK
<1>3. writer \in [Writers -> WriterType(clock)]
  BY <1>1, Types
<1>4. /\ writer' \in [Writers -> WriterType(clock)]
      /\ writer'[w].at = "notify" /\ writer'[w].ch = x
      /\ \A v \in Writers : v # w => writer'[v] = writer[v]
  BY <1>3 DEF WriterType
<1>5. StillBumping
  BY <1>4 DEF StillBumping, Bumping
<1>6. \A v \in Writers : WriterOK(v)'
  BY <1>1, <1>2, <1>4 DEF WriterOK
<1>7. /\ counter' \in [Channels -> Nat] /\ counter'[x] = counter[x] + 1
      /\ \A c \in Channels : c # x => counter'[c] = counter[c]
  BY <1>1, <1>2, Types
<1>8. TypeOK'
  BY <1>1, <1>4, <1>7, Types, TypesNext
<1>9. WorkerInformed'
  BY <1>5, WorkerFrame DEF IndInv, NewUrl
<1>10. NoLostWakeup'
  <2>1. Bumping(x)'
    BY <1>4 DEF Bumping
  <2>2. \A p \in Pollers, c \in Channels : Pending(p, c)' => Pending(p, c) \/ Bumping(c)'
    BY <1>7, <2>1 DEF Pending
  <2> QED
    BY <1>5, <2>2, WakeupFrame DEF IndInv, At
<1>11. \A c \in Pages : PageInformed(c)'
  <2> SUFFICES ASSUME NEW c \in Pages PROVE PageInformed(c)'
    OBVIOUS
  <2>1. poll[c].since \in Int /\ counter[c] \in Nat /\ poll[c].since <= counter[c]
    BY <1>1, Types, Who DEF IndInv, PageInformed, PollType
  <2>2. CASE c = x
    BY <1>7, <2>1, <2>2 DEF PageInformed
  <2>3. CASE c # x
    <3>1. (At(c, "half")' => At(c, "half")) /\ (Fetched(c)' => Fetched(c))
      BY DEF At, Fetched
    <3>2. Unseen(c) => Unseen(c)'
      BY <1>4, <2>3 DEF Unseen
    <3>3. UrlsFresh(c) => UrlsFresh(c)'
      BY <1>4 DEF UrlsFresh, Queued, Stopping
    <3> QED
      BY <1>7, <2>3, <3>1, <3>2, <3>3, Who, PageFrame DEF IndInv
  <2> QED
    BY <2>2, <2>3
<1> QED
  BY <1>6, <1>8, <1>9, <1>10, <1>11 DEF IndInv

(* Notify closes the signal every poll holds: nobody parks on it any more. *)
LEMMA NotifyKeeps ==
  ASSUME IndInv, NEW w \in Writers, Notify(w)
  PROVE  IndInv'
<1> USE DEF Notify, tableVars, clientVars
<1>1. TypeOK /\ \A v \in Writers : WriterOK(v)
  BY DEF IndInv
<1>2. writer \in [Writers -> WriterType(clock)] /\ Free \in WriterType(clock) /\ Free.at = "idle"
  BY <1>1, Types, FreeTyped
<1>3. /\ writer' \in [Writers -> WriterType(clock)]
      /\ writer'[w] = Free
      /\ \A v \in Writers : v # w => writer'[v] = writer[v]
  BY <1>2
<1>4. \A v \in Writers : WriterOK(v)'
  BY <1>1, <1>2, <1>3 DEF WriterOK
<1>5. /\ poll' \in [Pollers -> PollType]
      /\ \A p \in Pollers : /\ poll'[p].at = poll[p].at /\ poll'[p].since = poll[p].since
                            /\ poll'[p].open = FALSE
  BY <1>1, Types DEF PollType
<1>6. TypeOK'
  BY <1>1, <1>3, <1>5, Types, TypesNext
<1>7. poll'["worker"].since \in 0 .. clock'
  BY <1>5, Who DEF IndInv
<1>8. WorkerInformed' /\ NoLostWakeup'
  BY <1>5, Who DEF WorkerInformed, NoLostWakeup
<1>9. \A c \in Pages : PageInformed(c)'
  <2> SUFFICES ASSUME NEW c \in Pages PROVE PageInformed(c)'
    OBVIOUS
  <2>1. (At(c, "half")' => At(c, "half")) /\ (Fetched(c)' => Fetched(c))
    BY <1>5, Who DEF At, Fetched
  <2>2. Unseen(c) => Unseen(c)'
    BY <1>3 DEF Unseen
  <2>3. UrlsFresh(c) => UrlsFresh(c)'
    BY <1>3 DEF UrlsFresh, Queued, Stopping
  <2> QED
    BY <1>5, <2>1, <2>2, <2>3, Who, PageFrame DEF IndInv
<1> QED
  BY <1>4, <1>6, <1>7, <1>8, <1>9 DEF IndInv

-----------------------------------------------------------------------------
(* The sweep, the clock, the shutdown                                      *)

(* Expiry only removes, and what it removes counts as removed without a    *)
(* bump.                                                                   *)
LEMMA CleanupKeeps ==
  ASSUME IndInv, CleanupExpired
  PROVE  IndInv'
<1> USE DEF CleanupExpired
<1>1. TypeOK
  BY DEF IndInv
<1>2. StillBumping /\ \A w \in Writers : WriterOK(w)'
  BY BumpingKept DEF IndInv
<1>3. /\ queue' \in [Channels -> [Urls -> 0 .. clock]]
      /\ \A c \in Channels, u \in Urls : queue'[c][u] = IF u \in Expired(c) THEN 0 ELSE queue[c][u]
  BY <1>1, Types
<1>4. /\ silent' \in [Channels -> SUBSET Urls]
      /\ \A c \in Channels : silent'[c] = silent[c] \cup Expired(c)
  BY <1>1, Types DEF Expired, Queued
<1>5. TypeOK'
  BY <1>1, <1>3, <1>4, Types, TypesNext
<1>6. \A c \in Channels : NewUrl(c)' => NewUrl(c)
  <2>1. poll["worker"].since \in Nat
    BY <1>1, Types DEF IndInv
  <2> QED
    BY <1>3, <2>1 DEF NewUrl
<1>7. WorkerInformed'
  BY <1>2, <1>6, WorkerFrame DEF IndInv
<1>8. NoLostWakeup'
  <2>1. \A p \in Pollers, c \in Channels : Pending(p, c)' => Pending(p, c)
    BY <1>6 DEF Pending, NewUrl
  <2> QED
    BY <1>2, <2>1, WakeupFrame DEF IndInv, At
<1>9. \A c \in Pages : PageInformed(c)'
  <2> SUFFICES ASSUME NEW c \in Pages PROVE PageInformed(c)'
    OBVIOUS
  <2>1. (At(c, "half")' => At(c, "half")) /\ (Fetched(c)' => Fetched(c))
    BY DEF At, Fetched
  <2>2. Unseen(c) => Unseen(c)'
    BY DEF Unseen
  <2>3. Queued(c)' = Queued(c) \ Expired(c)
    BY <1>3, Who DEF Queued
  <2>4. Stopping(c) => Stopping(c)'
    BY DEF Stopping
  <2>5. UrlsFresh(c) => UrlsFresh(c)'
    BY <1>4, <2>3, <2>4, Who DEF UrlsFresh
  <2> QED
    BY <2>1, <2>2, <2>5, Who, PageFrame DEF IndInv
<1> QED
  BY <1>2, <1>5, <1>7, <1>8, <1>9 DEF IndInv

(* The clock, the shutdown flag and a step that changes nothing are seen   *)
(* by nobody.                                                              *)
LEMMA UnseenStep ==
  ASSUME IndInv, clock' \in 1 .. MaxClock, clock' >= clock, released' \in BOOLEAN,
         UNCHANGED <<queue, restart, counter, writer, writes, poll, resp, info, silent, errors>>
  PROVE  IndInv'
<1>1. TypeOK
  BY DEF IndInv
<1>2. clock \in Nat /\ clock' \in Nat
  BY <1>1, Types
<1>3. \A n \in 0 .. clock : n \in 0 .. clock'
  BY <1>2
<1>4. TypeOK'
  <2>1. queue' \in [Channels -> [Urls -> 0 .. clock']] /\ restart' \in [Channels -> 0 .. clock']
    BY <1>1, <1>3, Types
  <2>2. writer' \in [Writers -> WriterType(clock')]
    BY <1>1, <1>3, Types DEF WriterType
  <2>3. resp' \in RespType(clock') /\ info' \in [Pages -> InfoType(clock')]
    BY <1>1, <1>3, Types DEF RespType, InfoType
  <2> QED
    BY <1>1, <2>1, <2>2, <2>3, Types, TypesNext
<1>5. StillBumping /\ \A w \in Writers : WriterOK(w)'
  BY BumpingKept DEF IndInv
<1>6. poll'["worker"].since \in 0 .. clock'
  BY <1>3 DEF IndInv
<1>7. WorkerInformed'
  BY <1>5, WorkerFrame DEF IndInv, NewUrl
<1>8. NoLostWakeup'
  BY <1>5, WakeupFrame DEF IndInv, At, Pending
<1>9. \A c \in Pages : PageInformed(c)'
  BY PageUntouched DEF IndInv
<1> QED
  BY <1>4, <1>5, <1>6, <1>7, <1>8, <1>9 DEF IndInv

-----------------------------------------------------------------------------
(* The theorems                                                            *)

LEMMA Initially ==
  ASSUME Init
  PROVE  IndInv
<1> USE DEF Init
<1>1. TypeOK
  <2>1. clock \in 1 .. MaxClock /\ writes \in 0 .. MaxWrites /\ errors \in 0 .. MaxErrors
    BY LongPollAssumption
  <2>2. queue \in [Channels -> [Urls -> 0 .. clock]]
    OBVIOUS
  <2>3. /\ restart \in [Channels -> 0 .. clock] /\ counter \in [Channels -> Nat]
        /\ silent \in [Channels -> SUBSET Urls]
    OBVIOUS
  <2>4. Free \in [at : {"idle", "empty", "commit", "add", "notify"}, op : Ops,
                  ch : Channels \cup {None}, url : Urls \cup {None}, t : 0 .. clock]
    BY DEF Free, Ops
  <2>5. poll \in [Pollers -> [at : {"idle", "subscribe", "check", "parked", "ready", "half"},
                              open : BOOLEAN, since : Nat \cup {-1}]]
    OBVIOUS
  <2>6. resp \in [todo : SUBSET Channels, half : Channels \cup {None}, cursor : 0 .. clock,
                  incoming : SUBSET Channels, restart : SUBSET Channels]
    BY DEF NoResp
  <2>7. info \in [Pages -> [urls : SUBSET Urls, restart : 0 .. clock, ok : BOOLEAN]]
    OBVIOUS
  <2> QED
    BY <2>1, <2>2, <2>3, <2>4, <2>5, <2>6, <2>7 DEF TypeOK
<1>2. \A p \in Pollers : poll[p].at = "idle" /\ (p # "worker" => poll[p].since = -1)
  OBVIOUS
<1>3. poll["worker"].since \in 0 .. clock
  BY Who
<1>4. \A w \in Writers : WriterOK(w)
  BY DEF WriterOK, Free
<1>5. WorkerInformed /\ NoLostWakeup
  BY <1>2, Who DEF WorkerInformed, NoLostWakeup, At
<1>6. \A ch \in Pages : PageInformed(ch)
  BY <1>2, Who DEF PageInformed, At, Fetched
<1> QED
  BY <1>1, <1>3, <1>4, <1>5, <1>6 DEF IndInv

LEMMA StepKeeps ==
  ASSUME IndInv, [Next]_vars
  PROVE  IndInv'
<1>1. TypeOK
  BY DEF IndInv
<1>2. ASSUME NEW w \in Writers, NEW op \in Ops, NEW ch \in Channels, NEW u \in Urls,
             Begin(w, op, ch, u)
      PROVE  IndInv'
  BY <1>2, BeginKeeps
<1>3. ASSUME NEW w \in Writers, Write(w) \/ CallFails(w)
      PROVE  IndInv'
  BY <1>3, StopClearsKeeps, CommitKeeps, AddCounterKeeps, NotifyKeeps, CallFailsKeeps DEF Write
<1>4. CASE CleanupExpired
  BY <1>4, CleanupKeeps
<1>5. CASE Tick \/ Release \/ UNCHANGED vars
  <2>1. clock \in 1 .. MaxClock /\ clock \in Nat /\ MaxClock \in Nat /\ released \in BOOLEAN
    BY <1>1, Types, LongPollAssumption
  <2>2. CASE Tick
    BY <2>1, <2>2, UnseenStep DEF Tick, tableVars, clientVars
  <2>3. CASE Release
    BY <2>1, <2>3, UnseenStep DEF Release, tableVars, clientVars
  <2>4. CASE UNCHANGED vars
    BY <2>1, <2>4, UnseenStep DEF vars
  <2> QED
    BY <1>5, <2>2, <2>3, <2>4
<1>6. ASSUME NEW p \in Pollers, Wait(p) \/ PollEnds(p) \/ EndReleased(p)
      PROVE  IndInv'
  <2>1. CASE Subscribe(p)
    BY <2>1, SubscribeKeeps
  <2>2. CASE PollStarts(p)
    BY <2>2, BetweenChecks DEF PollStarts, At
  <2>3. CASE Wake(p)
    BY <2>3, BetweenChecks DEF Wake, At
  <2>4. CASE PollEnds(p) \/ EndReleased(p)
    BY <2>4, BetweenChecks DEF PollEnds, EndReleased, At
  <2> QED
    BY <1>6, <2>1, <2>2, <2>3, <2>4 DEF Wait
<1>7. ASSUME NEW ch \in Pages, Page(ch) \/ InfoFails(ch)
      PROVE  IndInv'
  BY <1>7, CheckPageKeeps, InfoQueueKeeps, InfoRestartKeeps, InfoFailsKeeps DEF Page
<1>8. CASE Collect \/ CollectFails
  BY <1>8, CollectIncomingKeeps, CollectRestartKeeps, NothingPendingKeeps, AnsweredKeeps,
     CollectFailsKeeps DEF Collect
<1>9. CASE WorkerActs
  BY <1>9, WorkerRestartsKeeps, WorkerDoneKeeps DEF WorkerActs
<1> QED
  BY <1>2, <1>3, <1>4, <1>5, <1>6, <1>7, <1>8, <1>9 DEF Next

(* The inductive invariant holds of every behaviour of the notifier, its   *)
(* handlers and its polls.                                                 *)
THEOREM Inductive == Spec => []IndInv
BY Initially, StepKeeps, PTL DEF Spec

(* Type correctness: times never run ahead of the clock, and every handler *)
(* and poll is at one of its places.                                       *)
THEOREM TypeCorrect == Spec => []TypeOK
<1>1. IndInv => TypeOK
  BY DEF IndInv
<1> QED
  BY <1>1, Inductive, PTL

(* Notifier.Wait loses no wakeup, for any number of channels, pages and    *)
(* handlers: a poll parked on the open signal while its check would        *)
(* succeed has a handler of that very channel about to notify.             *)
THEOREM WakeupsAreKept == Spec => []NoLostWakeup
<1>1. IndInv => NoLostWakeup
  BY DEF IndInv
<1> QED
  BY <1>1, Inductive, PTL

(* Commit, counter, Notify and counter, queue, restart flag: in this order *)
(* the admin page's last fetch is current whenever its poll is parked on   *)
(* the current counter and no handler of the channel is under way.         *)
THEOREM PagesAreFresh == Spec => []PageFresh
<1>1. ASSUME IndInv PROVE PageFresh
  <2> SUFFICES ASSUME NEW ch \in Pages,
                      At(ch, "parked"), poll[ch].since = counter[ch], info[ch].ok,
                      \A w \in Writers : writer[w].ch = ch => writer[w].at \in {"idle", "notify"}
               PROVE  /\ info[ch].restart = restart[ch]
                      /\ Queued(ch) \subseteq info[ch].urls
                      /\ info[ch].urls \ Queued(ch) \subseteq silent[ch]
    BY DEF PageFresh
  <2>1. ~Unseen(ch) /\ ~Stopping(ch)
    BY DEF Unseen, Stopping
  <2>2. Fetched(ch)
    BY DEF Fetched, At
  <2> QED
    BY <1>1, <2>1, <2>2 DEF IndInv, PageInformed, UrlsFresh
<1> QED
  BY <1>1, Inductive, PTL
=============================================================================
