------------------------------- MODULE Merge --------------------------------
(***************************************************************************)
(* MergeRawAudio (internal/media/merge.go): the raw chunks of a clip or of *)
(* a full VOD are downloaded by goroutines of their own, at most           *)
(* mergeConcurrency ahead of the writer, which appends them in the order   *)
(* of the file ids.  Any number of calls run beside each other.  A call is *)
(* the writer (the caller's goroutine), the producer that spawns           *)
(* downloaders, and the downloaders; the WaitGroup is what Quiet says.     *)
(***************************************************************************)
EXTENDS Integers, Sequences, FiniteSets

CONSTANTS
  Calls,        \* calls of MergeRawAudio
  Files,        \* file ids of raw chunks
  Concurrency,  \* mergeConcurrency
  MaxFaults     \* bound on the I/O calls that fail by themselves

ASSUME MergeAssumption ==
  /\ Concurrency \in Nat \ {0}
  /\ MaxFaults \in Nat

VARIABLES
  m,       \* the calls
  ctx,     \* calls whose caller's context is done
  stored,  \* file ids whose raw chunk is in storage
  faults   \* I/O calls that have failed by themselves

mergeVars == <<m, ctx, stored, faults>>

WriterStates == {"none", "check", "wait", "write", "join", "abort", "ok", "err"}
ChunkStates == {"none", "get", "ok", "err", "taken"}

(* at: where the writer is, at its pos-th file; on: the producer runs and  *)
(* will spawn the download of next; got: the chunk the writer holds; disk: *)
(* the chunks that may be in downloadDir, from the start of their download *)
(* on; raw: the merged file exists, with out in it.                        *)
NoCall == [at |-> "none", files |-> <<>>, on |-> FALSE, next |-> 1, chunk |-> <<>>,
           slots |-> 0, cancelled |-> FALSE, pos |-> 1, got |-> 0, out |-> <<>>,
           disk |-> {}, raw |-> FALSE]

Size(c) == Len(m[c].files)
Done(c) == m[c].cancelled \/ c \in ctx
Downloading(c) == {i \in 1 .. Size(c) : m[c].chunk[i] = "get"}

(* wg.Wait returns.                                                        *)
Quiet(c) == ~m[c].on /\ Downloading(c) = {}

(* An I/O call fails by itself.                                            *)
Fault == faults < MaxFaults /\ faults' = faults + 1

-----------------------------------------------------------------------------
(* The call, and its early returns: no merged file or download directory.  *)
MergeRawAudio(c, files) ==
  /\ m[c].at = "none" /\ files # <<>>
  /\ m' = [m EXCEPT ![c] = [NoCall EXCEPT
       !.at = "check", !.files = files, !.on = TRUE, !.raw = TRUE,
       !.chunk = [i \in 1 .. Len(files) |-> "none"]]]
  /\ UNCHANGED <<ctx, stored, faults>>

MergeRefused(c) ==
  /\ m[c].at = "none"
  /\ m' = [m EXCEPT ![c].at = "err"]
  /\ Fault
  /\ UNCHANGED <<ctx, stored>>

(* Faulty variant: one slot too many.                                      *)
ProduceOver(c) ==
  /\ m[c].on /\ m[c].slots <= Concurrency
  /\ m' = [m EXCEPT ![c].slots = @ + 1, ![c].next = @ + 1, ![c].on = m[c].next < Size(c),
                    ![c].chunk[m[c].next] = "get", ![c].disk = @ \cup {m[c].next}]
  /\ UNCHANGED <<ctx, stored, faults>>

(* The producer takes a slot for every chunk before it is downloaded.      *)
Produce(c) ==
  /\ m[c].on /\ m[c].slots < Concurrency
  /\ m' = [m EXCEPT ![c].slots = @ + 1, ![c].next = @ + 1, ![c].on = m[c].next < Size(c),
                    ![c].chunk[m[c].next] = "get", ![c].disk = @ \cup {m[c].next}]
  /\ UNCHANGED <<ctx, stored, faults>>

ProducerStops(c) ==
  /\ m[c].on /\ Done(c)
  /\ m' = [m EXCEPT ![c].on = FALSE]
  /\ UNCHANGED <<ctx, stored, faults>>

(* downloadChunk: open the object, create the file, copy; every result     *)
(* goes into a channel of its own with room for it.                        *)

(* Faulty variant: the slot counts downloads, not chunks on disk.          *)
DownloadedFreesSlot(c, i) ==
  /\ m[c].chunk[i] = "get" /\ m[c].files[i] \in stored
  /\ m' = [m EXCEPT ![c].chunk[i] = "ok", ![c].slots = @ - 1]
  /\ UNCHANGED <<ctx, stored, faults>>

Downloaded(c, i) ==
  /\ m[c].chunk[i] = "get" /\ m[c].files[i] \in stored
  /\ m' = [m EXCEPT ![c].chunk[i] = "ok"]
  /\ UNCHANGED <<ctx, stored, faults>>

(* A cancelled context may end the download, and need not (local storage   *)
(* ignores it); what was copied stays in downloadDir.                      *)
DownloadFails(c, i) ==
  /\ m[c].chunk[i] = "get"
  /\ m' = [m EXCEPT ![c].chunk[i] = "err"]
  /\ \/ (Done(c) \/ m[c].files[i] \notin stored) /\ UNCHANGED faults
     \/ Fault
  /\ UNCHANGED <<ctx, stored>>

-----------------------------------------------------------------------------
(* The writer.                                                             *)

(* Faulty variant: the outstanding downloads are not cancelled.            *)
AbortUncancelled(c) == m' = [m EXCEPT ![c].at = "abort"]

abort(c) == m' = [m EXCEPT ![c].at = "abort", ![c].cancelled = TRUE]

CheckContext(c) ==
  /\ m[c].at = "check"
  /\ IF c \in ctx THEN abort(c) ELSE m' = [m EXCEPT ![c].at = "wait"]
  /\ UNCHANGED <<ctx, stored, faults>>

(* Faulty variant: the first chunk that is there, whatever its number.     *)
ReceiveAny(c) ==
  /\ m[c].at = "wait"
  /\ \E i \in 1 .. Size(c) :
       \/ m[c].chunk[i] = "err" /\ abort(c)
       \/ /\ m[c].chunk[i] = "ok"
          /\ m' = [m EXCEPT ![c].at = "write", ![c].got = i, ![c].chunk[i] = "taken"]
  /\ UNCHANGED <<ctx, stored, faults>>

(* Faulty variant: a chunk that failed is downloaded again.                *)
ReceiveRetrying(c) ==
  /\ m[c].at = "wait"
  /\ LET i == m[c].pos IN
       \/ m[c].chunk[i] = "err" /\ m' = [m EXCEPT ![c].chunk[i] = "get"]
       \/ /\ m[c].chunk[i] = "ok"
          /\ m' = [m EXCEPT ![c].at = "write", ![c].got = i, ![c].chunk[i] = "taken"]
  /\ UNCHANGED <<ctx, stored, faults>>

Receive(c) ==
  /\ m[c].at = "wait"
  /\ LET i == m[c].pos IN
       \/ m[c].chunk[i] = "err" /\ abort(c)
       \/ /\ m[c].chunk[i] = "ok"
          /\ m' = [m EXCEPT ![c].at = "write", ![c].got = i, ![c].chunk[i] = "taken"]
  /\ UNCHANGED <<ctx, stored, faults>>

ContextEndsWait(c) ==
  /\ m[c].at = "wait" /\ c \in ctx
  /\ abort(c)
  /\ UNCHANGED <<ctx, stored, faults>>

(* The chunk is appended and deleted, then its slot is free.               *)
AppendChunk(c) ==
  /\ m[c].at = "write"
  /\ m' = [m EXCEPT ![c].out = Append(@, m[c].files[m[c].got]),
                    ![c].disk = @ \ {m[c].got}, ![c].slots = @ - 1, ![c].got = 0,
                    ![c].pos = @ + 1,
                    ![c].at = IF m[c].pos = Size(c) THEN "join" ELSE "check"]
  /\ UNCHANGED <<ctx, stored, faults>>

(* The chunk cannot be opened or copied.                                   *)
AppendFails(c) ==
  /\ m[c].at = "write"
  /\ abort(c)
  /\ Fault
  /\ UNCHANGED <<ctx, stored>>

(* Both ends wait for the goroutines before the deferred RemoveAll.        *)
Succeed(c) ==
  /\ m[c].at = "join" /\ Quiet(c)
  /\ m' = [m EXCEPT ![c].at = "ok", ![c].disk = {}]
  /\ UNCHANGED <<ctx, stored, faults>>

(* Faulty variant: an error is returned without waiting.                   *)
FailAtOnce(c) ==
  /\ m[c].at = "abort"
  /\ m' = [m EXCEPT ![c].at = "err", ![c].disk = {}, ![c].raw = FALSE]
  /\ UNCHANGED <<ctx, stored, faults>>

Fail(c) ==
  /\ m[c].at = "abort" /\ Quiet(c)
  /\ m' = [m EXCEPT ![c] = [NoCall EXCEPT !.at = "err"]]
  /\ UNCHANGED <<ctx, stored, faults>>

Writer(c) ==
  \/ CheckContext(c) \/ Receive(c) \/ ContextEndsWait(c) \/ AppendChunk(c)
  \/ Succeed(c) \/ Fail(c)
Producer(c) == Produce(c) \/ ProducerStops(c)
Downloader(c, i) == Downloaded(c, i) \/ DownloadFails(c, i)

(* Every step of a call once it has begun.                                 *)
MergeStep(c) ==
  \/ Writer(c) \/ AppendFails(c) \/ Producer(c)
  \/ \E i \in 1 .. Size(c) : Downloader(c, i)

-----------------------------------------------------------------------------
(* Calls on their own: contexts end and objects disappear at any time.     *)

CancelCall(c) ==
  /\ ctx' = ctx \cup {c}
  /\ UNCHANGED <<m, stored, faults>>

Vanish(f) ==
  /\ stored' = stored \ {f}
  /\ UNCHANGED <<m, ctx, faults>>

MergeInit ==
  /\ m = [c \in Calls |-> NoCall]
  /\ ctx = {} /\ stored \in SUBSET Files /\ faults = 0

MergeNext ==
  \/ \E c \in Calls :
       \/ \E files \in Seq(Files) : MergeRawAudio(c, files)
       \/ MergeRefused(c) \/ MergeStep(c) \/ CancelCall(c)
  \/ \E f \in Files : Vanish(f)

MergeSpec == MergeInit /\ [][MergeNext]_mergeVars

-----------------------------------------------------------------------------
(* Properties                                                              *)

(* Whatever order the chunks arrive in, the merged file is a prefix of     *)
(* them in the order of fileIDs, and all of them when the call succeeds.   *)
MergedInOrder ==
  \A c \in Calls :
    /\ m[c].out = SubSeq(m[c].files, 1, Len(m[c].out))
    /\ m[c].at = "ok" => m[c].out = m[c].files

(* "the scratch space a merge needs stays bounded by mergeConcurrency      *)
(* chunks no matter how many files it is given": also the chunks that are  *)
(* being written, that wait for the writer, and that failed half way.      *)
ScratchBounded == \A c \in Calls : Cardinality(m[c].disk) <= Concurrency

(* "no download outlives the call - which is what makes the deferred       *)
(* RemoveAll safe": a call that has returned has no goroutine and no chunk *)
(* left, and its merged file only when it hands it to the caller.          *)
NothingOutlives ==
  \A c \in Calls :
    m[c].at \in {"ok", "err"} =>
      Quiet(c) /\ m[c].disk = {} /\ (m[c].raw <=> m[c].at = "ok")
(* A call that has not begun or has returned.                              *)
AtRest(k) == k.at \in {"none", "ok", "err"}

(* A bound on the steps call k still takes: three of the writer for every  *)
(* chunk, one of the producer and one of a downloader for every chunk that *)
(* has not been asked for, and the return.                                 *)
WriterLeft(k) ==
  IF k.at \in {"check", "wait", "write"}
    THEN 3 * (Len(k.files) - k.pos) + [check |-> 3, wait |-> 2, write |-> 1][k.at]
    ELSE 0
ProducerLeft(k) == IF k.on THEN 2 * (Len(k.files) + 1 - k.next) ELSE 0
DownloadsLeft(k) == Cardinality({i \in 1 .. Len(k.files) : k.chunk[i] = "get"})
StepsLeft(k) ==
  IF AtRest(k) THEN 0
  ELSE 1 + WriterLeft(k) + ProducerLeft(k) + DownloadsLeft(k)

(* Every step of a call is one of the last 5 * Len(files) + 1: no error,   *)
(* cancellation or lost object makes a goroutine begin anything again.     *)
CallsWindDown ==
  [][\A c \in Calls : m'[c] # m[c] /\ ~AtRest(m[c]) =>
       0 <= StepsLeft(m'[c]) /\ StepsLeft(m'[c]) < StepsLeft(m[c])]_mergeVars

-----------------------------------------------------------------------------
(* The inductive invariant                                                 *)

CallType == [at : WriterStates, files : Seq(Files), on : BOOLEAN, next : Nat,
             chunk : Seq(ChunkStates), slots : Int, cancelled : BOOLEAN, pos : Nat,
             got : Nat, out : Seq(Files), disk : SUBSET Nat, raw : BOOLEAN]

(* The slots are the chunks between the producer and the writer, and only  *)
(* those can be on disk.                                                   *)
Window(k) ==
  /\ Len(k.chunk) = Len(k.files)
  /\ 1 <= k.pos /\ k.pos <= k.next /\ k.next <= Len(k.files) + 1
  /\ k.slots = k.next - k.pos /\ k.slots <= Concurrency
  /\ k.on => k.next <= Len(k.files)
  /\ \A i \in 1 .. Len(k.files) : k.chunk[i] # "none" => i < k.next
  /\ \A i \in k.disk : k.pos <= i /\ i < k.next

(* The writer has appended the files before pos, in their order.           *)
Written(k) ==
  /\ Len(k.out) = k.pos - 1
  /\ \A i \in 1 .. k.pos - 1 : k.out[i] = k.files[i]
  /\ k.at \in {"check", "wait", "write"} => k.pos <= Len(k.files)
  /\ k.at = "write" => k.got = k.pos /\ k.pos < k.next
  /\ k.at \in {"join", "ok"} => k.pos = Len(k.files) + 1

(* Outside a call there is no goroutine and no chunk.                      *)
Rested(k) ==
  /\ AtRest(k) => /\ ~k.on /\ k.disk = {}
                  /\ \A i \in 1 .. Len(k.files) : k.chunk[i] # "get"
  /\ k.raw <=> k.at \notin {"none", "err"}

CallOK(k) == k \in CallType /\ Window(k) /\ Written(k) /\ Rested(k)
MergeInv == m \in [Calls -> CallType] /\ \A c \in Calls : CallOK(m[c])

-----------------------------------------------------------------------------
(* Why no goroutine of a call waits for ever                               *)

(* The guards of the writer, the producer and the downloaders: one of them *)
(* can go on without the help of a fault.                                  *)
MergeReady(c) ==
  \/ m[c].at \in {"check", "write"}
  \/ m[c].at = "wait" /\ (m[c].chunk[m[c].pos] \in {"ok", "err"} \/ c \in ctx)
  \/ m[c].at \in {"join", "abort"} /\ Quiet(c)
  \/ m[c].on /\ (m[c].slots < Concurrency \/ Done(c))
  \/ Downloading(c) # {}

(* A chunk before next has been asked for, one the writer has not reached  *)
(* has not been taken, only a writer that gives up cancels, and a producer *)
(* that stops early has seen the context end.                              *)
Awaited(c) ==
  LET k == m[c] IN
    /\ \A i \in 1 .. Len(k.files) : i < k.next => k.chunk[i] # "none"
    /\ \A i \in 1 .. Len(k.files) : k.chunk[i] = "taken" =>
         i < k.pos \/ (i = k.pos /\ k.at \in {"write", "abort"})
    /\ k.cancelled <=> k.at = "abort"
    /\ k.at \in {"check", "wait", "write"} /\ ~k.on /\ k.next <= Len(k.files) => c \in ctx

AllAwaited == \A c \in Calls : Awaited(c)

(* No call is ever stuck, neither the writer on a chunk nobody fetches nor *)
(* the producer on a slot nobody frees nor wg.Wait on either.              *)
CallsReady == \A c \in Calls : ~AtRest(m[c]) => MergeReady(c)
=============================================================================
