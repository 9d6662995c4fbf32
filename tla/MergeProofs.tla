---------------------------- MODULE MergeProofs -----------------------------
(* Proofs about the merges: MergeInv is inductive.                         *)
EXTENDS Merge, SequenceTheorems, FiniteSetTheorems, TLAPS

(* A step of one call keeps the invariant when it keeps that call's part.  *)
LEMMA OneCall ==
  ASSUME NEW c \in Calls, NEW k, MergeInv, CallOK(k), m' = [m EXCEPT ![c] = k]
  PROVE  MergeInv'
  BY DEF MergeInv, CallOK

LEMMA NoCallOK == CallOK(NoCall)
  BY MergeAssumption DEF NoCall, CallOK, CallType, Window, Written, Rested, AtRest, WriterStates

(* The fields a step sets.                                                 *)
LEMMA TypedMove ==
  ASSUME NEW k \in CallType, NEW a \in WriterStates, NEW b \in BOOLEAN
  PROVE  /\ [k EXCEPT !.at = a] \in CallType
         /\ [k EXCEPT !.on = b] \in CallType
         /\ [k EXCEPT !.at = a, !.cancelled = b] \in CallType
  BY DEF CallType

LEMMA TypedProduce ==
  ASSUME NEW k \in CallType, NEW n \in Nat, NEW b \in BOOLEAN,
         NEW ch \in Seq(ChunkStates), NEW d \in SUBSET Nat, NEW s \in Int
  PROVE  [k EXCEPT !.slots = s, !.next = n, !.on = b, !.chunk = ch, !.disk = d] \in CallType
  BY DEF CallType

LEMMA TypedAppend ==
  ASSUME NEW k \in CallType, NEW out \in Seq(Files), NEW d \in SUBSET Nat, NEW s \in Int,
         NEW g \in Nat, NEW p \in Nat, NEW a \in WriterStates
  PROVE  [k EXCEPT !.out = out, !.disk = d, !.slots = s, !.got = g, !.pos = p, !.at = a]
           \in CallType
  BY DEF CallType

LEMMA TypedBegin ==
  ASSUME NEW k \in CallType, NEW files \in Seq(Files), NEW ch \in Seq(ChunkStates),
         NEW a \in WriterStates, NEW b \in BOOLEAN
  PROVE  [k EXCEPT !.at = a, !.files = files, !.on = b, !.raw = b, !.chunk = ch] \in CallType
  BY DEF CallType

LEMMA NoCallErrOK == CallOK([NoCall EXCEPT !.at = "err"])
<1> DEFINE k == [NoCall EXCEPT !.at = "err"]
<1>1. k \in CallType
  BY NoCallOK, TypedMove DEF CallOK, WriterStates
<1>2. Window(k)
  BY MergeAssumption DEF NoCall, Window
<1>3. Written(k)
  BY DEF NoCall, Written
<1>4. Rested(k)
  BY DEF NoCall, Rested, AtRest
<1> QED BY <1>1, <1>2, <1>3, <1>4 DEF CallOK

LEMMA BeginKeeps ==
  ASSUME NEW c \in Calls, MergeInv, NEW files \in Seq(Files), MergeRawAudio(c, files)
  PROVE  MergeInv'
<1> DEFINE ch == [i \in 1 .. Len(files) |-> "none"]
           k == [NoCall EXCEPT !.at = "check", !.files = files, !.on = TRUE, !.raw = TRUE,
                               !.chunk = ch]
<1>1. ch \in Seq(ChunkStates) /\ Len(ch) = Len(files)
  BY DEF ChunkStates
<1>2. \A i \in 1 .. Len(files) : ch[i] = "none"
  OBVIOUS
<1>3. files # <<>> /\ Len(files) \in Nat /\ Len(files) >= 1
  BY EmptySeq DEF MergeRawAudio
<1> HIDE DEF ch
<1>4. CallOK(k)
  <2>1. k \in CallType
    BY <1>1, NoCallOK, TypedBegin DEF CallOK, WriterStates
  <2>2. Window(k)
    BY <1>1, <1>2, <1>3, MergeAssumption DEF NoCall, Window
  <2>3. Written(k)
    BY <1>3 DEF NoCall, Written
  <2>4. Rested(k)
    BY DEF NoCall, Rested, AtRest
  <2> QED BY <2>1, <2>2, <2>3, <2>4 DEF CallOK
<1>5. m' = [m EXCEPT ![c] = k]
  BY DEF MergeRawAudio, ch
<1> QED BY <1>4, <1>5, OneCall

(* What the invariant says of one call.                                    *)
LEMMA CallFacts ==
  ASSUME NEW c \in Calls, MergeInv
  PROVE  /\ m \in [Calls -> CallType] /\ DOMAIN m = Calls
         /\ m[c] \in CallType /\ CallOK(m[c])
  BY DEF MergeInv

(* The positions of the writer and the producer.                           *)
LEMMA Positions ==
  ASSUME NEW c \in Calls, MergeInv
  PROVE  /\ Len(m[c].files) \in Nat /\ m[c].pos \in Nat /\ m[c].next \in Nat
         /\ m[c].chunk \in Seq(ChunkStates) /\ Len(m[c].chunk) = Len(m[c].files)
         /\ 1 <= m[c].pos /\ m[c].pos <= m[c].next
         /\ m[c].on => m[c].next <= Len(m[c].files) /\ ~AtRest(m[c])
         /\ m[c].at \in {"check", "wait", "write"} => m[c].pos <= Len(m[c].files)
<1>1. m[c] \in CallType /\ Window(m[c]) /\ Written(m[c]) /\ Rested(m[c])
  BY CallFacts DEF CallOK
<1>2. /\ Len(m[c].files) \in Nat /\ m[c].pos \in Nat /\ m[c].next \in Nat
      /\ m[c].chunk \in Seq(ChunkStates)
  BY <1>1 DEF CallType
<1>3. /\ Len(m[c].chunk) = Len(m[c].files) /\ 1 <= m[c].pos /\ m[c].pos <= m[c].next
      /\ m[c].on => m[c].next <= Len(m[c].files)
  BY <1>1 DEF Window
<1>4. m[c].at \in {"check", "wait", "write"} => m[c].pos <= Len(m[c].files)
  BY <1>1 DEF Written
<1>5. m[c].on => ~AtRest(m[c])
  BY <1>1 DEF Rested
<1> QED BY <1>2, <1>3, <1>4, <1>5

(* The producer asks for a chunk: what becomes of the call.                *)
LEMMA Produced ==
  ASSUME NEW c \in Calls, MergeInv, Produce(c)
  PROVE  /\ m'[c] = [m[c] EXCEPT !.slots = m[c].slots + 1, !.next = m[c].next + 1,
                                 !.on = m[c].next < Len(m[c].files),
                                 !.chunk = [m[c].chunk EXCEPT ![m[c].next] = "get"],
                                 !.disk = m[c].disk \cup {m[c].next}]
         /\ m'[c].at = m[c].at /\ m'[c].files = m[c].files /\ m'[c].pos = m[c].pos
         /\ m'[c].next = m[c].next + 1 /\ m'[c].on = (m[c].next < Len(m[c].files))
         /\ m'[c].cancelled = m[c].cancelled
         /\ m'[c].chunk = [m[c].chunk EXCEPT ![m[c].next] = "get"]
<1> DEFINE o == m[c]
           on == o.next < Len(o.files)
           ch == [o.chunk EXCEPT ![o.next] = "get"]
           disk == o.disk \cup {o.next}
           next == o.next + 1
           slots == o.slots + 1
           k == m'[c]
<1>1. o \in CallType /\ DOMAIN m = Calls
  BY CallFacts
<1>2. k = [o EXCEPT !.slots = slots, !.next = next, !.on = on, !.chunk = ch, !.disk = disk]
  BY <1>1 DEF Produce, CallType, Size
<1> HIDE DEF o, on, ch, disk, next, slots, k
<1>3. /\ k.at = o.at /\ k.files = o.files /\ k.pos = o.pos /\ k.next = next
      /\ k.on = on /\ k.cancelled = o.cancelled /\ k.chunk = ch
  BY <1>1, <1>2 DEF CallType
<1> QED BY <1>2, <1>3 DEF o, on, ch, disk, next, slots, k

(* The writer appends a chunk.                                             *)
LEMMA Appended ==
  ASSUME NEW c \in Calls, MergeInv, AppendChunk(c)
  PROVE  /\ m'[c] = [m[c] EXCEPT !.out = Append(m[c].out, m[c].files[m[c].got]),
                                 !.disk = m[c].disk \ {m[c].got}, !.slots = m[c].slots - 1,
                                 !.got = 0, !.pos = m[c].pos + 1,
                                 !.at = IF m[c].pos = Len(m[c].files) THEN "join" ELSE "check"]
         /\ m'[c].at = IF m[c].pos = Len(m[c].files) THEN "join" ELSE "check"
         /\ m'[c].files = m[c].files /\ m'[c].pos = m[c].pos + 1
         /\ m'[c].on = m[c].on /\ m'[c].next = m[c].next /\ m'[c].chunk = m[c].chunk
         /\ m'[c].cancelled = m[c].cancelled
<1> DEFINE o == m[c]
           out == Append(o.out, o.files[o.got])
           disk == o.disk \ {o.got}
           slots == o.slots - 1
           pos == o.pos + 1
           at == IF o.pos = Len(o.files) THEN "join" ELSE "check"
           k == m'[c]
<1>1. o \in CallType /\ DOMAIN m = Calls
  BY CallFacts
<1>2. k = [o EXCEPT !.out = out, !.disk = disk, !.slots = slots, !.got = 0, !.pos = pos,
                    !.at = at]
  BY <1>1 DEF AppendChunk, CallType, Size
<1> HIDE DEF o, out, disk, slots, pos, at, k
<1>3. /\ k.at = at /\ k.files = o.files /\ k.pos = pos /\ k.on = o.on
      /\ k.next = o.next /\ k.chunk = o.chunk /\ k.cancelled = o.cancelled
  BY <1>1, <1>2 DEF CallType
<1> QED BY <1>2, <1>3 DEF o, out, disk, slots, pos, at, k

(* Only call c has changed.                                                *)
LEMMA OthersStay ==
  ASSUME NEW c \in Calls, MergeInv, Produce(c) \/ AppendChunk(c), CallOK(m'[c])
  PROVE  MergeInv'
<1>1. \A q \in Calls : q # c => m'[q] = m[q]
  BY CallFacts DEF Produce, AppendChunk
<1>2. m'[c] \in CallType
  BY DEF CallOK
<1>3. m' \in [Calls -> CallType]
  <2>1. CASE Produce(c)      BY <1>2, <2>1, CallFacts DEF Produce
  <2>2. CASE AppendChunk(c)  BY <1>2, <2>2, CallFacts DEF AppendChunk
  <2> QED BY <2>1, <2>2
<1>4. \A q \in Calls : CallOK(m[q])
  BY DEF MergeInv
<1>5. \A q \in Calls : CallOK(m'[q])
  BY <1>1, <1>4
<1> QED BY <1>3, <1>5 DEF MergeInv, CallOK

LEMMA ProduceKeeps ==
  ASSUME NEW c \in Calls, MergeInv, Produce(c)
  PROVE  MergeInv'
<1> DEFINE o == m[c]
           ch == [o.chunk EXCEPT ![o.next] = "get"]
           on == o.next < Len(o.files)
           disk == o.disk \cup {o.next}
           k == [o EXCEPT !.slots = o.slots + 1, !.next = o.next + 1,
                          !.on = on, !.chunk = ch, !.disk = disk]
<1>1. m'[c] = k
  BY Produced
<1>2. CallOK(o) /\ o.on /\ o.slots < Concurrency
  BY DEF Produce, MergeInv
<1>3. o.next \in 1 .. Len(o.files) /\ "get" \in ChunkStates
  BY <1>2 DEF CallOK, CallType, Window, ChunkStates
<1>4. ch \in Seq(ChunkStates) /\ Len(ch) = Len(o.chunk)
      /\ \A i \in 1 .. Len(o.chunk) : ch[i] = IF i = o.next THEN "get" ELSE o.chunk[i]
  BY <1>2, <1>3, ExceptSeq DEF CallOK, CallType, Window
<1>5. on \in BOOLEAN /\ (on <=> o.next < Len(o.files))
  OBVIOUS
<1>6. disk \in SUBSET Nat
  BY <1>2, <1>3 DEF CallOK, CallType
<1>7. \A i \in disk : i \in o.disk \/ i = o.next
  OBVIOUS
<1> HIDE DEF ch, o, on, disk
<1>8. k \in CallType
  <2>1. o.slots + 1 \in Int /\ o.next + 1 \in Nat /\ o \in CallType
    BY <1>2 DEF CallOK, CallType
  <2> QED BY <1>4, <1>5, <1>6, <2>1, TypedProduce
<1>9. /\ k.at = o.at /\ k.files = o.files /\ k.next = o.next + 1 /\ k.chunk = ch
      /\ k.slots = o.slots + 1 /\ k.pos = o.pos /\ k.got = o.got /\ k.out = o.out
      /\ k.disk = disk /\ k.on = on /\ k.raw = o.raw
  BY <1>2 DEF CallOK, CallType
<1> HIDE DEF k
<1>10. Window(k)
  <2> USE <1>2, <1>3, <1>9 DEF CallOK, CallType, Window
  <2>1. Len(k.chunk) = Len(k.files)
    BY <1>4
  <2>2. /\ 1 <= k.pos /\ k.pos <= k.next /\ k.next <= Len(k.files) + 1
        /\ k.slots = k.next - k.pos /\ k.slots <= Concurrency
    BY MergeAssumption
  <2>3. k.on => k.next <= Len(k.files)
    BY <1>5
  <2>4. ASSUME NEW i \in 1 .. Len(k.files), k.chunk[i] # "none"
        PROVE  i < k.next
    <3>1. i = o.next \/ o.chunk[i] # "none"
      BY <1>4, <2>4
    <3> QED BY <3>1
  <2>5. ASSUME NEW i \in k.disk
        PROVE  k.pos <= i /\ i < k.next
    <3>1. i \in Nat /\ (i \in o.disk \/ i = o.next)
      BY <1>6, <1>7
    <3> QED BY <3>1
  <2> QED BY <2>1, <2>2, <2>3, <2>4, <2>5
<1>11. Written(k)
  BY <1>2, <1>3, <1>9 DEF CallOK, CallType, Written, Window
<1>12. Rested(k)
  BY <1>2, <1>9 DEF CallOK, CallType, Rested, AtRest
<1>13. CallOK(m'[c])
  BY <1>1, <1>8, <1>10, <1>11, <1>12 DEF CallOK
<1> QED BY <1>13, OthersStay

LEMMA RefusedKeeps ==
  ASSUME NEW c \in Calls, MergeInv, MergeRefused(c)
  PROVE  MergeInv'
<1> DEFINE o == m[c]
           k == [o EXCEPT !.at = "err"]
<1>1. m' = [m EXCEPT ![c] = k]
  BY DEF MergeRefused, MergeInv, CallType
<1>2. CallOK(o) /\ o.at = "none"
  BY DEF MergeRefused, MergeInv
<1> HIDE DEF o
<1>3. k \in CallType
  BY <1>2, TypedMove DEF CallOK, WriterStates
<1>4. /\ k.at = "err" /\ k.files = o.files /\ k.next = o.next /\ k.chunk = o.chunk
      /\ k.slots = o.slots /\ k.pos = o.pos /\ k.got = o.got /\ k.out = o.out
      /\ k.disk = o.disk /\ k.on = o.on /\ k.raw = o.raw
  BY <1>2 DEF CallOK, CallType
<1> HIDE DEF k
<1>5. Window(k)
  BY <1>2, <1>4 DEF CallOK, Window
<1>6. Written(k)
  BY <1>2, <1>4 DEF CallOK, Written
<1>7. Rested(k)
  BY <1>2, <1>4 DEF CallOK, Rested, AtRest
<1> QED BY <1>1, <1>3, <1>5, <1>6, <1>7, OneCall DEF CallOK

LEMMA StopKeeps ==
  ASSUME NEW c \in Calls, MergeInv, ProducerStops(c)
  PROVE  MergeInv'
<1> DEFINE o == m[c]
           k == [o EXCEPT !.on = FALSE]
<1>1. m' = [m EXCEPT ![c] = k]
  BY DEF ProducerStops, MergeInv, CallType
<1>2. CallOK(o) /\ o.on
  BY DEF ProducerStops, MergeInv
<1> HIDE DEF o
<1>3. k \in CallType
  BY <1>2, TypedMove, "none" \in WriterStates DEF CallOK, WriterStates
<1>4. /\ k.at = o.at /\ k.files = o.files /\ k.next = o.next /\ k.chunk = o.chunk
      /\ k.slots = o.slots /\ k.pos = o.pos /\ k.got = o.got /\ k.out = o.out
      /\ k.disk = o.disk /\ k.raw = o.raw /\ ~k.on
  BY <1>2 DEF CallOK, CallType
<1> HIDE DEF k
<1>5. Window(k)
  BY <1>2, <1>4 DEF CallOK, Window
<1>6. Written(k)
  BY <1>2, <1>4 DEF CallOK, Written
<1>7. Rested(k)
  BY <1>2, <1>4 DEF CallOK, Rested, AtRest
<1> QED BY <1>1, <1>3, <1>5, <1>6, <1>7, OneCall DEF CallOK

(* A download ends, well or not.                                           *)
LEMMA DownloadKeeps ==
  ASSUME NEW c \in Calls, MergeInv, NEW i \in 1 .. Size(c), m[c].chunk[i] = "get",
         NEW result \in {"ok", "err"}, m' = [m EXCEPT ![c].chunk[i] = result]
  PROVE  MergeInv'
<1> DEFINE o == m[c]
           ch == [o.chunk EXCEPT ![i] = result]
           k == [o EXCEPT !.chunk = ch]
<1>1. m' = [m EXCEPT ![c] = k]
  BY DEF MergeInv, CallType
<1>2. CallOK(o) /\ o.chunk[i] = "get" /\ i \in 1 .. Len(o.files)
  BY DEF MergeInv, Size
<1>3. /\ ch \in Seq(ChunkStates) /\ Len(ch) = Len(o.chunk)
      /\ \A j \in 1 .. Len(o.chunk) : ch[j] = IF j = i THEN result ELSE o.chunk[j]
  <2>1. o.chunk \in Seq(ChunkStates) /\ i \in 1 .. Len(o.chunk) /\ result \in ChunkStates
    BY <1>2 DEF CallOK, CallType, Window, ChunkStates
  <2> QED BY <2>1, ExceptSeq
<1> HIDE DEF ch, o
<1>4. k \in CallType
  BY <1>2, <1>3 DEF CallOK, CallType
<1>5. /\ k.at = o.at /\ k.files = o.files /\ k.next = o.next /\ k.chunk = ch
      /\ k.slots = o.slots /\ k.pos = o.pos /\ k.got = o.got /\ k.out = o.out
      /\ k.disk = o.disk /\ k.on = o.on /\ k.raw = o.raw
  BY <1>2 DEF CallOK, CallType
<1> HIDE DEF k
<1>6. Window(k)
  BY <1>2, <1>3, <1>5 DEF CallOK, Window
<1>7. Written(k)
  BY <1>2, <1>5 DEF CallOK, Written
<1>8. Rested(k)
  <2>1. ~AtRest(o)
    BY <1>2 DEF CallOK, Rested
  <2> QED BY <1>2, <1>5, <2>1 DEF CallOK, Rested, AtRest
<1> QED BY <1>1, <1>4, <1>6, <1>7, <1>8, OneCall DEF CallOK

(* A running writer gives up, or goes on to wait for its chunk.            *)
LEMMA WriterMoves ==
  ASSUME NEW c \in Calls, MergeInv, NEW a \in {"wait", "abort"}, NEW b \in BOOLEAN,
         m[c].at \in {"check", "wait", "write"}, a = "abort" \/ m[c].at = "check",
         m' = [m EXCEPT ![c].at = a, ![c].cancelled = b]
  PROVE  MergeInv'
<1> DEFINE o == m[c]
           k == [o EXCEPT !.at = a, !.cancelled = b]
<1>1. m' = [m EXCEPT ![c] = k]
  BY DEF MergeInv, CallType
<1>2. CallOK(o) /\ o.at \in {"check", "wait", "write"} /\ (a = "abort" \/ o.at = "check")
  BY DEF MergeInv
<1> HIDE DEF o
<1>3. k \in CallType
  BY <1>2, TypedMove DEF CallOK, WriterStates
<1>4. /\ k.at = a /\ k.files = o.files /\ k.next = o.next /\ k.chunk = o.chunk
      /\ k.slots = o.slots /\ k.pos = o.pos /\ k.got = o.got /\ k.out = o.out
      /\ k.disk = o.disk /\ k.on = o.on /\ k.raw = o.raw
  BY <1>2 DEF CallOK, CallType
<1> HIDE DEF k
<1>5. Window(k)
  BY <1>2, <1>4 DEF CallOK, Window
<1>6. Written(k)
  BY <1>2, <1>4 DEF CallOK, Written
<1>7. Rested(k)
  BY <1>2, <1>4 DEF CallOK, Rested, AtRest
<1> QED BY <1>1, <1>3, <1>5, <1>6, <1>7, OneCall DEF CallOK

LEMMA AbortKeeps ==
  ASSUME NEW c \in Calls, MergeInv, m[c].at \in {"check", "wait", "write"}, abort(c)
  PROVE  MergeInv'
  BY WriterMoves DEF abort

LEMMA CheckKeeps ==
  ASSUME NEW c \in Calls, MergeInv, CheckContext(c)
  PROVE  MergeInv'
<1>1. CASE c \in ctx
  BY <1>1, AbortKeeps DEF CheckContext
<1>2. CASE c \notin ctx
  <2>1. m' = [m EXCEPT ![c].at = "wait", ![c].cancelled = m[c].cancelled]
    BY <1>2 DEF CheckContext, MergeInv, CallType
  <2>2. m[c].cancelled \in BOOLEAN /\ m[c].at = "check"
    BY DEF CheckContext, MergeInv, CallType
  <2> QED BY <2>1, <2>2, WriterMoves
<1> QED BY <1>1, <1>2

LEMMA ReceiveKeeps ==
  ASSUME NEW c \in Calls, MergeInv, Receive(c)
  PROVE  MergeInv'
<1> DEFINE o == m[c]
           ch == [o.chunk EXCEPT ![o.pos] = "taken"]
           k == [o EXCEPT !.at = "write", !.got = o.pos, !.chunk = ch]
<1>1. CASE o.chunk[o.pos] = "err" /\ abort(c)
  BY <1>1, AbortKeeps DEF Receive
<1>2. CASE ~(o.chunk[o.pos] = "err" /\ abort(c))
  <2>1. m' = [m EXCEPT ![c] = k]
    <3>1. m' = [m EXCEPT ![c].at = "write", ![c].got = m[c].pos, ![c].chunk[m[c].pos] = "taken"]
      BY <1>2 DEF Receive
    <3> QED BY <3>1 DEF MergeInv, CallType
  <2>2. CallOK(o) /\ o.at = "wait" /\ o.chunk[o.pos] = "ok"
    BY <1>2 DEF Receive, MergeInv
  <2>3. o.pos \in 1 .. Len(o.files) /\ o.pos < o.next
    BY <2>2 DEF CallOK, CallType, Window, Written
  <2>4. /\ ch \in Seq(ChunkStates) /\ Len(ch) = Len(o.chunk)
        /\ \A j \in 1 .. Len(o.chunk) : ch[j] = IF j = o.pos THEN "taken" ELSE o.chunk[j]
    <3>1. o.chunk \in Seq(ChunkStates) /\ o.pos \in 1 .. Len(o.chunk) /\ "taken" \in ChunkStates
      BY <2>2, <2>3 DEF CallOK, CallType, Window, ChunkStates
    <3> QED BY <3>1, ExceptSeq
  <2> HIDE DEF ch, o
  <2>5. k \in CallType
    BY <2>2, <2>4 DEF CallOK, CallType, WriterStates
  <2>6. /\ k.at = "write" /\ k.files = o.files /\ k.next = o.next /\ k.chunk = ch
        /\ k.slots = o.slots /\ k.pos = o.pos /\ k.got = o.pos /\ k.out = o.out
        /\ k.disk = o.disk /\ k.on = o.on /\ k.raw = o.raw
    BY <2>2 DEF CallOK, CallType
  <2> HIDE DEF k
  <2>7. Window(k)
    BY <2>2, <2>3, <2>4, <2>6 DEF CallOK, Window
  <2>8. Written(k)
    BY <2>2, <2>3, <2>6 DEF CallOK, Written
  <2>9. Rested(k)
    BY <2>2, <2>6 DEF CallOK, Rested, AtRest
  <2> QED BY <2>1, <2>5, <2>7, <2>8, <2>9, OneCall DEF CallOK
<1> QED BY <1>1, <1>2

LEMMA AppendKeeps ==
  ASSUME NEW c \in Calls, MergeInv, AppendChunk(c)
  PROVE  MergeInv'
<1> DEFINE o == m[c]
           out == Append(o.out, o.files[o.got])
           disk == o.disk \ {o.got}
           at == IF o.pos = Len(o.files) THEN "join" ELSE "check"
           k == [o EXCEPT !.out = out, !.disk = disk, !.slots = o.slots - 1, !.got = 0,
                          !.pos = o.pos + 1, !.at = at]
<1>1. m'[c] = k
  BY Appended
<1>2. CallOK(o) /\ o.at = "write"
  BY DEF AppendChunk, MergeInv
<1>3. o.pos \in 1 .. Len(o.files) /\ o.pos < o.next /\ o.got = o.pos
      /\ Len(o.out) = o.pos - 1
  BY <1>2 DEF CallOK, CallType, Window, Written
<1>4. /\ out \in Seq(Files) /\ Len(out) = o.pos
      /\ \A i \in 1 .. o.pos : out[i] = o.files[i]
  <2>1. o.out \in Seq(Files) /\ o.files[o.pos] \in Files
        /\ \A i \in 1 .. o.pos - 1 : o.out[i] = o.files[i]
    BY <1>2, <1>3, ElementOfSeq DEF CallOK, CallType, Written
  <2> QED BY <1>3, <2>1
<1>5. disk \in SUBSET Nat /\ \A i \in disk : i \in o.disk /\ i # o.pos
  BY <1>2, <1>3 DEF CallOK, CallType
<1>6. at \in WriterStates
  BY DEF WriterStates
<1>7. /\ at = "join" <=> o.pos = Len(o.files)
      /\ at \in {"join", "check"}
  OBVIOUS
<1> HIDE DEF o, out, disk, at
<1>8. k \in CallType
  <2>1. o.slots - 1 \in Int /\ o.pos + 1 \in Nat /\ 0 \in Nat /\ o \in CallType
    BY <1>2 DEF CallOK, CallType
  <2> QED BY <1>4, <1>5, <1>6, <2>1, TypedAppend
<1>9. /\ k.at = at /\ k.files = o.files /\ k.next = o.next /\ k.chunk = o.chunk
      /\ k.slots = o.slots - 1 /\ k.pos = o.pos + 1 /\ k.out = out
      /\ k.disk = disk /\ k.on = o.on /\ k.raw = o.raw
  BY <1>2 DEF CallOK, CallType
<1> HIDE DEF k
<1>10. Window(k)
  <2>1. ASSUME NEW i \in k.disk
        PROVE  k.pos <= i /\ i < k.next
    <3>1. i \in Nat /\ i \in o.disk /\ i # o.pos
      BY <1>5, <1>9
    <3> QED BY <1>2, <1>3, <1>9, <3>1 DEF CallOK, CallType, Window
  <2> QED BY <1>2, <1>3, <1>9, <2>1, MergeAssumption DEF CallOK, CallType, Window
<1>11. Written(k)
  BY <1>2, <1>3, <1>4, <1>7, <1>9 DEF CallOK, CallType, Written
<1>12. Rested(k)
  BY <1>2, <1>7, <1>9 DEF CallOK, Rested, AtRest
<1>13. CallOK(m'[c])
  BY <1>1, <1>8, <1>10, <1>11, <1>12 DEF CallOK
<1> QED BY <1>13, OthersStay

LEMMA SucceedKeeps ==
  ASSUME NEW c \in Calls, MergeInv, Succeed(c)
  PROVE  MergeInv'
<1> DEFINE o == m[c]
           k == [o EXCEPT !.at = "ok", !.disk = {}]
<1>1. m' = [m EXCEPT ![c] = k]
  BY DEF Succeed, MergeInv, CallType
<1>2. /\ CallOK(o) /\ o.at = "join" /\ ~o.on
      /\ \A i \in 1 .. Len(o.files) : o.chunk[i] # "get"
  BY DEF Succeed, MergeInv, Quiet, Downloading, Size
<1> HIDE DEF o
<1>3. k \in CallType
  BY <1>2 DEF CallOK, CallType, WriterStates
<1>4. /\ k.at = "ok" /\ k.files = o.files /\ k.next = o.next /\ k.chunk = o.chunk
      /\ k.slots = o.slots /\ k.pos = o.pos /\ k.got = o.got /\ k.out = o.out
      /\ k.disk = {} /\ k.on = o.on /\ k.raw = o.raw
  BY <1>2 DEF CallOK, CallType
<1> HIDE DEF k
<1>5. Window(k)
  BY <1>2, <1>4 DEF CallOK, Window
<1>6. Written(k)
  BY <1>2, <1>4 DEF CallOK, Written
<1>7. Rested(k)
  BY <1>2, <1>4 DEF CallOK, Rested, AtRest
<1> QED BY <1>1, <1>3, <1>5, <1>6, <1>7, OneCall DEF CallOK

LEMMA FailKeeps ==
  ASSUME NEW c \in Calls, MergeInv, Fail(c)
  PROVE  MergeInv'
  BY NoCallErrOK, OneCall DEF Fail

(* Every step of a call that has begun.                                    *)
LEMMA StepKeeps ==
  ASSUME NEW c \in Calls, MergeInv, MergeStep(c)
  PROVE  MergeInv'
<1>1. CASE CheckContext(c)     BY <1>1, CheckKeeps
<1>2. CASE Receive(c)          BY <1>2, ReceiveKeeps
<1>3. CASE ContextEndsWait(c)  BY <1>3, AbortKeeps DEF ContextEndsWait
<1>4. CASE AppendChunk(c)      BY <1>4, AppendKeeps
<1>5. CASE Succeed(c)          BY <1>5, SucceedKeeps
<1>6. CASE Fail(c)             BY <1>6, FailKeeps
<1>7. CASE AppendFails(c)      BY <1>7, AbortKeeps DEF AppendFails
<1>8. CASE Produce(c)          BY <1>8, ProduceKeeps
<1>9. CASE ProducerStops(c)    BY <1>9, StopKeeps
<1>10. ASSUME NEW i \in 1 .. Size(c), Downloaded(c, i)
       PROVE  MergeInv'
  BY <1>10, DownloadKeeps DEF Downloaded
<1>11. ASSUME NEW i \in 1 .. Size(c), DownloadFails(c, i)
       PROVE  MergeInv'
  BY <1>11, DownloadKeeps DEF DownloadFails
<1> QED BY <1>1, <1>2, <1>3, <1>4, <1>5, <1>6, <1>7, <1>8, <1>9, <1>10, <1>11
        DEF MergeStep, Writer, Producer, Downloader

(* Only a call that has begun and not returned steps, it steps alone, and  *)
(* keeps its files until it fails.                                         *)
StepFacts(c) ==
  /\ ~AtRest(m[c]) /\ m'[c].at # "none"
  /\ m'[c].at # "err" => m'[c].files = m[c].files
  /\ \A d \in Calls \ {c} : m'[d] = m[d]
  /\ UNCHANGED <<ctx, stored>>
  /\ faults' = faults \/ Fault

LEMMA StepIsLocal ==
  ASSUME NEW c \in Calls, MergeInv, MergeStep(c)
  PROVE  StepFacts(c)
<1>1. /\ m[c] \in CallType /\ m \in [Calls -> CallType]
      /\ AtRest(m[c]) => ~m[c].on /\ \A i \in 1 .. Size(c) : m[c].chunk[i] # "get"
      /\ AtRest(m[c]) <=> m[c].at \in {"none", "ok", "err"}
  BY DEF MergeInv, CallOK, Rested, Size, AtRest
<1>2. CASE CheckContext(c)
  BY <1>1, <1>2 DEF CheckContext, abort, StepFacts, CallType
<1>3. CASE Receive(c)
  BY <1>1, <1>3 DEF Receive, abort, StepFacts, CallType
<1>4. CASE ContextEndsWait(c)
  BY <1>1, <1>4 DEF ContextEndsWait, abort, StepFacts, CallType
<1>5. CASE AppendChunk(c)
  BY <1>1, <1>5 DEF AppendChunk, StepFacts, CallType
<1>6. CASE Succeed(c)
  BY <1>1, <1>6 DEF Succeed, StepFacts, CallType
<1>7. CASE Fail(c)
  BY <1>1, <1>7 DEF Fail, StepFacts, NoCall
<1>8. CASE AppendFails(c)
  BY <1>1, <1>8 DEF AppendFails, abort, StepFacts, CallType
<1>9. CASE Produce(c)
  BY <1>1, <1>9 DEF Produce, StepFacts, CallType
<1>10. CASE ProducerStops(c)
  BY <1>1, <1>10 DEF ProducerStops, StepFacts, CallType
<1>11. ASSUME NEW i \in 1 .. Size(c), Downloaded(c, i)
       PROVE  StepFacts(c)
  BY <1>1, <1>11 DEF Downloaded, StepFacts, CallType
<1>12. ASSUME NEW i \in 1 .. Size(c), DownloadFails(c, i)
       PROVE  StepFacts(c)
  BY <1>1, <1>12 DEF DownloadFails, StepFacts, CallType
<1> QED BY <1>2, <1>3, <1>4, <1>5, <1>6, <1>7, <1>8, <1>9, <1>10, <1>11, <1>12
        DEF MergeStep, Writer, Producer, Downloader

-----------------------------------------------------------------------------
(* What the invariant says of the calls.                                   *)

LEMMA InvInOrder == MergeInv => MergedInOrder
<1> SUFFICES ASSUME MergeInv, NEW c \in Calls
             PROVE  /\ m[c].out = SubSeq(m[c].files, 1, Len(m[c].out))
                    /\ m[c].at = "ok" => m[c].out = m[c].files
  BY DEF MergedInOrder
<1> DEFINE k == m[c]
           n == Len(k.out)
<1>1. /\ k.out \in Seq(Files) /\ k.files \in Seq(Files) /\ n <= Len(k.files)
      /\ \A i \in 1 .. n : k.out[i] = k.files[i]
      /\ k.at = "ok" => n = Len(k.files)
  BY DEF MergeInv, CallOK, CallType, Window, Written
<1> HIDE DEF k
<1>2. \A i \in 1 .. n : k.files[i] \in Files
  BY <1>1, ElementOfSeq
<1>3. /\ SubSeq(k.files, 1, n) \in Seq(Files) /\ Len(SubSeq(k.files, 1, n)) = n
      /\ \A i \in 1 .. n : SubSeq(k.files, 1, n)[i] = k.files[i]
  BY <1>1, <1>2, SubSeqProperties
<1>4. k.out = SubSeq(k.files, 1, n)
  BY <1>1, <1>3, SeqEqual
<1>5. k.at = "ok" => k.out = k.files
  BY <1>1, SeqEqual
<1> QED BY <1>4, <1>5 DEF k

LEMMA InvBounded == MergeInv => ScratchBounded
<1> SUFFICES ASSUME MergeInv, NEW c \in Calls
             PROVE  Cardinality(m[c].disk) <= Concurrency
  BY DEF ScratchBounded
<1> DEFINE k == m[c]
           W == k.pos .. k.next - 1
<1>1. /\ k.pos \in Nat /\ k.next \in Nat /\ k.pos <= k.next
      /\ k.next - k.pos <= Concurrency
      /\ k.disk \in SUBSET W
  BY DEF MergeInv, CallOK, CallType, Window
<1>2. IsFiniteSet(W) /\ Cardinality(W) = k.next - k.pos
  <2>1. k.pos \in Int /\ k.next - 1 \in Int
    BY <1>1
  <2>2. IsFiniteSet(W) /\ Cardinality(W) = IF k.pos > k.next - 1 THEN 0
                                           ELSE (k.next - 1) - k.pos + 1
    BY <2>1, FS_Interval
  <2> QED BY <1>1, <2>2
<1>3. IsFiniteSet(k.disk) /\ Cardinality(k.disk) <= Cardinality(W)
  BY <1>1, <1>2, FS_Subset
<1>4. Cardinality(k.disk) \in Nat
  BY <1>3, FS_CardinalityType
<1> QED BY <1>1, <1>2, <1>3, <1>4, MergeAssumption

LEMMA InvNothingOutlives == MergeInv => NothingOutlives
  BY DEF MergeInv, NothingOutlives, CallOK, Rested, AtRest, Quiet, Downloading, Size

-----------------------------------------------------------------------------
(* Every step of a call is one of its last.                                *)

(* The parts of the bound are numbers.                                     *)
LEMMA LeftTyped ==
  ASSUME NEW k, CallOK(k)
  PROVE  /\ WriterLeft(k) \in Nat /\ ProducerLeft(k) \in Nat /\ DownloadsLeft(k) \in Nat
         /\ StepsLeft(k) \in Nat
<1>1. /\ Len(k.files) \in Nat /\ k.pos \in Nat /\ k.next \in Nat
      /\ k.at \in {"check", "wait", "write"} => k.pos <= Len(k.files)
      /\ k.on => k.next <= Len(k.files)
  BY DEF CallOK, CallType, Window, Written
<1>2. WriterLeft(k) \in Nat
  BY <1>1 DEF WriterLeft
<1>3. ProducerLeft(k) \in Nat
  BY <1>1 DEF ProducerLeft
<1>4. DownloadsLeft(k) \in Nat
  <2>1. IsFiniteSet(1 .. Len(k.files))
    <3>1. 1 \in Int /\ Len(k.files) \in Int
      BY <1>1
    <3> QED BY <3>1, FS_Interval
  <2>2. IsFiniteSet({i \in 1 .. Len(k.files) : k.chunk[i] = "get"})
    BY <2>1, FS_Subset
  <2> QED BY <2>2, FS_CardinalityType DEF DownloadsLeft
<1> QED BY <1>2, <1>3, <1>4 DEF StepsLeft

(* A download that begins is one more, one that ends one less.             *)
LEMMA DownloadsCount ==
  ASSUME NEW o, NEW k, k.files = o.files, Len(o.files) \in Nat, NEW j \in 1 .. Len(o.files),
         \A i \in 1 .. Len(o.files) : i # j => k.chunk[i] = o.chunk[i]
  PROVE  /\ DownloadsLeft(o) \in Nat
         /\ o.chunk[j] # "get" /\ k.chunk[j] = "get" => DownloadsLeft(k) = DownloadsLeft(o) + 1
         /\ o.chunk[j] = "get" /\ k.chunk[j] # "get" => DownloadsLeft(k) = DownloadsLeft(o) - 1
         /\ o.chunk[j] # "get" /\ k.chunk[j] # "get" => DownloadsLeft(k) = DownloadsLeft(o)
<1> DEFINE n == Len(o.files)
           F == {i \in 1 .. n : o.chunk[i] = "get"}
           G == {i \in 1 .. n : k.chunk[i] = "get"}
<1>1. IsFiniteSet(1 .. n)
  <2>1. 1 \in Int /\ n \in Int
    OBVIOUS
  <2> QED BY <2>1, FS_Interval
<1>2. IsFiniteSet(F)
  BY <1>1, FS_Subset
<1>3. Cardinality(F) \in Nat
  BY <1>2, FS_CardinalityType
<1>4. /\ o.chunk[j] # "get" /\ k.chunk[j] = "get" => G = F \cup {j} /\ j \notin F
      /\ o.chunk[j] = "get" /\ k.chunk[j] # "get" => G = F \ {j} /\ j \in F
      /\ o.chunk[j] # "get" /\ k.chunk[j] # "get" => G = F
  OBVIOUS
<1>5. DownloadsLeft(o) = Cardinality(F) /\ DownloadsLeft(k) = Cardinality(G)
  BY DEF DownloadsLeft
<1> HIDE DEF F, G
<1>6. j \notin F => Cardinality(F \cup {j}) = Cardinality(F) + 1
  BY <1>2, FS_AddElement
<1>7. j \in F => Cardinality(F \ {j}) = Cardinality(F) - 1
  BY <1>2, FS_RemoveElement
<1> QED BY <1>3, <1>4, <1>5, <1>6, <1>7

(* The writer has a step less to do, the others what they had.             *)
LEMMA WriterCounts ==
  ASSUME NEW c \in Calls, MergeInv, MergeInv', ~AtRest(m[c]), m'[c].at # "none",
         WriterLeft(m'[c]) < WriterLeft(m[c]),
         m'[c].files = m[c].files, m'[c].on = m[c].on, m'[c].next = m[c].next,
         DownloadsLeft(m'[c]) = DownloadsLeft(m[c])
  PROVE  StepsLeft(m'[c]) < StepsLeft(m[c])
<1> DEFINE o == m[c]
           k == m'[c]
<1>1. CallOK(o) /\ CallOK(k)
  BY DEF MergeInv
<1>2. ProducerLeft(k) = ProducerLeft(o)
  BY DEF ProducerLeft
<1> HIDE DEF o, k
<1>3. /\ WriterLeft(o) \in Nat /\ ProducerLeft(o) \in Nat /\ DownloadsLeft(o) \in Nat
      /\ WriterLeft(k) \in Nat /\ ProducerLeft(k) \in Nat /\ DownloadsLeft(k) \in Nat
  BY <1>1, LeftTyped
<1>4. ~AtRest(o) /\ WriterLeft(k) < WriterLeft(o) /\ DownloadsLeft(k) = DownloadsLeft(o)
  BY DEF o, k
<1>5. StepsLeft(k) < StepsLeft(o)
  BY <1>2, <1>3, <1>4 DEF StepsLeft
<1> QED BY <1>5 DEF o, k

(* A writer that gives up has nothing to do but return.                    *)
LEMMA AbortCounts ==
  ASSUME NEW c \in Calls, MergeInv, MergeInv', m[c].at \in {"check", "wait", "write"}, abort(c)
  PROVE  StepsLeft(m'[c]) < StepsLeft(m[c])
<1>1. /\ m'[c].at = "abort" /\ m'[c].files = m[c].files /\ m'[c].on = m[c].on
      /\ m'[c].next = m[c].next /\ m'[c].chunk = m[c].chunk
  BY DEF abort, MergeInv, CallType
<1>2. WriterLeft(m'[c]) = 0
  BY <1>1 DEF WriterLeft
<1>3. WriterLeft(m[c]) > 0
  <2>1. Len(m[c].files) \in Nat /\ m[c].pos \in Nat /\ m[c].pos <= Len(m[c].files)
    BY Positions
  <2> DEFINE n == 3 * (Len(m[c].files) - m[c].pos)
  <2>2. n \in Nat
    BY <2>1
  <2>3. WriterLeft(m[c]) \in {n + 3, n + 2, n + 1}
    BY DEF WriterLeft
  <2> HIDE DEF n
  <2> QED BY <2>2, <2>3
<1>4. DownloadsLeft(m'[c]) = DownloadsLeft(m[c])
  BY <1>1 DEF DownloadsLeft
<1> QED BY <1>1, <1>2, <1>3, <1>4, WriterCounts DEF AtRest

LEMMA CheckCounts ==
  ASSUME NEW c \in Calls, MergeInv, MergeInv', CheckContext(c)
  PROVE  StepsLeft(m'[c]) < StepsLeft(m[c])
<1>1. CASE c \in ctx
  BY <1>1, AbortCounts DEF CheckContext
<1>2. CASE c \notin ctx
  <2>1. /\ m[c].at = "check" /\ m'[c].at = "wait" /\ m'[c].files = m[c].files
        /\ m'[c].on = m[c].on /\ m'[c].next = m[c].next /\ m'[c].chunk = m[c].chunk
        /\ m'[c].pos = m[c].pos
    BY <1>2 DEF CheckContext, MergeInv, CallType
  <2>2. Len(m[c].files) \in Nat /\ m[c].pos \in Nat
    BY Positions
  <2>3. WriterLeft(m'[c]) < WriterLeft(m[c])
    BY <2>1, <2>2 DEF WriterLeft
  <2>4. DownloadsLeft(m'[c]) = DownloadsLeft(m[c])
    BY <2>1 DEF DownloadsLeft
  <2> QED BY <2>1, <2>3, <2>4, WriterCounts DEF AtRest
<1> QED BY <1>1, <1>2

LEMMA ReceiveCounts ==
  ASSUME NEW c \in Calls, MergeInv, MergeInv', Receive(c)
  PROVE  StepsLeft(m'[c]) < StepsLeft(m[c])
<1>1. CASE m[c].chunk[m[c].pos] = "err" /\ abort(c)
  BY <1>1, AbortCounts DEF Receive
<1>2. CASE ~(m[c].chunk[m[c].pos] = "err" /\ abort(c))
  <2>1. /\ m[c].at = "wait" /\ m[c].chunk[m[c].pos] = "ok"
        /\ m' = [m EXCEPT ![c].at = "write", ![c].got = m[c].pos, ![c].chunk[m[c].pos] = "taken"]
    BY <1>2 DEF Receive
  <2>2. /\ m'[c].at = "write" /\ m'[c].files = m[c].files
        /\ m'[c].on = m[c].on /\ m'[c].next = m[c].next /\ m'[c].pos = m[c].pos
        /\ m'[c].chunk = [m[c].chunk EXCEPT ![m[c].pos] = "taken"]
    BY <2>1, CallFacts DEF CallType
  <2>3. /\ Len(m[c].files) \in Nat /\ m[c].pos \in 1 .. Len(m[c].files)
        /\ m[c].chunk \in Seq(ChunkStates) /\ Len(m[c].chunk) = Len(m[c].files)
    BY <2>1, Positions
  <2>4. WriterLeft(m'[c]) < WriterLeft(m[c])
    <3> DEFINE n == 3 * (Len(m[c].files) - m[c].pos)
    <3>1. n \in Int
      BY <2>3
    <3>2. WriterLeft(m[c]) = n + 2
      BY <2>1 DEF WriterLeft
    <3>3. WriterLeft(m'[c]) = n + 1
      BY <2>2 DEF WriterLeft
    <3> HIDE DEF n
    <3> QED BY <3>1, <3>2, <3>3
  <2>5. /\ m'[c].chunk[m[c].pos] # "get"
        /\ \A i \in 1 .. Len(m[c].files) : i # m[c].pos => m'[c].chunk[i] = m[c].chunk[i]
    BY <2>2, <2>3
  <2>6. DownloadsLeft(m'[c]) = DownloadsLeft(m[c])
    <3> DEFINE o == m[c]
               k == m'[c]
               j == o.pos
    <3>1. /\ o.chunk[j] # "get" /\ k.chunk[j] # "get" /\ k.files = o.files
          /\ Len(o.files) \in Nat /\ j \in 1 .. Len(o.files)
          /\ \A i \in 1 .. Len(o.files) : i # j => k.chunk[i] = o.chunk[i]
      BY <2>1, <2>2, <2>3, <2>5
    <3> HIDE DEF o, k, j
    <3>2. DownloadsLeft(k) = DownloadsLeft(o)
      BY <3>1, DownloadsCount
    <3> QED BY <3>2 DEF o, k
  <2> QED BY <2>1, <2>2, <2>4, <2>6, WriterCounts DEF AtRest
<1> QED BY <1>1, <1>2

LEMMA AppendCounts ==
  ASSUME NEW c \in Calls, MergeInv, MergeInv', AppendChunk(c)
  PROVE  StepsLeft(m'[c]) < StepsLeft(m[c])
<1>1. /\ m[c].at = "write" /\ m'[c].files = m[c].files /\ m'[c].pos = m[c].pos + 1
      /\ m'[c].at = IF m[c].pos = Len(m[c].files) THEN "join" ELSE "check"
      /\ m'[c].on = m[c].on /\ m'[c].next = m[c].next /\ m'[c].chunk = m[c].chunk
  BY Appended DEF AppendChunk
<1>2. Len(m[c].files) \in Nat /\ m[c].pos \in Nat /\ m[c].pos <= Len(m[c].files)
  BY <1>1, Positions
<1>3. WriterLeft(m'[c]) < WriterLeft(m[c])
  <2>1. WriterLeft(m[c]) = 3 * (Len(m[c].files) - m[c].pos) + 1
    BY <1>1 DEF WriterLeft
  <2>2. CASE m[c].pos = Len(m[c].files)
    <3>1. WriterLeft(m'[c]) = 0
      BY <1>1, <2>2 DEF WriterLeft
    <3> QED BY <1>2, <2>1, <3>1
  <2>3. CASE m[c].pos # Len(m[c].files)
    <3>1. WriterLeft(m'[c]) = 3 * (Len(m[c].files) - (m[c].pos + 1)) + 3
      BY <1>1, <2>3 DEF WriterLeft
    <3> DEFINE n == Len(m[c].files)
               p == m[c].pos
    <3>2. n \in Nat /\ p \in Nat
      BY <1>2
    <3> HIDE DEF n, p
    <3>3. 3 * (n - (p + 1)) + 3 < 3 * (n - p) + 1
      BY <3>2
    <3> QED BY <2>1, <3>1, <3>3 DEF n, p
  <2> QED BY <2>2, <2>3
<1>4. DownloadsLeft(m'[c]) = DownloadsLeft(m[c])
  BY <1>1 DEF DownloadsLeft
<1> QED BY <1>1, <1>3, <1>4, WriterCounts DEF AtRest

(* The producer and the downloaders: the writer has what it had.           *)
LEMMA OthersCount ==
  ASSUME NEW c \in Calls, MergeInv, MergeInv', ~AtRest(m[c]),
         m'[c].at = m[c].at, m'[c].files = m[c].files, m'[c].pos = m[c].pos,
         ProducerLeft(m'[c]) + DownloadsLeft(m'[c]) < ProducerLeft(m[c]) + DownloadsLeft(m[c])
  PROVE  StepsLeft(m'[c]) < StepsLeft(m[c])
<1> DEFINE o == m[c]
           k == m'[c]
<1>1. CallOK(o) /\ CallOK(k)
  BY DEF MergeInv
<1>2. WriterLeft(k) = WriterLeft(o) /\ ~AtRest(k)
  BY DEF WriterLeft, AtRest
<1>3. ~AtRest(o) /\ ProducerLeft(k) + DownloadsLeft(k) < ProducerLeft(o) + DownloadsLeft(o)
  OBVIOUS
<1> HIDE DEF o, k
<1>4. /\ WriterLeft(o) \in Nat /\ ProducerLeft(o) \in Nat /\ DownloadsLeft(o) \in Nat
      /\ ProducerLeft(k) \in Nat /\ DownloadsLeft(k) \in Nat
  BY <1>1, LeftTyped
<1>5. StepsLeft(k) < StepsLeft(o)
  BY <1>2, <1>3, <1>4 DEF StepsLeft
<1> QED BY <1>5 DEF o, k

LEMMA ProduceCounts ==
  ASSUME NEW c \in Calls, MergeInv, MergeInv', Produce(c)
  PROVE  StepsLeft(m'[c]) < StepsLeft(m[c])
<1> DEFINE n == Len(m[c].files)
           j == m[c].next
<1>1. /\ m[c].on /\ m'[c].at = m[c].at /\ m'[c].files = m[c].files /\ m'[c].pos = m[c].pos
      /\ m'[c].next = j + 1 /\ m'[c].on = (j < n)
      /\ m'[c].chunk = [m[c].chunk EXCEPT ![j] = "get"]
  BY Produced DEF Produce
<1>2. /\ n \in Nat /\ j \in 1 .. n /\ m[c].chunk \in Seq(ChunkStates)
      /\ Len(m[c].chunk) = n /\ m[c].chunk[j] # "get" /\ ~AtRest(m[c])
  <2>1. /\ n \in Nat /\ j \in 1 .. n /\ m[c].chunk \in Seq(ChunkStates)
        /\ Len(m[c].chunk) = n /\ ~AtRest(m[c])
    BY <1>1, Positions
  <2>2. m[c].chunk[j] # "none" => j < m[c].next
    BY <2>1, CallFacts DEF CallOK, Window
  <2>3. m[c].chunk[j] = "none"
    BY <2>1, <2>2
  <2> QED BY <2>1, <2>3
<1>3. /\ m'[c].chunk[j] = "get"
      /\ \A i \in 1 .. n : i # j => m'[c].chunk[i] = m[c].chunk[i]
  BY <1>1, <1>2
<1>4. DownloadsLeft(m'[c]) = DownloadsLeft(m[c]) + 1 /\ DownloadsLeft(m[c]) \in Nat
  <2> DEFINE o == m[c]
             k == m'[c]
  <2>1. /\ o.chunk[j] # "get" /\ k.chunk[j] = "get" /\ k.files = o.files
        /\ Len(o.files) \in Nat /\ j \in 1 .. Len(o.files)
        /\ \A i \in 1 .. Len(o.files) : i # j => k.chunk[i] = o.chunk[i]
    BY <1>1, <1>2, <1>3
  <2> HIDE DEF o, k, j
  <2>2. DownloadsLeft(k) = DownloadsLeft(o) + 1 /\ DownloadsLeft(o) \in Nat
    BY <2>1, DownloadsCount
  <2> QED BY <2>2 DEF o, k
<1>5. ProducerLeft(m[c]) = 2 * (n + 1 - j)
  BY <1>1 DEF ProducerLeft
<1>6. ProducerLeft(m'[c]) = IF j < n THEN 2 * (n + 1 - (j + 1)) ELSE 0
  BY <1>1 DEF ProducerLeft
<1>7. ProducerLeft(m'[c]) + DownloadsLeft(m'[c]) < ProducerLeft(m[c]) + DownloadsLeft(m[c])
  <2> HIDE DEF n, j
  <2> QED BY <1>2, <1>4, <1>5, <1>6
<1> QED BY <1>1, <1>2, <1>7, OthersCount

LEMMA StopCounts ==
  ASSUME NEW c \in Calls, MergeInv, MergeInv', ProducerStops(c)
  PROVE  StepsLeft(m'[c]) < StepsLeft(m[c])
<1>1. /\ m[c].on /\ ~m'[c].on /\ m'[c].at = m[c].at /\ m'[c].files = m[c].files
      /\ m'[c].pos = m[c].pos /\ m'[c].chunk = m[c].chunk
  BY DEF ProducerStops, MergeInv, CallType
<1>2. /\ Len(m[c].files) \in Nat /\ m[c].next \in Nat /\ m[c].next <= Len(m[c].files)
      /\ ~AtRest(m[c])
  BY <1>1 DEF MergeInv, CallOK, CallType, Window, Rested
<1>3. ProducerLeft(m'[c]) = 0 /\ ProducerLeft(m[c]) \in Nat /\ ProducerLeft(m[c]) > 0
  BY <1>1, <1>2 DEF ProducerLeft
<1>4. DownloadsLeft(m'[c]) = DownloadsLeft(m[c])
  BY <1>1 DEF DownloadsLeft
<1>5. DownloadsLeft(m[c]) \in Nat
  BY LeftTyped DEF MergeInv
<1> QED BY <1>1, <1>2, <1>3, <1>4, <1>5, OthersCount

LEMMA DownloadCounts ==
  ASSUME NEW c \in Calls, MergeInv, MergeInv', NEW i \in 1 .. Size(c), m[c].chunk[i] = "get",
         NEW result \in {"ok", "err"}, m' = [m EXCEPT ![c].chunk[i] = result]
  PROVE  StepsLeft(m'[c]) < StepsLeft(m[c])
<1>1. /\ m'[c].at = m[c].at /\ m'[c].files = m[c].files /\ m'[c].pos = m[c].pos
      /\ m'[c].on = m[c].on /\ m'[c].next = m[c].next
      /\ m'[c].chunk = [m[c].chunk EXCEPT ![i] = result]
  BY DEF MergeInv, CallType
<1>2. /\ Len(m[c].files) \in Nat /\ i \in 1 .. Len(m[c].files) /\ m[c].chunk \in Seq(ChunkStates)
      /\ Len(m[c].chunk) = Len(m[c].files) /\ ~AtRest(m[c])
  <2>1. CallOK(m[c]) /\ i \in 1 .. Len(m[c].files)
    BY DEF MergeInv, Size
  <2>2. ~AtRest(m[c])
    BY <2>1 DEF CallOK, Rested
  <2> QED BY <2>1, <2>2 DEF CallOK, CallType, Window
<1>3. /\ m'[c].chunk[i] # "get"
      /\ \A j \in 1 .. Len(m[c].files) : j # i => m'[c].chunk[j] = m[c].chunk[j]
  BY <1>1, <1>2
<1>4. DownloadsLeft(m'[c]) = DownloadsLeft(m[c]) - 1 /\ DownloadsLeft(m[c]) \in Nat
  <2> DEFINE o == m[c]
             k == m'[c]
  <2>1. /\ o.chunk[i] = "get" /\ k.chunk[i] # "get" /\ k.files = o.files
        /\ Len(o.files) \in Nat /\ i \in 1 .. Len(o.files)
        /\ \A j \in 1 .. Len(o.files) : j # i => k.chunk[j] = o.chunk[j]
    BY <1>1, <1>2, <1>3
  <2> HIDE DEF o, k
  <2>2. DownloadsLeft(k) = DownloadsLeft(o) - 1 /\ DownloadsLeft(o) \in Nat
    BY <2>1, DownloadsCount
  <2> QED BY <2>2 DEF o, k
<1>5. ProducerLeft(m'[c]) = ProducerLeft(m[c])
  BY <1>1 DEF ProducerLeft
<1>6. ProducerLeft(m[c]) \in Nat
  BY LeftTyped DEF MergeInv
<1>7. ProducerLeft(m'[c]) + DownloadsLeft(m'[c]) < ProducerLeft(m[c]) + DownloadsLeft(m[c])
  BY <1>4, <1>5, <1>6
<1> QED BY <1>1, <1>2, <1>7, OthersCount

(* Succeed and Fail are the last step.                                     *)
LEMMA ReturnCounts ==
  ASSUME NEW c \in Calls, MergeInv, Succeed(c) \/ Fail(c)
  PROVE  StepsLeft(m'[c]) < StepsLeft(m[c])
<1>1. ~AtRest(m[c]) /\ AtRest(m'[c])
  BY DEF Succeed, Fail, AtRest, MergeInv, CallType, NoCall
<1>2. CallOK(m[c])
  BY DEF MergeInv
<1>3. WriterLeft(m[c]) \in Nat /\ ProducerLeft(m[c]) \in Nat /\ DownloadsLeft(m[c]) \in Nat
  BY <1>2, LeftTyped
<1> QED BY <1>1, <1>3 DEF StepsLeft

(* Whichever goroutine of a call steps, the call has a step less to do.    *)
LEMMA StepCounts ==
  ASSUME NEW c \in Calls, MergeInv, MergeStep(c)
  PROVE  StepsLeft(m'[c]) \in Nat /\ StepsLeft(m'[c]) < StepsLeft(m[c])
<1>1. MergeInv'
  BY StepKeeps
<1>2. StepsLeft(m'[c]) < StepsLeft(m[c])
  <2>1. CASE CheckContext(c)     BY <1>1, <2>1, CheckCounts
  <2>2. CASE Receive(c)          BY <1>1, <2>2, ReceiveCounts
  <2>3. CASE ContextEndsWait(c)  BY <1>1, <2>3, AbortCounts DEF ContextEndsWait
  <2>4. CASE AppendChunk(c)      BY <1>1, <2>4, AppendCounts
  <2>5. CASE Succeed(c) \/ Fail(c)  BY <2>5, ReturnCounts
  <2>6. CASE AppendFails(c)      BY <1>1, <2>6, AbortCounts DEF AppendFails
  <2>7. CASE Produce(c)          BY <1>1, <2>7, ProduceCounts
  <2>8. CASE ProducerStops(c)    BY <1>1, <2>8, StopCounts
  <2>9. ASSUME NEW i \in 1 .. Size(c), Downloaded(c, i)
        PROVE  StepsLeft(m'[c]) < StepsLeft(m[c])
    BY <1>1, <2>9, DownloadCounts DEF Downloaded
  <2>10. ASSUME NEW i \in 1 .. Size(c), DownloadFails(c, i)
         PROVE  StepsLeft(m'[c]) < StepsLeft(m[c])
    BY <1>1, <2>10, DownloadCounts DEF DownloadFails
  <2> QED BY <2>1, <2>2, <2>3, <2>4, <2>5, <2>6, <2>7, <2>8, <2>9, <2>10
             DEF MergeStep, Writer, Producer, Downloader
<1>3. StepsLeft(m'[c]) \in Nat
  BY <1>1, LeftTyped DEF MergeInv
<1> QED BY <1>2, <1>3

(* A call begins with five steps for every file and its return to do.      *)
LEMMA BeginCounts ==
  ASSUME NEW c \in Calls, MergeInv, NEW files \in Seq(Files), MergeRawAudio(c, files)
  PROVE  StepsLeft(m'[c]) = 5 * Len(files) + 1
<1>1. /\ m'[c].at = "check" /\ m'[c].files = files /\ m'[c].on /\ m'[c].pos = 1 /\ m'[c].next = 1
      /\ m'[c].chunk = [i \in 1 .. Len(files) |-> "none"]
  BY DEF MergeRawAudio, MergeInv, NoCall
<1>2. Len(files) \in Nat
  OBVIOUS
<1>3. DownloadsLeft(m'[c]) = 0
  <2>1. {i \in 1 .. Len(m'[c].files) : m'[c].chunk[i] = "get"} = {}
    BY <1>1
  <2> QED BY <2>1, FS_EmptySet DEF DownloadsLeft
<1>4. WriterLeft(m'[c]) = 3 * Len(files)
  BY <1>1, <1>2 DEF WriterLeft
<1>5. ProducerLeft(m'[c]) = 2 * Len(files)
  BY <1>1, <1>2 DEF ProducerLeft
<1> QED BY <1>1, <1>2, <1>3, <1>4, <1>5 DEF StepsLeft, AtRest

-----------------------------------------------------------------------------
(* No call is ever stuck.                                                  *)

(* The writer moves without taking a chunk.                                *)
LEMMA MovesAwaited ==
  ASSUME NEW c \in Calls, MergeInv, Awaited(c), m'[c].files = m[c].files,
         m'[c].chunk = m[c].chunk, m'[c].next = m[c].next, m'[c].on = m[c].on,
         m'[c].pos = m[c].pos, ctx' = ctx, m'[c].cancelled <=> m'[c].at = "abort",
         \/ m[c].at = "check" /\ m'[c].at = "wait"
         \/ m[c].at \in {"check", "wait", "write"} /\ m'[c].at = "abort"
  PROVE  Awaited(c)'
<1>1. \A i \in 1 .. Len(m[c].files) : m[c].chunk[i] = "taken" =>
        i < m[c].pos \/ (i = m[c].pos /\ m'[c].at \in {"write", "abort"})
  BY DEF Awaited
<1> QED BY <1>1 DEF Awaited

LEMMA AbortAwaited ==
  ASSUME NEW c \in Calls, MergeInv, Awaited(c), m[c].at \in {"check", "wait", "write"},
         abort(c), ctx' = ctx
  PROVE  Awaited(c)'
<1>1. /\ m'[c].files = m[c].files /\ m'[c].chunk = m[c].chunk /\ m'[c].next = m[c].next
      /\ m'[c].on = m[c].on /\ m'[c].pos = m[c].pos
      /\ m'[c].at = "abort" /\ m'[c].cancelled = TRUE
  BY DEF abort, MergeInv, CallType
<1> QED BY <1>1, MovesAwaited

LEMMA CheckAwaited ==
  ASSUME NEW c \in Calls, MergeInv, Awaited(c), CheckContext(c)
  PROVE  Awaited(c)'
<1>1. CASE c \in ctx
  BY <1>1, AbortAwaited DEF CheckContext
<1>2. CASE c \notin ctx
  <2>1. /\ m'[c].files = m[c].files /\ m'[c].chunk = m[c].chunk /\ m'[c].next = m[c].next
        /\ m'[c].on = m[c].on /\ m'[c].pos = m[c].pos /\ ctx' = ctx
        /\ m[c].at = "check" /\ m'[c].at = "wait" /\ m'[c].cancelled = m[c].cancelled
    BY <1>2 DEF CheckContext, MergeInv, CallType
  <2>2. ~m'[c].cancelled
    BY <2>1 DEF Awaited
  <2> QED BY <2>1, <2>2, MovesAwaited
<1> QED BY <1>1, <1>2

LEMMA ReceiveAwaited ==
  ASSUME NEW c \in Calls, MergeInv, Awaited(c), Receive(c)
  PROVE  Awaited(c)'
<1>1. CASE m[c].chunk[m[c].pos] = "err" /\ abort(c)
  BY <1>1, AbortAwaited DEF Receive
<1>2. CASE ~(m[c].chunk[m[c].pos] = "err" /\ abort(c))
  <2>1. /\ m[c].at = "wait" /\ m[c].chunk[m[c].pos] = "ok" /\ ctx' = ctx
        /\ m' = [m EXCEPT ![c].at = "write", ![c].got = m[c].pos, ![c].chunk[m[c].pos] = "taken"]
    BY <1>2 DEF Receive
  <2>2. /\ m'[c].at = "write" /\ m'[c].files = m[c].files /\ m'[c].on = m[c].on
        /\ m'[c].next = m[c].next /\ m'[c].pos = m[c].pos /\ m'[c].cancelled = m[c].cancelled
        /\ m'[c].chunk = [m[c].chunk EXCEPT ![m[c].pos] = "taken"]
    BY <2>1 DEF MergeInv, CallType
  <2>3. /\ m[c].pos \in 1 .. Len(m[c].files) /\ m[c].chunk \in Seq(ChunkStates)
        /\ Len(m[c].chunk) = Len(m[c].files)
    BY <2>1 DEF MergeInv, CallOK, CallType, Window, Written
  <2>4. \A i \in 1 .. Len(m[c].files) :
          m'[c].chunk[i] = IF i = m[c].pos THEN "taken" ELSE m[c].chunk[i]
    BY <2>2, <2>3
  <2>5. \A i \in 1 .. Len(m[c].files) : i < m[c].next => m'[c].chunk[i] # "none"
    BY <2>4 DEF Awaited
  <2>6. \A i \in 1 .. Len(m[c].files) : m'[c].chunk[i] = "taken" => i < m[c].pos \/ i = m[c].pos
    BY <2>4 DEF Awaited
  <2>7. ~m[c].cancelled /\ (~m[c].on /\ m[c].next <= Len(m[c].files) => c \in ctx)
    BY <2>1 DEF Awaited
  <2> QED BY <2>1, <2>2, <2>5, <2>6, <2>7 DEF Awaited
<1> QED BY <1>1, <1>2

LEMMA AppendAwaited ==
  ASSUME NEW c \in Calls, MergeInv, Awaited(c), AppendChunk(c)
  PROVE  Awaited(c)'
<1>1. /\ m[c].at = "write" /\ m'[c].files = m[c].files /\ m'[c].pos = m[c].pos + 1
      /\ m'[c].at = IF m[c].pos = Len(m[c].files) THEN "join" ELSE "check"
      /\ m'[c].on = m[c].on /\ m'[c].next = m[c].next /\ m'[c].chunk = m[c].chunk
      /\ m'[c].cancelled = m[c].cancelled /\ ctx' = ctx
  BY Appended DEF AppendChunk
<1>2. m[c].pos \in Nat
  BY DEF MergeInv, CallType
<1>3. \A i \in 1 .. Len(m[c].files) : m[c].chunk[i] = "taken" => i < m[c].pos + 1
  BY <1>2 DEF Awaited
<1>4. ~m[c].cancelled
  BY <1>1 DEF Awaited
<1> QED BY <1>1, <1>3, <1>4 DEF Awaited

LEMMA ProduceAwaited ==
  ASSUME NEW c \in Calls, MergeInv, Awaited(c), Produce(c)
  PROVE  Awaited(c)'
<1> DEFINE n == Len(m[c].files)
           j == m[c].next
<1>1. /\ m[c].on /\ m'[c].at = m[c].at /\ m'[c].files = m[c].files /\ m'[c].pos = m[c].pos
      /\ m'[c].next = j + 1 /\ m'[c].on = (j < n) /\ m'[c].cancelled = m[c].cancelled
      /\ m'[c].chunk = [m[c].chunk EXCEPT ![j] = "get"] /\ ctx' = ctx
  BY Produced DEF Produce
<1>2. /\ n \in Nat /\ j \in 1 .. n /\ m[c].chunk \in Seq(ChunkStates) /\ Len(m[c].chunk) = n
  BY <1>1, Positions
<1>3. \A i \in 1 .. n : m'[c].chunk[i] = IF i = j THEN "get" ELSE m[c].chunk[i]
  BY <1>1, <1>2
<1>4. \A i \in 1 .. n : i < j + 1 => m'[c].chunk[i] # "none"
  BY <1>2, <1>3 DEF Awaited
<1>5. ~m'[c].on => ~(m'[c].next <= n)
  <2>1. ~(j < n) => ~(j + 1 <= n)
    BY <1>2
  <2> HIDE DEF n, j
  <2> QED BY <1>1, <2>1
<1> QED BY <1>1, <1>3, <1>4, <1>5 DEF Awaited

LEMMA StopAwaited ==
  ASSUME NEW c \in Calls, MergeInv, Awaited(c), ProducerStops(c)
  PROVE  Awaited(c)'
<1>1. /\ m'[c].at = m[c].at /\ m'[c].files = m[c].files /\ m'[c].pos = m[c].pos
      /\ m'[c].next = m[c].next /\ m'[c].chunk = m[c].chunk
      /\ m'[c].cancelled = m[c].cancelled /\ ctx' = ctx
  BY DEF ProducerStops, MergeInv, CallType
<1>2. m[c].at \in {"check", "wait", "write"} => c \in ctx
  BY DEF ProducerStops, Done, Awaited
<1> QED BY <1>1, <1>2 DEF Awaited

LEMMA DownloadAwaited ==
  ASSUME NEW c \in Calls, MergeInv, Awaited(c), NEW j \in 1 .. Size(c), m[c].chunk[j] = "get",
         NEW result \in {"ok", "err"}, m' = [m EXCEPT ![c].chunk[j] = result], ctx' = ctx
  PROVE  Awaited(c)'
<1>1. /\ m'[c].at = m[c].at /\ m'[c].files = m[c].files /\ m'[c].pos = m[c].pos
      /\ m'[c].on = m[c].on /\ m'[c].next = m[c].next /\ m'[c].cancelled = m[c].cancelled
      /\ m'[c].chunk = [m[c].chunk EXCEPT ![j] = result]
  BY DEF MergeInv, CallType
<1>2. /\ j \in 1 .. Len(m[c].files) /\ m[c].chunk \in Seq(ChunkStates)
      /\ Len(m[c].chunk) = Len(m[c].files)
  BY DEF MergeInv, CallOK, CallType, Window, Size
<1>3. \A i \in 1 .. Len(m[c].files) : m'[c].chunk[i] = IF i = j THEN result ELSE m[c].chunk[i]
  BY <1>1, <1>2
<1> QED BY <1>1, <1>3 DEF Awaited

LEMMA ReturnAwaited ==
  ASSUME NEW c \in Calls, MergeInv, Awaited(c), Succeed(c) \/ Fail(c)
  PROVE  Awaited(c)'
<1>1. CASE Succeed(c)
  <2>1. /\ m[c].at = "join" /\ m'[c].at = "ok" /\ m'[c].files = m[c].files /\ m'[c].pos = m[c].pos
        /\ m'[c].next = m[c].next /\ m'[c].chunk = m[c].chunk
        /\ m'[c].cancelled = m[c].cancelled
    BY <1>1 DEF Succeed, MergeInv, CallType
  <2> QED BY <2>1 DEF Awaited
<1>2. CASE Fail(c)
  <2>1. m'[c] = [NoCall EXCEPT !.at = "err"]
    BY <1>2 DEF Fail, MergeInv
  <2>2. m'[c].files = <<>> /\ m'[c].at = "err" /\ m'[c].cancelled = FALSE
    BY <2>1 DEF NoCall
  <2>3. Len(m'[c].files) = 0
    BY <2>2
  <2> QED BY <2>2, <2>3 DEF Awaited
<1> QED BY <1>1, <1>2

(* Every step of a call keeps what its goroutines wait for on its way.     *)
LEMMA StepAwaited ==
  ASSUME NEW c \in Calls, MergeInv, Awaited(c), MergeStep(c)
  PROVE  Awaited(c)'
<1>1. CASE CheckContext(c)     BY <1>1, CheckAwaited
<1>2. CASE Receive(c)          BY <1>2, ReceiveAwaited
<1>3. CASE ContextEndsWait(c)  BY <1>3, AbortAwaited DEF ContextEndsWait
<1>4. CASE AppendChunk(c)      BY <1>4, AppendAwaited
<1>5. CASE Succeed(c) \/ Fail(c)  BY <1>5, ReturnAwaited
<1>6. CASE AppendFails(c)      BY <1>6, AbortAwaited DEF AppendFails
<1>7. CASE Produce(c)          BY <1>7, ProduceAwaited
<1>8. CASE ProducerStops(c)    BY <1>8, StopAwaited
<1>9. ASSUME NEW i \in 1 .. Size(c), Downloaded(c, i) PROVE Awaited(c)'
  BY <1>9, DownloadAwaited DEF Downloaded
<1>10. ASSUME NEW i \in 1 .. Size(c), DownloadFails(c, i) PROVE Awaited(c)'
  BY <1>10, DownloadAwaited DEF DownloadFails
<1> QED BY <1>1, <1>2, <1>3, <1>4, <1>5, <1>6, <1>7, <1>8, <1>9, <1>10
           DEF MergeStep, Writer, Producer, Downloader

(* A call that begins, or is refused.                                      *)
LEMMA BeginAwaited ==
  ASSUME NEW c \in Calls, MergeInv, Awaited(c), NEW files \in Seq(Files),
         MergeRawAudio(c, files) \/ MergeRefused(c)
  PROVE  Awaited(c)'
<1>1. CASE MergeRawAudio(c, files)
  <2>1. /\ m'[c].at = "check" /\ m'[c].files = files /\ m'[c].on = TRUE
        /\ m'[c].next = 1 /\ m'[c].cancelled = FALSE
        /\ m'[c].chunk = [i \in 1 .. Len(files) |-> "none"]
    BY <1>1 DEF MergeRawAudio, MergeInv, NoCall
  <2>2. \A i \in 1 .. Len(files) : m'[c].chunk[i] = "none" /\ ~(i < 1)
    BY <2>1
  <2> QED BY <2>1, <2>2 DEF Awaited
<1>2. CASE MergeRefused(c)
  <2>1. /\ m[c].at = "none" /\ m'[c].at = "err" /\ m'[c].files = m[c].files
        /\ m'[c].pos = m[c].pos /\ m'[c].next = m[c].next /\ m'[c].chunk = m[c].chunk
        /\ m'[c].cancelled = m[c].cancelled
    BY <1>2 DEF MergeRefused, MergeInv, CallType
  <2> QED BY <2>1 DEF Awaited
<1> QED BY <1>1, <1>2

(* What happens to other calls, a context that ends and objects that       *)
(* disappear take nothing away.                                            *)
LEMMA OtherAwaited ==
  ASSUME NEW c \in Calls, Awaited(c), m'[c] = m[c],
         c \in ctx /\ ~AtRest(m[c]) => c \in ctx'
  PROVE  Awaited(c)'
BY DEF Awaited, AtRest

(* One of the goroutines of a call can go on: a writer that waits for its  *)
(* chunk has it coming, is to be cancelled, or the producer has a slot.    *)
LEMMA AwaitedReady ==
  ASSUME NEW c \in Calls, MergeInv, Awaited(c), ~AtRest(m[c])
  PROVE  MergeReady(c)
<1> DEFINE k == m[c]
<1>1. CallOK(k)
  BY DEF MergeInv
<1>2. k.at \in {"check", "wait", "write", "join", "abort"}
  BY <1>1 DEF CallOK, CallType, AtRest, WriterStates
<1>3. CASE k.at = "wait"
  <2>1. /\ k.pos \in 1 .. Len(k.files) /\ k.next \in Nat /\ k.slots = k.next - k.pos
        /\ k.pos <= k.next /\ k.chunk[k.pos] \in ChunkStates
    BY <1>1, <1>3, ElementOfSeq DEF CallOK, CallType, Window, Written
  <2>2. k.chunk[k.pos] # "taken"
    BY <1>3, <2>1 DEF Awaited
  <2>3. CASE k.chunk[k.pos] = "get"
    BY <2>1, <2>3 DEF MergeReady, Downloading, Size
  <2>4. CASE k.chunk[k.pos] = "none"
    <3>1. k.next = k.pos
      BY <2>1, <2>4 DEF Awaited
    <3>2. k.slots = 0 /\ k.slots < Concurrency
      BY <2>1, <3>1, MergeAssumption
    <3>3. CASE k.on
      BY <3>2, <3>3 DEF MergeReady
    <3>4. CASE ~k.on
      <4>1. k.next <= Len(k.files)
        BY <2>1, <3>1
      <4>2. c \in ctx
        BY <1>3, <3>4, <4>1 DEF Awaited
      <4> QED BY <1>3, <4>2 DEF MergeReady
    <3> QED BY <3>3, <3>4
  <2>5. CASE k.chunk[k.pos] \in {"ok", "err"}
    BY <1>3, <2>5 DEF MergeReady
  <2> QED BY <2>1, <2>2, <2>3, <2>4, <2>5 DEF ChunkStates
<1>4. CASE k.at = "join"
  <2>1. ~k.on
    BY <1>1, <1>4 DEF CallOK, CallType, Window, Written
  <2> QED BY <1>4, <2>1 DEF MergeReady, Quiet
<1>5. CASE k.at = "abort"
  <2>1. Done(c)
    BY <1>5 DEF Awaited, Done
  <2> QED BY <1>5, <2>1 DEF MergeReady, Quiet
<1>6. CASE k.at \in {"check", "write"}
  BY <1>6 DEF MergeReady
<1> QED BY <1>2, <1>3, <1>4, <1>5, <1>6

-----------------------------------------------------------------------------
(* MergeInv is an invariant of calls on their own, whatever files they are *)
(* given and whatever becomes of their contexts and of the storage.        *)
THEOREM MergeInvariant == MergeSpec => []MergeInv
<1>1. MergeInit => MergeInv
  BY NoCallOK DEF MergeInit, MergeInv, CallOK
<1>2. MergeInv /\ [MergeNext]_mergeVars => MergeInv'
  <2> SUFFICES ASSUME MergeInv, [MergeNext]_mergeVars
               PROVE  MergeInv'
    OBVIOUS
  <2>1. ASSUME NEW c \in Calls, NEW files \in Seq(Files), MergeRawAudio(c, files)
        PROVE  MergeInv'
    BY <2>1, BeginKeeps
  <2>2. ASSUME NEW c \in Calls, MergeRefused(c)
        PROVE  MergeInv'
    BY <2>2, RefusedKeeps
  <2>3. ASSUME NEW c \in Calls, MergeStep(c)
        PROVE  MergeInv'
    BY <2>3, StepKeeps
  <2>4. CASE UNCHANGED m
    BY <2>4 DEF MergeInv
  <2> QED BY <2>1, <2>2, <2>3, <2>4 DEF MergeNext, mergeVars, CancelCall, Vanish
<1> QED BY <1>1, <1>2, PTL DEF MergeSpec

(* Whatever order the chunks arrive in, the merged file is a prefix of the *)
(* files asked for, and all of them when MergeRawAudio succeeds.           *)
THEOREM MergeInOrder == MergeSpec => []MergedInOrder
  BY MergeInvariant, InvInOrder, PTL

(* "the scratch space a merge needs stays bounded by mergeConcurrency      *)
(* chunks no matter how many files it is given".                           *)
THEOREM MergeBounded == MergeSpec => []ScratchBounded
  BY MergeInvariant, InvBounded, PTL

(* "no download outlives the call": when MergeRawAudio has returned there  *)
(* is no goroutine, no chunk and, after an error, no merged file.          *)
THEOREM MergeReturnsClean == MergeSpec => []NothingOutlives
  BY MergeInvariant, InvNothingOutlives, PTL

(* Every call ends: each of its steps, whoever takes it and whatever fails *)
(* or is cancelled, is one less to do.                                     *)
THEOREM MergeWindsDown == MergeSpec => CallsWindDown
<1>1. MergeInv /\ [MergeNext]_mergeVars =>
        [\A c \in Calls : m'[c] # m[c] /\ ~AtRest(m[c]) =>
           0 <= StepsLeft(m'[c]) /\ StepsLeft(m'[c]) < StepsLeft(m[c])]_mergeVars
  <2> SUFFICES ASSUME MergeInv, [MergeNext]_mergeVars, NEW c \in Calls,
                      m'[c] # m[c], ~AtRest(m[c])
               PROVE  0 <= StepsLeft(m'[c]) /\ StepsLeft(m'[c]) < StepsLeft(m[c])
    OBVIOUS
  <2>1. ASSUME NEW d \in Calls, NEW files \in Seq(Files), MergeRawAudio(d, files) PROVE FALSE
    BY <2>1 DEF MergeRawAudio, MergeInv, AtRest
  <2>2. ASSUME NEW d \in Calls, MergeRefused(d) PROVE FALSE
    BY <2>2 DEF MergeRefused, MergeInv, AtRest
  <2>3. ASSUME NEW d \in Calls, MergeStep(d)
        PROVE  0 <= StepsLeft(m'[c]) /\ StepsLeft(m'[c]) < StepsLeft(m[c])
    <3>1. c = d
      BY <2>3, StepIsLocal DEF StepFacts
    <3> QED BY <2>3, <3>1, StepCounts
  <2> QED BY <2>1, <2>2, <2>3 DEF MergeNext, mergeVars, CancelCall, Vanish
<1> QED BY <1>1, MergeInvariant, PTL DEF MergeSpec, CallsWindDown

(* No call is ever stuck: whatever fails or is cancelled, one of its       *)
(* goroutines can go on without the help of a fault.                       *)
THEOREM MergeNeverStuck == MergeSpec => []CallsReady
<1>1. MergeInit => AllAwaited
  <2> SUFFICES ASSUME MergeInit, NEW c \in Calls PROVE Awaited(c)
    BY DEF AllAwaited
  <2>1. m[c].files = <<>> /\ m[c].at = "none" /\ m[c].cancelled = FALSE
    BY DEF MergeInit, NoCall
  <2>2. Len(m[c].files) = 0
    BY <2>1
  <2> QED BY <2>1, <2>2 DEF Awaited
<1>2. MergeInv /\ AllAwaited /\ [MergeNext]_mergeVars => AllAwaited'
  <2> SUFFICES ASSUME MergeInv, AllAwaited, [MergeNext]_mergeVars, NEW c \in Calls
               PROVE  Awaited(c)'
    BY DEF AllAwaited
  <2>0. Awaited(c)
    BY DEF AllAwaited
  <2>1. ASSUME NEW d \in Calls, NEW files \in Seq(Files), MergeRawAudio(d, files) \/ MergeRefused(d)
        PROVE  Awaited(c)'
    <3>1. ctx' = ctx /\ (d # c => m'[c] = m[c])
      BY <2>1 DEF MergeRawAudio, MergeRefused, MergeInv
    <3> QED BY <2>0, <2>1, <3>1, BeginAwaited, OtherAwaited
  <2>2. ASSUME NEW d \in Calls, MergeStep(d) PROVE Awaited(c)'
    <3>1. ctx' = ctx /\ (d # c => m'[c] = m[c])
      BY <2>2, StepIsLocal DEF StepFacts
    <3> QED BY <2>0, <2>2, <3>1, StepAwaited, OtherAwaited
  <2>3. CASE m' = m /\ ctx \subseteq ctx'
    BY <2>0, <2>3, OtherAwaited
  <2>4. <<>> \in Seq(Files)
    OBVIOUS
  <2> QED BY <2>1, <2>2, <2>3, <2>4 DEF MergeNext, mergeVars, CancelCall, Vanish
<1>3. MergeInv /\ AllAwaited => CallsReady
  BY AwaitedReady DEF AllAwaited, CallsReady
<1> QED BY <1>1, <1>2, <1>3, MergeInvariant, PTL DEF MergeSpec
=============================================================================
