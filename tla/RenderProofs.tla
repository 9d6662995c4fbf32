---------------------------- MODULE RenderProofs ----------------------------
(* Proofs about the renders: IndInv is inductive.                          *)
EXTENDS Render, MergeProofs, OrderProofs

(* IndInv, by what its parts are about.                                    *)
TempNames == {"out", "side", "src", "trim"}

StreamInv ==
  /\ ctx \subseteq Calls /\ stored \subseteq Files /\ faults \in 0 .. MaxFaults
  /\ row \in [exists : BOOLEAN, live : BOOLEAN, media : MediaTypes \cup {"video"}]
  /\ avail \subseteq Files
  /\ {deleting, closing} \subseteq BOOLEAN /\ edits \in 0 .. MaxEdits

ReqInv ==
  /\ req \in [Calls -> ReqType] /\ DOMAIN defers = Calls /\ temp \subseteq Calls \X TempNames
  /\ \A r \in Calls : ReqOK(r)

JobInv ==
  /\ job \in [Calls -> {None, "running", "done", "failed"}]
  /\ registry \in Calls \cup {None} /\ forgot \subseteq Calls
  /\ JobFollowsBuild /\ Registered

ArtInv == vods \subseteq Render /\ clips \subseteq Render /\ ArtifactsWhole
MetInv == Met /\ CopiesOverlap

LEMMA MergeTyped ==
  MergeInv => /\ DOMAIN m = Calls
              /\ \A c \in Calls :
                   /\ m[c].at \in WriterStates /\ m[c].slots \in Int /\ m[c].slots <= Concurrency
                   /\ \A i \in DOMAIN m[c].chunk : m[c].chunk[i] \in ChunkStates
<1> SUFFICES ASSUME MergeInv, NEW c \in Calls
             PROVE  /\ m[c].at \in WriterStates /\ m[c].slots \in Int /\ m[c].slots <= Concurrency
                    /\ \A i \in DOMAIN m[c].chunk : m[c].chunk[i] \in ChunkStates
  BY DEF MergeInv
<1>1. m[c].at \in WriterStates /\ m[c].slots \in Int /\ m[c].chunk \in Seq(ChunkStates)
  BY DEF MergeInv, CallType
<1>2. m[c].slots <= Concurrency
  BY DEF MergeInv, CallOK, Window
<1>3. \A i \in DOMAIN m[c].chunk : m[c].chunk[i] \in ChunkStates
  BY <1>1, LenProperties, ElementOfSeq
<1> QED BY <1>1, <1>2, <1>3

LEMMA Parts ==
  IndInv <=> MergeInv /\ StreamInv /\ ReqInv /\ JobInv /\ ArtInv /\ MetInv
  BY MergeTyped DEF IndInv, TypeOK, StreamInv, ReqInv, JobInv, ArtInv, MetInv, TempNames

LEMMA PartsNext ==
  MergeInv' /\ StreamInv' /\ ReqInv' /\ JobInv' /\ ArtInv' /\ MetInv' => IndInv'
  BY Parts, PTL

-----------------------------------------------------------------------------
(* ORDER BY line_id.                                                       *)
LEMMA InOrderSorts ==
  ASSUME NEW S \in SUBSET Nat, IsFiniteSet(S)
  PROVE  Sorted(InOrder(S), S)
  BY SortedExists DEF Sorted, InOrder

LEMMA FunctionIsSeq ==
  ASSUME NEW S, NEW n \in Nat, NEW s \in [1 .. n -> S]
  PROVE  s \in Seq(S) /\ Len(s) = n
  OBVIOUS

(* The files of a set of lines.                                            *)
LEMMA InOrderTyped ==
  ASSUME NEW S \in SUBSET Files, S # {}
  PROVE  InOrder(S) \in Seq(Files) /\ InOrder(S) # <<>> /\ InOrder(S) \in Seq(Nat)
<1> DEFINE s == InOrder(S)
           n == Cardinality(S)
<1>1. IsFiniteSet(S) /\ S \in SUBSET Nat
  BY RenderAssumption, FS_Subset
<1>2. n \in Nat /\ n # 0
  BY <1>1, FS_CardinalityType, FS_EmptySet
<1>3. s \in [1 .. n -> S]
  BY <1>1, InOrderSorts DEF Sorted
<1> HIDE DEF s, n
<1>4. s \in Seq(S) /\ Len(s) = n
  BY <1>2, <1>3, FunctionIsSeq
<1>5. s \in Seq(Files) /\ s \in Seq(Nat)
  BY <1>1, <1>4, SeqMonotonic
<1>6. s # <<>>
  BY <1>2, <1>4, EmptySeq
<1> QED BY <1>5, <1>6 DEF s

(* A range that has as many lines with media as it has lines has exactly   *)
(* those, in order.                                                        *)
LEMMA WholeRange ==
  ASSUME NEW want \in Seq(Nat), want # <<>>,
         \A i \in 1 .. Len(want) : want[i] = want[1] + i - 1,
         NEW S \in SUBSET Files,
         \A f \in S : f >= want[1] /\ f <= want[Len(want)],
         Cardinality(S) = Len(want)
  PROVE  InOrder(S) = want
<1> DEFINE a == want[1]
           b == want[Len(want)]
           s == InOrder(S)
<1>1. Len(want) \in Nat /\ Len(want) >= 1 /\ a \in Nat
  BY EmptySeq, ElementOfSeq
<1>2. b \in Nat /\ a <= b /\ b - a + 1 = Len(want)
  BY <1>1
<1> HIDE DEF b, a
<1>3. IsFiniteSet(S) /\ S \in SUBSET Nat
  BY RenderAssumption, FS_Subset
<1>4. S \in SUBSET (a .. b)
  BY <1>1, <1>2, <1>3 DEF a, b
<1>5. S = a .. b
  <2>1. a \in Int /\ b \in Int /\ ~(a > b)
    BY <1>1, <1>2
  <2>2. IsFiniteSet(a .. b) /\ Cardinality(a .. b) = IF a > b THEN 0 ELSE b - a + 1
    BY <2>1, FS_Interval
  <2>3. Cardinality(a .. b) = Cardinality(S)
    BY <1>2, <2>1, <2>2
  <2> DEFINE T == a .. b
  <2>4. IsFiniteSet(T) /\ S \in SUBSET T /\ Cardinality(T) = Cardinality(S)
    BY <1>4, <2>2, <2>3
  <2> HIDE DEF T
  <2>5. T = S
    BY <2>4, FS_Subset
  <2> QED BY <2>5 DEF T
<1>6. Sorted(s, a .. b)
  BY <1>3, <1>5, InOrderSorts
<1>7. s \in [1 .. Len(want) -> a .. b] /\ \A i \in 1 .. Len(want) : s[i] = a + i - 1
  <2> HIDE DEF s
  <2>1. a \in Int /\ b \in Int
    BY <1>1, <1>2
  <2>2. s \in [1 .. b - a + 1 -> a .. b] /\ \A i \in 1 .. b - a + 1 : s[i] = a + i - 1
    BY <1>2, <1>6, <2>1, SortedInterval
  <2> QED BY <1>2, <2>2
<1> HIDE DEF s
<1>8. s \in Seq(Nat) /\ Len(s) = Len(want)
  <2>1. s \in Seq(a .. b) /\ Len(s) = Len(want)
    BY <1>1, <1>7, FunctionIsSeq
  <2>2. a .. b \subseteq Nat
    BY <1>1, <1>2
  <2> QED BY <2>1, <2>2, SeqMonotonic
<1>9. \A i \in 1 .. Len(s) : s[i] = want[i]
  BY <1>7, <1>8 DEF a
<1> QED BY <1>8, <1>9, SeqEqual DEF s
-----------------------------------------------------------------------------
(* A step of one request keeps ReqInv when it keeps that request's part.   *)
LEMMA OneRequest ==
  ASSUME NEW r \in Calls, NEW x \in ReqType, ReqInv, req' = [req EXCEPT ![r] = x],
         \A q \in Calls \ {r} :
           /\ m'[q] = m[q] /\ defers'[q] = defers[q]
           /\ \A f \in {"out", "side", "src"} : <<q, f>> \in temp' => <<q, f>> \in temp,
         DOMAIN defers' = Calls, temp' \subseteq Calls \X TempNames, ReqOK(r)'
  PROVE  ReqInv'
<1>1. req' \in [Calls -> ReqType]
  BY DEF ReqInv
<1>2. ASSUME NEW q \in Calls PROVE ReqOK(q)'
  <2>1. CASE q = r
    BY <2>1
  <2>2. CASE q # r
    <3>1. ReqOK(q) /\ req'[q] = req[q] /\ m'[q] = m[q] /\ defers'[q] = defers[q]
      BY <2>2 DEF ReqInv
    <3>2. Stage(q)' /\ Wanted(q)' /\ Merging(q)'
      BY <3>1 DEF ReqOK, Stage, Wanted, Merging, HasMerged
    <3>3. Removes(q)'
      BY <2>2, <3>1 DEF ReqOK, Removes, HasMerged
    <3> QED BY <3>2, <3>3 DEF ReqOK
  <2> QED BY <2>1, <2>2
<1> QED BY <1>1, <1>2 DEF ReqInv

(* What the steps make of a request.                                       *)
ReqStates == {"idle", "status", "list", "files", "claim", "trim", "start", "merge",
              "encode", "sidecar", "upload", "upside", "ended", "killed"}

LEMMA NoReqTyped ==
  /\ NoReq \in ReqType /\ NoReq.kind = None /\ NoReq.at = "idle" /\ NoReq.side = FALSE
  /\ NoReq.files = <<>>
  BY DEF NoReq, ReqType, None

LEMMA MovedTyped ==
  ASSUME NEW q \in ReqType, NEW a \in ReqStates
  PROVE  LET x == [q EXCEPT !.at = a] IN
         /\ x \in ReqType /\ x.at = a /\ x.kind = q.kind /\ x.ext = q.ext
         /\ x.want = q.want /\ x.files = q.files /\ x.side = q.side
  BY DEF ReqType, ReqStates

LEMMA SideTyped ==
  ASSUME NEW q \in ReqType, NEW a \in ReqStates, NEW b \in BOOLEAN
  PROVE  LET x == [q EXCEPT !.at = a, !.side = b] IN
         /\ x \in ReqType /\ x.at = a /\ x.kind = q.kind /\ x.ext = q.ext
         /\ x.want = q.want /\ x.files = q.files /\ x.side = b
  BY DEF ReqType, ReqStates

LEMMA ClipTyped ==
  ASSUME NEW q \in ReqType, NEW files \in Seq(Files)
  PROVE  LET x == [q EXCEPT !.at = "start", !.files = files] IN
         /\ x \in ReqType /\ x.at = "start" /\ x.kind = q.kind /\ x.ext = q.ext
         /\ x.want = q.want /\ x.files = files /\ x.side = q.side
  BY DEF ReqType, ReqStates

LEMMA VodTyped ==
  ASSUME NEW q \in ReqType, NEW files \in Seq(Files), files \in Seq(Nat)
  PROVE  LET x == [q EXCEPT !.at = "claim", !.files = files, !.want = files] IN
         /\ x \in ReqType /\ x.at = "claim" /\ x.kind = q.kind /\ x.ext = q.ext
         /\ x.want = files /\ x.files = files /\ x.side = q.side
  BY DEF ReqType, ReqStates

LEMMA EndedTyped == Ended \in ReqType /\ Ended.kind = None /\ Ended.at = "ended" /\ Ended.side = FALSE
<1>1. "ended" \in ReqStates
  BY DEF ReqStates
<1> QED BY <1>1, NoReqTyped, MovedTyped DEF Ended

(* A request that has ended and left nothing.                              *)
LEMMA EndedOK ==
  ASSUME NEW r \in Calls, req'[r] = Ended, m'[r].at = "none", defers'[r] = {},
         \A f \in {"out", "side", "src"} : <<r, f>> \notin temp'
  PROVE  ReqOK(r)'
<1> USE EndedTyped
<1>1. Stage(r)' /\ Wanted(r)'
  BY DEF Stage, Wanted, None
<1>2. Merging(r)' /\ Removes(r)'
  BY DEF Merging, Removes, HasMerged, None
<1> QED BY <1>1, <1>2 DEF ReqOK

-----------------------------------------------------------------------------
(* Jobs: a step that neither starts nor ends a build, and one that ends.   *)
LEMMA JobUnmoved ==
  ASSUME JobInv, NEW r \in Calls, NEW x, DOMAIN req = Calls, req' = [req EXCEPT ![r] = x],
         UNCHANGED <<job, registry, forgot>>,
         (x.kind = "vod" /\ x.at \in {"start", "merge", "encode", "upload"}) <=> Building(r)
  PROVE  JobInv'
<1>1. \A q \in Calls : Building(q)' <=> Building(q)
  BY DEF Building
<1> QED BY <1>1 DEF JobInv, JobFollowsBuild, Registered

LEMMA JobReturned ==
  ASSUME JobInv, NEW r \in Calls, DOMAIN req = Calls, req' = [req EXCEPT ![r] = Ended],
         NEW outcome \in {"done", "failed"},
         job' = IF Building(r) THEN [job EXCEPT ![r] = outcome] ELSE job,
         UNCHANGED <<registry, forgot>>
  PROVE  JobInv'
<1>1. ~Building(r)' /\ \A q \in Calls \ {r} : Building(q)' <=> Building(q)
  BY EndedTyped DEF Building, None
<1>2. job' \in [Calls -> {None, "running", "done", "failed"}]
  BY DEF JobInv
<1>3. job'[r] # "running" /\ \A q \in Calls \ {r} : job'[q] = job[q]
  BY DEF JobInv, JobFollowsBuild
<1> QED BY <1>1, <1>2, <1>3 DEF JobInv, JobFollowsBuild, Registered

(* VODs: a step that stores none and takes no request past the look-up.    *)
LEMMA MetUnmoved ==
  ASSUME MetInv, NEW r \in Calls, NEW x, DOMAIN req = Calls, req' = [req EXCEPT ![r] = x],
         vods' \subseteq vods, met \subseteq met',
         x.kind = "vod" =>
           /\ req[r].kind = "vod" /\ x.ext = req[r].ext
           /\ x.at \notin {"status", "list"} => req[r].at \notin {"status", "list"}
  PROVE  MetInv'
<1>1. \A q \in Calls : req'[q] = IF q = r THEN x ELSE req[q]
  OBVIOUS
<1>2. CopiesOverlap'
  BY DEF MetInv, CopiesOverlap
<1>3. \A p, q \in Calls : p # q /\ req'[p].kind = "vod" /\ req'[q].kind = "vod" => {p, q} \in met'
  <2> SUFFICES ASSUME NEW p \in Calls, NEW q \in Calls, p # q,
                      req'[p].kind = "vod", req'[q].kind = "vod"
               PROVE  {p, q} \in met'
    OBVIOUS
  <2>1. req[p].kind = "vod" /\ req[q].kind = "vod"
    BY <1>1
  <2>2. {p, q} \in met
    BY <2>1 DEF MetInv, Met
  <2> QED BY <2>2
<1>4. ASSUME NEW q \in Calls, NEW v \in vods', req'[q].kind = "vod",
             req'[q].at \notin {"status", "list"}, v.ext = req'[q].ext, v.id # q
      PROVE  {q, v.id} \in met'
  <2>1. /\ req[q].kind = "vod" /\ req[q].at \notin {"status", "list"}
        /\ v.ext = req[q].ext
    BY <1>1, <1>4
  <2>2. {q, v.id} \in met
    BY <1>4, <2>1 DEF MetInv, Met
  <2> QED BY <2>2
<1> QED BY <1>2, <1>3, <1>4 DEF MetInv, Met

-----------------------------------------------------------------------------
(* Return: the merge is over and its file is among the removals, so that   *)
(* nothing of the request stays.                                           *)
LEMMA ReturnKeeps ==
  ASSUME MergeInv, ReqInv, JobInv, NEW r \in Calls, NEW outcome \in {"done", "failed"},
         NEW left \in SUBSET {<<r, "trim">>}, Return(r, outcome, left),
         req[r].at = "merge" => m[r].at = "err"
  PROVE  MergeInv' /\ ReqInv' /\ JobInv'
<1>1. ReqOK(r) /\ CallOK(m[r])
  BY DEF ReqInv, MergeInv
<1>2. m[r].at \in {"none", "err"} \/ (m[r].at = "ok" /\ "raw" \in defers[r])
  BY <1>1 DEF ReqOK, Merging, Removes
<1>3. m[r].disk = {} /\ ~(m[r].raw /\ "raw" \notin defers[r])
  BY <1>1, <1>2 DEF CallOK, Rested, AtRest
<1>4. m' = [m EXCEPT ![r] = NoCall]
  <2>1. [NoCall EXCEPT !.disk = m[r].disk, !.raw = m[r].raw /\ "raw" \notin defers[r]] = NoCall
    <3>1. (m[r].raw /\ "raw" \notin defers[r]) = FALSE
      BY <1>3
    <3>2. NoCall \in CallType /\ NoCall.disk = {} /\ NoCall.raw = FALSE
      BY NoCallOK DEF CallOK, NoCall
    <3>3. [NoCall EXCEPT !.disk = NoCall.disk, !.raw = NoCall.raw] = NoCall
      BY <3>2 DEF CallType
    <3> QED BY <1>3, <3>1, <3>2, <3>3
  <2> QED BY <2>1 DEF Return
<1>5. MergeInv'
  BY <1>4, NoCallOK, OneCall
<1>6. ReqInv'
  <2>1. /\ req'[r] = Ended /\ m'[r].at = "none" /\ defers'[r] = {} /\ DOMAIN defers' = Calls
        /\ req' = [req EXCEPT ![r] = Ended]
    BY <1>4 DEF ReqInv, MergeInv, Return, NoCall
  <2>2. \A f \in {"out", "side", "src"} : <<r, f>> \notin temp'
    BY <1>1 DEF Return, ReqOK, Removes
  <2>3. temp' \subseteq Calls \X TempNames
    BY DEF ReqInv, Return, TempNames
  <2>4. \A q \in Calls \ {r} :
          /\ m'[q] = m[q] /\ defers'[q] = defers[q]
          /\ \A f \in {"out", "side", "src"} : <<q, f>> \in temp' => <<q, f>> \in temp
    BY <1>4 DEF MergeInv, ReqInv, Return
  <2>5. ReqOK(r)'
    BY <2>1, <2>2, EndedOK
  <2> QED BY <2>1, <2>3, <2>4, <2>5, OneRequest, EndedTyped
<1>7. JobInv'
  BY JobReturned DEF Return, ReqInv
<1> QED BY <1>5, <1>6, <1>7

(* The rest of a step that returns and stores nothing.                     *)
LEMMA ReturnEnds ==
  ASSUME IndInv, NEW r \in Calls, NEW outcome \in {"done", "failed"},
         NEW left \in SUBSET {<<r, "trim">>}, Return(r, outcome, left),
         req[r].at = "merge" => m[r].at = "err",
         UNCHANGED <<vods, clips>>, StreamInv'
  PROVE  IndInv'
<1>1. MergeInv /\ StreamInv /\ ReqInv /\ JobInv /\ ArtInv /\ MetInv
  BY Parts
<1>2. MergeInv' /\ ReqInv' /\ JobInv'
  BY <1>1, ReturnKeeps
<1>3. ArtInv'
  BY <1>1 DEF ArtInv, ArtifactsWhole
<1>4. MetInv'
  <2>1. DOMAIN req = Calls /\ req' = [req EXCEPT ![r] = Ended] /\ met' = met
    BY <1>1 DEF ReqInv, Return
  <2> QED BY <1>1, <2>1, MetUnmoved, EndedTyped DEF None
<1> QED BY <1>2, <1>3, <1>4, PartsNext

-----------------------------------------------------------------------------
(* A step of one request that starts no build, ends none and stores no VOD *)
(* keeps IndInv when it keeps the request's part.                          *)
LEMMA RequestStep ==
  ASSUME IndInv, NEW r \in Calls, NEW x \in ReqType, req' = [req EXCEPT ![r] = x],
         \A q \in Calls \ {r} :
           /\ m'[q] = m[q] /\ defers'[q] = defers[q]
           /\ \A f \in {"out", "side", "src"} : <<q, f>> \in temp' => <<q, f>> \in temp,
         DOMAIN defers' = Calls, temp' \subseteq Calls \X TempNames, ReqOK(r)',
         UNCHANGED <<job, registry, forgot, vods>>, met \subseteq met',
         (x.kind = "vod" /\ x.at \in {"start", "merge", "encode", "upload"}) <=> Building(r),
         x.kind = "vod" =>
           /\ req[r].kind = "vod" /\ x.ext = req[r].ext
           /\ x.at \notin {"status", "list"} => req[r].at \notin {"status", "list"},
         MergeInv', StreamInv', ArtInv'
  PROVE  IndInv'
<1>1. ReqInv /\ JobInv /\ MetInv /\ DOMAIN req = Calls
  BY Parts DEF ReqInv
<1>2. ReqInv'
  BY <1>1, OneRequest
<1>3. JobInv'
  BY <1>1, JobUnmoved
<1>4. MetInv'
  BY <1>1, MetUnmoved
<1> QED BY <1>2, <1>3, <1>4, PartsNext

(* The same where only the request changes.                                *)
LEMMA RequestMoves ==
  ASSUME IndInv, NEW r \in Calls, NEW x \in ReqType, req' = [req EXCEPT ![r] = x], ReqOK(r)',
         UNCHANGED <<mergeVars, streamVars, tempVars, job, registry, forgot, storageVars, closing>>,
         met \subseteq met',
         (x.kind = "vod" /\ x.at \in {"start", "merge", "encode", "upload"}) <=> Building(r),
         x.kind = "vod" =>
           /\ req[r].kind = "vod" /\ x.ext = req[r].ext
           /\ x.at \notin {"status", "list"} => req[r].at \notin {"status", "list"}
  PROVE  IndInv'
<1>1. MergeInv /\ StreamInv /\ ReqInv /\ ArtInv
  BY Parts
<1>2. /\ m' = m /\ defers' = defers /\ temp' = temp
      /\ UNCHANGED <<job, registry, forgot, vods, clips>>
  BY DEF mergeVars, tempVars, storageVars
<1>3. MergeInv' /\ ArtInv'
  BY <1>1, <1>2 DEF MergeInv, ArtInv, ArtifactsWhole
<1>4. StreamInv'
  BY <1>1 DEF StreamInv, mergeVars, streamVars, storageVars
<1>5. DOMAIN defers' = Calls /\ temp' \subseteq Calls \X TempNames
  BY <1>1, <1>2 DEF ReqInv
<1> QED BY <1>2, <1>3, <1>4, <1>5, RequestStep

(* A request ends that never got as far as a merge or a file.              *)
LEMMA EndsEarly ==
  ASSUME IndInv, NEW r \in Calls, req[r].at \in {"idle", "status", "list", "files", "claim"},
         req' = [req EXCEPT ![r] = Ended],
         UNCHANGED <<mergeVars, streamVars, tempVars, job, registry, forgot, storageVars, closing>>,
         met \subseteq met'
  PROVE  IndInv'
<1>1. MergeInv /\ ReqInv /\ ReqOK(r) /\ DOMAIN req = Calls
  BY Parts DEF ReqInv
<1>2. m[r].at = "none" /\ defers[r] = {} /\ ~Building(r)
  BY <1>1 DEF ReqOK, Merging, Removes, HasMerged, Building
<1>3. \A f \in {"out", "side", "src"} : <<r, f>> \notin temp
  BY <1>1, <1>2 DEF ReqOK, Removes
<1>4. m' = m /\ defers' = defers /\ temp' = temp /\ req'[r] = Ended
  BY <1>1 DEF mergeVars, tempVars
<1>5. ReqOK(r)'
  BY <1>2, <1>3, <1>4, EndedOK
<1> QED BY <1>2, <1>5, EndedTyped, RequestMoves DEF None

-----------------------------------------------------------------------------
(* VOD requests.                                                           *)
LEMMA PostVodKeeps ==
  ASSUME IndInv, NEW r \in Calls, PostVod(r)
  PROVE  IndInv'
<1>1. /\ StreamInv /\ MergeInv /\ ReqInv /\ JobInv /\ ArtInv /\ MetInv /\ ReqOK(r)
      /\ DOMAIN req = Calls /\ At(r, "idle")
  BY Parts DEF ReqInv, PostVod
<1>2. UNCHANGED <<mergeVars, streamVars, tempVars, job, registry, forgot, storageVars, closing>>
      /\ met \subseteq met'
  BY DEF PostVod
<1>3. CASE ~(resolveVodTarget /\ CountTranscriptMedia # 0)
  BY <1>1, <1>2, <1>3, EndsEarly DEF PostVod, At
<1>4. CASE resolveVodTarget /\ CountTranscriptMedia # 0
  <2> DEFINE e == Extension
             x == [NoReq EXCEPT !.kind = "vod", !.at = "status", !.ext = e]
  <2>1. e \in {"mp4", "m4a", "mp3"}
    BY DEF Extension
  <2>2. req' = [req EXCEPT ![r] = x]
    BY <1>4 DEF PostVod
  <2> HIDE DEF e
  <2>3. /\ x \in ReqType /\ x.at = "status" /\ x.kind = "vod" /\ x.ext = e /\ x.side = FALSE
    BY <2>1, NoReqTyped DEF ReqType, None
  <2> HIDE DEF x
  <2>4. m' = m /\ defers' = defers /\ temp' = temp /\ req'[r] = x
    BY <1>1, <1>2, <2>2 DEF mergeVars, tempVars
  <2>5. ReqOK(r)'
    <3>1. Stage(r)' /\ Wanted(r)'
      BY <2>1, <2>3, <2>4 DEF Stage, Wanted, None
    <3>2. Merging(r)' /\ Removes(r)'
      BY <1>1, <2>3, <2>4 DEF ReqOK, Merging, Removes, HasMerged, At
    <3> QED BY <3>1, <3>2 DEF ReqOK
  <2>6. ReqInv'
    <3>1. DOMAIN defers' = Calls /\ temp' \subseteq Calls \X TempNames
      BY <1>1, <2>4 DEF ReqInv
    <3> QED BY <1>1, <2>2, <2>3, <2>4, <2>5, <3>1, OneRequest
  <2>7. JobInv'
    <3>1. ~Building(r) /\ UNCHANGED <<job, registry, forgot>>
      BY <1>1, <1>2 DEF At, Building
    <3> QED BY <1>1, <2>2, <2>3, <3>1, JobUnmoved
  <2>8. MetInv'
    <3>1. vods' = vods
      BY <1>2 DEF storageVars
    <3>2. CopiesOverlap'
      BY <1>1, <1>2, <3>1 DEF MetInv, CopiesOverlap
    <3>3. \A q \in Calls \ {r} : req'[q] = req[q]
      BY <1>1, <2>2
    <3>4. ASSUME NEW q \in Calls, q # r, req[q].kind = "vod"
          PROVE  {r, q} \in met'
      <4>1. InFlight(q)
        BY <1>1, <3>4 DEF ReqInv, ReqOK, Stage, InFlight, None
      <4> QED BY <4>1 DEF PostVod
    <3>5. ASSUME NEW p \in Calls, NEW q \in Calls, p # q,
                 req'[p].kind = "vod", req'[q].kind = "vod"
          PROVE  {p, q} \in met'
      <4>1. CASE p = r
        BY <3>3, <3>4, <3>5, <4>1
      <4>2. CASE q = r
        <5>1. {r, p} \in met'
          BY <3>3, <3>4, <3>5, <4>2
        <5>2. {r, p} = {p, q}
          BY <4>2
        <5> QED BY <5>1, <5>2
      <4>3. CASE p # r /\ q # r
        <5>1. {p, q} \in met
          BY <1>1, <3>3, <3>5, <4>3 DEF MetInv, Met
        <5> QED BY <1>2, <5>1
      <4> QED BY <4>1, <4>2, <4>3
    <3>6. ASSUME NEW q \in Calls, NEW v \in vods', req'[q].kind = "vod",
                 req'[q].at \notin {"status", "list"}, v.ext = req'[q].ext, v.id # q
          PROVE  {q, v.id} \in met'
      <4>1. q # r
        BY <2>3, <2>4, <3>6
      <4>2. {q, v.id} \in met
        BY <1>1, <3>1, <3>3, <3>6, <4>1 DEF MetInv, Met
      <4> QED BY <1>2, <4>2
    <3> QED BY <3>2, <3>5, <3>6 DEF MetInv, Met
  <2>9. MergeInv' /\ ArtInv'
    BY <1>1, <1>2, <2>4 DEF MergeInv, ArtInv, ArtifactsWhole, storageVars
  <2>10. StreamInv'
    BY <1>1, <1>2 DEF StreamInv, mergeVars, streamVars, storageVars
  <2> QED BY <2>6, <2>7, <2>8, <2>9, <2>10, PartsNext
<1> QED BY <1>3, <1>4

LEMMA VodStatusKeeps ==
  ASSUME IndInv, NEW r \in Calls, VodStatus(r)
  PROVE  IndInv'
<1>1. /\ ReqInv /\ ReqOK(r) /\ At(r, "status")
      /\ UNCHANGED <<mergeVars, streamVars, tempVars, jobVars, storageVars, closing>>
  BY Parts DEF ReqInv, VodStatus
<1>2. CASE JobRunning
  BY <1>1, <1>2, EndsEarly DEF VodStatus, At, jobVars
<1>3. CASE ~JobRunning
  <2> DEFINE q == req[r]
             x == [q EXCEPT !.at = "list"]
  <2>1. q \in ReqType /\ DOMAIN req = Calls /\ q.kind = "vod" /\ q.at = "status"
    BY <1>1 DEF ReqInv, ReqOK, Stage, At
  <2>2. req' = [req EXCEPT ![r] = x]
    BY <1>3, <2>1 DEF VodStatus
  <2> HIDE DEF q
  <2>3. /\ x \in ReqType /\ x.at = "list" /\ x.kind = q.kind /\ x.ext = q.ext
        /\ x.want = q.want /\ x.files = q.files /\ x.side = q.side
    BY <2>1, MovedTyped, "list" \in ReqStates DEF ReqStates
  <2> HIDE DEF x
  <2>4. m' = m /\ defers' = defers /\ temp' = temp /\ req'[r] = x
    BY <1>1, <2>1, <2>2 DEF mergeVars, tempVars
  <2>5. ReqOK(r)'
    <3>1. Stage(r)' /\ Wanted(r)'
      BY <1>1, <2>1, <2>3, <2>4 DEF ReqOK, Stage, Wanted, None, q
    <3>2. Merging(r)' /\ Removes(r)'
      BY <1>1, <2>1, <2>3, <2>4 DEF ReqOK, Merging, Removes, HasMerged, q
    <3> QED BY <3>1, <3>2 DEF ReqOK
  <2>6. ~Building(r) /\ met' = met /\ UNCHANGED <<job, registry, forgot>>
    BY <1>1, <2>1 DEF Building, jobVars, q
  <2> QED BY <1>1, <2>1, <2>2, <2>3, <2>5, <2>6, RequestMoves DEF q
<1> QED BY <1>2, <1>3

(* The look-up: from here on no VOD of this format is older.               *)
LEMMA FindKeeps ==
  ASSUME IndInv, NEW r \in Calls, findVodArtifact(r)
  PROVE  IndInv'
<1>1. /\ MergeInv /\ StreamInv /\ ReqInv /\ JobInv /\ ArtInv /\ MetInv
      /\ ReqOK(r) /\ At(r, "list")
      /\ UNCHANGED <<mergeVars, streamVars, tempVars, jobVars, storageVars, closing>>
  BY Parts DEF ReqInv, findVodArtifact
<1>2. CASE \E v \in vods : v.ext = req[r].ext
  BY <1>1, <1>2, EndsEarly DEF findVodArtifact, At, jobVars
<1>3. CASE ~\E v \in vods : v.ext = req[r].ext
  <2> DEFINE q == req[r]
             x == [q EXCEPT !.at = "files"]
  <2>1. q \in ReqType /\ DOMAIN req = Calls /\ q.kind = "vod" /\ q.at = "list"
    BY <1>1 DEF ReqInv, ReqOK, Stage, At
  <2>2. req' = [req EXCEPT ![r] = x]
    BY <1>3, <2>1 DEF findVodArtifact
  <2> HIDE DEF q
  <2>3. /\ x \in ReqType /\ x.at = "files" /\ x.kind = q.kind /\ x.ext = q.ext
        /\ x.want = q.want /\ x.files = q.files /\ x.side = q.side
    BY <2>1, MovedTyped, "files" \in ReqStates DEF ReqStates
  <2> HIDE DEF x
  <2>4. /\ m' = m /\ defers' = defers /\ temp' = temp /\ req'[r] = x
        /\ UNCHANGED <<job, registry, forgot, met, vods, clips>>
    BY <1>1, <2>1, <2>2 DEF mergeVars, tempVars, jobVars, storageVars
  <2>5. ReqOK(r)'
    <3>1. Stage(r)' /\ Wanted(r)'
      BY <1>1, <2>1, <2>3, <2>4 DEF ReqOK, Stage, Wanted, None, q
    <3>2. Merging(r)' /\ Removes(r)'
      BY <1>1, <2>1, <2>3, <2>4 DEF ReqOK, Merging, Removes, HasMerged, q
    <3> QED BY <3>1, <3>2 DEF ReqOK
  <2>6. ReqInv'
    <3>1. DOMAIN defers' = Calls /\ temp' \subseteq Calls \X TempNames
      BY <1>1, <2>4 DEF ReqInv
    <3> QED BY <1>1, <2>2, <2>3, <2>4, <2>5, <3>1, OneRequest
  <2>7. JobInv'
    <3>1. ~Building(r)
      BY <2>1 DEF Building, q
    <3> QED BY <1>1, <2>1, <2>2, <2>3, <2>4, <3>1, JobUnmoved
  <2>8. MetInv'
    <3>1. CopiesOverlap'
      BY <1>1, <2>4 DEF MetInv, CopiesOverlap
    <3>2. \A p \in Calls : req'[p] = IF p = r THEN x ELSE req[p]
      BY <2>1, <2>2
    <3>3. ASSUME NEW p \in Calls, NEW w \in Calls, p # w,
                 req'[p].kind = "vod", req'[w].kind = "vod"
          PROVE  {p, w} \in met'
      <4>1. req[p].kind = "vod" /\ req[w].kind = "vod"
        BY <2>1, <3>2, <3>3 DEF q
      <4> QED BY <1>1, <2>4, <3>3, <4>1 DEF MetInv, Met
    <3>4. ASSUME NEW p \in Calls, NEW v \in vods', req'[p].kind = "vod",
                 req'[p].at \notin {"status", "list"}, v.ext = req'[p].ext, v.id # p
          PROVE  {p, v.id} \in met'
      <4>1. p # r
        BY <1>3, <2>3, <2>4, <3>4 DEF q
      <4> QED BY <1>1, <2>4, <3>2, <3>4, <4>1 DEF MetInv, Met
    <3> QED BY <3>1, <3>3, <3>4 DEF MetInv, Met
  <2>9. MergeInv' /\ ArtInv'
    BY <1>1, <2>4 DEF MergeInv, ArtInv, ArtifactsWhole
  <2>10. StreamInv'
    BY <1>1 DEF StreamInv, mergeVars, streamVars, storageVars
  <2> QED BY <2>6, <2>7, <2>8, <2>9, <2>10, PartsNext
<1> QED BY <1>2, <1>3

LEMMA VodFilesKeeps ==
  ASSUME IndInv, NEW r \in Calls, GetAllMediaFileIDs(r)
  PROVE  IndInv'
<1>1. /\ ReqInv /\ StreamInv /\ ReqOK(r) /\ req[r].at = "files" /\ req[r].kind = "vod"
      /\ UNCHANGED <<mergeVars, streamVars, tempVars, jobVars, storageVars, closing>>
  BY Parts DEF ReqInv, GetAllMediaFileIDs, At
<1>2. CASE avail = {}
  BY <1>1, <1>2, EndsEarly DEF GetAllMediaFileIDs, jobVars
<1>3. CASE avail # {}
  <2> DEFINE q == req[r]
             files == InOrder(avail)
             x == [q EXCEPT !.at = "claim", !.files = files, !.want = files]
  <2>1. q \in ReqType /\ DOMAIN req = Calls
    BY <1>1 DEF ReqInv
  <2>2. req' = [req EXCEPT ![r] = x]
    BY <1>3, <2>1 DEF GetAllMediaFileIDs
  <2>3. files \in Seq(Files) /\ files \in Seq(Nat) /\ files # <<>>
    BY <1>1, <1>3, InOrderTyped DEF StreamInv
  <2> HIDE DEF q, files
  <2>4. /\ x \in ReqType /\ x.at = "claim" /\ x.kind = q.kind /\ x.ext = q.ext
        /\ x.want = files /\ x.files = files /\ x.side = q.side
    BY <2>1, <2>3, VodTyped
  <2> HIDE DEF x
  <2>5. m' = m /\ defers' = defers /\ temp' = temp /\ req'[r] = x
    BY <1>1, <2>1, <2>2 DEF mergeVars, tempVars
  <2>6. ReqOK(r)'
    <3>1. Stage(r)' /\ Wanted(r)'
      BY <1>1, <2>3, <2>4, <2>5 DEF ReqOK, Stage, Wanted, None, q
    <3>2. Merging(r)' /\ Removes(r)'
      BY <1>1, <2>4, <2>5 DEF ReqOK, Merging, Removes, HasMerged, q
    <3> QED BY <3>1, <3>2 DEF ReqOK
  <2>7. ~Building(r) /\ met' = met /\ UNCHANGED <<job, registry, forgot>>
    BY <1>1 DEF Building, jobVars
  <2> QED BY <1>1, <2>2, <2>4, <2>6, <2>7, RequestMoves DEF q
<1> QED BY <1>2, <1>3

(* The claim: no build runs that the registry still knows.                 *)
LEMMA ClaimKeeps ==
  ASSUME IndInv, NEW r \in Calls, claim(r)
  PROVE  IndInv'
<1>1. /\ MergeInv /\ StreamInv /\ ReqInv /\ JobInv /\ ArtInv /\ MetInv
      /\ ReqOK(r) /\ req[r].at = "claim"
      /\ UNCHANGED <<mergeVars, streamVars, tempVars, storageVars, closing>>
  BY Parts DEF ReqInv, claim, At
<1>2. CASE JobRunning
  BY <1>1, <1>2, EndsEarly DEF claim, jobVars
<1>3. CASE ~JobRunning
  <2> DEFINE q == req[r]
             x == [q EXCEPT !.at = "start"]
  <2>1. q \in ReqType /\ DOMAIN req = Calls /\ q.kind = "vod" /\ q.at = "claim"
    BY <1>1 DEF ReqInv, ReqOK, Stage
  <2>2. /\ req' = [req EXCEPT ![r] = x] /\ registry' = r
        /\ job' = [job EXCEPT ![r] = "running"] /\ UNCHANGED <<forgot, met>>
    BY <1>3, <2>1 DEF claim, Move
  <2> HIDE DEF q
  <2>3. /\ x \in ReqType /\ x.at = "start" /\ x.kind = q.kind /\ x.ext = q.ext
        /\ x.want = q.want /\ x.files = q.files /\ x.side = q.side
    BY <2>1, MovedTyped, "start" \in ReqStates DEF ReqStates
  <2> HIDE DEF x
  <2>4. /\ m' = m /\ defers' = defers /\ temp' = temp /\ req'[r] = x
        /\ UNCHANGED <<vods, clips>>
    BY <1>1, <2>1, <2>2 DEF mergeVars, tempVars, storageVars
  <2>5. ReqOK(r)'
    <3>1. Stage(r)' /\ Wanted(r)'
      BY <1>1, <2>1, <2>3, <2>4 DEF ReqOK, Stage, Wanted, None, q
    <3>2. Merging(r)' /\ Removes(r)'
      BY <1>1, <2>1, <2>3, <2>4 DEF ReqOK, Merging, Removes, HasMerged, q
    <3> QED BY <3>1, <3>2 DEF ReqOK
  <2>6. ReqInv'
    <3>1. DOMAIN defers' = Calls /\ temp' \subseteq Calls \X TempNames
      BY <1>1, <2>4 DEF ReqInv
    <3> QED BY <1>1, <2>2, <2>3, <2>4, <2>5, <3>1, OneRequest
  <2>7. JobInv'
    <3>1. Building(r)' /\ \A p \in Calls \ {r} : Building(p)' <=> Building(p)
      BY <2>1, <2>2, <2>3, <2>4 DEF Building, q
    <3>2. \A p \in Calls \ {r} : Building(p) => p \in forgot
      BY <1>1, <1>3, RenderAssumption DEF JobInv, JobFollowsBuild, Registered, JobRunning, None
    <3>3. job' \in [Calls -> {None, "running", "done", "failed"}] /\ job'[r] = "running"
          /\ \A p \in Calls \ {r} : job'[p] = job[p]
      BY <1>1, <2>2 DEF JobInv
    <3> QED BY <1>1, <2>2, <3>1, <3>2, <3>3 DEF JobInv, JobFollowsBuild, Registered
  <2>8. MetInv'
    BY <1>1, <2>1, <2>2, <2>3, <2>4, MetUnmoved DEF q
  <2>9. MergeInv' /\ ArtInv'
    BY <1>1, <2>4 DEF MergeInv, ArtInv, ArtifactsWhole
  <2>10. StreamInv'
    BY <1>1 DEF StreamInv, mergeVars, streamVars, storageVars
  <2> QED BY <2>6, <2>7, <2>8, <2>9, <2>10, PartsNext
<1> QED BY <1>2, <1>3

-----------------------------------------------------------------------------
(* Clips and trims.                                                        *)
LEMMA PostClipKeeps ==
  ASSUME IndInv, NEW r \in Calls, NEW ext \in Formats, NEW start \in Int, NEW end \in Int,
         PostClip(r, ext, start, end)
  PROVE  IndInv'
<1>1. /\ ReqInv /\ ReqOK(r) /\ req[r].at = "idle" /\ DOMAIN req = Calls
      /\ UNCHANGED <<mergeVars, streamVars, tempVars, jobVars, storageVars, closing>>
  BY Parts DEF ReqInv, PostClip, At
<1> DEFINE refused == \/ ext = "mp4" /\ ~(row.exists /\ row.media = "video")
                      \/ start < 0 \/ end < start \/ end - start >= MaxClipSize
<1>2. CASE refused
  BY <1>1, <1>2, EndsEarly DEF PostClip, jobVars
<1>3. CASE ~refused
  <2> DEFINE want == [i \in 1 .. end - start + 1 |-> start + i - 1]
             x == [NoReq EXCEPT !.kind = "clip", !.at = "files", !.ext = ext, !.want = want]
  <2>1. req' = [req EXCEPT ![r] = x]
    BY <1>3 DEF PostClip
  <2>2. /\ want \in Seq(Nat) /\ want # <<>>
        /\ \A i \in 1 .. Len(want) : want[i] = want[1] + i - 1
    <3>1. start \in Nat /\ end - start + 1 \in Nat /\ end - start + 1 >= 1
      BY <1>3
    <3>2. want \in [1 .. end - start + 1 -> Nat]
      BY <3>1
    <3>3. want \in Seq(Nat) /\ Len(want) = end - start + 1
      BY <3>1, <3>2, FunctionIsSeq
    <3>4. \A i \in 1 .. Len(want) : want[i] = start + i - 1
      BY <3>1, <3>3
    <3> HIDE DEF want
    <3>5. want[1] = start
      BY <3>1, <3>3, <3>4
    <3> QED BY <3>1, <3>3, <3>4, <3>5, EmptySeq
  <2> HIDE DEF want
  <2>3. /\ x \in ReqType /\ x.at = "files" /\ x.kind = "clip" /\ x.ext = ext
        /\ x.want = want /\ x.side = FALSE
    <3>1. ext \in {"mp4", "m4a", "mp3"}
      BY RenderAssumption
    <3> QED BY <2>2, <3>1, NoReqTyped DEF ReqType, None
  <2> HIDE DEF x
  <2>4. m' = m /\ defers' = defers /\ temp' = temp /\ req'[r] = x
    BY <1>1, <2>1 DEF mergeVars, tempVars
  <2>5. ReqOK(r)'
    <3>1. ext # None
      BY RenderAssumption DEF None
    <3>2. Stage(r)'
      BY <2>3, <2>4, <3>1 DEF Stage, None
    <3>3. Wanted(r)'
      BY <2>2, <2>3, <2>4 DEF Wanted
    <3>4. Merging(r)' /\ Removes(r)'
      BY <1>1, <2>3, <2>4 DEF ReqOK, Merging, Removes, HasMerged
    <3> QED BY <3>2, <3>3, <3>4 DEF ReqOK
  <2>6. ~Building(r) /\ met' = met /\ UNCHANGED <<job, registry, forgot>>
    BY <1>1 DEF Building, jobVars
  <2> QED BY <1>1, <2>1, <2>3, <2>5, <2>6, RequestMoves
<1> QED BY <1>2, <1>3

LEMMA ClipFilesKeeps ==
  ASSUME IndInv, NEW r \in Calls, ClipFiles(r)
  PROVE  IndInv'
<1>1. /\ ReqInv /\ StreamInv /\ ReqOK(r) /\ req[r].at = "files" /\ req[r].kind = "clip"
      /\ UNCHANGED <<mergeVars, streamVars, tempVars, jobVars, storageVars, closing>>
  BY Parts DEF ReqInv, ClipFiles, At
<1>2. CASE Cardinality(InRange(r)) # Len(req[r].want)
  BY <1>1, <1>2, EndsEarly DEF ClipFiles, jobVars
<1>3. CASE Cardinality(InRange(r)) = Len(req[r].want)
  <2> DEFINE q == req[r]
             files == InOrder(InRange(r))
             x == [q EXCEPT !.at = "start", !.files = files]
  <2>1. q \in ReqType /\ DOMAIN req = Calls
    BY <1>1 DEF ReqInv
  <2>2. req' = [req EXCEPT ![r] = x]
    BY <1>3, <2>1 DEF ClipFiles
  <2>3. q.want \in Seq(Nat) /\ q.want # <<>>
        /\ \A i \in 1 .. Len(q.want) : q.want[i] = q.want[1] + i - 1
    BY <1>1, <2>1 DEF ReqOK, Wanted, ReqType
  <2>4. files = q.want /\ files \in Seq(Files)
    <3> DEFINE S == InRange(r)
    <3>1. S \in SUBSET Files /\ \A f \in S : f >= q.want[1] /\ f <= q.want[Len(q.want)]
      BY <1>1 DEF InRange, StreamInv
    <3>2. Cardinality(S) = Len(q.want)
      BY <1>3
    <3> HIDE DEF S, q
    <3>3. InOrder(S) = q.want
      BY <2>3, <3>1, <3>2, WholeRange
    <3>4. S # {}
      <4>1. Len(q.want) # 0
        BY <2>3, EmptySeq
      <4> QED BY <3>2, <4>1, FS_EmptySet
    <3> QED BY <3>1, <3>3, <3>4, InOrderTyped DEF S
  <2> HIDE DEF q, files
  <2>5. /\ x \in ReqType /\ x.at = "start" /\ x.kind = q.kind /\ x.ext = q.ext
        /\ x.want = q.want /\ x.files = files /\ x.side = q.side
    BY <2>1, <2>4, ClipTyped
  <2> HIDE DEF x
  <2>6. m' = m /\ defers' = defers /\ temp' = temp /\ req'[r] = x
    BY <1>1, <2>1, <2>2 DEF mergeVars, tempVars
  <2>7. ReqOK(r)'
    <3>1. Stage(r)'
      BY <1>1, <2>5, <2>6 DEF ReqOK, Stage, None, q
    <3>2. Wanted(r)'
      BY <1>1, <2>3, <2>4, <2>5, <2>6 DEF ReqOK, Wanted, q
    <3>3. Merging(r)' /\ Removes(r)'
      BY <1>1, <2>5, <2>6 DEF ReqOK, Merging, Removes, HasMerged, q
    <3> QED BY <3>1, <3>2, <3>3 DEF ReqOK
  <2>8. ~Building(r) /\ met' = met /\ UNCHANGED <<job, registry, forgot>>
    BY <1>1 DEF Building, jobVars
  <2>9. x.kind = "clip"
    BY <1>1, <2>5 DEF q
  <2> QED BY <1>1, <2>2, <2>5, <2>7, <2>8, <2>9, RequestMoves
<1> QED BY <1>2, <1>3

LEMMA PostTrimKeeps ==
  ASSUME IndInv, NEW r \in Calls, PostTrim(r)
  PROVE  IndInv'
<1>1. /\ MergeInv /\ StreamInv /\ ReqInv /\ ArtInv /\ ReqOK(r) /\ req[r].at = "idle"
      /\ DOMAIN req = Calls
      /\ UNCHANGED <<mergeVars, streamVars, jobVars, storageVars, closing>>
  BY Parts DEF ReqInv, PostTrim, At
<1>2. CASE req' = [req EXCEPT ![r] = Ended] /\ UNCHANGED tempVars
  BY <1>1, <1>2, EndsEarly DEF jobVars
<1>3. ASSUME NEW c \in clips,
             req' = [req EXCEPT ![r] = [NoReq EXCEPT !.kind = "trim", !.at = "trim",
                                          !.ext = c.ext, !.want = c.content]],
             temp' = temp \cup {<<r, "src">>}, defers' = [defers EXCEPT ![r] = {"src"}]
      PROVE  IndInv'
  <2> DEFINE e == c.ext
             want == c.content
             x == [NoReq EXCEPT !.kind = "trim", !.at = "trim", !.ext = e, !.want = want]
  <2>1. e \in {"mp4", "m4a", "mp3"} /\ want \in Seq(Files)
    BY <1>1 DEF ArtInv, Render
  <2>2. want \in Seq(Nat)
    BY <2>1, RenderAssumption, SeqMonotonic
  <2>3. req' = [req EXCEPT ![r] = x]
    BY <1>3
  <2> HIDE DEF e, want
  <2>4. /\ x \in ReqType /\ x.at = "trim" /\ x.kind = "trim" /\ x.ext = e
        /\ x.want = want /\ x.side = FALSE
    BY <2>1, <2>2, NoReqTyped DEF ReqType, None
  <2> HIDE DEF x
  <2>5. /\ m' = m /\ req'[r] = x /\ defers'[r] = {"src"} /\ DOMAIN defers' = Calls
        /\ \A q \in Calls \ {r} : defers'[q] = defers[q]
        /\ UNCHANGED <<job, registry, forgot, met, vods, clips>>
    BY <1>1, <1>3, <2>3 DEF mergeVars, ReqInv, jobVars, storageVars
  <2>6. ReqOK(r)'
    <3>1. e # None
      BY <2>1 DEF None
    <3>2. Stage(r)' /\ Wanted(r)'
      BY <2>1, <2>4, <2>5, <3>1 DEF Stage, Wanted, None
    <3>3. Merging(r)'
      BY <1>1, <2>4, <2>5 DEF ReqOK, Merging, HasMerged
    <3>4. Removes(r)'
      BY <1>1, <1>3, <2>4, <2>5 DEF ReqOK, Removes, HasMerged
    <3> QED BY <3>2, <3>3, <3>4 DEF ReqOK
  <2>7. /\ temp' \subseteq Calls \X TempNames
        /\ \A q \in Calls \ {r} : \A f \in {"out", "side", "src"} :
              <<q, f>> \in temp' => <<q, f>> \in temp
    BY <1>1, <1>3 DEF ReqInv, TempNames
  <2>8. ~Building(r)
    BY <1>1 DEF Building
  <2>9. MergeInv' /\ ArtInv'
    BY <1>1, <2>5 DEF MergeInv, ArtInv, ArtifactsWhole
  <2>10. StreamInv'
    BY <1>1 DEF StreamInv, mergeVars, streamVars, storageVars
  <2> QED BY <2>3, <2>4, <2>5, <2>6, <2>7, <2>8, <2>9, <2>10, RequestStep
<1> QED BY <1>2, <1>3 DEF PostTrim

-----------------------------------------------------------------------------
(* Merge, encode, upload.                                                  *)

(* A step of ffmpeg that leaves a file and its removal.                    *)
LEMMA AddsFile ==
  ASSUME IndInv, NEW r \in Calls, NEW x \in ReqType, NEW f \in TempNames,
         req' = [req EXCEPT ![r] = x],
         req[r].at \in {"trim", "encode", "sidecar"}, x.at \in {"sidecar", "upload"},
         x.at = "sidecar" \/ x.side => req[r].kind = "clip",
         x.kind = req[r].kind, x.ext = req[r].ext, x.want = req[r].want, x.files = req[r].files,
         temp' = temp \cup {<<r, f>>}, defers' = [defers EXCEPT ![r] = @ \cup {f}],
         UNCHANGED <<mergeVars, streamVars, jobVars, storageVars, closing>>
  PROVE  IndInv'
<1>1. MergeInv /\ StreamInv /\ ReqInv /\ ArtInv /\ ReqOK(r) /\ DOMAIN req = Calls
  BY Parts DEF ReqInv
<1>2. /\ m' = m /\ req'[r] = x /\ defers'[r] = defers[r] \cup {f} /\ DOMAIN defers' = Calls
      /\ \A q \in Calls \ {r} : defers'[q] = defers[q]
      /\ UNCHANGED <<job, registry, forgot, met, vods, clips>>
  BY <1>1 DEF mergeVars, ReqInv, jobVars, storageVars
<1>3. /\ temp' \subseteq Calls \X TempNames
      /\ \A q \in Calls \ {r} : \A g \in {"out", "side", "src"} :
            <<q, g>> \in temp' => <<q, g>> \in temp
  BY <1>1 DEF ReqInv
<1>4. ReqOK(r)'
  <2>1. Stage(r)'
    BY <1>1, <1>2 DEF ReqOK, Stage, None
  <2>2. Wanted(r)'
    BY <1>1, <1>2 DEF ReqOK, Stage, Wanted, None
  <2>3. HasMerged(r)' <=> HasMerged(r)
    BY <1>1, <1>2 DEF ReqOK, Stage, HasMerged
  <2>4. Merging(r)'
    BY <1>1, <1>2, <2>3 DEF ReqOK, Merging
  <2>5. Removes(r)'
    BY <1>1, <1>2, <2>3 DEF ReqOK, Removes
  <2> QED BY <2>1, <2>2, <2>4, <2>5 DEF ReqOK
<1>5. (x.kind = "vod" /\ x.at \in {"start", "merge", "encode", "upload"}) <=> Building(r)
  BY <1>1 DEF ReqOK, Stage, Building
<1>6. MergeInv' /\ ArtInv'
  BY <1>1, <1>2 DEF MergeInv, ArtInv, ArtifactsWhole
<1>7. StreamInv'
  BY <1>1 DEF StreamInv, mergeVars, streamVars, storageVars
<1> QED BY <1>2, <1>3, <1>4, <1>5, <1>6, <1>7, RequestStep

LEMMA TrimKeeps ==
  ASSUME IndInv, NEW r \in Calls, Trim(r)
  PROVE  IndInv'
<1> DEFINE q == req[r]
           x == [q EXCEPT !.at = "upload"]
<1>1. ReqInv /\ ReqOK(r) /\ q \in ReqType /\ q.at = "trim"
  BY Parts DEF ReqInv, Trim, At
<1>2. req' = [req EXCEPT ![r] = x]
  BY DEF Trim, Move
<1> HIDE DEF q
<1>3. /\ x \in ReqType /\ x.at = "upload" /\ x.kind = q.kind /\ x.ext = q.ext
      /\ x.want = q.want /\ x.files = q.files /\ x.side = q.side
  BY <1>1, MovedTyped, "upload" \in ReqStates DEF ReqStates
<1> HIDE DEF x
<1>4. x.side => q.kind = "clip"
  BY <1>1, <1>3 DEF ReqOK, Stage, q
<1> QED BY <1>1, <1>2, <1>3, <1>4, AddsFile DEF Trim, TempNames, q

LEMMA EncodeKeeps ==
  ASSUME IndInv, NEW r \in Calls, Encode(r)
  PROVE  IndInv'
<1> DEFINE q == req[r]
           a == IF q.kind = "clip" /\ q.ext = "mp4" THEN "sidecar" ELSE "upload"
           x == [q EXCEPT !.at = a]
<1>1. ReqInv /\ ReqOK(r) /\ q \in ReqType /\ q.at = "encode"
  BY Parts DEF ReqInv, Encode, At
<1>2. req' = [req EXCEPT ![r] = x]
  BY DEF Encode, Move
<1>3. a \in {"sidecar", "upload"} /\ (a = "sidecar" => q.kind = "clip")
  OBVIOUS
<1> HIDE DEF q, a
<1>4. /\ x \in ReqType /\ x.at = a /\ x.kind = q.kind /\ x.ext = q.ext
      /\ x.want = q.want /\ x.files = q.files /\ x.side = q.side
  <2>1. a \in ReqStates
    BY <1>3 DEF ReqStates
  <2> QED BY <1>1, <2>1, MovedTyped
<1> HIDE DEF x
<1>5. x.side => q.kind = "clip"
  BY <1>1, <1>4 DEF ReqOK, Stage, q
<1> QED BY <1>1, <1>2, <1>3, <1>4, <1>5, AddsFile DEF Encode, TempNames, q

LEMMA SidecarKeeps ==
  ASSUME IndInv, NEW r \in Calls, Sidecar(r)
  PROVE  IndInv'
<1> DEFINE q == req[r]
<1>1. /\ MergeInv /\ StreamInv /\ ReqInv /\ ArtInv /\ ReqOK(r) /\ q \in ReqType
      /\ q.at = "sidecar" /\ DOMAIN req = Calls /\ q.kind = "clip"
      /\ UNCHANGED <<streamVars, jobVars, storageVars, closing>>
  BY Parts DEF ReqInv, Sidecar, At, ReqOK, Stage
<1>2. CASE /\ temp' = temp \cup {<<r, "side">>}
           /\ defers' = [defers EXCEPT ![r] = @ \cup {"side"}]
           /\ req' = [req EXCEPT ![r].at = "upload", ![r].side = TRUE]
           /\ UNCHANGED mergeVars
  <2> DEFINE x == [q EXCEPT !.at = "upload", !.side = TRUE]
  <2>1. req' = [req EXCEPT ![r] = x]
    BY <1>1, <1>2
  <2> HIDE DEF q
  <2>2. /\ x \in ReqType /\ x.at = "upload" /\ x.kind = q.kind /\ x.ext = q.ext
        /\ x.want = q.want /\ x.files = q.files /\ x.side = TRUE
    BY <1>1, SideTyped, "upload" \in ReqStates DEF ReqStates
  <2> HIDE DEF x
  <2> QED BY <1>1, <1>2, <2>1, <2>2, AddsFile DEF TempNames, q
<1>3. CASE Fault /\ Move(r, "upload") /\ UNCHANGED <<tempVars, m, ctx, stored>>
  <2> DEFINE x == [q EXCEPT !.at = "upload"]
  <2>1. req' = [req EXCEPT ![r] = x]
    BY <1>3 DEF Move
  <2> HIDE DEF q
  <2>2. /\ x \in ReqType /\ x.at = "upload" /\ x.kind = q.kind /\ x.ext = q.ext
        /\ x.want = q.want /\ x.files = q.files /\ x.side = q.side
    BY <1>1, MovedTyped, "upload" \in ReqStates DEF ReqStates
  <2> HIDE DEF x
  <2>3. /\ m' = m /\ req'[r] = x /\ defers' = defers /\ temp' = temp
        /\ UNCHANGED <<job, registry, forgot, met, vods, clips>>
    BY <1>1, <1>3, <2>1 DEF tempVars, jobVars, storageVars
  <2>4. ReqOK(r)'
    <3>1. Stage(r)' /\ Wanted(r)'
      BY <1>1, <2>2, <2>3 DEF ReqOK, Stage, Wanted, None, q
    <3>2. Merging(r)' /\ Removes(r)'
      BY <1>1, <2>2, <2>3 DEF ReqOK, Merging, Removes, HasMerged, q
    <3> QED BY <3>1, <3>2 DEF ReqOK
  <2>5. ~Building(r) /\ x.kind = "clip"
    BY <1>1, <2>2 DEF Building, q
  <2>6. MergeInv' /\ ArtInv' /\ DOMAIN defers' = Calls /\ temp' \subseteq Calls \X TempNames
    BY <1>1, <2>3 DEF MergeInv, ArtInv, ArtifactsWhole, ReqInv
  <2>7. StreamInv'
    BY <1>1, <1>3, MergeAssumption DEF StreamInv, Fault, streamVars, storageVars
  <2> QED BY <2>1, <2>2, <2>3, <2>4, <2>5, <2>6, <2>7, RequestStep
<1> QED BY <1>2, <1>3 DEF Sidecar

(* The context of one request and the faults, and nothing else, change.    *)
LEMMA StreamStays ==
  ASSUME StreamInv, NEW r \in Calls, ctx' \in {ctx, ctx \ {r}, ctx \cup {r}},
         faults' = faults \/ Fault, UNCHANGED <<stored, streamVars, deleting, closing>>
  PROVE  StreamInv'
  BY MergeAssumption DEF StreamInv, Fault, streamVars

LEMMA StartMergeKeeps ==
  ASSUME IndInv, NEW r \in Calls, StartMerge(r)
  PROVE  IndInv'
<1> DEFINE q == req[r]
           x == [q EXCEPT !.at = "merge"]
<1>1. /\ MergeInv /\ StreamInv /\ ReqInv /\ ArtInv /\ ReqOK(r) /\ q \in ReqType
      /\ q.at = "start" /\ q.kind \in {"vod", "clip"} /\ DOMAIN req = Calls
      /\ UNCHANGED <<streamVars, tempVars, jobVars, storageVars, closing>>
  BY Parts DEF ReqInv, StartMerge, At, ReqOK, Stage
<1>2. req' = [req EXCEPT ![r] = x]
  BY DEF StartMerge, Move
<1>3. /\ MergeInv' /\ m'[r].at # "none" /\ (m'[r].at # "err" => m'[r].files = q.files)
      /\ \A p \in Calls \ {r} : m'[p] = m[p]
      /\ ctx' = ctx /\ stored' = stored /\ (faults' = faults \/ Fault)
  <2>1. CASE MergeRawAudio(r, q.files)
    <3>1. MergeInv'
      BY <1>1, <2>1, BeginKeeps DEF ReqType
    <3>2. m'[r].at = "check" /\ m'[r].files = q.files
      BY <1>1, <2>1 DEF MergeRawAudio, MergeInv, NoCall
    <3>3. \A p \in Calls \ {r} : m'[p] = m[p]
      BY <1>1, <2>1 DEF MergeRawAudio, MergeInv
    <3> QED BY <2>1, <3>1, <3>2, <3>3 DEF MergeRawAudio
  <2>2. CASE MergeRefused(r)
    <3>1. MergeInv'
      BY <1>1, <2>2, RefusedKeeps
    <3>2. m'[r].at = "err" /\ \A p \in Calls \ {r} : m'[p] = m[p]
      BY <1>1, <2>2 DEF MergeRefused, MergeInv, CallType
    <3> QED BY <2>2, <3>1, <3>2 DEF MergeRefused
  <2> QED BY <2>1, <2>2 DEF StartMerge
<1> HIDE DEF q
<1>4. /\ x \in ReqType /\ x.at = "merge" /\ x.kind = q.kind /\ x.ext = q.ext
      /\ x.want = q.want /\ x.files = q.files /\ x.side = q.side
  BY <1>1, MovedTyped, "merge" \in ReqStates DEF ReqStates
<1> HIDE DEF x
<1>5. /\ req'[r] = x /\ defers' = defers /\ temp' = temp
      /\ UNCHANGED <<job, registry, forgot, met, vods, clips>>
  BY <1>1, <1>2 DEF tempVars, jobVars, storageVars
<1>6. ReqOK(r)'
  <2>1. Stage(r)' /\ Wanted(r)'
    BY <1>1, <1>4, <1>5 DEF ReqOK, Stage, Wanted, None, q
  <2>2. Merging(r)'
    BY <1>3, <1>4, <1>5 DEF Merging, HasMerged
  <2>3. Removes(r)'
    BY <1>1, <1>4, <1>5 DEF ReqOK, Removes, HasMerged, q
  <2> QED BY <2>1, <2>2, <2>3 DEF ReqOK
<1>7. /\ (x.kind = "vod" /\ x.at \in {"start", "merge", "encode", "upload"}) <=> Building(r)
      /\ x.kind = req[r].kind /\ x.ext = req[r].ext
      /\ req[r].at \notin {"status", "list"}
  BY <1>1, <1>4 DEF Building, q
<1>8. ArtInv' /\ DOMAIN defers' = Calls /\ temp' \subseteq Calls \X TempNames
  BY <1>1, <1>5 DEF ArtInv, ArtifactsWhole, ReqInv
<1>9. StreamInv'
  BY <1>1, <1>3, StreamStays DEF storageVars
<1> QED BY <1>2, <1>3, <1>4, <1>5, <1>6, <1>7, <1>8, <1>9, RequestStep

LEMMA MergedKeeps ==
  ASSUME IndInv, NEW r \in Calls, Merged(r)
  PROVE  IndInv'
<1> DEFINE q == req[r]
           x == [q EXCEPT !.at = "encode"]
<1>1. /\ MergeInv /\ StreamInv /\ ReqInv /\ ArtInv /\ ReqOK(r) /\ q \in ReqType
      /\ q.at = "merge" /\ q.kind \in {"vod", "clip"} /\ DOMAIN req = Calls /\ m[r].at = "ok"
      /\ UNCHANGED <<mergeVars, streamVars, temp, jobVars, storageVars, closing>>
  BY Parts DEF ReqInv, Merged, At, ReqOK, Stage
<1>2. req' = [req EXCEPT ![r] = x]
  BY DEF Merged, Move
<1> HIDE DEF q
<1>3. /\ x \in ReqType /\ x.at = "encode" /\ x.kind = q.kind /\ x.ext = q.ext
      /\ x.want = q.want /\ x.files = q.files /\ x.side = q.side
  BY <1>1, MovedTyped, "encode" \in ReqStates DEF ReqStates
<1> HIDE DEF x
<1>4. /\ req'[r] = x /\ m' = m /\ temp' = temp /\ "raw" \in defers'[r]
      /\ defers[r] \subseteq defers'[r] /\ DOMAIN defers' = Calls
      /\ \A p \in Calls \ {r} : defers'[p] = defers[p]
      /\ UNCHANGED <<job, registry, forgot, met, vods, clips>>
  BY <1>1, <1>2 DEF Merged, ReqInv, mergeVars, jobVars, storageVars
<1>5. ReqOK(r)'
  <2>1. Stage(r)' /\ Wanted(r)'
    BY <1>1, <1>3, <1>4 DEF ReqOK, Stage, Wanted, None, q
  <2>2. Merging(r)'
    BY <1>1, <1>3, <1>4 DEF ReqOK, Merging, HasMerged, q
  <2>3. Removes(r)'
    BY <1>1, <1>3, <1>4 DEF ReqOK, Removes, HasMerged, q
  <2> QED BY <2>1, <2>2, <2>3 DEF ReqOK
<1>6. /\ (x.kind = "vod" /\ x.at \in {"start", "merge", "encode", "upload"}) <=> Building(r)
      /\ x.kind = req[r].kind /\ x.ext = req[r].ext
      /\ req[r].at \notin {"status", "list"}
  BY <1>1, <1>3 DEF Building, q
<1>7. MergeInv' /\ ArtInv' /\ temp' \subseteq Calls \X TempNames
  BY <1>1, <1>4 DEF MergeInv, ArtInv, ArtifactsWhole, ReqInv
<1>8. StreamInv'
  BY <1>1 DEF StreamInv, mergeVars, streamVars, storageVars
<1> QED BY <1>2, <1>3, <1>4, <1>5, <1>6, <1>7, <1>8, RequestStep

(* The steps that return and store nothing.                                *)
LEMMA FailuresKeep ==
  ASSUME IndInv, NEW r \in Calls, MergeFailed(r) \/ Fails(r)
  PROVE  IndInv'
<1>1. StreamInv
  BY Parts
<1>2. CASE MergeFailed(r)
  <2>1. Return(r, "failed", {}) /\ m[r].at = "err" /\ UNCHANGED <<vods, clips>>
    BY <1>2 DEF MergeFailed, storageVars
  <2>2. StreamInv'
    BY <1>1, <1>2, StreamStays DEF MergeFailed, Return, storageVars
  <2> QED BY <2>1, <2>2, ReturnEnds
<1>3. ASSUME NEW left \in SUBSET {<<r, "trim">>}, Return(r, "failed", left),
             req[r].at # "merge", faults' = faults \/ Fault,
             UNCHANGED <<stored, streamVars, storageVars, closing>>
      PROVE  IndInv'
  <2>1. UNCHANGED <<vods, clips>>
    BY <1>3 DEF storageVars
  <2>2. StreamInv'
    BY <1>1, <1>3, StreamStays DEF Return, storageVars
  <2> QED BY <1>3, <2>1, <2>2, ReturnEnds
<1>4. CASE TrimFails(r)
  BY <1>3, <1>4 DEF TrimFails, At
<1>5. CASE EncodeFails(r)
  BY <1>3, <1>5 DEF EncodeFails, At
<1>6. CASE UploadFails(r)
  BY <1>3, <1>6 DEF UploadFails, At
<1>7. CASE ReadFails(r)
  BY <1>3, <1>7 DEF ReadFails
<1> QED BY <1>2, <1>4, <1>5, <1>6, <1>7 DEF Fails

(* What is uploaded is what was asked for.                                 *)
LEMMA ObjectWhole ==
  ASSUME IndInv, NEW r \in Calls, req[r].at \in {"upload", "upside"},
         NEW ext \in {"mp4", "m4a", "mp3"}
  PROVE  /\ Object(r, ext) \in Render /\ Object(r, ext).content = Object(r, ext).want
         /\ Object(r, ext).id = r /\ Object(r, ext).ext = ext
<1> DEFINE q == req[r]
<1>1. MergeInv /\ ReqOK(r) /\ q \in ReqType
  BY Parts DEF ReqInv
<1>2. q.kind \in {"vod", "clip", "trim"}
  BY <1>1 DEF ReqOK, Stage, ReqType, None
<1>3. Content(r) = q.want /\ q.want \in Seq(Files)
  <2>1. CASE q.kind = "trim"
    BY <1>1, <2>1 DEF Content, ReqOK, Wanted
  <2>2. CASE q.kind \in {"vod", "clip"}
    <3>1. m[r].at = "ok" /\ m[r].files = q.files /\ q.want = q.files
      BY <1>1, <2>2 DEF ReqOK, Merging, HasMerged, Wanted
    <3>2. m[r].out = m[r].files
      BY <1>1, <3>1, InvInOrder DEF MergedInOrder
    <3> QED BY <1>1, <2>2, <3>1, <3>2 DEF Content, ReqType
  <2> QED BY <1>2, <2>1, <2>2
<1> QED BY <1>3 DEF Object, Render

LEMMA UploadVodKeeps ==
  ASSUME IndInv, NEW r \in Calls, UploadVod(r)
  PROVE  IndInv'
<1> DEFINE o == Object(r, req[r].ext)
<1>1. /\ MergeInv /\ StreamInv /\ ReqInv /\ JobInv /\ ArtInv /\ MetInv /\ ReqOK(r)
      /\ req[r] \in ReqType /\ DOMAIN req = Calls
  BY Parts DEF ReqInv
<1>2. /\ req[r].at = "upload" /\ req[r].kind = "vod" /\ Return(r, "done", {})
      /\ vods' = vods \cup {o} /\ clips' = clips
      /\ UNCHANGED <<stored, faults, streamVars, clips, deleting, closing>>
  BY DEF UploadVod, At
<1>3. o \in Render /\ o.content = o.want /\ o.id = r /\ o.ext = req[r].ext
  <2>1. req[r].ext \in {"mp4", "m4a", "mp3"}
    BY <1>1, <1>2 DEF ReqOK, Stage, ReqType, None
  <2> QED BY <1>2, <2>1, ObjectWhole
<1> HIDE DEF o
<1>4. MergeInv' /\ ReqInv' /\ JobInv'
  BY <1>1, <1>2, ReturnKeeps
<1>5. ArtInv'
  BY <1>1, <1>2, <1>3 DEF ArtInv, ArtifactsWhole
<1>6. StreamInv'
  BY <1>1, <1>2, StreamStays DEF Return
<1>7. MetInv'
  <2>1. /\ met' = met /\ req'[r].kind = None
        /\ \A p \in Calls \ {r} : req'[p] = req[p]
    BY <1>1, <1>2, EndedTyped DEF Return
  <2>2. \A w \in vods : w.id # r /\ w.ext = req[r].ext => {r, w.id} \in met
    BY <1>1, <1>2 DEF MetInv, Met
  <2>3. ASSUME NEW v \in vods', NEW w \in vods', v.id # w.id, v.ext = w.ext
        PROVE  {v.id, w.id} \in met'
    <3>1. CASE v \in vods /\ w \in vods
      BY <1>1, <2>1, <2>3, <3>1 DEF MetInv, CopiesOverlap
    <3>2. CASE v = o /\ w \in vods
      BY <1>3, <2>1, <2>2, <2>3, <3>2
    <3>3. CASE w = o /\ v \in vods
      <4>1. {r, v.id} \in met
        BY <1>3, <2>2, <2>3, <3>3
      <4>2. {r, v.id} = {v.id, w.id}
        BY <1>3, <3>3
      <4> QED BY <2>1, <4>1, <4>2
    <3> QED BY <1>2, <2>3, <3>1, <3>2, <3>3
  <2>4. ASSUME NEW p \in Calls, NEW q \in Calls, p # q,
               req'[p].kind = "vod", req'[q].kind = "vod"
        PROVE  {p, q} \in met'
    <3>1. p # r /\ q # r
      BY <2>1, <2>4 DEF None
    <3> QED BY <1>1, <2>1, <2>4, <3>1 DEF MetInv, Met
  <2>5. ASSUME NEW p \in Calls, NEW v \in vods', req'[p].kind = "vod",
               req'[p].at \notin {"status", "list"}, v.ext = req'[p].ext, v.id # p
        PROVE  {p, v.id} \in met'
    <3>1. p # r
      BY <2>1, <2>5 DEF None
    <3>2. CASE v \in vods
      BY <1>1, <2>1, <2>5, <3>1, <3>2 DEF MetInv, Met
    <3>3. CASE v = o
      <4>1. {p, r} \in met
        BY <1>1, <1>2, <2>1, <2>5, <3>1 DEF MetInv, Met
      <4> QED BY <1>3, <2>1, <3>3, <4>1
    <3> QED BY <1>2, <2>5, <3>2, <3>3
  <2> QED BY <2>3, <2>4, <2>5 DEF MetInv, Met, CopiesOverlap
<1> QED BY <1>4, <1>5, <1>6, <1>7, PartsNext

(* A clip or a sidecar is stored and the request returns.                  *)
LEMMA ClipStored ==
  ASSUME IndInv, NEW r \in Calls, req[r].at \in {"upload", "upside"},
         NEW ext \in {"mp4", "m4a", "mp3"}, clips' \subseteq clips \cup {Object(r, ext)},
         Return(r, "done", {}), faults' = faults \/ Fault,
         UNCHANGED <<stored, streamVars, vods, deleting, closing>>
  PROVE  IndInv'
<1>1. /\ MergeInv /\ StreamInv /\ ReqInv /\ JobInv /\ ArtInv /\ MetInv
      /\ DOMAIN req = Calls
  BY Parts DEF ReqInv
<1>2. MergeInv' /\ ReqInv' /\ JobInv'
  BY <1>1, ReturnKeeps
<1>3. ArtInv'
  BY <1>1, ObjectWhole DEF ArtInv, ArtifactsWhole
<1>4. StreamInv'
  BY <1>1, StreamStays DEF Return
<1>5. MetInv'
  <2>1. req' = [req EXCEPT ![r] = Ended] /\ met' = met
    BY DEF Return
  <2> QED BY <1>1, <2>1, MetUnmoved, EndedTyped DEF None
<1> QED BY <1>2, <1>3, <1>4, <1>5, PartsNext

LEMMA UploadClipKeeps ==
  ASSUME IndInv, NEW r \in Calls, UploadClip(r)
  PROVE  IndInv'
<1> DEFINE q == req[r]
           x == [q EXCEPT !.at = "upside"]
<1>1. /\ MergeInv /\ StreamInv /\ ReqInv /\ ArtInv /\ ReqOK(r) /\ q \in ReqType
      /\ q.at = "upload" /\ q.kind # "vod" /\ DOMAIN req = Calls
      /\ clips' = clips \cup {Object(r, q.ext)}
      /\ UNCHANGED <<stored, faults, streamVars, vods, deleting, closing>>
  BY Parts DEF ReqInv, UploadClip, At
<1>2. q.ext \in {"mp4", "m4a", "mp3"}
  BY <1>1 DEF ReqOK, Stage, ReqType, None
<1>3. CASE ~q.side
  BY <1>1, <1>2, <1>3, ClipStored DEF UploadClip
<1>4. CASE q.side
  <2>1. req' = [req EXCEPT ![r] = x] /\ UNCHANGED <<m, ctx, tempVars, jobVars>>
    BY <1>4 DEF UploadClip, Move
  <2>2. q.kind = "clip"
    BY <1>1, <1>4 DEF ReqOK, Stage
  <2>3. ArtInv'
    BY <1>1, <1>2, ObjectWhole DEF ArtInv, ArtifactsWhole
  <2> HIDE DEF q
  <2>4. /\ x \in ReqType /\ x.at = "upside" /\ x.kind = q.kind /\ x.ext = q.ext
        /\ x.want = q.want /\ x.files = q.files /\ x.side = q.side
    BY <1>1, MovedTyped, "upside" \in ReqStates DEF ReqStates
  <2> HIDE DEF x
  <2>5. /\ m' = m /\ req'[r] = x /\ defers' = defers /\ temp' = temp
        /\ UNCHANGED <<job, registry, forgot, met, vods>>
    BY <1>1, <2>1 DEF tempVars, jobVars
  <2>6. ReqOK(r)'
    <3>1. Stage(r)' /\ Wanted(r)'
      BY <1>1, <2>2, <2>4, <2>5 DEF ReqOK, Stage, Wanted, None, q
    <3>2. Merging(r)' /\ Removes(r)'
      BY <1>1, <2>2, <2>4, <2>5 DEF ReqOK, Merging, Removes, HasMerged, q
    <3> QED BY <3>1, <3>2 DEF ReqOK
  <2>7. ~Building(r) /\ x.kind = "clip"
    BY <2>2, <2>4 DEF Building, q
  <2>8. MergeInv' /\ DOMAIN defers' = Calls /\ temp' \subseteq Calls \X TempNames
    BY <1>1, <2>5 DEF MergeInv, ReqInv
  <2>9. StreamInv'
    BY <1>1, <2>1, StreamStays
  <2> QED BY <2>1, <2>3, <2>4, <2>5, <2>6, <2>7, <2>8, <2>9, RequestStep
<1> QED BY <1>3, <1>4

LEMMA UploadSidecarKeeps ==
  ASSUME IndInv, NEW r \in Calls, UploadSidecar(r)
  PROVE  IndInv'
<1>1. clips' \subseteq clips \cup {Object(r, "m4a")} /\ (faults' = faults \/ Fault)
  BY DEF UploadSidecar
<1> QED BY <1>1, ClipStored DEF UploadSidecar, At

-----------------------------------------------------------------------------
(* A step of a merge: only the requests that wait for one have one.        *)
LEMMA MergeStepKeeps ==
  ASSUME IndInv, NEW r \in Calls, MergeStep(r), UNCHANGED renderVars
  PROVE  IndInv'
<1>1. MergeInv /\ StreamInv /\ ReqInv /\ JobInv /\ ArtInv /\ MetInv /\ ReqOK(r)
  BY Parts DEF ReqInv
<1>2. /\ UNCHANGED <<req, temp, defers, job, registry, forgot, met, vods, clips>>
      /\ UNCHANGED <<streamVars, deleting, closing>>
  BY DEF renderVars, tempVars, jobVars, storageVars
<1>3. MergeInv' /\ StepFacts(r)
  BY <1>1, StepKeeps, StepIsLocal
<1>4. req[r].at = "merge" /\ ~HasMerged(r)
  BY <1>1, <1>3 DEF ReqOK, Merging, StepFacts, AtRest, HasMerged
<1>5. ReqInv'
  <2>1. ASSUME NEW q \in Calls PROVE ReqOK(q)'
    <3>1. ReqOK(q)
      BY <1>1 DEF ReqInv
    <3>2. Stage(q)' /\ Wanted(q)' /\ Removes(q)'
      BY <1>2, <3>1 DEF ReqOK, Stage, Wanted, Removes, HasMerged
    <3>3. Merging(q)'
      <4>1. CASE q # r
        BY <1>2, <1>3, <3>1, <4>1 DEF ReqOK, StepFacts, Merging, HasMerged
      <4>2. CASE q = r
        <5>1. m[r].at # "err"
          BY <1>3 DEF StepFacts, AtRest
        <5> QED BY <1>2, <1>3, <1>4, <3>1, <4>2, <5>1 DEF ReqOK, StepFacts, Merging, HasMerged
      <4> QED BY <4>1, <4>2
    <3> QED BY <3>2, <3>3 DEF ReqOK
  <2> QED BY <1>1, <1>2, <2>1 DEF ReqInv
<1>6. JobInv'
  BY <1>1, <1>2 DEF JobInv, JobFollowsBuild, Registered, Building
<1>7. ArtInv' /\ MetInv'
  BY <1>1, <1>2 DEF ArtInv, ArtifactsWhole, MetInv, Met, CopiesOverlap
<1>8. StreamInv'
  BY <1>1, <1>2, <1>3, StreamStays DEF StepFacts
<1> QED BY <1>3, <1>5, <1>6, <1>7, <1>8, PartsNext

(* The stream changes beside the requests.                                 *)
LEMMA StreamChanges ==
  ASSUME IndInv, UNCHANGED <<m, req, temp, defers, job, registry, forgot, met, clips, vods>>,
         StreamInv'
  PROVE  IndInv'
<1>1. MergeInv /\ StreamInv /\ ReqInv /\ JobInv /\ ArtInv /\ MetInv
  BY Parts
<1>2. MergeInv'
  BY <1>1 DEF MergeInv
<1>3. ReqInv'
  BY <1>1 DEF ReqInv, ReqOK, Stage, Wanted, Merging, Removes, HasMerged
<1>4. JobInv'
  BY <1>1 DEF JobInv, JobFollowsBuild, Registered, Building
<1>5. ArtInv' /\ MetInv'
  BY <1>1 DEF ArtInv, ArtifactsWhole, MetInv, Met, CopiesOverlap
<1> QED BY <1>2, <1>3, <1>4, <1>5, PartsNext

LEMMA RemoveKeeps ==
  ASSUME IndInv, NEW deleteMedia \in BOOLEAN, removeStream(deleteMedia)
  PROVE  IndInv'
<1>1. MergeInv /\ StreamInv /\ ReqInv /\ JobInv /\ ArtInv /\ MetInv
  BY Parts
<1>2. UNCHANGED <<m, ctx, stored, faults, req, temp, defers, job, met, vods, clips, closing>>
  BY DEF removeStream, mergeVars, tempVars
<1>3. MergeInv'
  BY <1>1, <1>2 DEF MergeInv
<1>4. ReqInv'
  BY <1>1, <1>2 DEF ReqInv, ReqOK, Stage, Wanted, Merging, Removes, HasMerged
<1>5. JobInv'
  <2>1. \A r \in Calls : Building(r)' <=> Building(r)
    BY <1>2 DEF Building
  <2>2. /\ registry' = None /\ forgot \subseteq forgot' /\ forgot' \subseteq Calls
        /\ registry \in Calls => registry \in forgot'
    BY <1>1 DEF removeStream, JobInv
  <2> QED BY <1>1, <1>2, <2>1, <2>2 DEF JobInv, JobFollowsBuild, Registered
<1>6. ArtInv' /\ MetInv'
  BY <1>1, <1>2 DEF ArtInv, ArtifactsWhole, MetInv, Met, CopiesOverlap
<1>7. StreamInv'
  <2>1. row' \in [exists : BOOLEAN, live : BOOLEAN, media : MediaTypes \cup {"video"}]
    BY <1>1 DEF StreamInv, removeStream
  <2>2. deleting' \in BOOLEAN /\ closing' \in BOOLEAN
    BY <1>1, <1>2 DEF StreamInv, removeStream
  <2>3. edits' \in 0 .. MaxEdits
    BY <1>1, RenderAssumption DEF StreamInv, removeStream, Change
  <2> QED BY <1>1, <1>2, <2>1, <2>2, <2>3 DEF StreamInv, removeStream
<1> QED BY <1>3, <1>4, <1>5, <1>6, <1>7, PartsNext

LEMMA DeleteFolderKeeps ==
  ASSUME IndInv, DeleteFolder
  PROVE  IndInv'
<1>1. MergeInv /\ StreamInv /\ ReqInv /\ JobInv /\ ArtInv /\ MetInv
  BY Parts
<1>2. /\ UNCHANGED <<m, ctx, streamVars, req, temp, defers, job, registry, forgot, met, closing>>
      /\ stored' \subseteq stored /\ vods' \subseteq vods /\ clips' \subseteq clips
      /\ deleting' = FALSE /\ (faults' = faults \/ Fault)
  BY DEF DeleteFolder, tempVars, jobVars
<1>3. MergeInv'
  BY <1>1, <1>2 DEF MergeInv
<1>4. ReqInv'
  BY <1>1, <1>2 DEF ReqInv, ReqOK, Stage, Wanted, Merging, Removes, HasMerged
<1>5. JobInv'
  BY <1>1, <1>2 DEF JobInv, JobFollowsBuild, Registered, Building
<1>6. ArtInv' /\ MetInv'
  BY <1>1, <1>2 DEF ArtInv, ArtifactsWhole, MetInv, Met, CopiesOverlap
<1>7. StreamInv'
  <2>1. faults' \in 0 .. MaxFaults
    BY <1>1, <1>2, MergeAssumption DEF StreamInv, Fault
  <2>2. {deleting', closing'} \subseteq BOOLEAN
    BY <1>1, <1>2 DEF StreamInv
  <2> QED BY <1>1, <1>2, <2>1, <2>2 DEF StreamInv, streamVars
<1> QED BY <1>3, <1>4, <1>5, <1>6, <1>7, PartsNext

(* The process ends and starts again.                                      *)
LEMMA RestartKeeps ==
  ASSUME IndInv, Restart
  PROVE  IndInv'
<1> DEFINE k == [NoReq EXCEPT !.at = "killed"]
<1>1. MergeInv /\ StreamInv /\ ReqInv /\ JobInv /\ ArtInv /\ MetInv
  BY Parts
<1>2. k \in ReqType /\ k.kind = None /\ k.at = "killed" /\ k.side = FALSE
  BY NoReqTyped, MovedTyped, "killed" \in ReqStates DEF ReqStates
<1>3. /\ req' = [r \in Calls |-> IF InFlight(r) THEN k ELSE req[r]]
      /\ m' = [r \in Calls |-> IF InFlight(r) THEN NoCall ELSE m[r]]
      /\ temp' = {f \in temp : ~InFlight(f[1])} /\ defers' = [r \in Calls |-> {}]
      /\ job' = [r \in Calls |-> None] /\ registry' = None /\ forgot' = {}
      /\ UNCHANGED <<stored, streamVars, met, vods, clips>>
  BY DEF Restart
<1> HIDE DEF k
<1>4. MergeInv'
  BY <1>1, <1>3, NoCallOK DEF MergeInv, CallOK
<1>5. ASSUME NEW r \in Calls
      PROVE  /\ req'[r] \in ReqType /\ ReqOK(r)' /\ req'[r].kind = None
             /\ req'[r].at \in {"idle", "ended", "killed"}
  <2>1. ReqOK(r) /\ req[r] \in ReqType
    BY <1>1 DEF ReqInv
  <2>2. CASE InFlight(r)
    <3>1. req'[r] = k /\ m'[r].at = "none" /\ defers'[r] = {}
      BY <1>3, <2>2 DEF NoCall
    <3>2. \A f \in {"out", "side", "src"} : <<r, f>> \notin temp'
      BY <1>3, <2>2
    <3>3. Stage(r)' /\ Wanted(r)'
      BY <1>2, <3>1 DEF Stage, Wanted, None
    <3>4. Merging(r)' /\ Removes(r)'
      BY <1>2, <3>1, <3>2 DEF Merging, Removes, HasMerged, None
    <3> QED BY <1>2, <3>1, <3>3, <3>4 DEF ReqOK
  <2>3. CASE ~InFlight(r)
    <3>1. req'[r] = req[r] /\ m'[r] = m[r] /\ defers'[r] = {} /\ temp' \subseteq temp
      BY <1>3, <2>3
    <3>2. req[r].at \in {"idle", "ended", "killed"} /\ req[r].kind = None /\ defers[r] = {}
      BY <2>1, <2>3 DEF InFlight, ReqOK, Stage, Removes
    <3>3. Stage(r)' /\ Wanted(r)' /\ Merging(r)'
      BY <2>1, <3>1 DEF ReqOK, Stage, Wanted, Merging, HasMerged
    <3>4. Removes(r)'
      BY <2>1, <3>1, <3>2 DEF ReqOK, Removes, HasMerged, None
    <3> QED BY <2>1, <3>1, <3>2, <3>3, <3>4 DEF ReqOK
  <2> QED BY <2>2, <2>3
<1>6. ReqInv'
  <2>1. req' \in [Calls -> ReqType]
    BY <1>3, <1>5
  <2>2. DOMAIN defers' = Calls /\ temp' \subseteq Calls \X TempNames
    BY <1>1, <1>3 DEF ReqInv
  <2> QED BY <1>5, <2>1, <2>2 DEF ReqInv
<1>7. JobInv'
  <2>1. \A r \in Calls : ~Building(r)'
    BY <1>5 DEF Building, None
  <2> QED BY <1>3, <2>1 DEF JobInv, JobFollowsBuild, Registered, None
<1>8. ArtInv'
  BY <1>1, <1>3 DEF ArtInv, ArtifactsWhole
<1>9. MetInv'
  BY <1>1, <1>3, <1>5 DEF MetInv, Met, CopiesOverlap, None
<1>10. StreamInv'
  <2>1. faults' \in 0 .. MaxFaults
    BY <1>1, MergeAssumption DEF StreamInv, Restart, Fault
  <2>2. deleting' = FALSE /\ closing' = FALSE /\ ctx' = {}
    BY DEF Restart
  <2>3. {deleting', closing'} \subseteq BOOLEAN
    BY <2>2
  <2> QED BY <1>1, <1>3, <2>1, <2>2, <2>3 DEF StreamInv, streamVars
<1> QED BY <1>4, <1>6, <1>7, <1>8, <1>9, <1>10, PartsNext

LEMMA ChangesKeep ==
  ASSUME IndInv,
         \/ \E r \in Calls : ClientGone(r)
         \/ \E type \in MediaTypes : EditMediaType(type) \/ Activate(type)
         \/ \E f \in Files : MediaArrives(f)
         \/ Deactivate \/ Close
  PROVE  IndInv'
<1>1. StreamInv
  BY Parts
<1>2. ASSUME NEW r \in Calls, ClientGone(r)
      PROVE  IndInv'
  <2>1. StreamInv'
    BY <1>1, <1>2, StreamStays DEF ClientGone, storageVars
  <2> QED BY <1>2, <2>1, StreamChanges DEF ClientGone, tempVars, jobVars, storageVars
<1>3. ASSUME NEW type \in MediaTypes, EditMediaType(type)
      PROVE  IndInv'
  <2>1. StreamInv'
    <3>1. row' \in [exists : BOOLEAN, live : BOOLEAN, media : MediaTypes \cup {"video"}]
      BY <1>1, <1>3 DEF EditMediaType, StreamInv
    <3>2. edits' \in 0 .. MaxEdits
      BY <1>1, <1>3, RenderAssumption DEF EditMediaType, Change, StreamInv
    <3> QED BY <1>1, <1>3, <3>1, <3>2 DEF EditMediaType, StreamInv, mergeVars, storageVars
  <2> QED BY <1>3, <2>1, StreamChanges DEF EditMediaType, mergeVars, tempVars, jobVars, storageVars
<1>4. ASSUME NEW type \in MediaTypes, Activate(type)
      PROVE  IndInv'
  <2>1. StreamInv'
    <3>1. row' \in [exists : BOOLEAN, live : BOOLEAN, media : MediaTypes \cup {"video"}]
      BY <1>4 DEF Activate
    <3>2. edits' \in 0 .. MaxEdits
      BY <1>1, <1>4, RenderAssumption DEF Activate, Change, StreamInv
    <3> QED BY <1>1, <1>4, <3>1, <3>2 DEF Activate, StreamInv, mergeVars, storageVars
  <2> QED BY <1>4, <2>1, StreamChanges DEF Activate, mergeVars, tempVars, jobVars, storageVars
<1>5. ASSUME NEW f \in Files, MediaArrives(f)
      PROVE  IndInv'
  <2>1. StreamInv'
    <3>1. edits' \in 0 .. MaxEdits
      BY <1>1, <1>5, RenderAssumption DEF MediaArrives, Change, StreamInv
    <3> QED BY <1>1, <1>5, <3>1 DEF MediaArrives, StreamInv, storageVars
  <2> QED BY <1>5, <2>1, StreamChanges DEF MediaArrives, tempVars, jobVars, storageVars
<1>6. CASE Deactivate
  <2>1. StreamInv'
    <3>1. row' \in [exists : BOOLEAN, live : BOOLEAN, media : MediaTypes \cup {"video"}]
      BY <1>1, <1>6 DEF Deactivate, StreamInv
    <3> QED BY <1>1, <1>6, <3>1 DEF Deactivate, StreamInv, mergeVars, storageVars
  <2> QED BY <1>6, <2>1, StreamChanges DEF Deactivate, mergeVars, tempVars, jobVars, storageVars
<1>7. CASE Close
  <2>1. StreamInv'
    <3>1. {deleting', closing'} \subseteq BOOLEAN /\ ctx' \subseteq Calls
      BY <1>1, <1>7 DEF Close, StreamInv, storageVars
    <3> QED BY <1>1, <1>7, <3>1 DEF Close, StreamInv, streamVars
  <2> QED BY <1>7, <2>1, StreamChanges DEF Close, tempVars, jobVars, storageVars
<1> QED BY <1>2, <1>3, <1>4, <1>5, <1>6, <1>7

LEMMA InitOK == Init => IndInv
<1> SUFFICES ASSUME Init PROVE IndInv
  OBVIOUS
<1>1. MergeInv
  BY NoCallOK DEF Init, MergeInit, MergeInv, CallOK
<1>2. StreamInv
  <2>1. row \in [exists : BOOLEAN, live : BOOLEAN, media : MediaTypes \cup {"video"}]
    BY DEF Init
  <2>2. ctx = {} /\ stored = Files /\ avail \subseteq Files
    BY DEF Init, MergeInit
  <2>3. faults \in 0 .. MaxFaults /\ edits \in 0 .. MaxEdits
    BY MergeAssumption, RenderAssumption DEF Init, MergeInit
  <2>4. deleting = FALSE /\ closing = FALSE
    BY DEF Init
  <2>5. {deleting, closing} \subseteq BOOLEAN
    BY <2>4
  <2> QED BY <2>1, <2>2, <2>3, <2>5 DEF StreamInv
<1>3. ReqInv
  <2>1. ASSUME NEW r \in Calls PROVE ReqOK(r)
    <3>1. req[r] = NoReq /\ m[r].at = "none" /\ defers[r] = {} /\ temp = {}
      BY DEF Init, MergeInit, NoCall
    <3>2. Stage(r) /\ Wanted(r)
      BY <3>1, NoReqTyped DEF Stage, Wanted, None
    <3>3. Merging(r) /\ Removes(r)
      BY <3>1, NoReqTyped DEF Merging, Removes, HasMerged, None
    <3> QED BY <3>2, <3>3 DEF ReqOK
  <2>2. req \in [Calls -> ReqType] /\ DOMAIN defers = Calls /\ temp \subseteq Calls \X TempNames
    BY NoReqTyped DEF Init
  <2> QED BY <2>1, <2>2 DEF ReqInv
<1>4. JobInv
  <2>1. \A r \in Calls : ~Building(r)
    BY NoReqTyped DEF Init, Building, None
  <2> QED BY <2>1 DEF Init, JobInv, JobFollowsBuild, Registered, None
<1>5. ArtInv
  BY DEF Init, ArtInv, ArtifactsWhole
<1>6. MetInv
  BY NoReqTyped DEF Init, MetInv, Met, CopiesOverlap, None
<1> QED BY <1>1, <1>2, <1>3, <1>4, <1>5, <1>6, Parts

LEMMA NextKeeps == IndInv /\ [Next]_vars => IndInv'
<1> SUFFICES ASSUME IndInv, [Next]_vars
             PROVE  IndInv'
  OBVIOUS
<1>1. ASSUME NEW r \in Admins, PostVod(r) PROVE IndInv'
  BY <1>1, PostVodKeeps, RenderAssumption
<1>2. ASSUME NEW r \in Trimmers, PostTrim(r) PROVE IndInv'
  BY <1>2, PostTrimKeeps, RenderAssumption
<1>3. ASSUME NEW r \in Clippers, NEW ext \in Formats, NEW range \in Ranges,
             PostClip(r, ext, range[1], range[2])
      PROVE  IndInv'
  <2>1. r \in Calls /\ range[1] \in Int /\ range[2] \in Int
    BY RenderAssumption
  <2> QED BY <1>3, <2>1, PostClipKeeps
<1>4. ASSUME NEW r \in Calls, Handle(r) PROVE IndInv'
  BY <1>4, VodStatusKeeps, FindKeeps, VodFilesKeeps, ClaimKeeps, ClipFilesKeeps, TrimKeeps,
     StartMergeKeeps, MergedKeeps, FailuresKeep, EncodeKeeps, SidecarKeeps, UploadVodKeeps,
     UploadClipKeeps, UploadSidecarKeeps
  DEF Handle
<1>5. ASSUME NEW r \in Calls, Fails(r) PROVE IndInv'
  BY <1>5, FailuresKeep
<1>6. ASSUME NEW r \in Calls, MergeStep(r), UNCHANGED renderVars PROVE IndInv'
  BY <1>6, MergeStepKeeps
<1>7. CASE \/ \E r \in Calls : ClientGone(r)
           \/ \E type \in MediaTypes : EditMediaType(type) \/ Activate(type)
           \/ \E f \in Files : MediaArrives(f)
           \/ Deactivate \/ Close
  BY <1>7, ChangesKeep
<1>8. ASSUME NEW deleteMedia \in BOOLEAN, removeStream(deleteMedia) PROVE IndInv'
  BY <1>8, RemoveKeeps
<1>9. CASE DeleteFolder
  BY <1>9, DeleteFolderKeeps
<1>10. CASE Restart
  BY <1>10, RestartKeeps
<1>11. CASE UNCHANGED vars
  <2>1. StreamInv'
    BY <1>11, Parts DEF StreamInv, vars, mergeVars, streamVars, storageVars
  <2> QED BY <1>11, <2>1, StreamChanges DEF vars, mergeVars, tempVars, jobVars, storageVars
<1> QED BY <1>1, <1>2, <1>3, <1>4, <1>5, <1>6, <1>7, <1>8, <1>9, <1>10, <1>11 DEF Next

-----------------------------------------------------------------------------
(* The inductive invariant holds in every reachable state.                 *)
THEOREM Inductive == Spec => []IndInv
  BY InitOK, NextKeeps, PTL DEF Spec

(* Type correctness, the merges' slots included.                           *)
THEOREM TypeCorrect == Spec => []TypeOK
<1>1. IndInv => TypeOK
  BY DEF IndInv
<1> QED BY <1>1, Inductive, PTL

(* Every VOD and every clip in storage has exactly the chunks it was asked *)
(* for, whatever fails and whatever becomes of the stream meanwhile.       *)
THEOREM ArtifactsAreWhole == Spec => []ArtifactsWhole
<1>1. IndInv => ArtifactsWhole
  BY DEF IndInv
<1> QED BY <1>1, Inductive, PTL

(* A request that has returned leaves nothing in TempDir, whichever step   *)
(* failed, but the output of a failed Trim.                                *)
THEOREM TempIsClean == Spec => []TempClean
<1>1. IndInv => TempClean
  <2> SUFFICES ASSUME IndInv, NEW r \in Calls, At(r, "ended")
               PROVE  /\ m[r].disk = {} /\ ~m[r].raw
                      /\ \A f \in {"out", "side", "src"} : <<r, f>> \notin temp
    BY DEF TempClean
  <2>1. ReqOK(r) /\ CallOK(m[r]) /\ req[r].at = "ended"
    BY DEF IndInv, MergeInv, At
  <2>2. m[r].at = "none"
    BY <2>1 DEF ReqOK, Merging, HasMerged
  <2>3. m[r].disk = {} /\ ~m[r].raw
    BY <2>1, <2>2 DEF CallOK, Rested, AtRest
  <2>4. \A f \in {"out", "side", "src"} : <<r, f>> \notin temp
    BY <2>1 DEF ReqOK, Removes
  <2> QED BY <2>3, <2>4
<1> QED BY <1>1, Inductive, PTL

(* A job is "running" exactly as long as a goroutine builds for it.        *)
THEOREM JobsFollowBuilds == Spec => []JobFollowsBuild
<1>1. IndInv => JobFollowsBuild
  BY DEF IndInv
<1> QED BY <1>1, Inductive, PTL

(* Two builds of a stream run at once only when the stream was removed     *)
(* under one of them.                                                      *)
THEOREM NoRivalBuilds == Spec => []NoRival
<1>1. IndInv => NoRival
  BY DEF IndInv, Registered, NoRival
<1> QED BY <1>1, Inductive, PTL

(* Two VODs of one format are of requests that were in flight together.    *)
THEOREM CopiesAreOverlaps == Spec => []CopiesOverlap
<1>1. IndInv => CopiesOverlap
  BY DEF IndInv
<1> QED BY <1>1, Inductive, PTL

(* Beside everything else, a merge appends the chunks in their order, ...  *)
THEOREM RendersInOrder == Spec => []MergedInOrder
<1>1. IndInv => MergedInOrder
  BY InvInOrder DEF IndInv
<1> QED BY <1>1, Inductive, PTL

(* ... keeps its scratch space within mergeConcurrency chunks, ...         *)
THEOREM RendersBounded == Spec => []ScratchBounded
<1>1. IndInv => ScratchBounded
  BY InvBounded DEF IndInv
<1> QED BY <1>1, Inductive, PTL

(* ... and has no goroutine or chunk left when it returns.                 *)
THEOREM RendersReturnClean == Spec => []NothingOutlives
<1>1. IndInv => NothingOutlives
  BY InvNothingOutlives DEF IndInv
<1> QED BY <1>1, Inductive, PTL

-----------------------------------------------------------------------------
(* Every request ends                                                      *)

(* What a step may do to request q: nothing, take it further on its way,   *)
(* or be one of its merge.                                                 *)
Untouched(q) ==
  /\ req'[q] = req[q] /\ m'[q] = m[q]
  /\ q \in ctx /\ ~AtRest(m[q]) => q \in ctx'

Further(q) ==
  /\ Phase[req'[q].at] > Phase[req[q].at]
  /\ \/ m'[q] = m[q] /\ (q \in ctx => q \in ctx')
     \/ m'[q].at = "none" /\ m'[q].files = <<>> /\ ~m'[q].cancelled
     \/ \E files \in Seq(Files) : MergeRawAudio(q, files) \/ MergeRefused(q)

Worked(q) == req'[q] = req[q] /\ MergeStep(q)

Stepped(q) == Untouched(q) \/ Further(q) \/ Worked(q)

(* A handler takes its request on and leaves the merges alone.             *)
LEMMA MovesOn ==
  ASSUME IndInv, NEW r \in Calls, NEW x, req' = [req EXCEPT ![r] = x],
         Phase[x.at] > Phase[req[r].at], m' = m, ctx \subseteq ctx'
  PROVE  \A q \in Calls : Stepped(q)
<1>1. DOMAIN req = Calls
  BY DEF IndInv
<1>2. req'[r] = x /\ \A q \in Calls : q # r => req'[q] = req[q]
  BY <1>1
<1>3. Further(r)
  BY <1>2 DEF Further
<1>4. \A q \in Calls : q # r => Untouched(q)
  BY <1>2 DEF Untouched
<1> QED BY <1>3, <1>4 DEF Stepped

(* A request returns.                                                      *)
LEMMA ReturnsFurther ==
  ASSUME IndInv, NEW r \in Calls, NEW outcome, NEW left, Return(r, outcome, left),
         Phase[req[r].at] < 11
  PROVE  \A q \in Calls : Stepped(q)
<1>1. DOMAIN req = Calls /\ DOMAIN m = Calls
  BY DEF IndInv, TypeOK
<1>2. req'[r] = Ended /\ \A q \in Calls : q # r => req'[q] = req[q] /\ m'[q] = m[q]
  BY <1>1 DEF Return
<1>3. m'[r] = [NoCall EXCEPT !.disk = m[r].disk, !.raw = m[r].raw /\ "raw" \notin defers[r]]
  BY <1>1 DEF Return
<1>4. m'[r].at = "none" /\ m'[r].files = <<>> /\ ~m'[r].cancelled
  BY <1>3 DEF NoCall
<1>5. Phase["ended"] = 11
  BY DEF Phase
<1>6. Further(r)
  BY <1>2, <1>4, <1>5, EndedTyped DEF Further
<1>7. \A q \in Calls : q # r => Untouched(q)
  BY <1>2 DEF Untouched, Return
<1> QED BY <1>6, <1>7 DEF Stepped

(* The requests that begin.                                                *)
LEMMA PostsMoveOn ==
  ASSUME IndInv, NEW r \in Calls,
         \/ PostVod(r) \/ PostTrim(r)
         \/ \E ext \in Formats, range \in Ranges : PostClip(r, ext, range[1], range[2])
  PROVE  \A q \in Calls : Stepped(q)
<1>1. req[r].at = "idle" /\ m' = m /\ ctx' = ctx
  BY DEF PostVod, PostTrim, PostClip, At, mergeVars
<1>2. PICK x : req' = [req EXCEPT ![r] = x] /\ x.at \in {"status", "files", "trim", "ended"}
  <2>1. CASE PostVod(r)
    <3> DEFINE x == IF resolveVodTarget /\ CountTranscriptMedia # 0
                      THEN [NoReq EXCEPT !.kind = "vod", !.at = "status", !.ext = Extension]
                      ELSE Ended
    <3>1. req' = [req EXCEPT ![r] = x]
      BY <2>1 DEF PostVod
    <3>2. x.at \in {"status", "ended"}
      <4>1. [NoReq EXCEPT !.kind = "vod", !.at = "status", !.ext = Extension].at = "status"
        BY DEF NoReq
      <4> QED BY <4>1, EndedTyped
    <3> HIDE DEF x
    <3> QED BY <3>1, <3>2
  <2>2. CASE PostTrim(r)
    <3>1. CASE req' = [req EXCEPT ![r] = Ended]
      BY <3>1, EndedTyped
    <3>2. ASSUME NEW c \in clips,
                 req' = [req EXCEPT ![r] = [NoReq EXCEPT !.kind = "trim", !.at = "trim",
                                              !.ext = c.ext, !.want = c.content]]
          PROVE  \E x : req' = [req EXCEPT ![r] = x] /\ x.at \in {"status", "files", "trim", "ended"}
      <4> DEFINE x == [NoReq EXCEPT !.kind = "trim", !.at = "trim", !.ext = c.ext, !.want = c.content]
      <4>1. x.at = "trim"
        BY DEF NoReq
      <4>2. req' = [req EXCEPT ![r] = x]
        BY <3>2
      <4> HIDE DEF x
      <4> QED BY <4>1, <4>2
    <3> QED BY <2>2, <3>1, <3>2 DEF PostTrim
  <2>3. ASSUME NEW ext \in Formats, NEW range \in Ranges, PostClip(r, ext, range[1], range[2])
        PROVE  \E x : req' = [req EXCEPT ![r] = x] /\ x.at \in {"status", "files", "trim", "ended"}
    <3> DEFINE want == [i \in 1 .. range[2] - range[1] + 1 |-> range[1] + i - 1]
               refused == \/ ext = "mp4" /\ ~(row.exists /\ row.media = "video")
                          \/ range[1] < 0 \/ range[2] < range[1]
                          \/ range[2] - range[1] >= MaxClipSize
               y == [NoReq EXCEPT !.kind = "clip", !.at = "files", !.ext = ext, !.want = want]
               x == IF refused THEN Ended ELSE y
    <3>1. req' = [req EXCEPT ![r] = x]
      BY <2>3 DEF PostClip
    <3> HIDE DEF want, refused
    <3>2. y.at = "files"
      BY DEF NoReq
    <3> HIDE DEF y
    <3>3. x.at \in {"files", "ended"}
      BY <3>2, EndedTyped
    <3> HIDE DEF x
    <3> QED BY <3>1, <3>3
  <2> QED BY <2>1, <2>2, <2>3
<1>3. Phase[x.at] > Phase[req[r].at]
  BY <1>1, <1>2 DEF Phase
<1> QED BY <1>1, <1>2, <1>3, MovesOn

(* The steps of a VOD request up to its claim, and of a clip's.            *)
LEMMA LookupsMoveOn ==
  ASSUME IndInv, NEW r \in Calls,
         \/ VodStatus(r) \/ findVodArtifact(r) \/ GetAllMediaFileIDs(r) \/ claim(r) \/ ClipFiles(r)
  PROVE  \A q \in Calls : Stepped(q)
<1>1. m' = m /\ ctx' = ctx /\ req[r] \in ReqType
  BY DEF VodStatus, findVodArtifact, GetAllMediaFileIDs, claim, ClipFiles, mergeVars, IndInv
<1>2. CASE req' = [req EXCEPT ![r] = Ended]
  <2>1. Phase[Ended.at] > Phase[req[r].at]
    BY EndedTyped DEF Phase, VodStatus, findVodArtifact, GetAllMediaFileIDs, claim, ClipFiles, At
  <2> QED BY <1>1, <1>2, <2>1, MovesOn
<1>3. CASE VodStatus(r) /\ req' # [req EXCEPT ![r] = Ended]
  <2> DEFINE x == [req[r] EXCEPT !.at = "list"]
  <2>1. req' = [req EXCEPT ![r] = x] /\ req[r].at = "status"
    BY <1>3 DEF VodStatus, At, IndInv
  <2>2. x.at = "list"
    BY <1>1 DEF ReqType
  <2> HIDE DEF x
  <2>3. Phase[x.at] > Phase[req[r].at]
    BY <2>1, <2>2 DEF Phase
  <2> QED BY <1>1, <2>1, <2>3, MovesOn
<1>4. CASE findVodArtifact(r) /\ req' # [req EXCEPT ![r] = Ended]
  <2> DEFINE x == [req[r] EXCEPT !.at = "files"]
  <2>1. req' = [req EXCEPT ![r] = x] /\ req[r].at = "list"
    BY <1>4 DEF findVodArtifact, At, IndInv
  <2>2. x.at = "files"
    BY <1>1 DEF ReqType
  <2> HIDE DEF x
  <2>3. Phase[x.at] > Phase[req[r].at]
    BY <2>1, <2>2 DEF Phase
  <2> QED BY <1>1, <2>1, <2>3, MovesOn
<1>5. CASE GetAllMediaFileIDs(r) /\ req' # [req EXCEPT ![r] = Ended]
  <2> DEFINE files == InOrder(avail)
             x == [req[r] EXCEPT !.at = "claim", !.files = files, !.want = files]
  <2>1. req' = [req EXCEPT ![r] = x] /\ req[r].at = "files"
    BY <1>5 DEF GetAllMediaFileIDs, At, IndInv
  <2> HIDE DEF files
  <2>2. x.at = "claim"
    BY <1>1 DEF ReqType
  <2> HIDE DEF x
  <2>3. Phase[x.at] > Phase[req[r].at]
    BY <2>1, <2>2 DEF Phase
  <2> QED BY <1>1, <2>1, <2>3, MovesOn
<1>6. CASE claim(r) /\ req' # [req EXCEPT ![r] = Ended]
  <2> DEFINE x == [req[r] EXCEPT !.at = "start"]
  <2>1. req' = [req EXCEPT ![r] = x] /\ req[r].at = "claim"
    BY <1>6 DEF claim, Move, At, IndInv
  <2>2. x.at = "start"
    BY <1>1 DEF ReqType
  <2> HIDE DEF x
  <2>3. Phase[x.at] > Phase[req[r].at]
    BY <2>1, <2>2 DEF Phase
  <2> QED BY <1>1, <2>1, <2>3, MovesOn
<1>7. CASE ClipFiles(r) /\ req' # [req EXCEPT ![r] = Ended]
  <2> DEFINE files == InOrder(InRange(r))
             x == [req[r] EXCEPT !.at = "start", !.files = files]
  <2>1. req' = [req EXCEPT ![r] = x] /\ req[r].at = "files"
    BY <1>7 DEF ClipFiles, At, IndInv
  <2> HIDE DEF files
  <2>2. x.at = "start"
    BY <1>1 DEF ReqType
  <2> HIDE DEF x
  <2>3. Phase[x.at] > Phase[req[r].at]
    BY <2>1, <2>2 DEF Phase
  <2> QED BY <1>1, <2>1, <2>3, MovesOn
<1> QED BY <1>2, <1>3, <1>4, <1>5, <1>6, <1>7

(* The steps around a merge and after it that do not return.               *)
LEMMA OutputsMoveOn ==
  ASSUME IndInv, NEW r \in Calls, Trim(r) \/ Merged(r) \/ Encode(r) \/ Sidecar(r)
  PROVE  \A q \in Calls : Stepped(q)
<1>1. m' = m /\ ctx' = ctx /\ req[r] \in ReqType
  BY DEF Trim, Merged, Encode, Sidecar, mergeVars, IndInv
<1>2. ASSUME NEW a \in {"encode", "sidecar", "upload"}, req' = [req EXCEPT ![r].at = a],
             Phase[a] > Phase[req[r].at]
      PROVE  \A q \in Calls : Stepped(q)
  <2> DEFINE x == [req[r] EXCEPT !.at = a]
  <2>1. req' = [req EXCEPT ![r] = x]
    BY <1>2 DEF IndInv
  <2>2. x.at = a
    BY <1>1 DEF ReqType
  <2> HIDE DEF x
  <2> QED BY <1>1, <1>2, <2>1, <2>2, MovesOn
<1>3. CASE Trim(r)
  BY <1>2, <1>3 DEF Trim, Move, At, Phase
<1>4. CASE Merged(r)
  BY <1>2, <1>4 DEF Merged, Move, At, Phase
<1>5. CASE Encode(r)
  <2> DEFINE a == IF req[r].kind = "clip" /\ req[r].ext = "mp4" THEN "sidecar" ELSE "upload"
  <2>1. a \in {"sidecar", "upload"} /\ req' = [req EXCEPT ![r].at = a] /\ req[r].at = "encode"
    BY <1>5 DEF Encode, Move, At
  <2> HIDE DEF a
  <2>2. Phase[a] > Phase[req[r].at]
    BY <2>1 DEF Phase
  <2> QED BY <1>2, <2>1, <2>2
<1>6. CASE Sidecar(r)
  <2>1. req[r].at = "sidecar" /\ Phase["upload"] > Phase["sidecar"]
    BY <1>6 DEF Sidecar, At, Phase
  <2>2. CASE req' = [req EXCEPT ![r].at = "upload"]
    BY <1>2, <2>1, <2>2
  <2>3. CASE req' = [req EXCEPT ![r].at = "upload", ![r].side = TRUE]
    <3> DEFINE x == [req[r] EXCEPT !.at = "upload", !.side = TRUE]
    <3>1. req' = [req EXCEPT ![r] = x]
      BY <2>3 DEF IndInv
    <3>2. x.at = "upload"
      BY <1>1 DEF ReqType
    <3> HIDE DEF x
    <3> QED BY <1>1, <2>1, <3>1, <3>2, MovesOn
  <2> QED BY <1>6, <2>2, <2>3 DEF Sidecar, Move
<1> QED BY <1>3, <1>4, <1>5, <1>6

(* The merge of a request begins.                                          *)
LEMMA MergeBegins ==
  ASSUME IndInv, NEW r \in Calls, StartMerge(r)
  PROVE  \A q \in Calls : Stepped(q)
<1> DEFINE x == [req[r] EXCEPT !.at = "merge"]
<1>1. /\ req' = [req EXCEPT ![r] = x] /\ req[r].at = "start" /\ req[r] \in ReqType
      /\ DOMAIN req = Calls /\ DOMAIN m = Calls
  BY DEF StartMerge, Move, At, IndInv, TypeOK
<1>2. x.at = "merge" /\ req[r].files \in Seq(Files)
  BY <1>1 DEF ReqType
<1> HIDE DEF x
<1>3. req'[r] = x /\ \A q \in Calls : q # r => req'[q] = req[q]
  BY <1>1
<1>4. Phase["merge"] > Phase["start"]
  BY DEF Phase
<1>5. MergeRawAudio(r, req[r].files) \/ MergeRefused(r)
  BY DEF StartMerge
<1>6. Further(r)
  BY <1>1, <1>2, <1>3, <1>4, <1>5 DEF Further
<1>7. ctx' = ctx /\ \A q \in Calls : q # r => m'[q] = m[q]
  BY <1>1, <1>5 DEF MergeRawAudio, MergeRefused
<1>8. \A q \in Calls : q # r => Untouched(q)
  BY <1>3, <1>7 DEF Untouched
<1> QED BY <1>6, <1>8 DEF Stepped

(* The steps that return, with a result or without, and the first upload   *)
(* of a clip with a sidecar.                                               *)
LEMMA ReturningMovesOn ==
  ASSUME IndInv, NEW r \in Calls,
         MergeFailed(r) \/ UploadVod(r) \/ UploadClip(r) \/ UploadSidecar(r) \/ Fails(r)
  PROVE  \A q \in Calls : Stepped(q)
<1>1. Phase[req[r].at] < 11
  BY DEF MergeFailed, UploadVod, UploadClip, UploadSidecar, Fails, TrimFails, EncodeFails,
         UploadFails, ReadFails, At, Phase
<1>2. CASE \E outcome, left : Return(r, outcome, left)
  BY <1>1, <1>2, ReturnsFurther
<1>3. CASE ~ \E outcome, left : Return(r, outcome, left)
  <2>1. /\ req' = [req EXCEPT ![r].at = "upside"] /\ req[r].at = "upload" /\ m' = m /\ ctx' = ctx
        /\ req[r] \in ReqType
    BY <1>3 DEF MergeFailed, UploadVod, UploadClip, UploadSidecar, Fails, TrimFails, EncodeFails,
         UploadFails, ReadFails, At, Move, IndInv
  <2> DEFINE x == [req[r] EXCEPT !.at = "upside"]
  <2>2. req' = [req EXCEPT ![r] = x]
    BY <2>1 DEF IndInv
  <2>3. x.at = "upside"
    BY <2>1 DEF ReqType
  <2> HIDE DEF x
  <2>4. Phase[x.at] > Phase[req[r].at]
    BY <2>1, <2>3 DEF Phase
  <2> QED BY <2>1, <2>2, <2>4, MovesOn
<1> QED BY <1>2, <1>3

(* The end of the process ends every request in flight.                    *)
LEMMA RestartMovesOn ==
  ASSUME IndInv, Restart, NEW q \in Calls
  PROVE  Stepped(q)
<1> DEFINE k == [NoReq EXCEPT !.at = "killed"]
<1>1. /\ req'[q] = IF InFlight(q) THEN k ELSE req[q]
      /\ m'[q] = IF InFlight(q) THEN NoCall ELSE m[q]
  BY DEF Restart
<1>2. CASE InFlight(q)
  <2>1. k.at = "killed" /\ NoCall.at = "none" /\ NoCall.files = <<>> /\ ~NoCall.cancelled
    BY DEF NoReq, NoCall
  <2> HIDE DEF k
  <2>2. req[q] \in ReqType
    BY DEF IndInv
  <2>3. req[q].at \in ReqStates \ {"idle", "ended", "killed"}
    BY <1>2, <2>2 DEF ReqType, ReqStates, InFlight
  <2>4. Phase["killed"] > Phase[req[q].at]
    BY <2>3 DEF Phase, ReqStates
  <2>5. Further(q)
    BY <1>1, <1>2, <2>1, <2>4 DEF Further
  <2> QED BY <2>5 DEF Stepped
<1>3. CASE ~InFlight(q)
  <2>1. m[q].at = "none"
    BY <1>3 DEF InFlight, IndInv, ReqOK, Merging, HasMerged
  <2>2. Untouched(q)
    BY <1>1, <1>3, <2>1 DEF Untouched, AtRest
  <2> QED BY <2>2 DEF Stepped
<1> QED BY <1>2, <1>3

(* Every step leaves a request alone, takes it further on its way or is    *)
(* one of its merge.                                                       *)
LEMMA NextSteps ==
  ASSUME IndInv, [Next]_vars, NEW q \in Calls
  PROVE  Stepped(q)
<1>1. ASSUME NEW r \in Admins, PostVod(r) PROVE Stepped(q)
  BY <1>1, PostsMoveOn, RenderAssumption
<1>2. ASSUME NEW r \in Trimmers, PostTrim(r) PROVE Stepped(q)
  BY <1>2, PostsMoveOn, RenderAssumption
<1>3. ASSUME NEW r \in Clippers, NEW ext \in Formats, NEW range \in Ranges,
             PostClip(r, ext, range[1], range[2])
      PROVE  Stepped(q)
  BY <1>3, PostsMoveOn, RenderAssumption
<1>4. ASSUME NEW r \in Calls, Handle(r) PROVE Stepped(q)
  BY <1>4, LookupsMoveOn, OutputsMoveOn, MergeBegins, ReturningMovesOn DEF Handle
<1>5. ASSUME NEW r \in Calls, Fails(r) PROVE Stepped(q)
  BY <1>5, ReturningMovesOn
<1>6. ASSUME NEW r \in Calls, MergeStep(r), UNCHANGED renderVars PROVE Stepped(q)
  <2>1. req' = req /\ StepFacts(r)
    BY <1>6, StepIsLocal DEF renderVars, IndInv
  <2>2. CASE q = r
    BY <1>6, <2>1, <2>2 DEF Stepped, Worked
  <2>3. CASE q # r
    BY <2>1, <2>3 DEF Stepped, Untouched, StepFacts
  <2> QED BY <2>2, <2>3
<1>7. CASE \/ \E r \in Calls : ClientGone(r)
           \/ \E type \in MediaTypes : EditMediaType(type) \/ Activate(type)
           \/ \E f \in Files : MediaArrives(f)
           \/ \E deleteMedia \in BOOLEAN : removeStream(deleteMedia)
           \/ DeleteFolder \/ Deactivate \/ Close \/ UNCHANGED vars
  <2>1. m' = m /\ req' = req /\ ctx \subseteq ctx'
    BY <1>7 DEF ClientGone, EditMediaType, Activate, MediaArrives, removeStream, DeleteFolder,
         Deactivate, Close, vars, mergeVars
  <2> QED BY <2>1 DEF Stepped, Untouched
<1>8. CASE Restart
  BY <1>8, RestartMovesOn
<1> QED BY <1>1, <1>2, <1>3, <1>4, <1>5, <1>6, <1>7, <1>8 DEF Next

(* Every request and every build ends: each of its steps takes it further  *)
(* on its way or is one of the at most 5 * Len(files) + 1 of its merge,    *)
(* whatever fails, is cancelled or is removed under it.                    *)
THEOREM RendersEnd == Spec => RendersWindDown
<1>1. IndInv /\ [Next]_vars =>
        [\A r \in Calls : req'[r] # req[r] \/ m'[r] # m[r] =>
           \/ Phase[req'[r].at] > Phase[req[r].at]
           \/ /\ req'[r] = req[r]
              /\ 0 <= StepsLeft(m'[r]) /\ StepsLeft(m'[r]) < StepsLeft(m[r])]_vars
  <2> SUFFICES ASSUME IndInv, [Next]_vars, NEW r \in Calls, req'[r] # req[r] \/ m'[r] # m[r]
               PROVE  \/ Phase[req'[r].at] > Phase[req[r].at]
                      \/ /\ req'[r] = req[r]
                         /\ 0 <= StepsLeft(m'[r]) /\ StepsLeft(m'[r]) < StepsLeft(m[r])
    OBVIOUS
  <2>1. Further(r) \/ Worked(r)
    BY NextSteps DEF Stepped, Untouched
  <2>2. CASE Further(r)
    BY <2>2 DEF Further
  <2>3. CASE Worked(r)
    <3>1. req'[r] = req[r] /\ MergeStep(r) /\ MergeInv
      BY <2>3 DEF Worked, IndInv
    <3>2. StepsLeft(m'[r]) \in Nat /\ StepsLeft(m'[r]) < StepsLeft(m[r])
      BY <3>1, StepCounts
    <3> QED BY <3>1, <3>2
  <2> QED BY <2>1, <2>2, <2>3
<1> QED BY <1>1, Inductive, PTL DEF Spec, RendersWindDown

(* What the goroutines of a merge wait for stays on its way beside         *)
(* everything else.                                                        *)
LEMMA AllAwaitedStep == IndInv /\ AllAwaited /\ [Next]_vars => AllAwaited'
<1> SUFFICES ASSUME IndInv, AllAwaited, [Next]_vars, NEW q \in Calls
             PROVE  Awaited(q)'
  BY DEF AllAwaited
<1>1. MergeInv /\ Awaited(q) /\ Stepped(q)
  BY NextSteps DEF IndInv, AllAwaited
<1>2. CASE Untouched(q)
  BY <1>1, <1>2, OtherAwaited DEF Untouched
<1>3. CASE Worked(q)
  BY <1>1, <1>3, StepAwaited DEF Worked
<1>4. CASE Further(q)
  <2>1. CASE m'[q] = m[q] /\ (q \in ctx => q \in ctx')
    BY <1>1, <2>1, OtherAwaited
  <2>2. CASE m'[q].at = "none" /\ m'[q].files = <<>> /\ ~m'[q].cancelled
    <3>1. Len(m'[q].files) = 0
      BY <2>2
    <3> QED BY <2>2, <3>1 DEF Awaited
  <2>3. CASE \E files \in Seq(Files) : MergeRawAudio(q, files) \/ MergeRefused(q)
    BY <1>1, <2>3, BeginAwaited
  <2> QED BY <1>4, <2>1, <2>2, <2>3 DEF Further
<1> QED BY <1>1, <1>2, <1>3, <1>4 DEF Stepped

(* Nobody waits for ever: a request in flight can always go on, in its own *)
(* handler or in one of the goroutines of its merge, and needs no fault to.*)
THEOREM RendersNeverStuck == Spec => []AlwaysReady
<1>1. Init => AllAwaited
  <2> SUFFICES ASSUME Init, NEW c \in Calls PROVE Awaited(c)
    BY DEF AllAwaited
  <2>1. m[c].files = <<>> /\ m[c].at = "none" /\ m[c].cancelled = FALSE
    BY DEF Init, MergeInit, NoCall
  <2>2. Len(m[c].files) = 0
    BY <2>1
  <2> QED BY <2>1, <2>2 DEF Awaited
<1>2. IndInv /\ AllAwaited => AlwaysReady
  <2> SUFFICES ASSUME IndInv, AllAwaited, NEW r \in Calls, InFlight(r)
               PROVE  HandlerReady(r) \/ MergeReady(r)
    BY DEF AlwaysReady
  <2>1. req[r] \in ReqType /\ ReqOK(r) /\ MergeInv /\ Awaited(r)
    BY DEF IndInv, AllAwaited
  <2>2. CASE req[r].at = "merge"
    <3>1. m[r].at # "none"
      BY <2>1, <2>2 DEF ReqOK, Merging
    <3>2. CASE AtRest(m[r])
      BY <2>2, <3>1, <3>2 DEF HandlerReady, At, AtRest
    <3>3. CASE ~AtRest(m[r])
      BY <2>1, <3>3, AwaitedReady
    <3> QED BY <3>2, <3>3
  <2>3. CASE req[r].at = "start"
    <3>1. m[r].at = "none" /\ req[r].files # <<>>
      BY <2>1, <2>3 DEF ReqOK, Merging, HasMerged, Stage, Wanted
    <3> QED BY <2>3, <3>1 DEF HandlerReady, At
  <2>4. CASE req[r].at = "files"
    BY <2>1, <2>4 DEF ReqOK, Stage, HandlerReady, At
  <2>5. CASE req[r].at \notin {"merge", "start", "files"}
    BY <2>1, <2>5 DEF ReqType, InFlight, HandlerReady
  <2> QED BY <2>2, <2>3, <2>4, <2>5
<1> QED BY <1>1, <1>2, AllAwaitedStep, Inductive, PTL DEF Spec
=============================================================================
