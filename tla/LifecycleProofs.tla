-------------------------- MODULE LifecycleProofs --------------------------
(***************************************************************************)
(* Proofs about Lifecycle, for every set of streams and every bound: the   *)
(* types and the retention bound of any channel; on local disk, that       *)
(* viewers are told what is committed; and, with a worker that never goes  *)
(* back to an older stream, that the live flag follows the worker.         *)
(***************************************************************************)
EXTENDS Lifecycle, FiniteSetTheorems, TLAPS

ReqType == [step : Steps, s : Streams \cup {NoStream}, cur : Streams \cup {NoStream},
            at : Nat, todo : SUBSET Streams, old : SUBSET Streams]

-----------------------------------------------------------------------------
(* Types and requests                                                      *)

LEMMA Types ==
  ASSUME TypeOK
  PROVE  /\ rows \subseteq Streams /\ live \subseteq rows /\ aged \subseteq rows
         /\ media \subseteq Streams /\ deleting \subseteq Streams
         /\ act \in [Streams -> Nat] /\ clock \in Nat
         /\ req \in [Requesters -> ReqType]
         /\ current \in Streams \cup {NoStream} /\ wish \in BOOLEAN /\ settled \in BOOLEAN
         /\ announced \in [s : Streams \cup {NoStream}, live : BOOLEAN]
         /\ errors \in Nat /\ crashes \in Nat /\ deletes \in Nat
BY DEF TypeOK, ReqType

LEMMA TypesNext ==
  ASSUME rows' \subseteq Streams, live' \subseteq rows', aged' \subseteq rows',
         media' \subseteq Streams, deleting' \subseteq Streams,
         act' \in [Streams -> Nat], clock' \in Nat,
         req' \in [Requesters -> ReqType],
         current' \in Streams \cup {NoStream}, wish' \in BOOLEAN, settled' \in BOOLEAN,
         announced' \in [s : Streams \cup {NoStream}, live : BOOLEAN],
         errors' \in Nat, crashes' \in Nat, deletes' \in Nat
  PROVE  TypeOK'
BY DEF TypeOK, ReqType

LEMMA Who ==
  /\ {"worker", "admin", "prune"} \subseteq Requesters
  /\ NoStream \notin Streams
BY LifecycleAssumption DEF Requesters, NoStream

LEMMA IdleTyped ==
  /\ Idle \in ReqType /\ Idle.step = "idle"
  /\ \A step \in Steps, s \in Streams :
       LET x == [Idle EXCEPT !.step = step, !.s = s] IN
       x \in ReqType /\ x.step = step /\ x.s = s
<1>1. Idle \in ReqType /\ Idle.step = "idle"
  BY DEF Idle, ReqType, Steps
<1>2. ASSUME NEW step \in Steps, NEW s \in Streams
      PROVE  LET x == [Idle EXCEPT !.step = step, !.s = s] IN
             x \in ReqType /\ x.step = step /\ x.s = s
  BY <1>1 DEF ReqType
<1> QED
  BY <1>1, <1>2

(* The update of one request.                                              *)
LEMMA ReqUpdate ==
  ASSUME req \in [Requesters -> ReqType], NEW r \in Requesters, NEW x \in ReqType,
         req' = [req EXCEPT ![r] = x]
  PROVE  /\ req' \in [Requesters -> ReqType]
         /\ req'[r] = x
         /\ \A q \in Requesters : q # r => req'[q] = req[q]
OBVIOUS

(* The three requesters and their steps, as far as the types need them.    *)
LEMMA GotoFacts ==
  ASSUME req \in [Requesters -> ReqType], NEW r \in Requesters, NEW step \in Steps,
         Goto(r, step)
  PROVE  /\ req' \in [Requesters -> ReqType]
         /\ req'[r].step = step /\ req'[r].s = req[r].s /\ req'[r].cur = req[r].cur
         /\ req'[r].at = req[r].at /\ req'[r].todo = req[r].todo
         /\ \A q \in Requesters : q # r => req'[q] = req[q]
BY DEF Goto, ReqType

-----------------------------------------------------------------------------
(* What leaves the invariant alone                                         *)

(* On R2 only the types and the requests are claimed.                      *)
LEMMA OnR2 ==
  ASSUME ~Local, TypeOK', RequestsOK'
  PROVE  IndInv'
BY DEF IndInv, Committed, Retained, Undisturbed

(* The sets that retention counts are finite.                              *)
LEMMA HeldFinite ==
  TypeOK => /\ IsFiniteSet(Held) /\ Cardinality(Held) \in Nat
            /\ Allowed \in Nat /\ IsFiniteSet(rows)
<1> SUFFICES ASSUME TypeOK
             PROVE  /\ IsFiniteSet(Held) /\ Cardinality(Held) \in Nat
                    /\ Allowed \in Nat /\ IsFiniteSet(rows)
  OBVIOUS
<1>1. Held \subseteq Streams /\ IsFiniteSet(Streams)
  BY Types, LifecycleAssumption DEF Held
<1>2. IsFiniteSet(Held) /\ IsFiniteSet(rows)
  BY <1>1, Types, FS_Subset
<1>3. Cardinality(Held) \in Nat
  BY <1>2, FS_CardinalityType
<1>4. Allowed \in Nat
  BY Types, LifecycleAssumption DEF Allowed
<1> QED
  BY <1>2, <1>3, <1>4

LEMMA HeldFiniteNext ==
  (TypeOK => /\ IsFiniteSet(Held) /\ Cardinality(Held) \in Nat
             /\ Allowed \in Nat /\ IsFiniteSet(rows))'
BY HeldFinite, PTL

LEMMA Smaller ==
  ASSUME NEW S, IsFiniteSet(S), NEW T \in SUBSET S
  PROVE  IsFiniteSet(T) /\ Cardinality(T) \in Nat /\ Cardinality(S) \in Nat
         /\ Cardinality(T) <= Cardinality(S)
BY FS_Subset, FS_CardinalityType

LEMMA OneMore ==
  ASSUME NEW S, IsFiniteSet(S), NEW x, NEW T \in SUBSET (S \cup {x})
  PROVE  /\ IsFiniteSet(T) /\ Cardinality(T) \in Nat /\ Cardinality(S) \in Nat
         /\ Cardinality(T) <= Cardinality(S) + 1
<1>1. IsFiniteSet(S \cup {x}) /\ Cardinality(S \cup {x}) <= Cardinality(S) + 1
      /\ Cardinality(S) \in Nat
  BY FS_AddElement, FS_CardinalityType
<1>2. IsFiniteSet(T) /\ Cardinality(T) \in Nat /\ Cardinality(S \cup {x}) \in Nat
      /\ Cardinality(T) <= Cardinality(S \cup {x})
  BY <1>1, Smaller
<1> QED
  BY <1>1, <1>2

(* A step that adds no row and lowers no bound keeps what retention        *)
(* promises, unless it ends the part of an activation that may be one over.*)
LEMMA HeldShrinks ==
  ASSUME TypeOK, TypeOK', Retained, Held' \subseteq Held, Allowed <= Allowed',
         req'["worker"].step = "purge" => /\ At("worker", "purge")
                                          /\ req'["worker"].todo = req["worker"].todo,
         req["worker"].step \in {"demote", "upsert", "retain", "purge"} =>
           \/ req'["worker"].step \in {"demote", "upsert", "retain", "purge"}
           \/ Allowed + 1 <= Allowed'
  PROVE  Retained'
<1> SUFFICES ASSUME Local PROVE Retained'
  BY DEF Retained
<1>1. IsFiniteSet(Held) /\ Allowed \in Nat /\ Allowed' \in Nat
  BY HeldFinite, HeldFiniteNext
<1>2. /\ Cardinality(Held) \in Nat /\ Cardinality(Held') \in Nat
      /\ Cardinality(Held') <= Cardinality(Held)
  BY <1>1, Smaller
<1>3. Cardinality(Held') <= Allowed' + 1
  BY <1>1, <1>2 DEF Retained
<1>4. req'["worker"].step \notin {"demote", "upsert", "retain", "purge"} =>
        Cardinality(Held') <= Allowed'
  BY <1>1, <1>2 DEF Retained
<1>5. ASSUME req'["worker"].step = "purge"
      PROVE  Cardinality(Held' \ req'["worker"].todo) <= Allowed'
  <2> DEFINE K == Held \ req["worker"].todo
             L == Held' \ req'["worker"].todo
  <2>1. Cardinality(K) <= Allowed
    BY <1>5 DEF Retained
  <2>2. L \in SUBSET K /\ K \in SUBSET Held
    BY <1>5
  <2>3. IsFiniteSet(K)
    BY <1>1, <2>2, Smaller
  <2>4. Cardinality(K) \in Nat /\ Cardinality(L) \in Nat /\ Cardinality(L) <= Cardinality(K)
    BY <2>2, <2>3, Smaller
  <2> QED
    BY <1>1, <2>1, <2>4
<1> QED
  BY <1>3, <1>4, <1>5 DEF Retained, At

(* A step outside the worker's request.  It deletes rows only on R2 or as  *)
(* the admin.                                                              *)
LEMMA Outside ==
  ASSUME IndInv, TypeOK', RequestsOK', req'["worker"] = req["worker"],
         UNCHANGED <<current, crashes>>, rows' \subseteq rows,
         errors <= errors', deletes = 0 \/ deletes' # 0,
         \/ ~Local \/ deletes' # 0
         \/ UNCHANGED <<rows, live, act, clock, wish, settled, announced>>
  PROVE  IndInv'
<1>1. CASE ~Local
  BY <1>1, OnR2
<1>2. ASSUME Local
      PROVE  Retained'
  <2>1. Held' \subseteq Held
    BY DEF Held
  <2>2. Allowed <= Allowed'
    BY Types, LifecycleAssumption DEF IndInv, TypeOK, Allowed
  <2> QED
    BY <2>1, <2>2, HeldShrinks DEF IndInv, At
<1>3. CASE Local /\ deletes' # 0
  BY <1>2, <1>3 DEF IndInv, Committed, Undisturbed
<1>4. CASE Local /\ deletes' = 0 /\ UNCHANGED <<rows, live, act, clock, wish, settled, announced>>
  <2>1. deletes = 0 /\ (Undisturbed' => Undisturbed)
    BY <1>4, Types DEF IndInv, TypeOK, Undisturbed
  <2>2. Committed'
    BY <1>4, <2>1 DEF IndInv, Committed, At
  <2>3. Ordered => Ordered'
    BY <1>4 DEF Ordered, Recent
  <2>4. OneLive => OneLive'
    BY <1>4 DEF OneLive, Recent, At, WorkerIdle
  <2>5. LiveFollowsWorker /\ errors = 0 => LiveFollowsWorker'
    BY <1>4 DEF LiveFollowsWorker, At, WorkerIdle
  <2>6. Told => Told'
    BY <1>4 DEF Told, At, WorkerIdle
  <2> QED
    BY <1>2, <1>4, <2>1, <2>2, <2>3, <2>4, <2>5, <2>6 DEF IndInv, Undisturbed
<1> QED
  BY <1>1, <1>3, <1>4

-----------------------------------------------------------------------------
(* Storage, time, the admin                                                *)

(* Steps that touch neither a request nor the rows.                        *)
LEMMA EnvironmentKeeps ==
  ASSUME IndInv, NEW s \in Streams, Upload(s) \/ Expire(s) \/ DeleteFolder(s) \/ Age(s)
  PROVE  IndInv'
<1> USE DEF tableVars, workerVars, faultVars
<1>1. TypeOK
  BY DEF IndInv
<1>2. /\ UNCHANGED <<rows, live, act, clock, req, current, wish, settled, announced,
                     errors, crashes, deletes>>
      /\ media' \subseteq Streams /\ deleting' \subseteq Streams /\ aged' \subseteq rows
  BY <1>1, Types DEF Upload, Expire, DeleteFolder, Age
<1>3. TypeOK'
  BY <1>1, <1>2, Types, TypesNext
<1>4. RequestsOK'
  BY <1>2 DEF IndInv, RequestsOK, At, WorkerIdle
<1> QED
  BY <1>1, <1>2, <1>3, <1>4, Types, Outside

(* A step that changes nothing.                                            *)
LEMMA StutterKeeps ==
  ASSUME IndInv, UNCHANGED vars
  PROVE  IndInv'
<1> USE DEF vars
<1>1. TypeOK
  BY DEF IndInv
<1>2. TypeOK'
  BY <1>1, Types, TypesNext
<1>3. RequestsOK'
  BY DEF IndInv, RequestsOK, At, WorkerIdle
<1> QED
  BY <1>1, <1>2, <1>3, Types, Outside

LEMMA AdminLookupKeeps ==
  ASSUME IndInv, NEW s \in Streams, AdminLookup(s)
  PROVE  IndInv'
<1> USE DEF AdminLookup, tableVars, workerVars
<1>1. TypeOK
  BY DEF IndInv
<1> DEFINE x == [Idle EXCEPT !.step = "cascade", !.s = s]
<1>2. x \in ReqType /\ x.step = "cascade" /\ x.s = s
  BY IdleTyped DEF Steps
<1>3. req' = [req EXCEPT !["admin"] = x]
  OBVIOUS
<1> HIDE DEF x
<1>4. /\ req' \in [Requesters -> ReqType]
      /\ req'["admin"].step = "cascade" /\ req'["admin"].s = s
      /\ \A q \in Requesters : q # "admin" => req'[q] = req[q]
  BY <1>1, <1>2, <1>3, Types, Who, ReqUpdate
<1>5. deletes' \in Nat /\ deletes' # 0
  BY <1>1, Types
<1>6. TypeOK'
  BY <1>1, <1>4, <1>5, Types, TypesNext
<1>7. req'["worker"] = req["worker"] /\ req'["prune"] = req["prune"]
  BY <1>4, Who
<1>8. RequestsOK'
  BY <1>4, <1>5, <1>7 DEF IndInv, RequestsOK, At, WorkerIdle
<1> QED
  BY <1>1, <1>5, <1>6, <1>7, <1>8, Types, Outside

LEMMA AdminDeleteKeeps ==
  ASSUME IndInv, NEW withMedia \in BOOLEAN, AdminDelete(withMedia)
  PROVE  IndInv'
<1> USE DEF AdminDelete, DeleteRow, workerVars, faultVars
<1>1. TypeOK /\ deletes # 0
  BY DEF IndInv, RequestsOK
<1>2. /\ req' \in [Requesters -> ReqType] /\ req'["admin"].step = "idle"
      /\ \A q \in Requesters : q # "admin" => req'[q] = req[q]
  BY <1>1, Types, Who, IdleTyped, ReqUpdate
<1>3. /\ rows' \subseteq rows /\ live' \subseteq rows' /\ aged' \subseteq rows'
  BY <1>1, Types
<1>4. deleting' \subseteq Streams
  <2>1. CASE ~withMedia
    BY <1>1, <2>1, Types
  <2>2. CASE withMedia
    BY <1>1, <2>2, Types DEF IndInv, RequestsOK
  <2> QED
    BY <2>1, <2>2
<1>5. TypeOK'
  BY <1>1, <1>2, <1>3, <1>4, Types, TypesNext
<1>6. req'["worker"] = req["worker"] /\ req'["prune"] = req["prune"]
  BY <1>2, Who
<1>7. RequestsOK'
  BY <1>1, <1>2, <1>6 DEF IndInv, RequestsOK, At, WorkerIdle
<1> QED
  BY <1>1, <1>3, <1>5, <1>6, <1>7, Types, Outside

-----------------------------------------------------------------------------
(* The loops on R2, of the sweep and of an activation                      *)

(* On R2, a step of the sweep's or the worker's loop.                      *)
LEMMA LoopStep ==
  ASSUME IndInv, ~Local, NEW r \in {"worker", "prune"}, NEW x \in ReqType,
         req' = [req EXCEPT ![r] = x],
         x.step \in {"idle", "probe", "drop", "announceNew"},
         r = "prune" => x.step # "announceNew",
         r = "worker" => x.step # "idle" /\ ~WorkerIdle /\ x.s = req["worker"].s,
         rows' \subseteq rows, live' \subseteq rows', aged' \subseteq rows',
         UNCHANGED <<act, clock, media, deleting, current, wish, settled, announced, crashes, deletes>>,
         errors' \in Nat
  PROVE  IndInv'
<1>1. TypeOK
  BY DEF IndInv
<1>2. /\ req' \in [Requesters -> ReqType] /\ req'[r] = x
      /\ \A q \in Requesters : q # r => req'[q] = req[q]
  BY <1>1, Types, Who, ReqUpdate
<1>3. TypeOK'
  BY <1>1, <1>2, Types, TypesNext
<1>4. RequestsOK'
  <2>1. CASE r = "prune"
    BY <1>2, <2>1, Who DEF IndInv, RequestsOK, At, WorkerIdle
  <2>2. CASE r = "worker"
    BY <1>2, <2>2, Who DEF IndInv, RequestsOK, At, WorkerIdle, WorkerSteps, Steps
  <2> QED
    BY <2>1, <2>2
<1> QED
  BY <1>3, <1>4, OnR2

(* The sweep reads the rows.                                               *)
LEMMA PruneStartKeeps ==
  ASSUME IndInv, PruneStart
  PROVE  IndInv'
<1> USE DEF PruneStart, tableVars, workerVars, faultVars
<1>1. TypeOK
  BY DEF IndInv
<1> DEFINE o == {s \in rows : OldEnough(s)}
           x == [Idle EXCEPT !.step = "probe", !.todo = rows, !.old = o]
<1>2. req' = [req EXCEPT !["prune"] = x]
  OBVIOUS
<1>3. o \in SUBSET Streams /\ rows \in SUBSET Streams
  BY <1>1, Types
<1> HIDE DEF o
<1>4. x \in ReqType /\ x.step = "probe"
  <2>1. Idle \in ReqType
    BY IdleTyped
  <2> QED
    BY <1>3, <2>1 DEF ReqType, Steps
<1> HIDE DEF x
<1> QED
  BY <1>1, <1>2, <1>4, Types, LoopStep

(* An activation on R2 starts its loop.                                    *)
LEMMA RetainR2Keeps ==
  ASSUME IndInv, RetainR2
  PROVE  IndInv'
<1> USE DEF RetainR2, tableVars, workerVars, faultVars
<1>1. TypeOK
  BY DEF IndInv
<1> DEFINE d == IF Cardinality(rows) <= 1 THEN {} ELSE rows \ {req["worker"].s}
           x == [req["worker"] EXCEPT !.step = "probe", !.todo = d]
<1>2. req["worker"] \in ReqType /\ d \in SUBSET Streams
  BY <1>1, Types, Who
<1>3. req' = [req EXCEPT !["worker"] = x]
  BY <1>1, <1>2, Types, Who DEF ReqType
<1> HIDE DEF d
<1>4. x \in ReqType /\ x.step = "probe" /\ x.s = req["worker"].s
  BY <1>2 DEF ReqType, Steps
<1> HIDE DEF x
<1> QED
  BY <1>1, <1>3, <1>4, Types, LoopStep DEF At, WorkerIdle

LEMMA ProbeKeeps ==
  ASSUME IndInv, NEW r \in {"worker", "prune"}, Probe(r)
  PROVE  IndInv'
<1> USE DEF Probe, tableVars, workerVars, faultVars
<1>1. TypeOK /\ r \in Requesters
  BY Who DEF IndInv
<1>2. ~Local
  BY DEF IndInv, RequestsOK, At
<1>3. PICK s \in req[r].todo :
        req' = [req EXCEPT
          ![r].todo = @ \ {s}, ![r].old = @ \ {s},
          ![r].cur = IF Skipped(r, s) THEN NoStream ELSE s,
          ![r].step = IF Skipped(r, s) THEN @ ELSE "drop"]
  OBVIOUS
<1> DEFINE c == IF Skipped(r, s) THEN NoStream ELSE s
           a == IF Skipped(r, s) THEN req[r].step ELSE "drop"
           x == [req[r] EXCEPT !.todo = @ \ {s}, !.old = @ \ {s}, !.cur = c, !.step = a]
<1>4. req[r] \in ReqType /\ req \in [Requesters -> ReqType]
  BY <1>1, Types
<1>5. c \in Streams \cup {NoStream} /\ a \in {"probe", "drop"}
  BY <1>4 DEF ReqType, At
<1>6. req' = [req EXCEPT ![r] = x]
  BY <1>1, <1>3, <1>4 DEF ReqType
<1> HIDE DEF c, a
<1>7. x \in ReqType /\ x.step = a /\ x.s = req[r].s
  BY <1>4, <1>5 DEF ReqType, Steps
<1> HIDE DEF x
<1> QED
  BY <1>1, <1>2, <1>5, <1>6, <1>7, Types, LoopStep DEF At, WorkerIdle

LEMMA DropKeeps ==
  ASSUME IndInv, NEW r \in {"worker", "prune"}, Drop(r)
  PROVE  IndInv'
<1> USE DEF Drop, tableVars, workerVars, faultVars, CallFails, DeleteRow
<1>1. TypeOK /\ r \in Requesters
  BY Who DEF IndInv
<1>2. ~Local
  BY DEF IndInv, RequestsOK, At
<1> DEFINE x == [req[r] EXCEPT !.step = "probe", !.cur = NoStream]
<1>3. req[r] \in ReqType /\ req \in [Requesters -> ReqType]
  BY <1>1, Types
<1>4. req' = [req EXCEPT ![r] = x]
  BY <1>1, <1>3 DEF ReqType
<1>5. x \in ReqType /\ x.step = "probe" /\ x.s = req[r].s
  BY <1>3 DEF ReqType, Steps
<1> HIDE DEF x
<1>6. /\ rows' \subseteq rows /\ live' \subseteq rows' /\ aged' \subseteq rows'
      /\ errors' \in Nat /\ UNCHANGED <<act, crashes, deletes>>
  BY <1>1, Types
<1> QED
  BY <1>2, <1>4, <1>5, <1>6, LoopStep DEF At, WorkerIdle

LEMMA ProbeFailsKeeps ==
  ASSUME IndInv, NEW r \in {"worker", "prune"}, ProbeFails(r)
  PROVE  IndInv'
<1> USE DEF ProbeFails, tableVars, workerVars, CallFails
<1>1. TypeOK /\ r \in Requesters
  BY Who DEF IndInv
<1>2. ~Local
  BY DEF IndInv, RequestsOK, At
<1>3. PICK s \in req[r].todo : req' = [req EXCEPT ![r].todo = @ \ {s}, ![r].old = @ \ {s}]
  OBVIOUS
<1> DEFINE x == [req[r] EXCEPT !.todo = @ \ {s}, !.old = @ \ {s}]
<1>4. req[r] \in ReqType /\ req \in [Requesters -> ReqType]
  BY <1>1, Types
<1>5. req' = [req EXCEPT ![r] = x]
  BY <1>1, <1>3, <1>4 DEF ReqType
<1>6. x \in ReqType /\ x.step = "probe" /\ x.s = req[r].s
  BY <1>4 DEF ReqType, At
<1> HIDE DEF x
<1>7. errors' \in Nat
  BY <1>1, Types
<1> QED
  BY <1>1, <1>2, <1>5, <1>6, <1>7, Types, LoopStep DEF At, WorkerIdle

-----------------------------------------------------------------------------
(* The worker's requests                                                   *)

(* The other requesters stay where they are.                               *)
LEMMA WorkerRequest ==
  ASSUME IndInv, NEW x \in ReqType, req' = [req EXCEPT !["worker"] = x],
         x.step \in WorkerSteps, deletes' = deletes,
         x.step # "idle" => x.s = current' /\ current' \in Streams /\ ~settled',
         x.step = "purge" => current' \notin x.todo,
         x.step \in {"probe", "drop"} => ~Local
  PROVE  req' \in [Requesters -> ReqType] /\ req'["worker"] = x /\ RequestsOK'
<1>1. TypeOK
  BY DEF IndInv
<1>2. /\ req' \in [Requesters -> ReqType] /\ req'["worker"] = x
      /\ req'["admin"] = req["admin"] /\ req'["prune"] = req["prune"]
  BY <1>1, Types, Who, ReqUpdate
<1>3. RequestsOK'
  BY <1>2 DEF IndInv, RequestsOK, At, WorkerIdle
<1> QED
  BY <1>2, <1>3

(* The rows that are tied for the latest activation time are one.          *)
LEMMA RecentUnique ==
  ASSUME TypeOK, Ordered
  PROVE  /\ \A s, t \in Recent : s = t
         /\ Recent \subseteq rows
         /\ current \in rows => Recent = {current}
<1>1. \A s \in rows : act[s] \in Nat
  BY Types
<1>2. \A s, t \in Recent : s = t
  BY <1>1 DEF Ordered, Recent
<1> QED
  BY <1>2 DEF Ordered, Recent

(* An activation of another stream: the worker asks for a stream without a *)
(* row, and the only row that may be live is the one it read.              *)
LEMMA ActivateNewKeeps ==
  ASSUME IndInv, NEW s \in Streams, ActivateNew(s)
  PROVE  IndInv'
<1> USE DEF ActivateNew, Ask, tableVars, faultVars
<1>1. TypeOK
  BY DEF IndInv
<1>2. PICK cur \in IF rows = {} THEN {NoStream} ELSE Recent \ {s} :
        req' = [req EXCEPT !["worker"] =
                 [step |-> IF cur \in live THEN "demote" ELSE "upsert",
                  s |-> s, cur |-> cur, at |-> clock + 1, todo |-> {}, old |-> {}]]
  OBVIOUS
<1> DEFINE a == IF cur \in live THEN "demote" ELSE "upsert"
           x == [step |-> a, s |-> s, cur |-> cur, at |-> clock + 1, todo |-> {}, old |-> {}]
<1>3. a \in {"demote", "upsert"} /\ (a = "upsert" => cur \notin live)
  OBVIOUS
<1>4. clock + 1 \in Nat /\ cur \in Streams \cup {NoStream}
  BY <1>1, Types DEF Recent
<1>5. req' = [req EXCEPT !["worker"] = x]
  BY <1>2
<1> HIDE DEF a
<1>6. /\ x \in ReqType /\ x.step = a /\ x.s = s /\ x.cur = cur /\ x.at = clock + 1
  BY <1>3, <1>4 DEF ReqType, Steps
<1> HIDE DEF x
<1>7. req' \in [Requesters -> ReqType] /\ req'["worker"] = x /\ RequestsOK'
  BY <1>3, <1>5, <1>6, WorkerRequest DEF WorkerSteps, Steps
<1>8. TypeOK'
  BY <1>1, <1>4, <1>7, Types, TypesNext
<1>9. Committed'
  BY <1>3, <1>6, <1>7 DEF Committed, Activated, At
<1>10. Retained'
  <2> SUFFICES ASSUME Local PROVE Retained'
    BY DEF Retained
  <2>1. Held' \in SUBSET (Held \cup {s}) /\ IsFiniteSet(Held)
    BY <1>1, HeldFinite DEF Held
  <2>2. /\ Cardinality(Held) \in Nat /\ Cardinality(Held') \in Nat
        /\ Cardinality(Held') <= Cardinality(Held) + 1
    BY <2>1, OneMore
  <2>3. Allowed' = Allowed /\ Allowed \in Nat /\ Cardinality(Held) <= Allowed
    BY <1>1, HeldFinite DEF IndInv, Retained, Allowed, At
  <2> QED
    BY <1>3, <1>6, <1>7, <2>2, <2>3 DEF Retained, At
<1>11. ASSUME Undisturbed'
       PROVE  Ordered' /\ OneLive' /\ LiveFollowsWorker' /\ Told'
  <2>1. Undisturbed /\ Ordered /\ OneLive
    BY <1>11 DEF IndInv, Undisturbed
  <2>2. s \notin rows
    <3>1. s = current \/ s \notin rows
      BY <2>1 DEF MayActivate, Undisturbed
    <3>2. s \in rows => Recent = {s}
      BY <1>1, <2>1, <3>1, RecentUnique
    <3> QED
      BY <1>2, <3>2
  <2>3. \A t \in rows : act[t] \in Nat /\ act[t] <= clock /\ act[t] > 0
    BY <1>1, <2>1, Types DEF Ordered
  <2>4. Ordered'
    <3>1. clock \in Nat /\ clock' = clock + 1
      BY <1>1, Types
    <3>2. \A t \in rows' : act'[t] > 0 /\ act'[t] <= clock'
      BY <2>3, <3>1
    <3> QED
      BY <2>1, <2>2, <3>2 DEF Ordered
  <2>5. live \subseteq {cur}
    <3>1. live \subseteq Recent /\ live \subseteq rows
      BY <1>1, <2>1, Types DEF OneLive
    <3> QED
      BY <1>1, <1>2, <2>1, <3>1, RecentUnique
  <2>6. live' \subseteq Recent'
    BY <2>1 DEF OneLive, Recent
  <2>7. OneLive'
    <3>1. \A t \in rows : act[t] < clock + 1
      BY <1>1, <2>3, Types
    <3>2. clock + 1 > 0
      BY <1>1, Types
    <3> QED
      BY <1>3, <1>6, <1>7, <2>2, <2>5, <2>6, <3>1, <3>2 DEF OneLive, At, WorkerIdle, Activated
  <2>8. ~WorkerIdle'
    BY <1>3, <1>6, <1>7 DEF WorkerIdle, At
  <2> QED
    BY <2>4, <2>7, <2>8 DEF LiveFollowsWorker, Told
<1> QED
  BY <1>7, <1>8, <1>9, <1>10, <1>11 DEF IndInv

(* An undisturbed worker that asks for a row of the table asks for the     *)
(* stream it is on, which is then the only one that may be live.           *)
LEMMA AsksForItsOwn ==
  ASSUME IndInv, Undisturbed, NEW s \in Streams, MayActivate(s), s \in Recent
  PROVE  s = current /\ Recent = {current} /\ live \subseteq {current}
<1>1. TypeOK /\ Ordered /\ OneLive /\ s \in rows
  BY DEF IndInv, Recent
<1>2. s = current
  BY <1>1 DEF MayActivate, Undisturbed
<1>3. Recent = {current}
  BY <1>1, <1>2, RecentUnique
<1> QED
  BY <1>1, <1>2, <1>3 DEF OneLive

(* A request about the latest row, to set or to clear its flag.            *)
LEMMA ActivateSameKeeps ==
  ASSUME IndInv, NEW s \in Streams, ActivateSame(s)
  PROVE  IndInv'
<1> USE DEF ActivateSame, Ask, tableVars, faultVars
<1>1. TypeOK /\ s \in rows
  BY DEF IndInv, Recent
<1> DEFINE x == [Idle EXCEPT !.step = "relive", !.s = s]
<1>2. x \in ReqType /\ x.step = "relive" /\ x.s = s
  BY IdleTyped DEF Steps
<1>3. req' = [req EXCEPT !["worker"] = x]
  OBVIOUS
<1> HIDE DEF x
<1>4. req' \in [Requesters -> ReqType] /\ req'["worker"] = x /\ RequestsOK'
  BY <1>2, <1>3, WorkerRequest DEF WorkerSteps, Steps
<1>5. TypeOK'
  BY <1>1, <1>4, Types, TypesNext
<1>6. Committed'
  BY <1>1, <1>2, <1>4 DEF Committed, Activated, At
<1>7. Retained'
  <2>1. Held' \subseteq Held
    BY <1>1 DEF Held
  <2>2. Allowed' = Allowed /\ Allowed \in Nat
    BY <1>1, HeldFinite DEF Allowed
  <2> QED
    BY <1>1, <1>2, <1>4, <1>5, <2>1, <2>2, HeldShrinks DEF IndInv, At
<1>8. ASSUME Undisturbed'
      PROVE  Ordered' /\ OneLive' /\ LiveFollowsWorker' /\ Told'
  <2>1. Undisturbed /\ Ordered /\ OneLive
    BY <1>8 DEF IndInv, Undisturbed
  <2>2. s = current /\ live = {}
    BY <2>1, AsksForItsOwn
  <2>3. Ordered'
    BY <2>1, <2>2 DEF Ordered, Recent
  <2>4. OneLive'
    BY <1>2, <1>4, <2>2 DEF OneLive, At, WorkerIdle, Activated
  <2>5. ~WorkerIdle'
    BY <1>2, <1>4 DEF WorkerIdle, At
  <2> QED
    BY <2>3, <2>4, <2>5 DEF LiveFollowsWorker, Told
<1> QED
  BY <1>4, <1>5, <1>6, <1>7, <1>8 DEF IndInv

LEMMA DeactivateKeeps ==
  ASSUME IndInv, Deactivate
  PROVE  IndInv'
<1> USE DEF Deactivate, Ask, tableVars, faultVars
<1>1. TypeOK /\ current \in rows /\ current \in Streams
  BY Types DEF IndInv, Recent
<1> DEFINE x == [Idle EXCEPT !.step = "unlive", !.s = current]
<1>2. x \in ReqType /\ x.step = "unlive" /\ x.s = current
  BY <1>1, IdleTyped DEF Steps
<1>3. req' = [req EXCEPT !["worker"] = x]
  OBVIOUS
<1> HIDE DEF x
<1>4. req' \in [Requesters -> ReqType] /\ req'["worker"] = x /\ RequestsOK'
  BY <1>1, <1>2, <1>3, WorkerRequest DEF WorkerSteps, Steps
<1>5. TypeOK'
  BY <1>1, <1>4, Types, TypesNext
<1>6. Committed'
  BY <1>2, <1>4 DEF Committed, Activated, At
<1>7. Retained'
  <2>1. Held' \subseteq Held
    BY DEF Held
  <2>2. Allowed' = Allowed /\ Allowed \in Nat
    BY <1>1, HeldFinite DEF Allowed
  <2> QED
    BY <1>1, <1>2, <1>4, <1>5, <2>1, <2>2, HeldShrinks DEF IndInv, At
<1>8. ASSUME Undisturbed'
      PROVE  Ordered' /\ OneLive' /\ LiveFollowsWorker' /\ Told'
  <2>1. Undisturbed /\ Ordered /\ OneLive
    BY <1>8 DEF IndInv, Undisturbed
  <2>2. Ordered'
    BY <2>1 DEF Ordered, Recent
  <2>3. live' \subseteq Recent'
    BY <2>1 DEF OneLive, Recent
  <2>4. OneLive'
    BY <1>1, <1>2, <1>4, <2>3 DEF OneLive, At, WorkerIdle, Activated
  <2>5. ~WorkerIdle'
    BY <1>2, <1>4 DEF WorkerIdle, At
  <2> QED
    BY <2>2, <2>4, <2>5 DEF LiveFollowsWorker, Told
<1> QED
  BY <1>4, <1>5, <1>6, <1>7, <1>8 DEF IndInv

(* A request answered at once: the table stays as it is.                   *)
LEMMA AnsweredAtOnce ==
  ASSUME IndInv, WorkerIdle, current' \in Streams, wish' \in BOOLEAN, settled' = TRUE,
         UNCHANGED <<rows, live, act, aged, clock, media, deleting, req, announced,
                     crashes, deletes>>,
         \/ errors' = errors /\ (current' = current \/ current' \in rows)
         \/ errors' = errors + 1,
         Undisturbed' => Ordered' /\ OneLive' /\ LiveFollowsWorker' /\ Told'
  PROVE  IndInv'
<1>1. TypeOK
  BY DEF IndInv
<1>2. errors' \in Nat
  BY <1>1, Types
<1>3. TypeOK'
  BY <1>1, <1>2, Types, TypesNext
<1>4. RequestsOK'
  BY DEF IndInv, RequestsOK, At, WorkerIdle
<1>5. Committed'
  BY DEF IndInv, Committed, Activated, At, WorkerIdle
<1>6. Retained'
  <2>1. CASE errors' = errors /\ (current' = current \/ current' \in rows)
    <3>1. Held' \subseteq Held
      BY <2>1 DEF Held
    <3>2. Allowed' = Allowed /\ Allowed \in Nat
      BY <1>1, <2>1, HeldFinite DEF Allowed
    <3> QED
      BY <1>1, <1>3, <3>1, <3>2, HeldShrinks DEF IndInv, At
  <2>2. CASE errors' = errors + 1
    <3> SUFFICES ASSUME Local PROVE Retained'
      BY DEF Retained
    <3>1. Held' \in SUBSET (Held \cup {current'}) /\ IsFiniteSet(Held)
      BY <1>1, HeldFinite DEF Held
    <3>2. /\ Cardinality(Held) \in Nat /\ Cardinality(Held') \in Nat
          /\ Cardinality(Held') <= Cardinality(Held) + 1
      BY <3>1, OneMore
    <3>3. Allowed' = Allowed + 1 /\ Allowed \in Nat
      BY <1>1, <2>2, Types, HeldFinite, LifecycleAssumption DEF Allowed
    <3>4. Cardinality(Held) <= Allowed
      BY DEF IndInv, Retained, WorkerIdle, At
    <3> QED
      BY <3>2, <3>3, <3>4 DEF Retained, WorkerIdle, At
  <2> QED
    BY <2>1, <2>2
<1> QED
  BY <1>3, <1>4, <1>5, <1>6 DEF IndInv

LEMMA ActivateAgainKeeps ==
  ASSUME IndInv, NEW s \in Streams, ActivateAgain(s)
  PROVE  IndInv'
<1> USE DEF ActivateAgain, tableVars, faultVars
<1>1. s \in rows
  BY DEF Recent
<1>2. ASSUME Undisturbed'
      PROVE  Ordered' /\ OneLive' /\ LiveFollowsWorker' /\ Told'
  <2>1. Undisturbed /\ Ordered /\ OneLive /\ LiveFollowsWorker /\ Told /\ errors = 0
    BY <1>2 DEF IndInv, Undisturbed
  <2>2. s = current /\ live = {current}
    BY <2>1, AsksForItsOwn
  <2>3. Ordered'
    BY <2>1, <2>2 DEF Ordered, Recent
  <2>4. OneLive'
    BY <1>1, <2>1, <2>2 DEF OneLive, Recent, At, WorkerIdle, Activated
  <2>5. LiveFollowsWorker'
    BY <2>2 DEF LiveFollowsWorker
  <2>6. settled => wish = TRUE
    <3>1. wish \in BOOLEAN
      BY Types DEF IndInv
    <3> QED
      BY <2>1, <2>2, <3>1 DEF LiveFollowsWorker, WorkerIdle
  <2>7. Told'
    BY <2>1, <2>2, <2>6 DEF Told, WorkerIdle, At
  <2> QED
    BY <2>3, <2>4, <2>5, <2>7
<1> QED
  BY <1>1, <1>2, AnsweredAtOnce DEF WorkerIdle

LEMMA DeactivateIgnoredKeeps ==
  ASSUME IndInv, DeactivateIgnored
  PROVE  IndInv'
<1> USE DEF DeactivateIgnored, tableVars, faultVars
<1>1. TypeOK /\ current \in Streams
  BY Types DEF IndInv, MayDeactivate
<1>2. ASSUME Undisturbed'
      PROVE  Ordered' /\ OneLive' /\ LiveFollowsWorker' /\ Told'
  <2>1. Undisturbed /\ Ordered /\ OneLive /\ LiveFollowsWorker /\ Told /\ errors = 0
    BY <1>2 DEF IndInv, Undisturbed
  <2>2. current \in rows
    BY <2>1 DEF MayDeactivate, Undisturbed, OneLive, WorkerIdle
  <2>3. Recent = {current}
    BY <1>1, <2>1, <2>2, RecentUnique
  <2>4. live = {}
    BY <2>1, <2>3 DEF OneLive
  <2>5. Ordered'
    BY <2>1 DEF Ordered, Recent
  <2>6. OneLive'
    BY <2>2, <2>4 DEF OneLive, At, WorkerIdle, Activated
  <2>7. LiveFollowsWorker'
    BY <2>4 DEF LiveFollowsWorker
  <2>8. settled => wish = FALSE
    <3>1. wish \in BOOLEAN
      BY <1>1, Types
    <3> QED
      BY <2>1, <2>4, <3>1 DEF LiveFollowsWorker, WorkerIdle
  <2>9. Told'
    BY <2>1, <2>8 DEF Told, WorkerIdle, At
  <2> QED
    BY <2>5, <2>6, <2>7, <2>9
<1> QED
  BY <1>1, <1>2, AnsweredAtOnce DEF WorkerIdle

LEMMA ReadFailsKeeps ==
  ASSUME IndInv, NEW s \in Streams, NEW on \in BOOLEAN, ReadFails(s, on)
  PROVE  IndInv'
<1> USE DEF ReadFails, CallFails, tableVars
<1>1. errors' = errors + 1 /\ errors \in Nat
  BY Types DEF IndInv
<1>2. ~Undisturbed'
  BY <1>1 DEF Undisturbed
<1> QED
  BY <1>1, <1>2, AnsweredAtOnce DEF WorkerIdle

(* A step that a failing call disturbs claims less from here on.           *)
LEMMA Disturbed ==
  ASSUME TypeOK, errors' = errors + 1, crashes' = crashes
  PROVE  ~Undisturbed' /\ Allowed' = Allowed + 1 /\ Allowed \in Nat /\ errors' \in Nat
BY Types, HeldFinite, LifecycleAssumption DEF Undisturbed, Allowed

LEMMA DemoteKeeps ==
  ASSUME IndInv, Demote
  PROVE  IndInv'
<1> USE DEF Demote, SetStreamLive, CallFails, tableVars, workerVars, faultVars
<1>1. TypeOK /\ RequestsOK
  BY DEF IndInv
<1>2. /\ req' \in [Requesters -> ReqType]
      /\ req'["worker"].step = "upsert" /\ req'["worker"].s = req["worker"].s
      /\ req'["worker"].at = req["worker"].at
      /\ \A q \in Requesters : q # "worker" => req'[q] = req[q]
  BY <1>1, Types, Who, GotoFacts DEF Steps
<1>3. /\ live' \subseteq live /\ UNCHANGED <<rows, act, aged, crashes, deletes>>
      /\ \/ errors' = errors /\ live' = live \ {req["worker"].cur}
         \/ errors' = errors + 1
  BY <1>1, Types
<1>4. errors' \in Nat /\ errors <= errors'
  BY <1>1, <1>3, Types
<1>5. TypeOK'
  BY <1>1, <1>2, <1>3, <1>4, Types, TypesNext
<1>6. req'["admin"] = req["admin"] /\ req'["prune"] = req["prune"]
  BY <1>2, Who
<1>7. RequestsOK'
  BY <1>1, <1>2, <1>3, <1>6 DEF RequestsOK, At, WorkerIdle, WorkerSteps, Steps
<1>8. Committed'
  BY <1>2 DEF Committed, Activated, At
<1>9. Retained'
  <2>1. Held' \subseteq Held
    BY <1>3 DEF Held
  <2>2. Allowed <= Allowed'
    BY <1>1, <1>3, <1>4, Types, LifecycleAssumption DEF Allowed
  <2> QED
    BY <1>1, <1>2, <1>5, <2>1, <2>2, HeldShrinks DEF IndInv, At
<1>10. ASSUME Undisturbed'
       PROVE  Ordered' /\ OneLive' /\ LiveFollowsWorker' /\ Told'
  <2>1. errors' = errors
    BY <1>1, <1>3, <1>10, Disturbed
  <2>2. Undisturbed /\ Ordered /\ OneLive /\ live' = live \ {req["worker"].cur}
    BY <1>1, <1>3, <1>10, <2>1, Types DEF IndInv, Undisturbed
  <2>3. live' = {}
    BY <2>2 DEF OneLive, At
  <2>4. Ordered'
    BY <1>3, <2>2 DEF Ordered, Recent
  <2>5. OneLive'
    BY <1>2, <1>3, <2>2, <2>3 DEF OneLive, At, WorkerIdle, Activated
  <2>6. ~WorkerIdle'
    BY <1>2 DEF WorkerIdle, At
  <2> QED
    BY <2>4, <2>5, <2>6 DEF LiveFollowsWorker, Told
<1> QED
  BY <1>5, <1>7, <1>8, <1>9, <1>10 DEF IndInv

(* The upsert makes the worker's stream the latest and the only live one.  *)
LEMMA UpsertKeeps ==
  ASSUME IndInv, Upsert
  PROVE  IndInv'
<1>1. TypeOK /\ req["worker"].s = current /\ current \in Streams /\ ~settled
  BY DEF Upsert, IndInv, RequestsOK, At, WorkerIdle
<1> DEFINE x == [Idle EXCEPT !.step = "retain", !.s = current]
<1>2. x \in ReqType /\ x.step = "retain" /\ x.s = current
  <2>1. current \in Streams /\ "retain" \in Steps
    BY <1>1 DEF Steps
  <2> QED
    BY <2>1, IdleTyped
<1> USE DEF Upsert, UpsertStream, workerVars, faultVars
<1>3. req' = [req EXCEPT !["worker"] = x]
  BY <1>1
<1> HIDE DEF x
<1>4. req' \in [Requesters -> ReqType] /\ req'["worker"] = x /\ RequestsOK'
  BY <1>1, <1>2, <1>3, WorkerRequest DEF WorkerSteps, Steps
<1>5. /\ rows' = rows \cup {current} /\ live' = live \cup {current} /\ aged' = aged
      /\ act' = IF current \in rows THEN act ELSE [act EXCEPT ![current] = req["worker"].at]
  BY <1>1
<1>6. req["worker"].at \in Nat
  BY <1>1, Types, Who DEF ReqType
<1>7. TypeOK'
  BY <1>1, <1>4, <1>5, <1>6, Types, TypesNext
<1>8. Committed'
  BY <1>2, <1>4, <1>5 DEF Committed, Activated, At
<1>9. Retained'
  <2>1. Held' \subseteq Held
    BY <1>1, <1>5, Who DEF Held
  <2>2. Allowed' = Allowed /\ Allowed \in Nat
    BY <1>1, HeldFinite DEF Allowed
  <2> QED
    BY <1>1, <1>2, <1>4, <1>7, <2>1, <2>2, HeldShrinks DEF IndInv, At
<1>10. ASSUME Undisturbed'
       PROVE  Ordered' /\ OneLive' /\ LiveFollowsWorker' /\ Told'
  <2>1. Undisturbed /\ Ordered /\ OneLive
    BY <1>10 DEF IndInv, Undisturbed
  <2>2. /\ wish /\ current \notin rows /\ req["worker"].at = clock /\ clock > 0
        /\ \A s \in rows : act[s] < clock
        /\ live = {}
    BY <2>1 DEF OneLive, At
  <2>3. /\ act'[current] = clock
        /\ \A s \in rows : act'[s] = act[s] /\ act[s] \in Nat /\ s # current
    BY <1>1, <1>5, <2>2, Types
  <2>4. \A s \in rows' : act'[s] > 0 /\ act'[s] <= clock /\ act'[s] \in Nat
    BY <1>1, <1>5, <2>1, <2>2, <2>3, Types DEF Ordered
  <2>5. \A s, t \in rows' : act'[s] = act'[t] => s = t
    BY <1>5, <2>1, <2>2, <2>3 DEF Ordered
  <2>6. current \in Recent'
    BY <1>5, <2>3, <2>4 DEF Recent
  <2>7. Ordered'
    BY <2>4, <2>5, <2>6 DEF Ordered
  <2>8. OneLive'
    BY <1>2, <1>4, <1>5, <2>2, <2>6 DEF OneLive, At, WorkerIdle, Activated
  <2>9. ~WorkerIdle'
    BY <1>2, <1>4 DEF WorkerIdle, At
  <2> QED
    BY <2>7, <2>8, <2>9 DEF LiveFollowsWorker, Told
<1> QED
  BY <1>4, <1>7, <1>8, <1>9, <1>10 DEF IndInv

(* A write that fails ends the request; its activation may be one row over *)
(* for good.                                                               *)
LEMMA WriteFailsKeeps ==
  ASSUME IndInv, WriteFails
  PROVE  IndInv'
<1> USE DEF WriteFails, Answer, CallFails, tableVars
<1>1. TypeOK
  BY DEF IndInv
<1>2. ~Undisturbed' /\ Allowed' = Allowed + 1 /\ Allowed \in Nat /\ errors' \in Nat
  BY <1>1, Disturbed
<1>3. req' \in [Requesters -> ReqType] /\ req'["worker"] = Idle /\ RequestsOK'
  BY IdleTyped, WorkerRequest DEF WorkerSteps, Steps
<1>4. req'["worker"].step = "idle"
  BY <1>3, IdleTyped
<1>5. TypeOK'
  BY <1>1, <1>2, <1>3, Types, TypesNext
<1>6. Committed'
  BY <1>4 DEF Committed, Activated, At
<1>7. Retained'
  <2>1. Held' \subseteq Held
    BY DEF Held
  <2> QED
    BY <1>1, <1>2, <1>4, <1>5, <2>1, HeldShrinks DEF IndInv, At
<1> QED
  BY <1>2, <1>3, <1>5, <1>6, <1>7 DEF IndInv

(* SetStreamLive within a request about the latest row: its flag is the    *)
(* only one.                                                               *)
LEMMA ReliveKeeps ==
  ASSUME IndInv, Relive
  PROVE  IndInv'
<1> USE DEF Relive, SetStreamLive, workerVars, faultVars
<1>1. TypeOK /\ req["worker"].s = current /\ current \in Streams /\ ~settled
  BY DEF IndInv, RequestsOK, At, WorkerIdle
<1>2. /\ req' \in [Requesters -> ReqType]
      /\ req'["worker"].step = "announceLive" /\ req'["worker"].s = current
      /\ \A q \in Requesters : q # "worker" => req'[q] = req[q]
  BY <1>1, Types, Who, GotoFacts DEF Steps
<1>3. live' = live \cup ({current} \cap rows)
  BY <1>1
<1>4. TypeOK'
  BY <1>1, <1>2, <1>3, Types, TypesNext
<1>5. req'["admin"] = req["admin"] /\ req'["prune"] = req["prune"]
  BY <1>2, Who
<1>6. RequestsOK'
  BY <1>1, <1>2, <1>5 DEF IndInv, RequestsOK, At, WorkerIdle, WorkerSteps, Steps
<1>7. Committed'
  BY <1>2, <1>3 DEF IndInv, Committed, At
<1>8. Retained'
  <2>1. Held' = Held /\ Allowed' = Allowed /\ Allowed \in Nat
    BY <1>1, HeldFinite DEF Held, Allowed
  <2> QED
    BY <1>1, <1>2, <1>4, <2>1, HeldShrinks DEF IndInv, At
<1>9. ASSUME Undisturbed'
      PROVE  Ordered' /\ OneLive' /\ LiveFollowsWorker' /\ Told'
  <2>1. Undisturbed /\ Ordered /\ OneLive
    BY <1>9 DEF IndInv, Undisturbed
  <2>2. live = {} /\ wish
    BY <2>1 DEF OneLive, At
  <2>3. Ordered'
    BY <2>1 DEF Ordered, Recent
  <2>4. live' \subseteq Recent'
    BY <1>3, <2>1, <2>2 DEF Ordered, Recent
  <2>5. OneLive'
    BY <1>2, <2>2, <2>4 DEF OneLive, At, WorkerIdle, Activated
  <2>6. ~WorkerIdle'
    BY <1>2 DEF WorkerIdle, At
  <2> QED
    BY <2>3, <2>5, <2>6 DEF LiveFollowsWorker, Told
<1> QED
  BY <1>4, <1>6, <1>7, <1>8, <1>9 DEF IndInv

LEMMA UnliveKeeps ==
  ASSUME IndInv, Unlive
  PROVE  IndInv'
<1> USE DEF Unlive, SetStreamLive, workerVars, faultVars
<1>1. TypeOK /\ req["worker"].s = current /\ current \in Streams /\ ~settled
  BY DEF IndInv, RequestsOK, At, WorkerIdle
<1>2. /\ req' \in [Requesters -> ReqType]
      /\ req'["worker"].step = "announceEnd" /\ req'["worker"].s = current
      /\ \A q \in Requesters : q # "worker" => req'[q] = req[q]
  BY <1>1, Types, Who, GotoFacts DEF Steps
<1>3. live' = live \ {current}
  BY <1>1
<1>4. TypeOK'
  BY <1>1, <1>2, <1>3, Types, TypesNext
<1>5. req'["admin"] = req["admin"] /\ req'["prune"] = req["prune"]
  BY <1>2, Who
<1>6. RequestsOK'
  BY <1>1, <1>2, <1>5 DEF IndInv, RequestsOK, At, WorkerIdle, WorkerSteps, Steps
<1>7. Committed'
  BY <1>2, <1>3 DEF Committed, Activated, At
<1>8. Retained'
  <2>1. Held' = Held /\ Allowed' = Allowed /\ Allowed \in Nat
    BY <1>1, HeldFinite DEF Held, Allowed
  <2> QED
    BY <1>1, <1>2, <1>4, <2>1, HeldShrinks DEF IndInv, At
<1>9. ASSUME Undisturbed'
      PROVE  Ordered' /\ OneLive' /\ LiveFollowsWorker' /\ Told'
  <2>1. Undisturbed /\ Ordered /\ OneLive
    BY <1>9 DEF IndInv, Undisturbed
  <2>2. ~wish /\ current \in rows
    BY <2>1 DEF OneLive, At
  <2>3. Ordered'
    BY <2>1 DEF Ordered, Recent
  <2>4. live' \subseteq Recent'
    BY <1>3, <2>1 DEF OneLive, Recent
  <2>5. OneLive'
    BY <1>2, <2>2, <2>4 DEF OneLive, At, WorkerIdle, Activated
  <2>6. ~WorkerIdle'
    BY <1>2 DEF WorkerIdle, At
  <2> QED
    BY <2>3, <2>5, <2>6 DEF LiveFollowsWorker, Told
<1> QED
  BY <1>4, <1>6, <1>7, <1>8, <1>9 DEF IndInv

(* The announcement ends the request with the flag the worker asked for.   *)
LEMMA AnnounceStatusKeeps ==
  ASSUME IndInv, AnnounceStatus
  PROVE  IndInv'
<1> USE DEF AnnounceStatus, Answer, tableVars, faultVars
<1>1. TypeOK /\ req["worker"].s = current /\ current \in Streams
  BY DEF IndInv, RequestsOK, At, WorkerIdle
<1>2. req' \in [Requesters -> ReqType] /\ req'["worker"] = Idle /\ RequestsOK'
  BY IdleTyped, WorkerRequest DEF WorkerSteps, Steps
<1>3. req'["worker"].step = "idle"
  BY <1>2, IdleTyped
<1> DEFINE on == ~At("worker", "announceEnd")
<1>4. on \in BOOLEAN /\ announced' = [s |-> current, live |-> on]
  BY <1>1
<1>5. on <=> req["worker"].step \in {"announceNew", "announceLive"}
  BY DEF At
<1> HIDE DEF on
<1>6. announced' \in [s : Streams \cup {NoStream}, live : BOOLEAN]
      /\ announced'.s = current /\ announced'.live = on
  BY <1>1, <1>4
<1>7. TypeOK'
  BY <1>1, <1>2, <1>6, Types, TypesNext
<1>8. Committed'
  BY <1>3 DEF Committed, Activated, At
<1>9. Retained'
  <2>1. Held' = Held /\ Allowed' = Allowed /\ Allowed \in Nat
    BY <1>1, HeldFinite DEF Held, Allowed
  <2> QED
    BY <1>1, <1>3, <1>7, <2>1, HeldShrinks DEF IndInv, At
<1>10. ASSUME Undisturbed'
       PROVE  Ordered' /\ OneLive' /\ LiveFollowsWorker' /\ Told'
  <2>1. Undisturbed /\ Ordered /\ OneLive /\ Local /\ deletes = 0
    BY <1>10 DEF IndInv, Undisturbed
  <2>2. wish = on
    BY <1>1, <1>4, <1>5, <2>1, Types DEF OneLive, Activated, At
  <2>3. current \in rows /\ (on <=> current \in live)
    <3>1. CASE on
      BY <1>1, <1>5, <2>1, <3>1, Types DEF IndInv, Committed, Activated, At
    <3>2. CASE ~on
      BY <1>1, <1>5, <2>1, <3>2 DEF IndInv, Committed, OneLive, Activated, At
    <3> QED
      BY <3>1, <3>2
  <2>4. Recent = {current} /\ live \subseteq {current}
    BY <1>1, <2>1, <2>3, RecentUnique DEF OneLive
  <2>5. Ordered'
    BY <2>1 DEF Ordered, Recent
  <2>6. live' \subseteq Recent'
    BY <2>1 DEF OneLive, Recent
  <2>7. OneLive'
    BY <1>3, <2>3, <2>6 DEF OneLive, At, WorkerIdle, Activated
  <2>8. LiveFollowsWorker'
    BY <2>2, <2>3, <2>4 DEF LiveFollowsWorker
  <2>9. Told'
    BY <1>6, <2>2 DEF Told
  <2> QED
    BY <2>5, <2>7, <2>8, <2>9
<1> QED
  BY <1>2, <1>7, <1>8, <1>9, <1>10 DEF IndInv

(* A /sync of an undisturbed worker changes nothing.                       *)
LEMMA SyncKeeps ==
  ASSUME IndInv, Sync
  PROVE  IndInv'
<1> USE DEF Sync, UpsertStream, workerVars, faultVars
<1>1. TypeOK /\ current \in Streams /\ WorkerIdle
  BY Types DEF IndInv, WorkerIdle
<1>2. /\ rows' \subseteq Streams /\ live' \subseteq rows' /\ aged' \subseteq rows'
      /\ act' \in [Streams -> Nat]
  BY <1>1, Types
<1>3. TypeOK'
  BY <1>1, <1>2, Types, TypesNext
<1>4. RequestsOK'
  BY DEF IndInv, RequestsOK, At, WorkerIdle
<1>5. Committed'
  BY <1>1 DEF Committed, Activated, At, WorkerIdle
<1>6. Retained'
  <2>1. Held' \subseteq Held
    BY <1>1, Who DEF Held
  <2>2. Allowed' = Allowed /\ Allowed \in Nat
    BY <1>1, HeldFinite DEF Allowed
  <2> QED
    BY <1>1, <1>3, <2>1, <2>2, HeldShrinks DEF IndInv, At
<1>7. ASSUME Undisturbed'
      PROVE  Ordered' /\ OneLive' /\ LiveFollowsWorker' /\ Told'
  <2>1. Undisturbed /\ Ordered /\ OneLive /\ LiveFollowsWorker /\ Told /\ errors = 0
    BY <1>7 DEF IndInv, Undisturbed
  <2>2. current \in rows
    BY <1>1, <2>1 DEF OneLive
  <2>3. live = IF wish THEN {current} ELSE {}
    BY <1>1, <2>1 DEF LiveFollowsWorker
  <2>4. rows' = rows /\ act' = act /\ live' = live
    BY <2>2, <2>3
  <2>5. Ordered'
    BY <2>1, <2>4 DEF Ordered, Recent
  <2>6. OneLive'
    BY <2>1, <2>4 DEF OneLive, Recent, At, WorkerIdle
  <2>7. LiveFollowsWorker' /\ Told'
    BY <2>1, <2>4 DEF LiveFollowsWorker, Told, At, WorkerIdle
  <2> QED
    BY <2>5, <2>6, <2>7
<1> QED
  BY <1>3, <1>4, <1>5, <1>6, <1>7 DEF IndInv

-----------------------------------------------------------------------------
(* Retention on local disk                                                 *)

(* Steps of an activation after the upsert that leave rows and flags       *)
(* alone, or purge a row that is not the activated stream's.               *)
LEMMA AfterUpsert ==
  ASSUME IndInv, TypeOK', RequestsOK', Retained',
         req["worker"].step \in Activated, req'["worker"].step \in Activated,
         NEW D \in SUBSET Streams, current \notin D,
         rows' = rows \ D, live' = live \ D,
         UNCHANGED <<act, clock, current, wish, settled, announced, deletes>>,
         errors <= errors'
  PROVE  IndInv'
<1>1. TypeOK
  BY DEF IndInv
<1>2. Committed'
  BY DEF IndInv, Committed, Activated, At
<1>3. ASSUME Undisturbed'
      PROVE  Ordered' /\ OneLive' /\ LiveFollowsWorker' /\ Told'
  <2>1. Undisturbed /\ Ordered /\ OneLive
    BY <1>1, <1>3, Types DEF IndInv, Undisturbed
  <2>2. Recent \ D \subseteq Recent'
    BY DEF Recent
  <2>3. Ordered'
    BY <2>1, <2>2 DEF Ordered
  <2>4. live' \subseteq Recent'
    BY <2>1, <2>2 DEF OneLive
  <2>5. wish
    BY <2>1 DEF OneLive
  <2>6. OneLive'
    BY <2>4, <2>5 DEF OneLive, Activated, At, WorkerIdle
  <2>7. ~WorkerIdle'
    BY DEF WorkerIdle, At, Activated
  <2> QED
    BY <2>3, <2>6, <2>7 DEF LiveFollowsWorker, Told
<1> QED
  BY <1>2, <1>3 DEF IndInv

(* Retention chooses what to purge: what it spares of the others is        *)
(* NumPastStreams at the most.                                             *)
LEMMA RetainLocalKeeps ==
  ASSUME IndInv, RetainLocal
  PROVE  IndInv'
<1> USE DEF RetainLocal, tableVars, workerVars, faultVars
<1>1. TypeOK /\ req["worker"].s = current /\ current \in Streams /\ ~settled
  BY DEF IndInv, RequestsOK, At, WorkerIdle
<1> DEFINE others == rows \ {current}
<1>2. PICK drop \in SUBSET others :
        /\ Cardinality(others \ drop) =
             IF Cardinality(others) < NumPastStreams THEN Cardinality(others)
                                                     ELSE NumPastStreams
        /\ req' = [req EXCEPT !["worker"].step = "purge", !["worker"].todo = drop]
  BY <1>1
<1>3. drop \in SUBSET Streams /\ current \notin drop
  BY <1>1, Types
<1> DEFINE x == [req["worker"] EXCEPT !.step = "purge", !.todo = drop]
<1>4. req["worker"] \in ReqType /\ req \in [Requesters -> ReqType]
  BY <1>1, Types, Who
<1>5. req' = [req EXCEPT !["worker"] = x]
  BY <1>2, <1>4, Who DEF ReqType
<1>6. x \in ReqType /\ x.step = "purge" /\ x.todo = drop /\ x.s = current
  BY <1>1, <1>3, <1>4 DEF ReqType, Steps
<1> HIDE DEF x
<1>7. req' \in [Requesters -> ReqType] /\ req'["worker"] = x /\ RequestsOK'
  BY <1>1, <1>3, <1>5, <1>6, WorkerRequest DEF WorkerSteps, Steps
<1>8. TypeOK'
  BY <1>1, <1>7, Types, TypesNext
<1>9. Retained'
  <2>1. Held' = Held /\ Allowed' = Allowed /\ Allowed \in Nat /\ IsFiniteSet(rows)
    BY <1>1, HeldFinite DEF Held, Allowed
  <2>2. IsFiniteSet(others \ drop) /\ Cardinality(others) \in Nat
    BY <2>1, Smaller
  <2>3. Cardinality(others \ drop) <= NumPastStreams
    BY <1>2, <2>2, LifecycleAssumption
  <2>4. Held \ drop \in SUBSET ((others \ drop) \cup {current})
    BY DEF Held
  <2> DEFINE M == others \ drop
             T == Held \ drop
  <2> HIDE DEF M, T
  <2>5. Cardinality(T) <= NumPastStreams + 1 /\ Cardinality(T) \in Nat
    <3>1. IsFiniteSet(M) /\ Cardinality(M) <= NumPastStreams /\ T \in SUBSET (M \cup {current})
      BY <2>2, <2>3, <2>4 DEF M, T
    <3>2. Cardinality(T) \in Nat /\ Cardinality(M) \in Nat /\ Cardinality(T) <= Cardinality(M) + 1
      BY <3>1, OneMore
    <3> QED
      BY <3>1, <3>2, LifecycleAssumption
  <2>6. NumPastStreams + 1 <= Allowed
    BY <1>1, Types, LifecycleAssumption DEF Allowed
  <2>7. Cardinality(Held \ drop) <= Allowed
    BY <2>1, <2>5, <2>6, LifecycleAssumption DEF T
  <2> QED
    BY <1>6, <1>7, <2>1, <2>7 DEF IndInv, Retained, At
<1>10. /\ {} \in SUBSET Streams /\ current \notin {}
       /\ rows' = rows \ {} /\ live' = live \ {} /\ errors <= errors'
  BY <1>1, Types
<1>11. req["worker"].step \in Activated /\ req'["worker"].step \in Activated
  BY <1>6, <1>7 DEF Activated, At
<1>12. UNCHANGED <<act, clock, current, wish, settled, announced, deletes>>
  OBVIOUS
<1> QED
  BY <1>7, <1>8, <1>9, <1>10, <1>11, <1>12, AfterUpsert

LEMMA RetainFailsKeeps ==
  ASSUME IndInv, RetainFails
  PROVE  IndInv'
<1> USE DEF RetainFails, CallFails, tableVars, workerVars
<1>1. TypeOK /\ req["worker"].s = current /\ current \in Streams /\ ~settled
  BY DEF IndInv, RequestsOK, At, WorkerIdle
<1>2. Allowed' = Allowed + 1 /\ Allowed \in Nat /\ errors' \in Nat
  BY <1>1, Disturbed
<1>3. /\ req' \in [Requesters -> ReqType]
      /\ req'["worker"].step = "announceNew" /\ req'["worker"].s = current
      /\ \A q \in Requesters : q # "worker" => req'[q] = req[q]
  BY <1>1, Types, Who, GotoFacts DEF Steps
<1>4. TypeOK'
  BY <1>1, <1>2, <1>3, Types, TypesNext
<1>5. req'["admin"] = req["admin"] /\ req'["prune"] = req["prune"]
  BY <1>3, Who
<1>6. RequestsOK'
  BY <1>1, <1>3, <1>5 DEF IndInv, RequestsOK, At, WorkerIdle, WorkerSteps, Steps
<1>7. Retained'
  <2>1. Held' = Held
    BY DEF Held
  <2> QED
    BY <1>1, <1>2, <1>3, <1>4, <2>1, HeldShrinks DEF IndInv, At
<1>8. /\ {} \in SUBSET Streams /\ current \notin {}
      /\ rows' = rows \ {} /\ live' = live \ {} /\ errors <= errors'
  BY <1>1, Types
<1>9. req["worker"].step \in Activated /\ req'["worker"].step \in Activated
  BY <1>3 DEF Activated, At
<1>10. UNCHANGED <<act, clock, current, wish, settled, announced, deletes>>
  OBVIOUS
<1> QED
  BY <1>4, <1>6, <1>7, <1>8, <1>9, <1>10, AfterUpsert

(* A purge takes the row, or leaves it for the price of an error.          *)
LEMMA PurgeKeeps ==
  ASSUME IndInv, Purge
  PROVE  IndInv'
<1> USE DEF Purge, CallFails, DeleteRow, tableVars, workerVars, faultVars
<1>1. /\ TypeOK /\ req["worker"].s = current /\ current \in Streams /\ ~settled
      /\ current \notin req["worker"].todo
  BY DEF IndInv, RequestsOK, At, WorkerIdle
<1>2. PICK d \in req["worker"].todo :
        /\ \/ DeleteRow(d) /\ deleting' = deleting \cup {d} /\ UNCHANGED faultVars
           \/ CallFails /\ UNCHANGED <<tableVars, deleting>>
        /\ req' = [req EXCEPT !["worker"].todo = @ \ {d}]
  OBVIOUS
<1> DEFINE x == [req["worker"] EXCEPT !.todo = @ \ {d}]
<1>3. req["worker"] \in ReqType /\ req \in [Requesters -> ReqType]
  BY <1>1, Types, Who
<1>4. req' = [req EXCEPT !["worker"] = x]
  BY <1>2, <1>3, Who DEF ReqType
<1>5. /\ x \in ReqType /\ x.step = "purge" /\ x.s = current
      /\ x.todo = req["worker"].todo \ {d} /\ d \in Streams /\ d # current
  BY <1>1, <1>2, <1>3 DEF ReqType, At
<1> HIDE DEF x
<1>6. deletes' = deletes /\ crashes' = crashes
  BY <1>2
<1>7. req' \in [Requesters -> ReqType] /\ req'["worker"] = x /\ RequestsOK'
  BY <1>1, <1>4, <1>5, <1>6, WorkerRequest DEF WorkerSteps, Steps
<1>8. PICK D \in SUBSET {d} :
        /\ rows' = rows \ D /\ live' = live \ D /\ aged' = aged \ D /\ act' = act
        /\ deleting' \subseteq deleting \cup {d}
        /\ (D = {d} /\ errors' = errors) \/ errors' = errors + 1
  <2>1. CASE DeleteRow(d) /\ deleting' = deleting \cup {d} /\ UNCHANGED faultVars
    BY <2>1
  <2>2. CASE CallFails /\ UNCHANGED <<tableVars, deleting>>
    <3>1. /\ {} \in SUBSET {d} /\ rows' = rows \ {} /\ live' = live \ {} /\ aged' = aged \ {}
          /\ act' = act /\ deleting' \subseteq deleting \cup {d} /\ errors' = errors + 1
      BY <2>2
    <3> QED
      BY <3>1
  <2> QED
    BY <1>2, <2>1, <2>2
<1>9. errors' \in Nat /\ errors <= errors'
  BY <1>1, <1>8, Types
<1>10. TypeOK'
  BY <1>1, <1>5, <1>6, <1>7, <1>8, <1>9, Types, TypesNext
<1>11. Retained'
  <2> SUFFICES ASSUME Local PROVE Retained'
    BY DEF Retained
  <2> DEFINE K == Held \ req["worker"].todo
             L == Held' \ x.todo
  <2>1. /\ IsFiniteSet(Held) /\ Allowed \in Nat /\ Allowed' \in Nat
        /\ Held' \in SUBSET Held /\ K \in SUBSET Held
    BY <1>1, <1>8, <1>10, HeldFinite, HeldFiniteNext DEF Held
  <2>2. /\ Cardinality(Held) <= Allowed + 1 /\ Cardinality(K) <= Allowed
    BY DEF IndInv, Retained
  <2>3. Allowed' >= Allowed
    BY <1>1, <1>6, <1>9, Types, LifecycleAssumption DEF Allowed
  <2>4. Cardinality(Held') <= Allowed' + 1
    <3>1. /\ Cardinality(Held') \in Nat /\ Cardinality(Held) \in Nat
          /\ Cardinality(Held') <= Cardinality(Held)
      BY <2>1, Smaller
    <3> QED
      BY <2>1, <2>2, <2>3, <3>1
  <2>5. IsFiniteSet(K) /\ Cardinality(K) \in Nat
    BY <2>1, Smaller
  <2>6. Cardinality(L) <= Allowed'
    <3>1. CASE D = {d}
      <4>1. L \in SUBSET K
        BY <1>5, <1>8, <3>1 DEF Held
      <4>2. Cardinality(L) \in Nat /\ Cardinality(L) <= Cardinality(K)
        BY <2>5, <4>1, Smaller
      <4> QED
        BY <2>1, <2>2, <2>3, <2>5, <4>2
    <3>2. CASE errors' = errors + 1
      <4>1. L \in SUBSET (K \cup {d})
        BY <1>5, <2>1
      <4> HIDE DEF K, L
      <4>2. Cardinality(L) \in Nat /\ Cardinality(L) <= Cardinality(K) + 1
        BY <2>5, <4>1, OneMore
      <4>3. Allowed' = Allowed + 1
        BY <1>1, <1>6, <3>2, Disturbed
      <4> QED
        BY <2>1, <2>2, <2>5, <4>2, <4>3
    <3> QED
      BY <1>8, <3>1, <3>2
  <2> QED
    BY <1>5, <1>7, <2>4, <2>6 DEF Retained, At
<1>12. D \in SUBSET Streams /\ current \notin D
  BY <1>5
<1>13. req["worker"].step \in Activated /\ req'["worker"].step \in Activated
  BY <1>5, <1>7 DEF Activated, At
<1>14. UNCHANGED <<act, clock, current, wish, settled, announced, deletes>>
  BY <1>6, <1>8
<1> QED
  BY <1>7, <1>8, <1>9, <1>10, <1>11, <1>12, <1>13, <1>14, AfterUpsert

(* The end of a loop: an activation goes on to announce, the sweep is done.*)
LEMMA LoopEndsKeeps ==
  ASSUME IndInv, NEW r \in {"worker", "prune"}, LoopEnds(r)
  PROVE  IndInv'
<1> USE DEF LoopEnds, tableVars, workerVars, faultVars
<1>1. TypeOK
  BY DEF IndInv
<1>2. CASE r = "prune"
  <2>1. ~Local
    BY <1>2 DEF IndInv, RequestsOK, At
  <2>2. req' = [req EXCEPT ![r] = Idle]
    BY <1>2
  <2> QED
    BY <1>1, <1>2, <2>1, <2>2, Types, IdleTyped, LoopStep
<1>3. CASE r = "worker"
  <2> DEFINE x == [req["worker"] EXCEPT !.step = "announceNew"]
  <2>1. req["worker"] \in ReqType /\ req \in [Requesters -> ReqType]
    BY <1>1, Types, Who
  <2>2. req' = [req EXCEPT !["worker"] = x]
    BY <1>3, <2>1, Who DEF ReqType
  <2>3. req["worker"].s = current /\ current \in Streams /\ ~settled
    BY <1>3 DEF IndInv, RequestsOK, At, WorkerIdle
  <2>4. x \in ReqType /\ x.step = "announceNew" /\ x.s = current
    BY <2>1, <2>3 DEF ReqType, Steps
  <2> HIDE DEF x
  <2>5. req' \in [Requesters -> ReqType] /\ req'["worker"] = x /\ RequestsOK'
    BY <2>2, <2>3, <2>4, WorkerRequest DEF WorkerSteps, Steps
  <2>6. TypeOK'
    BY <1>1, <2>5, Types, TypesNext
  <2>7. CASE ~Local
    BY <2>5, <2>6, <2>7, OnR2
  <2>8. CASE Local
    <3>1. At("worker", "purge") /\ req["worker"].todo = {}
      BY <1>3, <2>8 DEF IndInv, RequestsOK, At
    <3>2. Held' = Held /\ Allowed' = Allowed /\ Held \ req["worker"].todo = Held
      BY <3>1 DEF Held, Allowed
    <3>3. Cardinality(Held) <= Allowed /\ Cardinality(Held) <= Allowed + 1
      BY <2>8, <3>1, <3>2 DEF IndInv, Retained
    <3>4. Retained'
      BY <2>4, <2>5, <3>2, <3>3 DEF Retained, At
    <3>5. /\ {} \in SUBSET Streams /\ current \notin {}
          /\ rows' = rows \ {} /\ live' = live \ {} /\ errors <= errors'
      BY <1>1, Types
    <3>6. req["worker"].step \in Activated /\ req'["worker"].step \in Activated
      BY <2>4, <2>5, <3>1 DEF Activated, At
    <3>7. UNCHANGED <<act, clock, current, wish, settled, announced, deletes>>
      OBVIOUS
    <3> QED
      BY <2>5, <2>6, <3>4, <3>5, <3>6, <3>7, AfterUpsert
  <2> QED
    BY <2>7, <2>8
<1> QED
  BY <1>2, <1>3

-----------------------------------------------------------------------------
(* A restart                                                               *)

(* What a restart leaves: no request, nothing announced; an activation it  *)
(* cut short may be one row over, and the worker is still waiting.         *)
LEMMA CrashKeeps ==
  ASSUME IndInv, Crash
  PROVE  IndInv'
<1> USE DEF Crash, tableVars, workerVars
<1>1. TypeOK
  BY DEF IndInv
<1>2. req' \in [Requesters -> ReqType] /\ \A r \in Requesters : req'[r].step = "idle"
  BY IdleTyped
<1>3. req'["worker"].step = "idle" /\ req'["admin"].step = "idle" /\ req'["prune"].step = "idle"
  BY <1>2, Who
<1>4. crashes' \in Nat /\ announced'.s = NoStream
      /\ announced' \in [s : Streams \cup {NoStream}, live : BOOLEAN]
  BY <1>1, Types
<1>5. TypeOK'
  BY <1>1, <1>2, <1>4, Types, TypesNext
<1>6. RequestsOK'
  BY <1>3 DEF RequestsOK, At, WorkerIdle, WorkerSteps, Steps
<1>7. Committed'
  BY <1>3 DEF Committed, Activated, At
<1>8. Retained'
  <2>1. Held' = Held
    BY DEF Held
  <2>2. Allowed' = Allowed + 1 /\ Allowed \in Nat
    BY <1>1, Types, HeldFinite, LifecycleAssumption DEF Allowed
  <2> QED
    BY <1>1, <1>3, <1>5, <2>1, <2>2, HeldShrinks DEF IndInv, At
<1>9. ASSUME Undisturbed'
      PROVE  Ordered' /\ OneLive' /\ LiveFollowsWorker' /\ Told'
  <2>1. Undisturbed /\ Ordered /\ OneLive /\ LiveFollowsWorker /\ errors = 0 /\ Local
    BY <1>9 DEF IndInv, Undisturbed
  <2>2. ~WorkerIdle => ~settled
    BY DEF IndInv, RequestsOK
  <2>3. ~WorkerIdle => wish \/ current \in rows
    BY <2>1 DEF IndInv, RequestsOK, OneLive, Activated, At, WorkerIdle, WorkerSteps, Steps
  <2>4. Ordered'
    BY <2>1 DEF Ordered, Recent
  <2>5. live' \subseteq Recent'
    BY <2>1 DEF OneLive, Recent
  <2>6. OneLive'
    BY <1>3, <2>1, <2>2, <2>3, <2>5 DEF OneLive, Activated, At, WorkerIdle
  <2>7. LiveFollowsWorker'
    BY <2>1, <2>2 DEF LiveFollowsWorker
  <2>8. Told'
    BY <1>4 DEF Told
  <2> QED
    BY <2>4, <2>6, <2>7, <2>8
<1> QED
  BY <1>5, <1>6, <1>7, <1>8, <1>9 DEF IndInv

-----------------------------------------------------------------------------
(* The theorems                                                            *)

LEMMA Initially ==
  ASSUME Init
  PROVE  IndInv
<1> USE DEF Init
<1>1. \A r \in Requesters : req[r] = Idle
  OBVIOUS
<1>2. req["worker"].step = "idle" /\ req["admin"].step = "idle" /\ req["prune"].step = "idle"
  BY <1>1, Who, IdleTyped
<1>3. req \in [Requesters -> ReqType]
  BY IdleTyped
<1>4. TypeOK
  BY <1>3 DEF TypeOK, ReqType
<1>5. RequestsOK
  BY <1>2 DEF RequestsOK, At, WorkerIdle, WorkerSteps, Steps
<1>6. Committed
  BY <1>2 DEF Committed, Activated, At
<1>7. Retained
  <2>1. Held = {}
    BY DEF Held
  <2>2. Cardinality(Held) = 0
    BY <2>1, FS_EmptySet
  <2>3. Allowed \in Nat
    BY <1>4, HeldFinite
  <2> QED
    BY <1>2, <2>2, <2>3 DEF Retained, At
<1>8. Ordered /\ OneLive /\ LiveFollowsWorker /\ Told
  BY <1>2 DEF Ordered, OneLive, LiveFollowsWorker, Told, Activated, At, WorkerIdle
<1> QED
  BY <1>4, <1>5, <1>6, <1>7, <1>8 DEF IndInv

LEMMA StepKeeps ==
  ASSUME IndInv, [Next]_vars
  PROVE  IndInv'
<1>1. CASE Worker
  BY <1>1, ActivateNewKeeps, ActivateSameKeeps, ActivateAgainKeeps, ReadFailsKeeps, DemoteKeeps,
     UpsertKeeps, WriteFailsKeeps, ReliveKeeps, AnnounceStatusKeeps, DeactivateKeeps,
     DeactivateIgnoredKeeps, UnliveKeeps, SyncKeeps DEF Worker
<1>2. CASE Sweep
  BY <1>2, RetainLocalKeeps, RetainR2Keeps, RetainFailsKeeps, PurgeKeeps, PruneStartKeeps,
     ProbeKeeps, ProbeFailsKeeps, DropKeeps, LoopEndsKeeps DEF Sweep
<1>3. CASE Admin
  BY <1>3, AdminLookupKeeps, AdminDeleteKeeps DEF Admin
<1>4. CASE Environment
  BY <1>4, EnvironmentKeeps, CrashKeeps DEF Environment
<1>5. CASE UNCHANGED vars
  BY <1>5, StutterKeeps
<1> QED
  BY <1>1, <1>2, <1>3, <1>4, <1>5 DEF Next

(* The inductive invariant holds of every behaviour of the streams table.  *)
THEOREM Inductive == Spec => []IndInv
BY Initially, StepKeeps, PTL DEF Spec

(* Type correctness: no row is live or aged without being in the table,    *)
(* and every request is at one of its steps.                               *)
THEOREM TypeCorrect == Spec => []TypeOK
<1>1. IndInv => TypeOK
  BY DEF IndInv
<1> QED
  BY <1>1, Inductive, PTL

(* applyRetention bounds the table, for any number of past streams: a      *)
(* restart, a failed retention or a failed delete costs at most one row.   *)
THEOREM RetentionIsBounded == Spec => []RetentionBound
<1>1. ASSUME IndInv PROVE RetentionBound
  <2> SUFFICES ASSUME Local, WorkerIdle PROVE Cardinality(rows) <= Allowed
    BY DEF RetentionBound, Allowed
  <2>1. TypeOK /\ Cardinality(Held) <= Allowed
    BY <1>1 DEF IndInv, Retained, WorkerIdle, At
  <2>2. IsFiniteSet(Held) /\ Allowed \in Nat /\ rows \in SUBSET Held
    BY <2>1, HeldFinite DEF Held
  <2>3. /\ Cardinality(rows) \in Nat /\ Cardinality(Held) \in Nat
        /\ Cardinality(rows) <= Cardinality(Held)
    BY <2>2, Smaller
  <2> QED
    BY <2>1, <2>2, <2>3
<1> QED
  BY <1>1, Inductive, PTL

(* On local disk, with a worker that never goes back to an older stream    *)
(* and until the admin deletes: the live flag is where the worker wants    *)
(* it, across restarts at any point of activateStream.                     *)
THEOREM LiveIsWanted ==
  ASSUME Local, ~Reactivates
  PROVE  Spec => [](deletes = 0 => LiveFollowsWorker)
<1>1. IndInv => (deletes = 0 => LiveFollowsWorker)
  BY DEF IndInv, Undisturbed, LiveFollowsWorker
<1> QED
  BY <1>1, Inductive, PTL

(* Under the same conditions viewers were last told what the table says.   *)
THEOREM ViewersAreRight ==
  ASSUME Local, ~Reactivates
  PROVE  Spec => [](deletes = 0 => ViewersAgree)
<1>1. ASSUME IndInv, deletes = 0 PROVE ViewersAgree
  <2> SUFFICES ASSUME WorkerIdle, errors = 0, announced.s \in rows
               PROVE  announced.live <=> announced.s \in live
    BY DEF ViewersAgree
  <2>1. TypeOK /\ LiveFollowsWorker /\ Told
    BY <1>1 DEF IndInv, Undisturbed
  <2>2. announced.s # NoStream
    BY <2>1, Types, Who
  <2>3. settled /\ announced.s = current /\ announced.live = wish
    BY <2>1, <2>2 DEF Told
  <2>4. live = IF wish THEN {current} ELSE {}
    BY <2>1, <2>3 DEF LiveFollowsWorker
  <2> QED
    BY <2>3, <2>4
<1> QED
  BY <1>1, Inductive, PTL

(* Who changes what: deletes are the admin's, rows go in three places, and  *)
(* viewers are told in two.                                                *)
LEMMA Changes ==
  ASSUME [Next]_vars
  PROVE  /\ deletes' = deletes \/ Fault("delete")
         /\ \/ rows \subseteq rows' \/ Purge
            \/ \E r \in {"worker", "prune"} : Drop(r)
            \/ \E m \in BOOLEAN : AdminDelete(m)
         /\ announced' = announced \/ AnnounceStatus \/ Crash
<1> USE DEF tableVars, workerVars, faultVars
<1>1. CASE Worker
  <2>1. deletes' = deletes
    BY <1>1 DEF Worker, ActivateNew, ActivateSame, ActivateAgain, ReadFails, Demote, Upsert,
       WriteFails, Relive, AnnounceStatus, Deactivate, DeactivateIgnored, Unlive, Sync, CallFails
  <2>2. rows \subseteq rows'
    BY <1>1 DEF Worker, ActivateNew, ActivateSame, ActivateAgain, ReadFails, Demote, Upsert,
       WriteFails, Relive, AnnounceStatus, Deactivate, DeactivateIgnored, Unlive, Sync,
       SetStreamLive, UpsertStream
  <2>3. announced' = announced \/ AnnounceStatus
    BY <1>1 DEF Worker, ActivateNew, ActivateSame, ActivateAgain, ReadFails, Demote, Upsert,
       WriteFails, Relive, Deactivate, DeactivateIgnored, Unlive, Sync
  <2> QED
    BY <2>1, <2>2, <2>3
<1>2. CASE Sweep
  <2>1. deletes' = deletes /\ announced' = announced
    BY <1>2 DEF Sweep, RetainLocal, RetainR2, RetainFails, Purge, PruneStart, Probe, ProbeFails,
       Drop, LoopEnds, CallFails
  <2>2. \/ rows \subseteq rows' \/ Purge
        \/ \E r \in {"worker", "prune"} : Drop(r)
    BY <1>2 DEF Sweep, RetainLocal, RetainR2, RetainFails, PruneStart, Probe, ProbeFails, LoopEnds
  <2> QED
    BY <2>1, <2>2
<1>3. CASE Admin
  BY <1>3 DEF Admin, AdminLookup, AdminDelete
<1>4. CASE Environment
  BY <1>4 DEF Environment, Upload, Expire, DeleteFolder, Age, Crash
<1>5. CASE UNCHANGED vars
  BY <1>5 DEF vars
<1> QED
  BY <1>1, <1>2, <1>3, <1>4, <1>5 DEF Next

(* Without admin deletes there are none.                                   *)
LEMMA NoDeletes ==
  ASSUME "delete" \notin Faults
  PROVE  Spec => [](deletes = 0)
<1>1. Init => deletes = 0
  BY DEF Init
<1>2. deletes = 0 /\ [Next]_vars => (deletes = 0)'
  BY Changes DEF Fault
<1> QED
  BY <1>1, <1>2, PTL DEF Spec

(* On local disk, with a worker that never goes back and no admin deletes, *)
(* no step deletes the row of a live stream: retention finds the activated *)
(* stream the only live one, and spares it.                                *)
THEOREM LiveRowsStay ==
  ASSUME Local, ~Reactivates, "delete" \notin Faults
  PROVE  Spec => NoLiveDelete
<1>1. ASSUME IndInv, deletes = 0, [Next]_vars, errors = 0, NEW s \in live
      PROVE  s \in rows'
  <2>1. TypeOK /\ RequestsOK /\ Committed /\ Ordered /\ OneLive /\ s \in rows
    BY <1>1, Types DEF IndInv, Undisturbed
  <2>2. CASE rows \subseteq rows'
    BY <2>1, <2>2
  <2>3. CASE Purge
    <3>1. current \in live /\ current \in rows /\ current \notin req["worker"].todo
      BY <1>1, <2>1, <2>3, Types DEF Purge, RequestsOK, Committed, Activated, At
    <3>2. s = current
      BY <2>1, <3>1, RecentUnique DEF OneLive
    <3> QED
      BY <2>1, <2>3, <3>1, <3>2 DEF Purge, DeleteRow, tableVars
  <2>4. ASSUME NEW r \in {"worker", "prune"}, Drop(r) PROVE FALSE
    BY <2>1, <2>4 DEF Drop, RequestsOK, At
  <2>5. ASSUME NEW m \in BOOLEAN, AdminDelete(m) PROVE FALSE
    BY <1>1, <2>1, <2>5 DEF AdminDelete, RequestsOK, At
  <2> QED
    BY <1>1, <2>2, <2>3, <2>4, <2>5, Changes
<1>2. IndInv /\ deletes = 0 /\ [Next]_vars => [errors = 0 => \A s \in live : s \in rows']_vars
  BY <1>1
<1> QED
  BY <1>2, Inductive, NoDeletes, PTL DEF Spec, NoLiveDelete

(* On local disk and without admin deletes, every newStream or status      *)
(* event says what the database holds, whichever call has failed before.   *)
THEOREM AnnouncedIsCommitted ==
  ASSUME Local, "delete" \notin Faults
  PROVE  Spec => AnnounceCommitted
<1>1. ASSUME IndInv, deletes = 0, [Next]_vars, announced' # announced
      PROVE  announced'.live <=> announced'.s \in live
  <2>1. TypeOK /\ RequestsOK /\ Committed
    BY <1>1 DEF IndInv
  <2>2. CASE AnnounceStatus
    <3>1. announced'.s = current
      BY <2>1, <2>2 DEF AnnounceStatus, RequestsOK, At, WorkerIdle
    <3>2. announced'.live <=> ~At("worker", "announceEnd")
      BY <2>2 DEF AnnounceStatus
    <3>3. ~At("worker", "announceEnd") <=> current \in live
      BY <1>1, <2>1, <2>2 DEF AnnounceStatus, Committed, Activated, At
    <3> QED
      BY <3>1, <3>2, <3>3
  <2>3. CASE Crash
    BY <2>1, <2>3, Types, Who DEF Crash
  <2> QED
    BY <1>1, <2>2, <2>3, Changes
<1>2. IndInv /\ deletes = 0 /\ [Next]_vars =>
        [announced' # announced => (announced'.live <=> announced'.s \in live)]_vars
  BY <1>1
<1> QED
  BY <1>2, Inductive, NoDeletes, PTL DEF Spec, AnnounceCommitted
=============================================================================
