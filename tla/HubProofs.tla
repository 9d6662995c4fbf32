----------------------------- MODULE HubProofs -----------------------------
(***************************************************************************)
(* Proofs about Hub for any set of connection attempts and broadcasters,   *)
(* any cap and any buffer size.                                            *)
(***************************************************************************)
EXTENDS Hub, FiniteSetTheorems, SequenceTheorems, TLAPS

(* The goroutines that may be inside Remove are pairwise distinct.         *)
LEMMA RemoversDistinct ==
  /\ \A c \in Clients : HandlerOf(c) \in Removers /\ PumpOf(c) \in Removers
  /\ \A b \in Broadcasters : BroadcastOf(b) \in Removers
  /\ \A c, d \in Clients : /\ HandlerOf(c) # PumpOf(d)
                           /\ HandlerOf(c) = HandlerOf(d) => c = d
                           /\ PumpOf(c) = PumpOf(d) => c = d
  /\ \A c \in Clients, b \in Broadcasters :
       HandlerOf(c) # BroadcastOf(b) /\ PumpOf(c) # BroadcastOf(b)
  /\ \A a, b \in Broadcasters : BroadcastOf(a) = BroadcastOf(b) => a = b
BY DEF HandlerOf, PumpOf, BroadcastOf, Removers

(* One step inside Remove keeps its variables well typed.                  *)
LEMMA RemoveType ==
  ASSUME TypeOK, NEW a \in Removers, NEW c \in Clients, Remove(a, c)
  PROVE  /\ clients' \subseteq Clients /\ connections' \in Int
         /\ done' \subseteq Clients /\ closed' \subseteq Clients
         /\ stage' \in [Removers -> Stages]
<1>1. stage' \in [Removers -> Stages]
  BY DEF TypeOK, Remove, Stages
<1>2. clients' \subseteq Clients /\ connections' \in Int
  BY DEF TypeOK, Remove
<1>3. done' \subseteq Clients /\ closed' \subseteq Clients
  BY DEF TypeOK, Remove
<1> QED BY <1>1, <1>2, <1>3

(* A TrySend that succeeds leaves the buffer within its capacity.          *)
LEMMA QueueType ==
  ASSUME TypeOK, NEW c \in Clients, CanSend(c), NEW m \in Nat
  PROVE  /\ Append(send[c], m) \in Seq(Nat)
         /\ Len(Append(send[c], m)) <= SendBuffer
BY HubAssumption DEF TypeOK, CanSend

(* Every step of the hub keeps the type invariant.                         *)
LEMMA TypeStep == TypeOK /\ [Next]_vars => TypeOK'
<1> SUFFICES ASSUME TypeOK, [Next]_vars PROVE TypeOK'
  OBVIOUS
<1> USE DEF HandlerStates, PumpStates, Stages, SyncSteps, OwnMsg,
                             NoMsg, slotVars, histVars
<1>1. CASE UNCHANGED vars
  BY <1>1 DEF TypeOK, vars
<1>2. ASSUME NEW c \in Clients, Connect(c) PROVE TypeOK'
  <2>1. CASE Reserve(c)
    BY <2>1 DEF TypeOK, Reserve
  <2>2. CASE Refuse(c)
    BY <2>2 DEF TypeOK, Refuse
  <2>3. CASE Upgrade(c)
    BY <2>3 DEF TypeOK, Upgrade
  <2>4. CASE UpgradeFails(c)
    BY <2>4 DEF TypeOK, UpgradeFails
  <2>5. CASE Add(c)
    BY <2>5 DEF TypeOK, Add
  <2>6. CASE StartPump(c)
    BY <2>6 DEF TypeOK, StartPump
  <2> QED BY <1>2, <2>1, <2>2, <2>3, <2>4, <2>5, <2>6 DEF Connect
<1>3. ASSUME NEW c \in Clients, Serve(c) PROVE TypeOK'
  <2>1. CASE SyncSend(c)
    <3>1. AfterSync[handler[c]] \in HandlerStates
      BY <2>1 DEF SyncSend, AfterSync
    <3>2. /\ send' \in [Clients -> Seq(Nat)]
          /\ \A d \in Clients : Len(send'[d]) <= SendBuffer
      BY <2>1, QueueType DEF TypeOK, SyncSend
    <3> QED BY <2>1, <3>1, <3>2 DEF TypeOK, SyncSend
  <2>6. CASE SyncFails(c)
    BY <2>6, RemoversDistinct DEF TypeOK, SyncFails
  <2>2. CASE SyncSkip(c)
    <3>1. PICK next \in HandlerStates : handler' = [handler EXCEPT ![c] = next]
      BY <2>2 DEF SyncSkip, HandlerStates
    <3>2. handler' \in [Clients -> HandlerStates]
      BY <3>1 DEF TypeOK
    <3> QED BY <2>2, <3>2 DEF TypeOK, SyncSkip
  <2>3. CASE Ping(c)
    <3>1. /\ send' \in [Clients -> Seq(Nat)]
          /\ \A d \in Clients : Len(send'[d]) <= SendBuffer
      BY <2>3, QueueType DEF TypeOK, Ping
    <3> QED BY <2>3, <3>1 DEF TypeOK, Ping
  <2>4. CASE ReadFails(c)
    BY <2>4, RemoversDistinct DEF TypeOK, ReadFails
  <2>5. CASE HandlerRemove(c)
    BY <2>5, RemoveType, RemoversDistinct DEF TypeOK, HandlerRemove
  <2> QED BY <1>3, <2>1, <2>2, <2>3, <2>4, <2>5, <2>6 DEF Serve
<1>4. ASSUME NEW c \in Clients, WritePump(c) PROVE TypeOK'
  <2>1. CASE PumpTake(c)
    <3>1. /\ Head(send[c]) \in Nat /\ Tail(send[c]) \in Seq(Nat)
          /\ Len(Tail(send[c])) <= SendBuffer
      BY <2>1, HubAssumption DEF TypeOK, PumpTake
    <3> QED BY <2>1, <3>1 DEF TypeOK, PumpTake
  <2>2. CASE PumpWrote(c)
    BY <2>2 DEF TypeOK, PumpWrote, IsBroadcast
  <2>3. CASE PumpWriteFails(c)
    BY <2>3, RemoversDistinct DEF TypeOK, PumpWriteFails
  <2>4. CASE PumpStops(c)
    BY <2>4, RemoversDistinct DEF TypeOK, PumpStops
  <2>5. CASE PumpRemove(c)
    BY <2>5, RemoveType, RemoversDistinct DEF TypeOK, PumpRemove
  <2> QED BY <1>4, <2>1, <2>2, <2>3, <2>4, <2>5 DEF WritePump
<1>5. ASSUME NEW c \in Clients, PeerLeaves(c) PROVE TypeOK'
  BY <1>5 DEF TypeOK, PeerLeaves
<1>6. ASSUME NEW b \in Broadcasters, Fanout(b) PROVE TypeOK'
  <2>1. CASE Broadcast(b)
    <3>1. ASSUME NEW d \in Clients
          PROVE  send'[d] \in Seq(Nat) /\ Len(send'[d]) <= SendBuffer
      <4>1. send'[d] = IF d \in clients /\ CanSend(d) THEN Append(send[d], sent + 1)
                                                     ELSE send[d]
        BY <2>1 DEF Broadcast
      <4>2. /\ send[d] \in Seq(Nat) /\ Len(send[d]) <= SendBuffer
            /\ sent + 1 \in Nat
        BY DEF TypeOK
      <4> QED BY <4>1, <4>2, QueueType
    <3> QED BY <2>1, <3>1 DEF TypeOK, Broadcast
  <2>2. CASE BroadcastPick(b)
    BY <2>2, RemoversDistinct DEF TypeOK, BroadcastPick
  <2>3. CASE BroadcastRemove(b)
    BY <2>3, RemoveType, RemoversDistinct DEF TypeOK, BroadcastRemove
  <2> QED BY <1>6, <2>1, <2>2, <2>3 DEF Fanout
<1>7. CASE Cancel \/ WaitReturns \/ Finished
  BY <1>7 DEF TypeOK, Cancel, WaitReturns, Finished, vars
<1> QED BY <1>1, <1>2, <1>3, <1>4, <1>5, <1>6, <1>7 DEF Next

(* The hub's variables keep their types in every reachable state.          *)
THEOREM TypeCorrect == Spec => []TypeOK
<1>1. Init => TypeOK
  BY HubAssumption DEF Init, TypeOK, HandlerStates, PumpStates, Stages, NoMsg
<1> QED BY <1>1, TypeStep, PTL DEF Spec

-----------------------------------------------------------------------------
(* One remover closes a client                                             *)

(* A goroutine inside Remove was called for one client.                    *)
LEMMA TargetUnique ==
  ASSUME TypeOK, NEW a \in Removers, NEW c \in Clients, NEW d \in Clients,
         Targets(a, c), Targets(a, d)
  PROVE  c = d
BY RemoversDistinct DEF Targets

(* A step of Remove(c) by goroutine a keeps OneCloser, when no goroutine   *)
(* still inside Remove changes the client it was called for.               *)
LEMMA RemoveOneCloser ==
  ASSUME TypeOK, OneCloser, NEW a \in Removers, NEW c \in Clients,
         Targets(a, c), Remove(a, c),
         \A x \in Removers, d \in Clients :
           stage'[x] # "out" => (Targets(x, d)' <=> Targets(x, d))
  PROVE  OneCloser'
<1> DEFINE Busy == {"signal", "close"}
<1>0. /\ stage \in [Removers -> Stages]
      /\ \A x \in Removers, d \in Clients : Closing(x, d)' => Targets(x, d) /\ stage'[x] \in Busy
  BY DEF TypeOK, Closing
<1>1. CASE stage[a] = "unlink" /\ c \in clients
  <2>1. /\ clients' = clients \ {c} /\ done' = done /\ closed' = closed
        /\ \A x \in Removers : x # a => stage'[x] = stage[x]
    BY <1>0, <1>1 DEF Remove
  <2>2. ASSUME NEW x \in Removers, NEW d \in Clients, Closing(x, d)'
        PROVE  (x = a /\ d = c) \/ (x # a /\ Closing(x, d))
    BY <1>0, <2>1, <2>2, TargetUnique DEF Closing
  <2>3. \A x \in Removers : ~Closing(x, c)
    BY <1>1 DEF OneCloser
  <2> QED BY <1>1, <2>1, <2>2, <2>3 DEF OneCloser
<1>2. CASE stage[a] = "unlink" /\ c \notin clients
  <2>1. /\ clients' = clients /\ done' = done /\ closed' = closed /\ stage'[a] = "out"
        /\ \A x \in Removers : x # a => stage'[x] = stage[x]
    BY <1>0, <1>2 DEF Remove
  <2>2. \A x \in Removers, d \in Clients : Closing(x, d)' => Closing(x, d)
    BY <1>0, <2>1 DEF Closing
  <2> QED BY <2>1, <2>2 DEF OneCloser
<1>3. CASE stage[a] = "signal"
  <2>1. /\ clients' = clients /\ done' = done \cup {c} /\ closed' = closed
        /\ \A x \in Removers : x # a => stage'[x] = stage[x]
    BY <1>0, <1>3 DEF Remove
  <2>2. \A x \in Removers, d \in Clients : Closing(x, d)' => Closing(x, d)
    BY <1>0, <1>3, <2>1 DEF Closing
  <2>3. c \notin clients
    BY <1>3 DEF OneCloser, Closing
  <2> QED BY <2>1, <2>2, <2>3 DEF OneCloser
<1>4. CASE stage[a] = "close"
  <2>1. /\ clients' = clients /\ done' = done /\ closed' = closed \cup {c}
        /\ stage'[a] = "out"
        /\ \A x \in Removers : x # a => stage'[x] = stage[x]
    BY <1>0, <1>4 DEF Remove
  <2>2. \A x \in Removers, d \in Clients : Closing(x, d)' => Closing(x, d) /\ x # a
    BY <1>0, <2>1 DEF Closing
  <2>3. Closing(a, c)
    BY <1>4 DEF Closing
  <2>4. \A x \in Removers : ~Closing(x, c)'
    BY <2>2, <2>3 DEF OneCloser
  <2> QED BY <2>1, <2>2, <2>3, <2>4 DEF OneCloser
<1> QED BY <1>1, <1>2, <1>3, <1>4 DEF Remove

(* A step outside Remove keeps OneCloser: it closes nothing and registers  *)
(* only a client nobody is closing.                                        *)
LEMMA OneCloserFrame ==
  ASSUME OneCloser, UNCHANGED <<done, closed>>,
         \A c \in clients' : c \in clients \/
            (c \notin done \cup closed /\ \A a \in Removers : ~Closing(a, c)),
         \A a \in Removers, c \in Clients : Closing(a, c)' => Closing(a, c)
  PROVE  OneCloser'
BY DEF OneCloser

(* Every step keeps OneCloser: the removals by RemoveOneCloser, the others *)
(* by OneCloserFrame, and Add because a fresh client is untouched.         *)
LEMMA OneCloserStep == IndInv /\ [Next]_vars => OneCloser'
<1> SUFFICES ASSUME IndInv, [Next]_vars PROVE OneCloser'
  OBVIOUS
<1> USE DEF slotVars, histVars
<1>0. TypeOK /\ OneCloser /\ StageCoherent /\ FreshUntouched
  BY DEF IndInv
<1>1. ASSUME UNCHANGED <<clients, done, closed, dropping>>,
             stage' = stage \/ \E a \in Removers : stage' = [stage EXCEPT ![a] = "unlink"]
      PROVE  OneCloser'
  <2>1. \A a \in Removers, c \in Clients : Closing(a, c)' => Closing(a, c)
    BY <1>0, <1>1 DEF Closing, Targets, TypeOK
  <2> QED BY <1>0, <1>1, <2>1, OneCloserFrame
<1>2. ASSUME NEW c \in Clients, Connect(c) PROVE OneCloser'
  <2>1. CASE Reserve(c) \/ Refuse(c) \/ Upgrade(c) \/ UpgradeFails(c) \/ StartPump(c)
    <3>1. UNCHANGED <<clients, done, closed, dropping, stage>>
      BY <2>1 DEF Reserve, Refuse, Upgrade, UpgradeFails, StartPump
    <3> QED BY <3>1, <1>1
  <2>2. CASE Add(c)
    <3>1. UNCHANGED <<done, closed, dropping, stage>> /\ clients' = clients \cup {c}
          /\ handler[c] = "upgraded"
      BY <2>2 DEF Add
    <3>2. \A a \in Removers : ~Closing(a, c)
      <4>1. stage[HandlerOf(c)] = "out" /\ stage[PumpOf(c)] = "out"
        BY <1>0, <3>1 DEF StageCoherent, FreshUntouched, NotYetAdded
      <4>2. \A b \in Broadcasters : dropping[b] # c
        BY <1>0, <3>1 DEF FreshUntouched, NotYetAdded
      <4> QED BY <4>1, <4>2 DEF Closing, Targets
    <3>3. c \notin done \cup closed
      BY <1>0, <3>1 DEF FreshUntouched, NotYetAdded
    <3>4. \A a \in Removers, d \in Clients : Closing(a, d)' => Closing(a, d)
      BY <3>1 DEF Closing, Targets
    <3> QED BY <1>0, <3>1, <3>2, <3>3, <3>4, OneCloserFrame
  <2> QED BY <1>2, <2>1, <2>2 DEF Connect
<1>3. ASSUME NEW c \in Clients, Serve(c) PROVE OneCloser'
  <2>1. CASE SyncSend(c) \/ SyncSkip(c) \/ Ping(c)
    <3>1. UNCHANGED <<clients, done, closed, dropping, stage>>
      BY <2>1 DEF SyncSend, SyncSkip, Ping
    <3> QED BY <3>1, <1>1
  <2>2. CASE SyncFails(c) \/ ReadFails(c)
    <3>1. /\ UNCHANGED <<clients, done, closed, dropping>>
          /\ stage' = [stage EXCEPT ![HandlerOf(c)] = "unlink"]
      BY <2>2 DEF SyncFails, ReadFails
    <3> QED BY <3>1, <1>1, RemoversDistinct
  <2>3. CASE HandlerRemove(c)
    <3>1. Remove(HandlerOf(c), c) /\ dropping' = dropping
      BY <2>3 DEF HandlerRemove
    <3>2. Targets(HandlerOf(c), c) /\ \A x \in Removers, d \in Clients : Targets(x, d)' <=> Targets(x, d)
      BY <3>1 DEF Targets
    <3> QED BY <1>0, <3>1, <3>2, RemoveOneCloser, RemoversDistinct
  <2> QED BY <1>3, <2>1, <2>2, <2>3 DEF Serve
<1>4. ASSUME NEW c \in Clients, WritePump(c) PROVE OneCloser'
  <2>1. CASE PumpTake(c) \/ PumpWrote(c)
    <3>1. UNCHANGED <<clients, done, closed, dropping, stage>>
      BY <2>1 DEF PumpTake, PumpWrote
    <3> QED BY <3>1, <1>1
  <2>2. CASE PumpWriteFails(c) \/ PumpStops(c)
    <3>1. /\ UNCHANGED <<clients, done, closed, dropping>>
          /\ stage' = [stage EXCEPT ![PumpOf(c)] = "unlink"]
      BY <2>2 DEF PumpWriteFails, PumpStops
    <3> QED BY <3>1, <1>1, RemoversDistinct
  <2>3. CASE PumpRemove(c)
    <3>1. Remove(PumpOf(c), c) /\ dropping' = dropping
      BY <2>3 DEF PumpRemove
    <3>2. Targets(PumpOf(c), c) /\ \A x \in Removers, d \in Clients : Targets(x, d)' <=> Targets(x, d)
      BY <3>1 DEF Targets
    <3> QED BY <1>0, <3>1, <3>2, RemoveOneCloser, RemoversDistinct
  <2> QED BY <1>4, <2>1, <2>2, <2>3 DEF WritePump
<1>5. ASSUME NEW b \in Broadcasters, Fanout(b) PROVE OneCloser'
  <2>1. CASE Broadcast(b)
    <3>1. UNCHANGED <<clients, done, closed, dropping, stage>>
      BY <2>1 DEF Broadcast
    <3> QED BY <3>1, <1>1
  <2>2. CASE BroadcastPick(b)
    <3>1. /\ UNCHANGED <<clients, done, closed>>
          /\ \A x \in Broadcasters : x # b => dropping'[x] = dropping[x]
          /\ stage' = [stage EXCEPT ![BroadcastOf(b)] = "unlink"]
      BY <1>0, <2>2 DEF BroadcastPick, TypeOK
    <3>2. \A a \in Removers, c \in Clients : Closing(a, c)' => Closing(a, c)
      BY <1>0, <3>1 DEF Closing, Targets, TypeOK
    <3> QED BY <1>0, <3>1, <3>2, OneCloserFrame
  <2>3. CASE BroadcastRemove(b)
    <3> DEFINE c == dropping[b]
    <3>1. /\ Remove(BroadcastOf(b), c) /\ c \in Clients
          /\ \A x \in Broadcasters : x # b => dropping'[x] = dropping[x]
          /\ stage'[BroadcastOf(b)] # "out" => dropping' = dropping
      BY <1>0, <2>3 DEF BroadcastRemove, Returned, TypeOK
    <3>2. Targets(BroadcastOf(b), c)
      BY DEF Targets
    <3>3. \A x \in Removers, d \in Clients :
             stage'[x] # "out" => (Targets(x, d)' <=> Targets(x, d))
      BY <3>1, RemoversDistinct DEF Targets
    <3> QED BY <1>0, <3>1, <3>2, <3>3, RemoveOneCloser, RemoversDistinct
  <2> QED BY <1>5, <2>1, <2>2, <2>3 DEF Fanout
<1>6. CASE (\E c \in Clients : PeerLeaves(c)) \/ Cancel \/ WaitReturns \/ Finished \/ UNCHANGED vars
  <2>1. UNCHANGED <<clients, done, closed, dropping, stage>>
    BY <1>6 DEF PeerLeaves, Cancel, WaitReturns, Finished, vars
  <2> QED BY <2>1, <1>1
<1> QED BY <1>2, <1>3, <1>4, <1>5, <1>6 DEF Next

(* Nothing touches a client before Add registers it.                       *)
LEMMA FreshStep == IndInv /\ [Next]_vars => FreshUntouched'
<1> SUFFICES ASSUME IndInv, [Next]_vars PROVE FreshUntouched'
  OBVIOUS
<1> USE DEF slotVars, histVars, IndInv, FreshUntouched, NotYetAdded
<1>1. ASSUME NEW c \in Clients, Connect(c) PROVE FreshUntouched'
  <2>1. CASE Reserve(c)
    BY <2>1 DEF TypeOK, Reserve
  <2>2. CASE Refuse(c)
    BY <2>2 DEF TypeOK, Refuse
  <2>3. CASE Upgrade(c)
    BY <2>3 DEF TypeOK, Upgrade
  <2>4. CASE UpgradeFails(c)
    BY <2>4 DEF TypeOK, UpgradeFails
  <2>5. CASE Add(c)
    BY <2>5 DEF TypeOK, Add
  <2>6. CASE StartPump(c)
    BY <2>6 DEF TypeOK, StartPump
  <2> QED BY <1>1, <2>1, <2>2, <2>3, <2>4, <2>5, <2>6 DEF Connect
<1>2. ASSUME NEW c \in Clients, Serve(c) PROVE FreshUntouched'
  <2>1. CASE SyncSend(c)
    BY <2>1 DEF TypeOK, SyncSend, AfterSync, SyncSteps
  <2>2. CASE SyncFails(c)
    BY <2>2 DEF TypeOK, SyncFails
  <2>3. CASE SyncSkip(c)
    BY <2>3 DEF TypeOK, SyncSkip
  <2>4. CASE Ping(c)
    BY <2>4 DEF TypeOK, Ping
  <2>5. CASE ReadFails(c)
    BY <2>5 DEF TypeOK, ReadFails
  <2>6. CASE HandlerRemove(c)
    BY <2>6 DEF TypeOK, HandlerRemove, Remove, Returned
  <2> QED BY <1>2, <2>1, <2>2, <2>3, <2>4, <2>5, <2>6 DEF Serve
<1>3. ASSUME NEW c \in Clients, WritePump(c) PROVE FreshUntouched'
  <2>1. CASE PumpTake(c)
    BY <2>1 DEF TypeOK, PumpTake
  <2>2. CASE PumpWrote(c)
    BY <2>2 DEF TypeOK, PumpWrote
  <2>3. CASE PumpWriteFails(c)
    BY <2>3 DEF TypeOK, PumpWriteFails
  <2>4. CASE PumpStops(c)
    BY <2>4 DEF TypeOK, PumpStops
  <2>5. CASE PumpRemove(c)
    BY <2>5 DEF TypeOK, PumpRemove, Remove, Returned
  <2> QED BY <1>3, <2>1, <2>2, <2>3, <2>4, <2>5 DEF WritePump
<1>4. ASSUME NEW b \in Broadcasters, Fanout(b) PROVE FreshUntouched'
  <2>1. CASE Broadcast(b)
    BY <2>1 DEF TypeOK, Broadcast
  <2>2. CASE BroadcastPick(b)
    BY <2>2 DEF TypeOK, BroadcastPick
  <2>3. CASE BroadcastRemove(b)
    <3>1. /\ handler' = handler /\ pump' = pump /\ stale' = stale
          /\ clients' \subseteq clients
          /\ done' \subseteq done \cup {dropping[b]}
          /\ closed' \subseteq closed \cup {dropping[b]}
      BY <2>3 DEF BroadcastRemove, Remove
    <3>2. \A x \in Broadcasters : dropping'[x] = dropping[x] \/ dropping'[x] = NoClient
      BY <2>3 DEF TypeOK, BroadcastRemove
    <3> QED BY <3>1, <3>2, HubAssumption DEF NoClient
  <2> QED BY <1>4, <2>1, <2>2, <2>3 DEF Fanout
<1>5. CASE (\E c \in Clients : PeerLeaves(c)) \/ Cancel \/ WaitReturns \/ Finished \/ UNCHANGED vars
  BY <1>5 DEF PeerLeaves, Cancel, WaitReturns, Finished, vars
<1> QED BY <1>1, <1>2, <1>3, <1>4, <1>5 DEF Next

(* A goroutine is inside Remove exactly when its counter says so.          *)
LEMMA StageStep == IndInv /\ [Next]_vars => StageCoherent'
<1> SUFFICES ASSUME IndInv, [Next]_vars PROVE StageCoherent'
  OBVIOUS
<1> USE DEF slotVars, histVars, IndInv, StageCoherent, NoClient
<1>1. ASSUME NEW c \in Clients, Connect(c) PROVE StageCoherent'
  <2>1. CASE Reserve(c)
    BY <2>1 DEF TypeOK, Reserve
  <2>2. CASE Refuse(c)
    BY <2>2 DEF TypeOK, Refuse
  <2>3. CASE Upgrade(c)
    BY <2>3 DEF TypeOK, Upgrade
  <2>4. CASE UpgradeFails(c)
    BY <2>4 DEF TypeOK, UpgradeFails
  <2>5. CASE Add(c)
    BY <2>5 DEF TypeOK, Add
  <2>6. CASE StartPump(c)
    BY <2>6 DEF TypeOK, StartPump, FreshUntouched, NotYetAdded
  <2> QED BY <1>1, <2>1, <2>2, <2>3, <2>4, <2>5, <2>6 DEF Connect
<1>2. ASSUME NEW c \in Clients, Serve(c) PROVE StageCoherent'
  <2>1. CASE SyncSend(c)
    BY <2>1 DEF TypeOK, SyncSend, AfterSync, SyncSteps
  <2>2. CASE SyncFails(c)
    BY <2>2, RemoversDistinct DEF TypeOK, SyncFails
  <2>3. CASE SyncSkip(c)
    BY <2>3 DEF TypeOK, SyncSkip
  <2>4. CASE Ping(c)
    BY <2>4 DEF TypeOK, Ping
  <2>5. CASE ReadFails(c)
    BY <2>5, RemoversDistinct DEF TypeOK, ReadFails
  <2>6. CASE HandlerRemove(c)
    BY <2>6, RemoversDistinct DEF TypeOK, HandlerRemove, Remove, Returned
  <2> QED BY <1>2, <2>1, <2>2, <2>3, <2>4, <2>5, <2>6 DEF Serve
<1>3. ASSUME NEW c \in Clients, WritePump(c) PROVE StageCoherent'
  <2>1. CASE PumpTake(c)
    BY <2>1 DEF TypeOK, PumpTake
  <2>2. CASE PumpWrote(c)
    BY <2>2 DEF TypeOK, PumpWrote
  <2>3. CASE PumpWriteFails(c)
    BY <2>3, RemoversDistinct DEF TypeOK, PumpWriteFails
  <2>4. CASE PumpStops(c)
    BY <2>4, RemoversDistinct DEF TypeOK, PumpStops
  <2>5. CASE PumpRemove(c)
    BY <2>5, RemoversDistinct DEF TypeOK, PumpRemove, Remove, Returned
  <2> QED BY <1>3, <2>1, <2>2, <2>3, <2>4, <2>5 DEF WritePump
<1>4. ASSUME NEW b \in Broadcasters, Fanout(b) PROVE StageCoherent'
  <2>1. CASE Broadcast(b)
    BY <2>1 DEF TypeOK, Broadcast
  <2>2. CASE BroadcastPick(b)
    <3>1. /\ handler' = handler /\ pump' = pump
          /\ stage' = [stage EXCEPT ![BroadcastOf(b)] = "unlink"]
          /\ dropping'[b] \in Clients
          /\ \A x \in Broadcasters : x # b => dropping'[x] = dropping[x]
      BY <2>2 DEF TypeOK, BroadcastPick
    <3>2. stage \in [Removers -> Stages]
      BY DEF TypeOK
    <3> QED BY <3>1, <3>2, HubAssumption, RemoversDistinct
  <2>3. CASE BroadcastRemove(b)
    BY <2>3, RemoversDistinct DEF TypeOK, BroadcastRemove, Remove, Returned
  <2> QED BY <1>4, <2>1, <2>2, <2>3 DEF Fanout
<1>5. CASE (\E c \in Clients : PeerLeaves(c)) \/ Cancel \/ WaitReturns \/ Finished \/ UNCHANGED vars
  BY <1>5 DEF PeerLeaves, Cancel, WaitReturns, Finished, vars
<1> QED BY <1>1, <1>2, <1>3, <1>4, <1>5 DEF Next

(* When Remove(c) returns, c is no longer registered, whoever unlinked it. *)
LEMMA RemoveReturns ==
  ASSUME IndInv, NEW a \in Removers, NEW c \in Clients, Targets(a, c), Remove(a, c)
  PROVE  clients' \subseteq clients /\ (Returned(a) => c \notin clients')
<1>1. stage \in [Removers -> Stages]
  BY DEF IndInv, TypeOK
<1>2. CASE stage[a] = "unlink"
  BY <1>1, <1>2 DEF Remove, Returned
<1>3. CASE stage[a] = "signal"
  BY <1>1, <1>3 DEF Remove, Returned
<1>4. CASE stage[a] = "close"
  <2>1. c \notin clients /\ clients' = clients
    BY <1>4 DEF Remove, IndInv, OneCloser, Closing
  <2> QED BY <2>1
<1> QED BY <1>2, <1>3, <1>4 DEF Remove

(* The deferred Removes leave no client behind.                            *)
LEMMA LeakStep == IndInv /\ [Next]_vars => NoLeakedClient'
<1> SUFFICES ASSUME IndInv, [Next]_vars PROVE NoLeakedClient'
  OBVIOUS
<1> USE DEF slotVars, histVars, IndInv, NoLeakedClient, FreshUntouched, NotYetAdded
<1>1. ASSUME NEW c \in Clients, Connect(c) PROVE NoLeakedClient'
  <2>1. CASE Reserve(c)
    BY <2>1 DEF TypeOK, Reserve
  <2>2. CASE Refuse(c)
    BY <2>2 DEF TypeOK, Refuse
  <2>3. CASE Upgrade(c)
    BY <2>3 DEF TypeOK, Upgrade
  <2>4. CASE UpgradeFails(c)
    BY <2>4 DEF TypeOK, UpgradeFails
  <2>5. CASE Add(c)
    BY <2>5 DEF TypeOK, Add
  <2>6. CASE StartPump(c)
    BY <2>6 DEF TypeOK, StartPump
  <2> QED BY <1>1, <2>1, <2>2, <2>3, <2>4, <2>5, <2>6 DEF Connect
<1>2. ASSUME NEW c \in Clients, Serve(c) PROVE NoLeakedClient'
  <2>1. CASE SyncSend(c)
    BY <2>1 DEF TypeOK, SyncSend, AfterSync, SyncSteps
  <2>2. CASE SyncFails(c)
    BY <2>2 DEF TypeOK, SyncFails
  <2>3. CASE SyncSkip(c)
    BY <2>3 DEF TypeOK, SyncSkip
  <2>4. CASE Ping(c)
    BY <2>4 DEF TypeOK, Ping
  <2>5. CASE ReadFails(c)
    BY <2>5 DEF TypeOK, ReadFails
  <2>6. CASE HandlerRemove(c)
    <3>1. Targets(HandlerOf(c), c) /\ HandlerOf(c) \in Removers
      BY RemoversDistinct DEF Targets
    <3>2. clients' \subseteq clients /\ (Returned(HandlerOf(c)) => c \notin clients')
      BY <2>6, <3>1, RemoveReturns DEF HandlerRemove
    <3> QED BY <2>6, <3>2 DEF TypeOK, HandlerRemove
  <2> QED BY <1>2, <2>1, <2>2, <2>3, <2>4, <2>5, <2>6 DEF Serve
<1>3. ASSUME NEW c \in Clients, WritePump(c) PROVE NoLeakedClient'
  <2>1. CASE PumpTake(c)
    BY <2>1 DEF TypeOK, PumpTake
  <2>2. CASE PumpWrote(c)
    BY <2>2 DEF TypeOK, PumpWrote
  <2>3. CASE PumpWriteFails(c)
    BY <2>3 DEF TypeOK, PumpWriteFails
  <2>4. CASE PumpStops(c)
    BY <2>4 DEF TypeOK, PumpStops
  <2>5. CASE PumpRemove(c)
    <3>1. Targets(PumpOf(c), c) /\ PumpOf(c) \in Removers
      BY RemoversDistinct DEF Targets
    <3>2. clients' \subseteq clients /\ (Returned(PumpOf(c)) => c \notin clients')
      BY <2>5, <3>1, RemoveReturns DEF PumpRemove
    <3> QED BY <2>5, <3>2 DEF TypeOK, PumpRemove
  <2> QED BY <1>3, <2>1, <2>2, <2>3, <2>4, <2>5 DEF WritePump
<1>4. ASSUME NEW b \in Broadcasters, Fanout(b) PROVE NoLeakedClient'
  <2>1. CASE Broadcast(b)
    BY <2>1 DEF TypeOK, Broadcast
  <2>2. CASE BroadcastPick(b)
    BY <2>2 DEF TypeOK, BroadcastPick
  <2>3. CASE BroadcastRemove(b)
    BY <2>3 DEF TypeOK, BroadcastRemove, Remove, Returned
  <2> QED BY <1>4, <2>1, <2>2, <2>3 DEF Fanout
<1>5. CASE (\E c \in Clients : PeerLeaves(c)) \/ Cancel \/ WaitReturns \/ Finished \/ UNCHANGED vars
  BY <1>5 DEF PeerLeaves, Cancel, WaitReturns, Finished, vars
<1> QED BY <1>1, <1>2, <1>3, <1>4, <1>5 DEF Next

-----------------------------------------------------------------------------
(* Slots                                                                   *)

(* The ways a step may move the slots: not at all, one attempt takes one   *)
(* while the counter is below the cap, or one holder gives its own back.   *)
SlotsSame == /\ Holders' = Holders /\ Released' = Released
             /\ connections' = connections
SlotTaken(c) == /\ c \notin Holders \cup Released /\ connections < maxConn
                /\ Holders' = Holders \cup {c} /\ Released' = Released
                /\ connections' = connections + 1
SlotFreed(c) == /\ c \in Holders
                /\ Holders' = Holders \ {c} /\ Released' = Released \cup {c}
                /\ connections' = connections - 1
SlotMove == SlotsSame \/ \E c \in Clients : SlotTaken(c) \/ SlotFreed(c)

(* A step inside Remove(c), for a registered c, frees c's slot or none.    *)
LEMMA RemoveSlot ==
  ASSUME IndInv, NEW a \in Removers, NEW c \in Clients, Remove(a, c), ~NotYetAdded(c),
         \A d \in Clients : \/ handler'[d] = handler[d]
                            \/ ~NotYetAdded(d) /\ ~NotYetAdded(d)'
  PROVE  SlotMove
<1>1. Reserved' = Reserved
  BY DEF Reserved, NotYetAdded
<1>2. {d \in Clients : handler'[d] \notin {"idle", "refused"}}
        = {d \in Clients : handler[d] \notin {"idle", "refused"}}
  BY DEF NotYetAdded
<1>3. c \notin Reserved /\ handler[c] \notin {"idle", "refused"}
  BY DEF Reserved, NotYetAdded
<1>4. CASE clients' = clients /\ connections' = connections
  BY <1>1, <1>2, <1>4 DEF SlotMove, SlotsSame, Holders, Released
<1>5. CASE c \in clients /\ clients' = clients \ {c} /\ connections' = connections - 1
  <2>1. SlotFreed(c)
    BY <1>1, <1>2, <1>3, <1>5 DEF SlotFreed, Holders, Released
  <2> QED BY <2>1 DEF SlotMove
<1> QED BY <1>4, <1>5 DEF Remove

(* Every step moves at most one slot, in one of the ways above.            *)
LEMMA SlotStep == IndInv /\ [Next]_vars => SlotMove
<1> SUFFICES ASSUME IndInv, [Next]_vars PROVE SlotMove
  OBVIOUS
<1> USE DEF slotVars, histVars
<1>0. TypeOK /\ FreshUntouched
  BY DEF IndInv
<1>1. ASSUME UNCHANGED <<clients, connections>>,
             \A d \in Clients : \/ handler'[d] = handler[d]
                                \/ ~NotYetAdded(d) /\ ~NotYetAdded(d)'
      PROVE  SlotMove
  <2>1. Reserved' = Reserved
    BY <1>1 DEF Reserved, NotYetAdded
  <2>2. {d \in Clients : handler'[d] \notin {"idle", "refused"}}
          = {d \in Clients : handler[d] \notin {"idle", "refused"}}
    BY <1>1 DEF NotYetAdded
  <2> QED BY <1>1, <2>1, <2>2 DEF SlotMove, SlotsSame, Holders, Released
<1>2. ASSUME NEW c \in Clients, Connect(c) PROVE SlotMove
  <2>0. handler \in [Clients -> HandlerStates] /\ (NotYetAdded(c) => c \notin clients)
    BY <1>0 DEF TypeOK, FreshUntouched
  <2>1. CASE Reserve(c)
    <3>1. SlotTaken(c)
      BY <2>0, <2>1 DEF Reserve, SlotTaken, Holders, Released, Reserved, NotYetAdded
    <3> QED BY <3>1 DEF SlotMove
  <2>2. CASE Refuse(c)
    <3>1. SlotsSame
      BY <2>0, <2>2 DEF Refuse, SlotsSame, Holders, Released, Reserved
    <3> QED BY <3>1 DEF SlotMove
  <2>3. CASE Upgrade(c)
    <3>1. SlotsSame
      BY <2>0, <2>3 DEF Upgrade, SlotsSame, Holders, Released, Reserved
    <3> QED BY <3>1 DEF SlotMove
  <2>4. CASE UpgradeFails(c)
    <3>1. SlotFreed(c)
      BY <2>0, <2>4 DEF UpgradeFails, SlotFreed, Holders, Released, Reserved, NotYetAdded
    <3> QED BY <3>1 DEF SlotMove
  <2>5. CASE Add(c)
    <3>1. SlotsSame
      BY <2>0, <2>5 DEF Add, SlotsSame, Holders, Released, Reserved
    <3> QED BY <3>1 DEF SlotMove
  <2>6. CASE StartPump(c)
    BY <1>1, <2>0, <2>6 DEF StartPump, NotYetAdded
  <2> QED BY <1>2, <2>1, <2>2, <2>3, <2>4, <2>5, <2>6 DEF Connect
<1>3. ASSUME NEW c \in Clients, Serve(c) PROVE SlotMove
  <2>0. handler \in [Clients -> HandlerStates]
    BY <1>0 DEF TypeOK
  <2>1. CASE SyncSend(c)
    BY <1>1, <2>0, <2>1 DEF SyncSend, NotYetAdded, SyncSteps, AfterSync
  <2>2. CASE SyncFails(c)
    BY <1>1, <2>0, <2>2 DEF SyncFails, NotYetAdded, SyncSteps
  <2>3. CASE SyncSkip(c)
    BY <1>1, <2>0, <2>3 DEF SyncSkip, NotYetAdded
  <2>4. CASE Ping(c)
    BY <1>1, <2>4 DEF Ping
  <2>5. CASE ReadFails(c)
    BY <1>1, <2>0, <2>5 DEF ReadFails, NotYetAdded
  <2>6. CASE HandlerRemove(c)
    <3>1. Remove(HandlerOf(c), c) /\ ~NotYetAdded(c) /\ HandlerOf(c) \in Removers
      BY <2>6, RemoversDistinct DEF HandlerRemove, NotYetAdded
    <3>2. \A d \in Clients : \/ handler'[d] = handler[d]
                             \/ ~NotYetAdded(d) /\ ~NotYetAdded(d)'
      BY <2>0, <2>6 DEF HandlerRemove, NotYetAdded
    <3> QED BY <3>1, <3>2, RemoveSlot
  <2> QED BY <1>3, <2>1, <2>2, <2>3, <2>4, <2>5, <2>6 DEF Serve
<1>4. ASSUME NEW c \in Clients, WritePump(c) PROVE SlotMove
  <2>1. CASE PumpTake(c) \/ PumpWrote(c) \/ PumpWriteFails(c) \/ PumpStops(c)
    <3>1. UNCHANGED <<clients, connections, handler>>
      BY <2>1 DEF PumpTake, PumpWrote, PumpWriteFails, PumpStops
    <3> QED BY <1>1, <3>1
  <2>2. CASE PumpRemove(c)
    <3>1. Remove(PumpOf(c), c) /\ handler' = handler /\ PumpOf(c) \in Removers
      BY <2>2, RemoversDistinct DEF PumpRemove
    <3>2. ~NotYetAdded(c)
      BY <1>0, <2>2 DEF PumpRemove, FreshUntouched
    <3> QED BY <3>1, <3>2, RemoveSlot
  <2> QED BY <1>4, <2>1, <2>2 DEF WritePump
<1>5. ASSUME NEW b \in Broadcasters, Fanout(b) PROVE SlotMove
  <2>1. CASE Broadcast(b) \/ BroadcastPick(b)
    <3>1. UNCHANGED <<clients, connections, handler>>
      BY <2>1 DEF Broadcast, BroadcastPick
    <3> QED BY <1>1, <3>1
  <2>2. CASE BroadcastRemove(b)
    <3>1. /\ Remove(BroadcastOf(b), dropping[b]) /\ handler' = handler
          /\ BroadcastOf(b) \in Removers /\ dropping[b] \in Clients
      BY <1>0, <2>2, RemoversDistinct DEF BroadcastRemove, TypeOK
    <3>2. ~NotYetAdded(dropping[b])
      BY <1>0, <3>1 DEF FreshUntouched
    <3> QED BY <3>1, <3>2, RemoveSlot
  <2> QED BY <1>5, <2>1, <2>2 DEF Fanout
<1>6. CASE (\E c \in Clients : PeerLeaves(c)) \/ Cancel \/ WaitReturns \/ Finished \/ UNCHANGED vars
  <2>1. UNCHANGED <<clients, connections, handler>>
    BY <1>6 DEF PeerLeaves, Cancel, WaitReturns, Finished, vars
  <2> QED BY <1>1, <2>1
<1> QED BY <1>2, <1>3, <1>4, <1>5, <1>6 DEF Next

(* Moving one slot keeps the counter equal to the number of holders.       *)
LEMMA AccountingStep == IndInv /\ SlotMove => SlotAccounting'
<1> SUFFICES ASSUME IndInv, SlotMove PROVE SlotAccounting'
  OBVIOUS
<1>1. IsFiniteSet(Holders) /\ Cardinality(Holders) \in Nat /\ connections = Cardinality(Holders)
  <2>1. Holders \subseteq Clients
    BY DEF IndInv, TypeOK, Holders, Reserved
  <2> QED BY <2>1, HubAssumption, FS_Subset, FS_CardinalityType DEF IndInv, SlotAccounting
<1>2. CASE SlotsSame
  BY <1>1, <1>2 DEF SlotsSame, SlotAccounting
<1>3. ASSUME NEW c \in Clients, SlotTaken(c) PROVE SlotAccounting'
  BY <1>1, <1>3, FS_AddElement DEF SlotTaken, SlotAccounting
<1>4. ASSUME NEW c \in Clients, SlotFreed(c) PROVE SlotAccounting'
  BY <1>1, <1>4, FS_RemoveElement DEF SlotFreed, SlotAccounting
<1> QED BY <1>2, <1>3, <1>4 DEF SlotMove

(* The inductive invariant holds in every reachable state.                 *)
THEOREM Inductive == Spec => []IndInv
<1>1. Init => IndInv
  <2> SUFFICES ASSUME Init PROVE IndInv
    OBVIOUS
  <2> USE DEF Init
  <2>1. TypeOK
    BY HubAssumption DEF TypeOK, HandlerStates, PumpStates, Stages, NoMsg
  <2>2. FreshUntouched
    BY HubAssumption DEF FreshUntouched, NoClient
  <2>3. StageCoherent
    BY RemoversDistinct DEF StageCoherent
  <2>4. OneCloser
    BY DEF OneCloser, Closing
  <2>5. NoLeakedClient
    BY DEF NoLeakedClient
  <2>6. SlotAccounting
    <3>1. Holders = {}
      BY DEF Holders, Reserved
    <3> QED BY <3>1, FS_EmptySet DEF SlotAccounting
  <2> QED BY <2>1, <2>2, <2>3, <2>4, <2>5, <2>6 DEF IndInv
<1>2. IndInv /\ [Next]_vars => IndInv'
  BY TypeStep, FreshStep, StageStep, OneCloserStep, LeakStep, SlotStep, AccountingStep DEF IndInv
<1> QED BY <1>1, <1>2, PTL DEF Spec

(* Hub.connections is the number of attempts between Reserve and their     *)
(* Unreserve or Remove, for any number of racing goroutines.               *)
THEOREM SlotsAccounted == Spec => []SlotAccounting
<1>1. IndInv => SlotAccounting
  BY DEF IndInv
<1> QED BY <1>1, Inductive, PTL

(* Exactly one of the goroutines removing a client closes it.              *)
THEOREM ClosedOnce == Spec => []OneCloser
<1>1. IndInv => OneCloser
  BY DEF IndInv
<1> QED BY <1>1, Inductive, PTL

(* No handler or pump ends with its client still registered.               *)
THEOREM NothingLeaked == Spec => []NoLeakedClient
<1>1. IndInv => NoLeakedClient
  BY DEF IndInv
<1> QED BY <1>1, Inductive, PTL

-----------------------------------------------------------------------------
(* What a client is sent                                                   *)

(* A message that is no broadcast may be put anywhere into a feed.         *)
LEMMA CarriesSkip ==
  ASSUME NEW s \in Seq(Int), NEW t \in Seq(Int), NEW m \in Int, ~IsBroadcast(m),
         NEW lo \in Nat, NEW hi \in Nat
  PROVE  /\ InSequence(s \o t, lo, hi) <=> InSequence(s \o <<m>> \o t, lo, hi)
         /\ Carries(s \o t, lo, hi) <=> Carries(s \o <<m>> \o t, lo, hi)
<1> DEFINE u == s \o t
           v == s \o <<m>> \o t
           Up(i) == IF i <= Len(s) THEN i ELSE i + 1
<1>1. /\ u \in Seq(Int) /\ v \in Seq(Int)
      /\ Len(u) = Len(s) + Len(t) /\ Len(v) = Len(s) + 1 + Len(t)
      /\ Len(s) \in Nat /\ Len(t) \in Nat
  OBVIOUS
<1>2. v[Len(s) + 1] = m
  OBVIOUS
<1>3. \A i \in 1 .. Len(u) : Up(i) \in 1 .. Len(v) /\ v[Up(i)] = u[i]
  OBVIOUS
<1>4. \A i, j \in 1 .. Len(u) : i < j <=> Up(i) < Up(j)
  BY <1>1
<1>5. \A k \in 1 .. Len(v) : k # Len(s) + 1 => \E i \in 1 .. Len(u) : k = Up(i)
  <2> SUFFICES ASSUME NEW k \in 1 .. Len(v), k # Len(s) + 1
               PROVE  \E i \in 1 .. Len(u) : k = Up(i)
    OBVIOUS
  <2>1. CASE k <= Len(s)
    BY <1>1, <2>1
  <2>2. CASE k > Len(s)
    <3>1. k - 1 \in 1 .. Len(u) /\ k = Up(k - 1)
      BY <1>1, <2>2
    <3> QED BY <3>1
  <2> QED BY <1>1, <2>1, <2>2
<1> HIDE DEF u, v, Up
<1>6. \A n \in lo + 1 .. hi : n # m
  BY DEF IsBroadcast, OwnMsg
<1>7. ASSUME InSequence(u, lo, hi) PROVE InSequence(v, lo, hi)
  <2>2. \A k \in 1 .. Len(v) : IsBroadcast(v[k]) =>
          \E i \in 1 .. Len(u) : k = Up(i) /\ v[k] = u[i]
    BY <1>2, <1>3, <1>5
  <2>3. \A k \in 1 .. Len(v) : IsBroadcast(v[k]) => v[k] \in lo + 1 .. hi
    BY <1>7, <2>2 DEF InSequence
  <2>4. ASSUME NEW k \in 1 .. Len(v), NEW l \in 1 .. Len(v), k < l,
               IsBroadcast(v[k]), IsBroadcast(v[l])
        PROVE  v[k] < v[l]
    <3>1. PICK i \in 1 .. Len(u) : k = Up(i) /\ v[k] = u[i]
      BY <2>2, <2>4
    <3>2. PICK j \in 1 .. Len(u) : l = Up(j) /\ v[l] = u[j]
      BY <2>2, <2>4
    <3>3. i < j
      BY <1>4, <2>4, <3>1, <3>2
    <3> QED BY <1>7, <2>4, <3>1, <3>2, <3>3 DEF InSequence
  <2> QED BY <2>3, <2>4 DEF InSequence
<1>8. ASSUME InSequence(v, lo, hi) PROVE InSequence(u, lo, hi)
  <2>2. \A i \in 1 .. Len(u) : IsBroadcast(u[i]) => u[i] \in lo + 1 .. hi
    BY <1>3, <1>8 DEF InSequence
  <2>3. \A i, j \in 1 .. Len(u) :
          i < j /\ IsBroadcast(u[i]) /\ IsBroadcast(u[j]) => u[i] < u[j]
    BY <1>3, <1>4, <1>8 DEF InSequence
  <2> QED BY <2>2, <2>3 DEF InSequence
<1>9. ASSUME NEW n \in lo + 1 .. hi
      PROVE  (\E i \in 1 .. Len(u) : u[i] = n) <=> (\E k \in 1 .. Len(v) : v[k] = n)
  <2>1. ASSUME NEW i \in 1 .. Len(u), u[i] = n PROVE \E k \in 1 .. Len(v) : v[k] = n
    BY <1>3, <2>1
  <2>2. ASSUME NEW k \in 1 .. Len(v), v[k] = n PROVE \E i \in 1 .. Len(u) : u[i] = n
    <3>1. k # Len(s) + 1
      BY <1>2, <1>6, <2>2
    <3> QED BY <1>3, <1>5, <2>2, <3>1
  <2> QED BY <2>1, <2>2
<1>10. Carries(u, lo, hi) <=> Carries(v, lo, hi)
  BY <1>7, <1>8, <1>9 DEF Carries
<1> QED BY <1>7, <1>8, <1>10 DEF u, v

(* The next broadcast, queued at the end, comes after all others and       *)
(* extends a feed without a gap.                                           *)
LEMMA CarriesNext ==
  ASSUME NEW s \in Seq(Int), NEW lo \in Nat, NEW hi \in Nat, lo <= hi,
         InSequence(s, lo, hi)
  PROVE  /\ InSequence(s, lo, hi + 1)
         /\ InSequence(Append(s, hi + 1), lo, hi + 1)
         /\ Carries(s, lo, hi) => Carries(Append(s, hi + 1), lo, hi + 1)
<1> DEFINE v == Append(s, hi + 1)
<1>1. /\ Len(v) = Len(s) + 1 /\ v[Len(s) + 1] = hi + 1 /\ Len(s) \in Nat
      /\ \A i \in 1 .. Len(s) : v[i] = s[i] /\ i \in 1 .. Len(v)
      /\ \A k \in 1 .. Len(v) : k = Len(s) + 1 \/ k \in 1 .. Len(s)
  OBVIOUS
<1> HIDE DEF v
<1>2. ASSUME Carries(s, lo, hi)
      PROVE  \A n \in lo + 1 .. hi + 1 : \E i \in 1 .. Len(v) : v[i] = n
  <2> SUFFICES ASSUME NEW n \in lo + 1 .. hi + 1
               PROVE  \E i \in 1 .. Len(v) : v[i] = n
    OBVIOUS
  <2>1. CASE n = hi + 1
    BY <1>1, <2>1
  <2>2. CASE n \in lo + 1 .. hi
    BY <1>1, <1>2, <2>2 DEF Carries
  <2> QED BY <2>1, <2>2
<1>3. \A i \in 1 .. Len(v) : IsBroadcast(v[i]) => v[i] \in lo + 1 .. hi + 1
  BY <1>1 DEF InSequence
<1>4. \A i, j \in 1 .. Len(v) :
        i < j /\ IsBroadcast(v[i]) /\ IsBroadcast(v[j]) => v[i] < v[j]
  <2> SUFFICES ASSUME NEW i \in 1 .. Len(v), NEW j \in 1 .. Len(v), i < j,
                      IsBroadcast(v[i]), IsBroadcast(v[j])
               PROVE  v[i] < v[j]
    OBVIOUS
  <2>1. i \in 1 .. Len(s) /\ v[i] = s[i] /\ s[i] \in lo + 1 .. hi
    BY <1>1 DEF InSequence
  <2>2. CASE j \in 1 .. Len(s)
    BY <1>1, <2>1, <2>2 DEF InSequence
  <2>3. CASE j = Len(s) + 1
    BY <1>1, <2>1, <2>3
  <2> QED BY <1>1, <2>2, <2>3
<1>5. InSequence(v, lo, hi + 1)
  BY <1>3, <1>4 DEF InSequence
<1>6. InSequence(s, lo, hi + 1)
  BY DEF InSequence
<1> QED BY <1>2, <1>5, <1>6 DEF Carries, v

(* A message that is lost leaves the others in order.                      *)
LEMMA OrderLoses ==
  ASSUME NEW s \in Seq(Int), NEW t \in Seq(Int), NEW m \in Int, NEW n \in Int,
         ~IsBroadcast(n), NEW lo \in Nat, NEW hi \in Nat,
         InSequence(s \o <<m>> \o t, lo, hi)
  PROVE  InSequence(s \o <<n>> \o t, lo, hi)
<1> DEFINE u == s \o <<m>> \o t
           v == s \o <<n>> \o t
<1>1. /\ Len(u) = Len(v) /\ v[Len(s) + 1] = n
      /\ \A i \in 1 .. Len(v) : i # Len(s) + 1 => v[i] = u[i]
  OBVIOUS
<1> HIDE DEF u, v
<1>2. \A i \in 1 .. Len(v) : IsBroadcast(v[i]) => v[i] = u[i]
  BY <1>1
<1>3. InSequence(u, lo, hi)
  BY DEF u
<1>4. InSequence(v, lo, hi)
  BY <1>1, <1>2, <1>3 DEF InSequence
<1> QED BY <1>4 DEF v

(* What comes after a feed's first broadcasts w is later than the last of  *)
(* them, and the very next one if the feed has no gap.                     *)
LEMMA FeedGoesOn ==
  ASSUME NEW w \in Seq(Int), NEW t \in Seq(Int), NEW m \in Int, IsBroadcast(m),
         NEW lo \in Nat, NEW hi \in Nat,
         \A i \in 1 .. Len(w) : IsBroadcast(w[i]),
         InSequence(w \o <<m>> \o t, lo, hi)
  PROVE  /\ LastOf(lo, w) \in Nat /\ LastOf(lo, w) < m /\ m <= hi
         /\ Carries(w \o <<m>> \o t, lo, hi) => m = LastOf(lo, w) + 1
<1> DEFINE v == w \o <<m>> \o t
           k == Len(w)
<1>1. /\ k \in Nat /\ Len(v) \in Nat /\ k + 1 \in 1 .. Len(v) /\ v[k + 1] = m
      /\ \A i \in 1 .. k : i \in 1 .. Len(v) /\ v[i] = w[i]
      /\ \A i \in 1 .. Len(v) : v[i] \in Int
  OBVIOUS
<1>2. w # <<>> => k \in 1 .. k /\ LastOf(lo, w) = w[k]
  BY DEF LastOf
<1>3. w = <<>> => LastOf(lo, w) = lo /\ k = 0
  BY DEF LastOf
<1>4. InSequence(v, lo, hi)
  OBVIOUS
<1>5. \A i \in 1 .. k : IsBroadcast(v[i])
  BY <1>1
<1> HIDE DEF v, k
<1>6. m \in lo + 1 .. hi
  BY <1>1, <1>4 DEF InSequence
<1>7. LastOf(lo, w) \in Nat /\ lo <= LastOf(lo, w) /\ LastOf(lo, w) < m
  <2>1. CASE w = <<>>
    BY <1>3, <1>6, <2>1
  <2>2. CASE w # <<>>
    <3>1. k \in 1 .. k /\ LastOf(lo, w) = v[k] /\ IsBroadcast(v[k]) /\ k < k + 1
      BY <1>1, <1>2, <1>5, <2>2
    <3>2. v[k] \in lo + 1 .. hi /\ v[k] < v[k + 1]
      BY <1>1, <1>4, <3>1 DEF InSequence
    <3> QED BY <1>1, <3>1, <3>2
  <2> QED BY <2>1, <2>2
<1>8. ASSUME Carries(v, lo, hi) PROVE m = LastOf(lo, w) + 1
  <2> SUFFICES ASSUME m # LastOf(lo, w) + 1 PROVE FALSE
    OBVIOUS
  <2> DEFINE n == LastOf(lo, w) + 1
  <2>1. n \in lo + 1 .. hi /\ n < m /\ IsBroadcast(n)
    BY <1>6, <1>7 DEF IsBroadcast, OwnMsg
  <2>2. PICK i \in 1 .. Len(v) : v[i] = n
    BY <1>8, <2>1 DEF Carries
  <2>3. ~(k + 1 < i)
    <3>1. IsBroadcast(v[i]) /\ IsBroadcast(v[k + 1])
      BY <1>1, <2>1, <2>2
    <3>2. k + 1 < i => v[k + 1] < v[i]
      BY <1>1, <1>4, <3>1 DEF InSequence
    <3> QED BY <1>1, <2>1, <2>2, <3>2
  <2>4. i # k + 1
    BY <1>1, <2>1, <2>2
  <2>5. i \in 1 .. k
    BY <1>1, <2>3, <2>4
  <2>6. w # <<>> /\ k \in 1 .. k /\ LastOf(lo, w) = v[k] /\ IsBroadcast(v[k])
    BY <1>1, <1>2, <1>3, <1>5, <2>5
  <2>7. i = k \/ i < k
    BY <1>1, <2>5
  <2>8. v[i] <= v[k]
    <3>1. v[i] \in Int
      BY <1>7, <2>2
    <3>2. CASE i = k
      BY <3>1, <3>2
    <3>3. CASE i < k
      <4>1. i \in 1 .. Len(v) /\ k \in 1 .. Len(v) /\ IsBroadcast(v[i])
        BY <1>1, <2>1, <2>2, <2>5
      <4>2. v[i] < v[k] /\ v[k] \in lo + 1 .. hi
        BY <1>4, <2>6, <3>3, <4>1 DEF InSequence
      <4> QED BY <1>1, <3>1, <4>2
    <3> QED BY <2>7, <3>2, <3>3
  <2> QED BY <1>7, <2>2, <2>6, <2>8
<1> QED BY <1>6, <1>7, <1>8 DEF v

(* How the three parts of a feed are put together: what is queued goes to  *)
(* the end, what the pump takes and has written keeps its place.           *)
LEMMA FeedParts ==
  ASSUME NEW w \in Seq(Int), NEW t \in Seq(Int), NEW m \in Int, NEW n \in Int
  PROVE  /\ w \o <<m>> \o t \in Seq(Int)
         /\ w \o <<m>> \o Append(t, n) = Append(w \o <<m>> \o t, n)
         /\ w \o <<m>> \o t = Append(w, m) \o t
         /\ Append(t, n) = t \o <<n>> \o <<>> /\ t \o <<>> = t
         /\ t # <<>> => w \o <<Head(t)>> \o Tail(t) = w \o t
<1>1. w \o <<m>> \o t \in Seq(Int)
  OBVIOUS
<1>2. w \o <<m>> \o Append(t, n) = Append(w \o <<m>> \o t, n)
  <2> DEFINE x == w \o <<m>>
  <2>1. x \in Seq(Int)
    OBVIOUS
  <2> HIDE DEF x
  <2>2. x \o Append(t, n) = Append(x \o t, n)
    BY <2>1, SeqEqual
  <2> QED BY <2>2 DEF x
<1>3. w \o <<m>> \o t = Append(w, m) \o t
  OBVIOUS
<1>4. Append(t, n) = t \o <<n>> \o <<>> /\ t \o <<>> = t
  <2>1. Append(t, n) \in Seq(Int) /\ <<n>> \in Seq(Int)
    OBVIOUS
  <2> QED BY <2>1, AppendIsConcat, ConcatEmptySeq
<1>5. t # <<>> => w \o <<Head(t)>> \o Tail(t) = w \o t
  OBVIOUS
<1> QED BY <1>1, <1>2, <1>3, <1>4, <1>5

(* The three parts of a feed are sequences of numbers.                     *)
LEMMA FeedType ==
  ASSUME TypeOK, NEW c \in Clients
  PROVE  /\ written[c] \in Seq(Int) /\ send[c] \in Seq(Int) /\ wire[c] \in Int
         /\ joined[c] \in Nat /\ sent \in Nat
<1>1. written[c] \in Seq(Nat) /\ send[c] \in Seq(Nat) /\ wire[c] \in Nat \cup {NoMsg}
  BY DEF TypeOK
<1>2. \A s \in Seq(Nat) : s \in Seq(Int)
  OBVIOUS
<1> QED BY <1>1, <1>2 DEF TypeOK, NoMsg

(* What is put into the buffer comes at the end of the feed.               *)
LEMMA FeedQueue ==
  ASSUME TypeOK, NEW c \in Clients, NEW n \in Int
  PROVE  written[c] \o <<wire[c]>> \o Append(send[c], n) = Append(Feed(c), n)
<1> DEFINE w == written[c]
           m == wire[c]
           t == send[c]
<1>1. w \in Seq(Int) /\ t \in Seq(Int) /\ m \in Int
  BY FeedType
<1>2. Feed(c) = w \o <<m>> \o t
  BY DEF Feed
<1> HIDE DEF w, m, t
<1>3. w \o <<m>> \o Append(t, n) = Append(w \o <<m>> \o t, n)
  BY <1>1, FeedParts
<1> QED BY <1>2, <1>3 DEF w, m, t

(* A sync message or a pong in the buffer leaves the broadcasts alone.     *)
LEMMA QueueOwn ==
  ASSUME TypeOK, NEW c \in Clients
  PROVE  LET s == written[c] \o <<wire[c]>> \o Append(send[c], OwnMsg)
         IN  /\ Carries(Feed(c), joined[c], sent) => Carries(s, joined[c], sent)
             /\ InSequence(Feed(c), joined[c], sent) => InSequence(s, joined[c], sent)
<1>1. Feed(c) \in Seq(Int) /\ OwnMsg \in Int /\ ~IsBroadcast(OwnMsg) /\ <<>> \in Seq(Int)
  BY FeedType, FeedParts DEF Feed, OwnMsg, IsBroadcast
<1>2. written[c] \o <<wire[c]>> \o Append(send[c], OwnMsg) = Append(Feed(c), OwnMsg)
  BY <1>1, FeedType, FeedQueue
<1>3. /\ Append(Feed(c), OwnMsg) = Feed(c) \o <<OwnMsg>> \o <<>>
      /\ Feed(c) \o <<>> = Feed(c)
  BY <1>1, FeedParts
<1>4. /\ Carries(Feed(c), joined[c], sent)
           => Carries(Feed(c) \o <<OwnMsg>> \o <<>>, joined[c], sent)
      /\ InSequence(Feed(c), joined[c], sent)
           => InSequence(Feed(c) \o <<OwnMsg>> \o <<>>, joined[c], sent)
  BY <1>1, <1>3, FeedType, CarriesSkip
<1> QED BY <1>2, <1>3, <1>4

(* Pumps hold a message only while they write, in every step.              *)
LEMMA FeedFreshStep == IndInv /\ FeedFresh /\ [Next]_vars => FeedFresh'
<1> SUFFICES ASSUME IndInv, FeedFresh, [Next]_vars PROVE FeedFresh'
  OBVIOUS
<1>0. TypeOK /\ FreshUntouched
  BY DEF IndInv
<1> USE DEF slotVars, histVars
<1>1. CASE UNCHANGED vars
  BY <1>1 DEF FeedFresh, NotYetAdded, vars
<1>2. ASSUME NEW c \in Clients, Connect(c) PROVE FeedFresh'
  <2>1. CASE Reserve(c) \/ Refuse(c) \/ Upgrade(c) \/ UpgradeFails(c) \/ StartPump(c)
    BY <1>0, <2>1 DEF FeedFresh, FreshUntouched, NotYetAdded, TypeOK,
         Reserve, Refuse, Upgrade, UpgradeFails, StartPump
  <2>2. CASE Add(c)
    BY <1>0, <2>2 DEF FeedFresh, NotYetAdded, TypeOK, Add
  <2> QED BY <1>2, <2>1, <2>2 DEF Connect
<1>3. ASSUME NEW c \in Clients, Serve(c) PROVE FeedFresh'
  <2>1. CASE SyncSend(c)
    BY <1>0, <2>1 DEF FeedFresh, NotYetAdded, TypeOK, SyncSend, SyncSteps, AfterSync
  <2>2. CASE SyncFails(c) \/ SyncSkip(c) \/ ReadFails(c)
    BY <1>0, <2>2 DEF FeedFresh, NotYetAdded, TypeOK, SyncFails, SyncSkip, ReadFails,
         SyncSteps
  <2>3. CASE Ping(c)
    BY <1>0, <2>3 DEF FeedFresh, NotYetAdded, TypeOK, Ping
  <2>4. CASE HandlerRemove(c)
    <3>1. \A d \in Clients : NotYetAdded(d)' => NotYetAdded(d)
      BY <1>0, <2>4 DEF HandlerRemove, NotYetAdded, TypeOK
    <3> QED BY <2>4, <3>1 DEF FeedFresh, HandlerRemove
  <2> QED BY <1>3, <2>1, <2>2, <2>3, <2>4 DEF Serve
<1>4. ASSUME NEW c \in Clients, WritePump(c) PROVE FeedFresh'
  <2>1. ~NotYetAdded(c)
    BY <1>0, <1>4 DEF FreshUntouched, WritePump, PumpTake, PumpWrote, PumpWriteFails,
         PumpStops, PumpRemove
  <2>2. CASE PumpTake(c)
    BY <1>0, <2>1, <2>2 DEF FeedFresh, NotYetAdded, TypeOK, PumpTake
  <2>3. CASE PumpWrote(c)
    BY <1>0, <2>1, <2>3 DEF FeedFresh, NotYetAdded, TypeOK, PumpWrote
  <2>4. CASE PumpWriteFails(c) \/ PumpStops(c)
    BY <1>0, <2>1, <2>4 DEF FeedFresh, NotYetAdded, TypeOK, PumpWriteFails, PumpStops
  <2>5. CASE PumpRemove(c)
    <3>1. pump[c] = "removing" /\ \A d \in Clients : d # c => pump'[d] = pump[d]
      BY <1>0, <2>5 DEF PumpRemove, TypeOK
    <3> QED BY <2>5, <3>1 DEF FeedFresh, NotYetAdded, PumpRemove
  <2> QED BY <1>4, <2>2, <2>3, <2>4, <2>5 DEF WritePump
<1>5. ASSUME NEW b \in Broadcasters, Fanout(b) PROVE FeedFresh'
  <2>1. CASE Broadcast(b)
    <3>1. \A d \in Clients : NotYetAdded(d) => send'[d] = send[d]
      BY <1>0, <2>1 DEF Broadcast, FreshUntouched
    <3> QED BY <1>0, <2>1, <3>1 DEF FeedFresh, NotYetAdded, TypeOK, Broadcast
  <2>2. CASE BroadcastPick(b) \/ BroadcastRemove(b)
    BY <2>2 DEF FeedFresh, NotYetAdded, BroadcastPick, BroadcastRemove
  <2> QED BY <1>5, <2>1, <2>2 DEF Fanout
<1>6. CASE (\E c \in Clients : PeerLeaves(c)) \/ Cancel \/ WaitReturns \/ Finished
  BY <1>6 DEF FeedFresh, NotYetAdded, PeerLeaves, Cancel, WaitReturns, Finished, vars
<1> QED BY <1>1, <1>2, <1>3, <1>4, <1>5, <1>6 DEF Next

(* A step that leaves the messages, the list and the decisions to remove a *)
(* client alone, or ends a decision with the client gone, leaves no gap.   *)
LEMMA FeedFrame ==
  ASSUME GapMeansDropped, UNCHANGED <<send, wire, written, joined, sent>>,
         clients' \subseteq clients,
         \A d \in clients' : Doomed(d) => Doomed(d)'
  PROVE  GapMeansDropped'
<1> SUFFICES ASSUME NEW d \in clients', ~Doomed(d)'
             PROVE  Carries(Feed(d), joined[d], sent)'
  BY DEF GapMeansDropped
<1>1. Carries(Feed(d), joined[d], sent)
  BY DEF GapMeansDropped
<1>2. Feed(d)' = Feed(d)
  BY DEF Feed
<1> QED BY <1>1, <1>2 DEF Carries

(* No step makes a gap in the feed of a client that nobody removes.        *)
LEMMA FeedStep ==
  IndInv /\ IndInv' /\ FeedFresh /\ GapMeansDropped /\ [Next]_vars => GapMeansDropped'
<1> SUFFICES ASSUME IndInv, IndInv', FeedFresh, GapMeansDropped, [Next]_vars
             PROVE  GapMeansDropped'
  OBVIOUS
<1>0. TypeOK /\ FreshUntouched /\ OneCloser /\ NoLeakedClient' /\ StageCoherent
  BY DEF IndInv
<1> USE DEF slotVars, histVars
<1>1. CASE UNCHANGED vars
  BY <1>1, FeedFrame DEF vars, Doomed
<1>2. ASSUME NEW c \in Clients, Connect(c) PROVE GapMeansDropped'
  <2>1. CASE Reserve(c) \/ Refuse(c) \/ Upgrade(c) \/ UpgradeFails(c)
    BY <2>1, FeedFrame DEF Reserve, Refuse, Upgrade, UpgradeFails, Doomed
  <2>2. CASE StartPump(c)
    <3>1. pump[c] # "removing" /\ \A d \in Clients : d # c => pump'[d] = pump[d]
      BY <1>0, <2>2 DEF FreshUntouched, StartPump, TypeOK
    <3> QED BY <1>0, <2>2, <3>1, FeedFrame DEF StartPump, Doomed, TypeOK
  <2>3. CASE Add(c)
    <3>1. /\ send'[c] = <<>> /\ written'[c] = <<>> /\ wire'[c] = NoMsg
          /\ joined'[c] = sent /\ sent' = sent
      BY <1>0, <2>3 DEF Add, FeedFresh, FreshUntouched, NotYetAdded, TypeOK
    <3>2. Carries(Feed(c), joined[c], sent)'
      <4>1. Len(<<>> \o <<NoMsg>> \o <<>>) = 1 /\ (<<>> \o <<NoMsg>> \o <<>>)[1] = NoMsg
        OBVIOUS
      <4>2. Feed(c)' = <<>> \o <<NoMsg>> \o <<>>
        BY <3>1 DEF Feed
      <4>3. Len(Feed(c)') = 1 /\ Feed(c)'[1] = NoMsg
        BY <4>1, <4>2
      <4> HIDE DEF Feed
      <4> QED BY <1>0, <3>1, <4>3, FeedType DEF Carries, InSequence, IsBroadcast, NoMsg
    <3>3. ASSUME NEW d \in clients', d # c, ~Doomed(d)' PROVE Carries(Feed(d), joined[d], sent)'
      <4>1. d \in Clients /\ d \in clients /\ ~Doomed(d)
        BY <1>0, <2>3, <3>3 DEF Add, Doomed, TypeOK
      <4>2. Carries(Feed(d), joined[d], sent)
        BY <4>1 DEF GapMeansDropped
      <4>3. Feed(d)' = Feed(d) /\ joined'[d] = joined[d] /\ sent' = sent
        BY <1>0, <2>3, <3>3, <4>1 DEF Add, Feed, TypeOK
      <4> QED BY <4>2, <4>3 DEF Carries
    <3> QED BY <3>2, <3>3 DEF GapMeansDropped
  <2> QED BY <1>2, <2>1, <2>2, <2>3 DEF Connect
<1>3. ASSUME NEW c \in Clients, Serve(c) PROVE GapMeansDropped'
  <2>1. CASE UNCHANGED send
    <3>1. /\ UNCHANGED <<wire, written, joined, sent, pump, stale, dropping>>
          /\ clients' \subseteq clients
      BY <1>3 DEF Serve, SyncSend, SyncFails, SyncSkip, Ping, ReadFails, HandlerRemove, Remove
    <3> QED BY <2>1, <3>1, FeedFrame DEF Doomed
  <2>2. CASE send' = [send EXCEPT ![c] = Append(@, OwnMsg)]
    <3>1. /\ UNCHANGED <<wire, written, joined, sent, pump, stale, dropping>>
          /\ clients' \subseteq clients
      BY <1>3 DEF Serve, SyncSend, SyncFails, SyncSkip, Ping, ReadFails, HandlerRemove, Remove
    <3> SUFFICES ASSUME NEW d \in clients', ~Doomed(d)'
                 PROVE  Carries(Feed(d), joined[d], sent)'
      BY DEF GapMeansDropped
    <3>2. d \in Clients /\ Carries(Feed(d), joined[d], sent)
      BY <1>0, <3>1 DEF GapMeansDropped, Doomed, TypeOK
    <3>3. CASE d = c
      <4>1. Feed(d)' = written[d] \o <<wire[d]>> \o Append(send[d], OwnMsg)
        BY <1>0, <2>2, <3>1, <3>3 DEF Feed, TypeOK
      <4>2. Carries(Feed(d)', joined[d], sent)
        BY <1>0, <3>2, <4>1, QueueOwn
      <4> QED BY <3>1, <4>2 DEF Carries
    <3>4. CASE d # c
      <4>1. Feed(d)' = Feed(d)
        BY <1>0, <2>2, <3>1, <3>2, <3>4 DEF Feed, TypeOK
      <4> QED BY <3>1, <3>2, <4>1 DEF Carries
    <3> QED BY <3>3, <3>4
  <2> QED BY <1>3, <2>1, <2>2 DEF Serve, SyncSend, SyncFails, SyncSkip, Ping, ReadFails, HandlerRemove
<1>4. ASSUME NEW c \in Clients, WritePump(c) PROVE GapMeansDropped'
  <2>0. c \in Clients /\ UNCHANGED <<joined, sent, stale, dropping>> /\ clients' \subseteq clients
    BY <1>4 DEF WritePump, PumpTake, PumpWrote, PumpWriteFails, PumpStops, PumpRemove, Remove
  <2>1. \A d \in Clients : d # c =>
          /\ pump'[d] = pump[d] /\ send'[d] = send[d]
          /\ wire'[d] = wire[d] /\ written'[d] = written[d]
    BY <1>0, <1>4 DEF WritePump, PumpTake, PumpWrote, PumpWriteFails, PumpStops, PumpRemove,
         TypeOK
  <2>2. ASSUME NEW d \in clients', ~Doomed(d)', d # c
        PROVE  Carries(Feed(d), joined[d], sent)'
    <3>1. d \in Clients /\ d \in clients /\ ~Doomed(d)
      BY <1>0, <2>0, <2>1, <2>2 DEF Doomed, TypeOK
    <3>2. Carries(Feed(d), joined[d], sent) /\ Feed(d)' = Feed(d)
      BY <2>1, <2>2, <3>1 DEF GapMeansDropped, Feed
    <3> QED BY <2>0, <3>2 DEF Carries
  <2>3. ASSUME c \in clients', ~Doomed(c)' PROVE Carries(Feed(c), joined[c], sent)'
    <3> DEFINE w == written[c]
               t == send[c]
    <3>0. w \in Seq(Int) /\ t \in Seq(Int) /\ wire[c] \in Int /\ joined[c] \in Nat /\ sent \in Nat
      BY <1>0, FeedType
    <3>1. CASE PumpTake(c)
      <4>1. ~Doomed(c) /\ wire[c] = NoMsg /\ t # <<>>
        BY <2>0, <2>3, <3>1 DEF PumpTake, Doomed, FeedFresh
      <4>2. Carries(w \o <<NoMsg>> \o t, joined[c], sent)
        BY <2>0, <2>3, <4>1 DEF GapMeansDropped, Feed
      <4>3. Feed(c)' = w \o <<Head(t)>> \o Tail(t)
        BY <1>0, <3>1 DEF PumpTake, Feed, TypeOK
      <4> HIDE DEF w, t
      <4>4. Carries(w \o t, joined[c], sent)
        BY <3>0, <4>2, CarriesSkip DEF NoMsg, IsBroadcast
      <4>5. w \o <<Head(t)>> \o Tail(t) = w \o t
        BY <3>0, <4>1, FeedParts
      <4> QED BY <2>0, <4>3, <4>4, <4>5 DEF Carries
    <3>2. CASE PumpWrote(c)
      <4>1. ~Doomed(c)
        BY <2>0, <2>3, <3>2 DEF PumpWrote, Doomed
      <4>2. Carries(w \o <<wire[c]>> \o t, joined[c], sent)
        BY <2>0, <2>3, <4>1 DEF GapMeansDropped, Feed
      <4>3. Feed(c)' = IF IsBroadcast(wire[c]) THEN Append(w, wire[c]) \o <<NoMsg>> \o t
                                               ELSE w \o <<NoMsg>> \o t
        BY <1>0, <3>2 DEF PumpWrote, Feed, TypeOK
      <4> HIDE DEF w, t
      <4>4. NoMsg \in Int /\ ~IsBroadcast(NoMsg)
        BY DEF NoMsg, IsBroadcast
      <4>5. CASE IsBroadcast(wire[c])
        <5>1. Append(w, wire[c]) \in Seq(Int) /\ Carries(Append(w, wire[c]) \o t, joined[c], sent)
          <6>1. Append(w, wire[c]) \in Seq(Int)
            BY <3>0
          <6>2. w \o <<wire[c]>> \o t = Append(w, wire[c]) \o t
            BY <3>0, FeedParts
          <6> QED BY <4>2, <6>1, <6>2
        <5>2. Carries(Append(w, wire[c]) \o <<NoMsg>> \o t, joined[c], sent)
          BY <3>0, <4>4, <5>1, CarriesSkip
        <5> QED BY <2>0, <4>3, <4>5, <5>2 DEF Carries
      <4>6. CASE ~IsBroadcast(wire[c])
        <5>1. Carries(w \o t, joined[c], sent)
          BY <3>0, <4>2, <4>6, CarriesSkip
        <5>2. Carries(w \o <<NoMsg>> \o t, joined[c], sent)
          BY <3>0, <4>4, <5>1, CarriesSkip
        <5> QED BY <2>0, <4>3, <4>6, <5>2 DEF Carries
      <4> QED BY <4>5, <4>6
    <3>3. CASE PumpWriteFails(c) \/ PumpStops(c)
      BY <1>0, <2>3, <3>3 DEF PumpWriteFails, PumpStops, Doomed, TypeOK
    <3>4. CASE PumpRemove(c)
      BY <1>0, <2>3, <3>4 DEF PumpRemove, Doomed, NoLeakedClient, TypeOK
    <3> QED BY <1>4, <3>1, <3>2, <3>3, <3>4 DEF WritePump
  <2> QED BY <2>2, <2>3 DEF GapMeansDropped
<1>5. ASSUME NEW b \in Broadcasters, Fanout(b) PROVE GapMeansDropped'
  <2>1. CASE Broadcast(b)
    <3> SUFFICES ASSUME NEW d \in clients', ~Doomed(d)'
                 PROVE  Carries(Feed(d), joined[d], sent)'
      BY DEF GapMeansDropped
    <3>1. d \in Clients /\ d \in clients /\ ~Doomed(d) /\ CanSend(d)
      BY <1>0, <2>1 DEF Broadcast, Doomed, TypeOK
    <3>2. Feed(d)' = written[d] \o <<wire[d]>> \o Append(send[d], sent + 1)
      BY <2>1, <3>1 DEF Broadcast, Feed
    <3>3. Carries(Feed(d), joined[d], sent) /\ joined[d] <= sent
      BY <3>1 DEF GapMeansDropped, FeedFresh
    <3>4. Feed(d)' = Append(Feed(d), sent + 1) /\ Feed(d) \in Seq(Int)
      <4>1. sent + 1 \in Int
        BY <1>0 DEF TypeOK
      <4>2. Feed(d) \in Seq(Int)
        BY <1>0, <3>1, FeedType, FeedParts DEF Feed
      <4> QED BY <1>0, <3>1, <3>2, <4>1, <4>2, FeedQueue
    <3>5. Carries(Feed(d)', joined[d], sent + 1)
      <4>1. InSequence(Feed(d), joined[d], sent)
        BY <3>3 DEF Carries
      <4> QED BY <1>0, <3>1, <3>3, <3>4, <4>1, FeedType, CarriesNext
    <3>6. joined' = joined /\ sent' = sent + 1
      BY <2>1 DEF Broadcast
    <3> QED BY <3>5, <3>6 DEF Carries
  <2>2. CASE BroadcastPick(b)
    <3>1. /\ UNCHANGED <<send, wire, written, joined, sent, clients, pump>>
          /\ \A a \in Broadcasters : a # b => stale'[a] = stale[a] /\ dropping'[a] = dropping[a]
          /\ dropping[b] = NoClient
          /\ \A d \in stale[b] : d \in stale'[b] \/ dropping'[b] = d
      BY <1>0, <2>2 DEF BroadcastPick, TypeOK
    <3>2. \A d \in clients' : Doomed(d) => Doomed(d)'
      BY <1>0, <3>1, HubAssumption DEF Doomed, NoClient, TypeOK
    <3> QED BY <3>1, <3>2, FeedFrame
  <2>3. CASE BroadcastRemove(b)
    <3>1. dropping[b] \in Clients /\ BroadcastOf(b) \in Removers
      BY <1>0, <2>3, RemoversDistinct DEF BroadcastRemove, TypeOK
    <3>2. \A d \in clients' : dropping[b] = d => dropping'[b] = d
      <4>1. Targets(BroadcastOf(b), dropping[b]) /\ Remove(BroadcastOf(b), dropping[b])
        BY <2>3 DEF Targets, BroadcastRemove
      <4>2. Returned(BroadcastOf(b)) => dropping[b] \notin clients'
        BY <3>1, <4>1, RemoveReturns
      <4> QED BY <1>0, <2>3, <4>2 DEF BroadcastRemove, TypeOK
    <3> QED BY <1>0, <2>3, <3>2, FeedFrame DEF BroadcastRemove, Remove, Doomed, TypeOK
  <2> QED BY <1>5, <2>1, <2>2, <2>3 DEF Fanout
<1>6. CASE (\E c \in Clients : PeerLeaves(c)) \/ Cancel \/ WaitReturns \/ Finished
  BY <1>6, FeedFrame DEF PeerLeaves, Cancel, WaitReturns, Finished, vars, Doomed
<1> QED BY <1>1, <1>2, <1>3, <1>4, <1>5, <1>6 DEF Next

(* A slow client is dropped, never silently skipped: what a client that    *)
(* nobody removes has been sent, is being sent or has queued is every      *)
(* broadcast since its registration, in order.                             *)
THEOREM SlowMeansDropped == Spec => []GapMeansDropped
<1>1. Init => FeedFresh /\ GapMeansDropped
  BY DEF Init, FeedFresh, GapMeansDropped
<1> QED BY <1>1, FeedFreshStep, FeedStep, Inductive, PTL DEF Spec

(* No step sends a client a broadcast twice or after a later one, whoever  *)
(* is removing it.                                                         *)
LEMMA SortedStep == IndInv /\ FeedFresh /\ FeedSorted /\ [Next]_vars => FeedSorted'
<1> SUFFICES ASSUME IndInv, FeedFresh, FeedSorted, [Next]_vars, NEW d \in Clients
             PROVE  /\ InSequence(Feed(d)', joined'[d], sent')
                    /\ \A i \in 1 .. Len(written'[d]) : IsBroadcast(written'[d][i])
  BY DEF FeedSorted, InSequence
<1>0. TypeOK /\ FreshUntouched
  BY DEF IndInv
<1> DEFINE w == written[d]
           t == send[d]
           lo == joined[d]
<1>1. /\ w \in Seq(Int) /\ t \in Seq(Int) /\ wire[d] \in Int
      /\ lo \in Nat /\ sent \in Nat /\ lo <= sent
  BY <1>0, FeedType DEF FeedFresh
<1>2. InSequence(Feed(d), lo, sent) /\ Feed(d) = w \o <<wire[d]>> \o t
  BY DEF FeedSorted, Feed
<1>3. \A i \in 1 .. Len(w) : IsBroadcast(w[i])
  BY DEF FeedSorted
<1>4. NoMsg \in Int /\ ~IsBroadcast(NoMsg)
  BY DEF NoMsg, IsBroadcast
<1> USE DEF slotVars, histVars
<1>5. CASE UNCHANGED <<send, wire, written, joined, sent>>
  <2>1. Feed(d)' = Feed(d)
    BY <1>5 DEF Feed
  <2> QED BY <1>2, <1>3, <1>5, <2>1
<1>6. ASSUME NEW c \in Clients, Add(c)
      PROVE  InSequence(Feed(d)', joined'[d], sent') /\ written' = written
  <2>1. CASE d = c
    <3>1. /\ send'[d] = <<>> /\ written'[d] = <<>> /\ wire'[d] = NoMsg
      BY <1>0, <1>6, <2>1 DEF Add, FeedFresh, FreshUntouched, NotYetAdded, TypeOK
    <3>2. Len(<<>> \o <<NoMsg>> \o <<>>) = 1 /\ (<<>> \o <<NoMsg>> \o <<>>)[1] = NoMsg
      OBVIOUS
    <3>3. Feed(d)' = <<>> \o <<NoMsg>> \o <<>>
      BY <3>1 DEF Feed
    <3>4. Len(Feed(d)') = 1 /\ Feed(d)'[1] = NoMsg
      BY <3>2, <3>3
    <3> HIDE DEF Feed
    <3> QED BY <1>4, <1>6, <3>4 DEF Add, InSequence
  <2>2. CASE d # c
    <3>1. Feed(d)' = Feed(d) /\ joined'[d] = lo /\ sent' = sent
      BY <1>0, <1>6, <2>2 DEF Add, Feed, TypeOK
    <3> QED BY <1>2, <1>6, <3>1 DEF Add
  <2> QED BY <2>1, <2>2
<1>7. ASSUME NEW c \in Clients, send' = [send EXCEPT ![c] = Append(@, OwnMsg)],
             UNCHANGED <<wire, written, joined, sent>>
      PROVE  InSequence(Feed(d)', lo, sent)
  <2>1. CASE d = c
    <3>1. Feed(d)' = written[d] \o <<wire[d]>> \o Append(send[d], OwnMsg)
      BY <1>0, <1>7, <2>1 DEF Feed, TypeOK
    <3> QED BY <1>0, <1>2, <3>1, QueueOwn
  <2>2. CASE d # c
    <3>1. Feed(d)' = Feed(d)
      BY <1>0, <1>7, <2>2 DEF Feed, TypeOK
    <3> QED BY <1>2, <3>1
  <2> QED BY <2>1, <2>2
<1>8. ASSUME NEW c \in Clients, PumpTake(c)
      PROVE  InSequence(Feed(d)', lo, sent)
  <2>1. CASE d = c
    <3>1. wire[d] = NoMsg /\ t # <<>>
      BY <1>8, <2>1 DEF PumpTake, FeedFresh
    <3>2. Feed(d)' = w \o <<Head(t)>> \o Tail(t)
      BY <1>0, <1>8, <2>1 DEF PumpTake, Feed, TypeOK
    <3> HIDE DEF w, t, lo
    <3>3. InSequence(w \o t, lo, sent)
      BY <1>1, <1>2, <1>4, <3>1, CarriesSkip
    <3>4. w \o <<Head(t)>> \o Tail(t) = w \o t
      BY <1>1, <3>1, FeedParts
    <3> QED BY <3>2, <3>3, <3>4
  <2>2. CASE d # c
    <3>1. Feed(d)' = Feed(d)
      BY <1>0, <1>8, <2>2 DEF PumpTake, Feed, TypeOK
    <3> QED BY <1>2, <3>1
  <2> QED BY <2>1, <2>2
<1>9. ASSUME NEW c \in Clients, PumpWrote(c)
      PROVE  /\ InSequence(Feed(d)', lo, sent)
             /\ \A i \in 1 .. Len(written'[d]) : IsBroadcast(written'[d][i])
  <2>1. CASE d = c /\ IsBroadcast(wire[d])
    <3>1. Feed(d)' = Append(w, wire[d]) \o <<NoMsg>> \o t /\ written'[d] = Append(w, wire[d])
      BY <1>0, <1>9, <2>1 DEF PumpWrote, Feed, TypeOK
    <3> HIDE DEF w, t, lo
    <3>2. Append(w, wire[d]) \in Seq(Int)
      BY <1>1
    <3>3. InSequence(Append(w, wire[d]) \o t, lo, sent)
      <4>1. w \o <<wire[d]>> \o t = Append(w, wire[d]) \o t
        BY <1>1, FeedParts
      <4> QED BY <1>2, <4>1
    <3>4. InSequence(Append(w, wire[d]) \o <<NoMsg>> \o t, lo, sent)
      BY <1>1, <1>4, <3>2, <3>3, CarriesSkip
    <3>5. \A i \in 1 .. Len(Append(w, wire[d])) : IsBroadcast(Append(w, wire[d])[i])
      BY <1>1, <1>3, <2>1
    <3> QED BY <3>1, <3>4, <3>5
  <2>2. CASE d = c /\ ~IsBroadcast(wire[d])
    <3>1. Feed(d)' = w \o <<NoMsg>> \o t /\ written'[d] = w
      BY <1>0, <1>9, <2>2 DEF PumpWrote, Feed, TypeOK
    <3> HIDE DEF w, t, lo
    <3>2. InSequence(w \o <<NoMsg>> \o t, lo, sent)
      BY <1>1, <1>2, <1>4, OrderLoses
    <3> QED BY <1>3, <3>1, <3>2
  <2>3. CASE d # c
    <3>1. Feed(d)' = Feed(d) /\ written'[d] = w
      BY <1>0, <1>9, <2>3 DEF PumpWrote, Feed, TypeOK
    <3> QED BY <1>2, <1>3, <3>1
  <2> QED BY <2>1, <2>2, <2>3
<1>10. ASSUME NEW c \in Clients, PumpWriteFails(c)
       PROVE  InSequence(Feed(d)', lo, sent)
  <2>1. CASE d = c
    <3>1. Feed(d)' = w \o <<NoMsg>> \o t
      BY <1>0, <1>10, <2>1 DEF PumpWriteFails, Feed, TypeOK
    <3> HIDE DEF w, t, lo
    <3> QED BY <1>1, <1>2, <1>4, <3>1, OrderLoses
  <2>2. CASE d # c
    <3>1. Feed(d)' = Feed(d)
      BY <1>0, <1>10, <2>2 DEF PumpWriteFails, Feed, TypeOK
    <3> QED BY <1>2, <3>1
  <2> QED BY <2>1, <2>2
<1>11. ASSUME NEW b \in Broadcasters, Broadcast(b)
       PROVE  InSequence(Feed(d)', lo, sent + 1)
  <2>1. Feed(d) \in Seq(Int) /\ sent + 1 \in Int
    BY <1>1, <1>2, FeedParts
  <2>2. CASE d \in clients /\ CanSend(d)
    <3>1. Feed(d)' = written[d] \o <<wire[d]>> \o Append(send[d], sent + 1)
      BY <1>11, <2>2 DEF Broadcast, Feed
    <3>2. Feed(d)' = Append(Feed(d), sent + 1)
      BY <1>0, <2>1, <3>1, FeedQueue
    <3> HIDE DEF lo
    <3> QED BY <1>1, <1>2, <2>1, <3>2, CarriesNext
  <2>3. CASE ~(d \in clients /\ CanSend(d))
    <3>1. Feed(d)' = Feed(d)
      BY <1>11, <2>3 DEF Broadcast, Feed
    <3> HIDE DEF lo
    <3> QED BY <1>1, <1>2, <2>1, <3>1, CarriesNext
  <2> QED BY <2>2, <2>3
<1>12. \A c \in Clients : PumpTake(c) \/ PumpWriteFails(c) => UNCHANGED <<written, joined, sent>>
  BY DEF PumpTake, PumpWriteFails
<1>13. \A c \in Clients : PumpWrote(c) => UNCHANGED <<joined, sent>>
  BY DEF PumpWrote
<1>14. \A b \in Broadcasters : Broadcast(b) => UNCHANGED <<written, joined>> /\ sent' = sent + 1
  BY DEF Broadcast
<1> HIDE DEF w, t, lo
<1>15. CASE \E c \in Clients : Add(c)
  BY <1>3, <1>6, <1>15 DEF w
<1>16. CASE \E c \in Clients : /\ send' = [send EXCEPT ![c] = Append(@, OwnMsg)]
                                 /\ UNCHANGED <<wire, written, joined, sent>>
  BY <1>3, <1>7, <1>16 DEF w, lo
<1>17. CASE \E c \in Clients : PumpTake(c) \/ PumpWriteFails(c)
  BY <1>3, <1>8, <1>10, <1>12, <1>17 DEF w, lo
<1>18. CASE \E c \in Clients : PumpWrote(c)
  BY <1>9, <1>13, <1>18 DEF lo
<1>19. CASE \E b \in Broadcasters : Broadcast(b)
  BY <1>3, <1>11, <1>14, <1>19 DEF w, lo
<1>20. ASSUME NEW c \in Clients, Connect(c) \/ PeerLeaves(c), ~Add(c)
       PROVE  UNCHANGED <<send, wire, written, joined, sent>>
  BY <1>20 DEF Connect, Reserve, Refuse, Upgrade, UpgradeFails, StartPump, PeerLeaves
<1>21. ASSUME NEW c \in Clients, Serve(c)
       PROVE  /\ UNCHANGED <<wire, written, joined, sent>>
              /\ UNCHANGED send \/ send' = [send EXCEPT ![c] = Append(@, OwnMsg)]
  BY <1>21 DEF Serve, SyncSend, SyncFails, SyncSkip, Ping, ReadFails, HandlerRemove
<1>22. ASSUME NEW c \in Clients, PumpStops(c) \/ PumpRemove(c)
       PROVE  UNCHANGED <<send, wire, written, joined, sent>>
  BY <1>22 DEF PumpStops, PumpRemove
<1>23. ASSUME NEW b \in Broadcasters, BroadcastPick(b) \/ BroadcastRemove(b)
       PROVE  UNCHANGED <<send, wire, written, joined, sent>>
  BY <1>23 DEF BroadcastPick, BroadcastRemove
<1>24. ASSUME Cancel \/ WaitReturns \/ Finished \/ UNCHANGED vars
       PROVE  UNCHANGED <<send, wire, written, joined, sent>>
  BY <1>24 DEF Cancel, WaitReturns, Finished, vars
<1>25. \/ UNCHANGED <<send, wire, written, joined, sent>>
       \/ \E c \in Clients : Add(c)
       \/ \E c \in Clients : /\ send' = [send EXCEPT ![c] = Append(@, OwnMsg)]
                              /\ UNCHANGED <<wire, written, joined, sent>>
       \/ \E c \in Clients : PumpTake(c) \/ PumpWriteFails(c)
       \/ \E c \in Clients : PumpWrote(c)
       \/ \E b \in Broadcasters : Broadcast(b)
  BY <1>20, <1>21, <1>22, <1>23, <1>24 DEF Next, WritePump, Fanout
<1> QED BY <1>5, <1>15, <1>16, <1>17, <1>18, <1>19, <1>25

(* Any client, one that is being removed included, is sent broadcasts in   *)
(* the order of the Broadcast calls and none of them twice.                *)
THEOREM NeverBackwards == Spec => []FeedSorted
<1>1. Init => FeedFresh
  BY DEF Init, FeedFresh
<1>2. Init => FeedSorted
  <2> SUFFICES ASSUME Init, NEW d \in Clients
               PROVE  InSequence(Feed(d), joined[d], sent) /\ Len(written[d]) = 0
    BY DEF FeedSorted
  <2>1. Feed(d) = <<>> \o <<NoMsg>> \o <<>> /\ written[d] = <<>>
    BY DEF Init, Feed
  <2>2. Len(<<>> \o <<NoMsg>> \o <<>>) = 1 /\ (<<>> \o <<NoMsg>> \o <<>>)[1] = NoMsg
    OBVIOUS
  <2>3. Len(Feed(d)) = 1 /\ Feed(d)[1] = NoMsg
    BY <2>1, <2>2
  <2>4. InSequence(Feed(d), joined[d], sent)
    <3> HIDE DEF Feed
    <3> QED BY <2>3 DEF InSequence, IsBroadcast, NoMsg
  <2> QED BY <2>1, <2>4
<1> QED BY <1>1, <1>2, FeedFreshStep, SortedStep, Inductive, PTL DEF Spec

(* The hub implements the bounded connection pool.                         *)
THEOREM HubImplementsPool == Spec => ImplementsPool
<1>1. Init => Pool!PoolInit
  BY DEF Init, Pool!PoolInit, Holders, Released, Reserved
<1>2. IndInv /\ [Next]_vars => [Pool!PoolNext]_(Pool!poolVars)
  <2> SUFFICES ASSUME IndInv, [Next]_vars PROVE [Pool!PoolNext]_(Pool!poolVars)
    OBVIOUS
  <2>1. SlotMove /\ connections = Cardinality(Holders)
    BY SlotStep DEF IndInv, SlotAccounting
  <2>2. CASE SlotsSame
    BY <2>2 DEF SlotsSame, Pool!poolVars
  <2>3. ASSUME NEW c \in Clients, SlotTaken(c) PROVE Pool!PoolNext
    <3>1. Pool!Cardinality(Holders) = Cardinality(Holders)
      BY DEF Pool!Cardinality, Cardinality
    <3> QED BY <2>1, <2>3, <3>1 DEF SlotTaken, Pool!PoolNext, Pool!Acquire
  <2>4. ASSUME NEW c \in Clients, SlotFreed(c) PROVE Pool!PoolNext
    BY <2>4 DEF SlotFreed, Pool!PoolNext, Pool!Release
  <2> QED BY <2>1, <2>2, <2>3, <2>4 DEF SlotMove
<1> QED BY <1>1, <1>2, Inductive, PTL DEF Spec, ImplementsPool, Pool!PoolSpec

-----------------------------------------------------------------------------
(* The hub keeps the promise of Feeds                                      *)

(* A step that leaves every viewer's standing and history alone is a       *)
(* stuttering step of the promise.                                         *)
LEMMA FeedStutters ==
  ASSUME UNCHANGED <<sent, joined, written>>,
         \A d \in Clients : Standing(d)' = Standing(d)
  PROVE  UNCHANGED Delivery!feedVars
<1>1. [d \in Clients |-> Standing(d)]' = [d \in Clients |-> Standing(d)]
  OBVIOUS
<1>2. [d \in Clients |-> LastOf(joined[d], written[d])]'
        = [d \in Clients |-> LastOf(joined[d], written[d])]
  BY DEF LastOf
<1> QED BY <1>1, <1>2 DEF Delivery!feedVars

(* A step after which only client c has left is a Leave.                   *)
LEMMA FeedLeaves ==
  ASSUME NEW c \in Clients, UNCHANGED <<sent, joined, written>>,
         Standing(c) # "left", Standing(c)' = "left",
         \A d \in Clients : d # c => Standing(d)' = Standing(d)
  PROVE  Delivery!Leave(c)
<1>1. [d \in Clients |-> Standing(d)]'
        = [[d \in Clients |-> Standing(d)] EXCEPT ![c] = "left"]
  OBVIOUS
<1>2. [d \in Clients |-> LastOf(joined[d], written[d])]'
        = [d \in Clients |-> LastOf(joined[d], written[d])]
  BY DEF LastOf
<1> QED BY <1>1, <1>2 DEF Delivery!Leave

(* A step inside Remove that takes client c out of the list is a Leave;    *)
(* the others change no viewer's standing.                                 *)
LEMMA RemoveStanding ==
  ASSUME IndInv, NEW a \in Removers, NEW c \in Clients, Remove(a, c),
         UNCHANGED <<sent, joined, written>>,
         \A d \in Clients : NotYetAdded(d)' <=> NotYetAdded(d),
         \A d \in Clients : d \in clients' => (Lagging(d)' <=> Lagging(d))
  PROVE  Delivery!Leave(c) \/ UNCHANGED Delivery!feedVars
<1>1. \/ clients' = clients
      \/ c \in clients /\ clients' = clients \ {c}
  BY DEF Remove
<1>2. CASE clients' = clients
  <2>1. \A d \in Clients : Standing(d)' = Standing(d)
    BY <1>2 DEF Standing
  <2> QED BY <2>1, FeedStutters
<1>3. CASE c \in clients /\ clients' = clients \ {c}
  <2>1. ~NotYetAdded(c)
    BY <1>3 DEF IndInv, FreshUntouched
  <2>2. Standing(c) # "left" /\ Standing(c)' = "left"
    BY <1>3, <2>1 DEF Standing
  <2>3. \A d \in Clients : d # c => Standing(d)' = Standing(d)
    BY <1>3 DEF Standing
  <2> QED BY <2>2, <2>3, FeedLeaves
<1> QED BY <1>1, <1>2, <1>3

(* Registering a client is a Join: it has missed nothing and got nothing.  *)
LEMMA AddJoins ==
  ASSUME IndInv, FeedFresh, NEW c \in Clients, Add(c)
  PROVE  Delivery!Join(c)
<1>0. TypeOK /\ FreshUntouched
  BY DEF IndInv
<1>1. NotYetAdded(c) /\ ~Lagging(c) /\ written[c] = <<>>
  BY <1>0 DEF Add, NotYetAdded, Lagging, FreshUntouched, FeedFresh
<1>2. /\ \A d \in Clients : Lagging(d)' <=> Lagging(d)
      /\ \A d \in Clients : d # c => /\ NotYetAdded(d)' <=> NotYetAdded(d)
                                     /\ d \in clients' <=> d \in clients
      /\ ~NotYetAdded(c)' /\ c \in clients'
  BY <1>0 DEF Add, Lagging, NotYetAdded, TypeOK
<1>3. Standing(c) = "out" /\ Standing(c)' = "in"
  BY <1>1, <1>2 DEF Standing
<1>4. \A d \in Clients : d # c => Standing(d)' = Standing(d)
  BY <1>2 DEF Standing
<1>5. [d \in Clients |-> Standing(d)]'
        = [[d \in Clients |-> Standing(d)] EXCEPT ![c] = "in"]
  BY <1>3, <1>4
<1>6. /\ written' = written /\ sent' = sent /\ joined'[c] = sent
      /\ \A d \in Clients : d # c => joined'[d] = joined[d]
  BY <1>0 DEF Add, TypeOK
<1>7. [d \in Clients |-> LastOf(joined[d], written[d])]'
        = [[d \in Clients |-> LastOf(joined[d], written[d])] EXCEPT ![c] = sent]
  BY <1>1, <1>6 DEF LastOf
<1> QED BY <1>3, <1>5, <1>6, <1>7 DEF Delivery!Join

(* A broadcast that has been written is a Deliver: a later one than all    *)
(* before, and the very next one unless the client is lagging or left.     *)
LEMMA WroteDelivers ==
  ASSUME IndInv, GapMeansDropped, FeedSorted, NEW c \in Clients, PumpWrote(c),
         IsBroadcast(wire[c])
  PROVE  wire[c] \in 1 .. sent /\ Delivery!Deliver(c, wire[c])
<1>0. TypeOK /\ FreshUntouched
  BY DEF IndInv
<1> DEFINE w == written[c]
           t == send[c]
           lo == joined[c]
           n == wire[c]
<1>1. /\ w \in Seq(Int) /\ t \in Seq(Int) /\ n \in Int /\ lo \in Nat /\ sent \in Nat
      /\ IsBroadcast(n)
  BY <1>0, FeedType
<1>2. InSequence(w \o <<n>> \o t, lo, sent) /\ \A i \in 1 .. Len(w) : IsBroadcast(w[i])
  BY DEF FeedSorted, Feed
<1>3. Standing(c) = "in" => Carries(w \o <<n>> \o t, lo, sent)
  <2>1. Standing(c) = "in" => c \in clients /\ ~Lagging(c)
    BY DEF Standing
  <2>2. Standing(c) = "in" => c \in clients /\ ~Doomed(c)
    BY <2>1 DEF PumpWrote, Lagging, Doomed
  <2> QED BY <2>2 DEF GapMeansDropped, Feed
<1>4. Standing(c) # "out"
  <2>1. ~NotYetAdded(c)
    BY <1>0 DEF PumpWrote, FreshUntouched
  <2> QED BY <2>1 DEF Standing
<1>5. \A d \in Clients : Standing(d)' = Standing(d)
  BY DEF PumpWrote, Standing, NotYetAdded, Lagging, slotVars
<1>6. [d \in Clients |-> Standing(d)]' = [d \in Clients |-> Standing(d)]
  BY <1>5
<1>7. /\ joined' = joined /\ sent' = sent /\ written'[c] = Append(w, n)
      /\ \A d \in Clients : d # c => written'[d] = written[d]
  BY <1>0 DEF PumpWrote, TypeOK
<1>8. LastOf(lo, Append(w, n)) = n
  <2> HIDE DEF w, lo, n
  <2> QED BY <1>1 DEF LastOf
<1>9. [d \in Clients |-> LastOf(joined[d], written[d])]'
        = [[d \in Clients |-> LastOf(joined[d], written[d])] EXCEPT ![c] = n]
  <2>1. \A d \in Clients : d # c => LastOf(joined[d], written[d])' = LastOf(joined[d], written[d])
    BY <1>7 DEF LastOf
  <2>2. LastOf(joined[c], written[c])' = n
    BY <1>7, <1>8 DEF LastOf
  <2> QED BY <2>1, <2>2
<1>10. /\ LastOf(lo, w) < n /\ n <= sent /\ LastOf(lo, w) \in Nat
       /\ Standing(c) = "in" => n = LastOf(lo, w) + 1
  <2> HIDE DEF w, t, lo, n
  <2> QED BY <1>1, <1>2, <1>3, FeedGoesOn
<1>11. n \in 1 .. sent
  BY <1>1, <1>10
<1> QED BY <1>4, <1>6, <1>7, <1>9, <1>10, <1>11 DEF Delivery!Deliver

(* A Broadcast is a Publish: the clients it could not queue the event for  *)
(* are the ones that fall behind, those that had not before.               *)
LEMMA BroadcastPublishes ==
  ASSUME IndInv, NEW b \in Broadcasters, Broadcast(b)
  PROVE  \E slow \in SUBSET Clients : Delivery!Publish(slow)
<1>0. TypeOK /\ FreshUntouched
  BY DEF IndInv
<1> DEFINE slow == {d \in clients : ~CanSend(d) /\ ~Lagging(d)}
<1>1. slow \subseteq Clients
  BY <1>0 DEF TypeOK
<1>2. \A d \in Clients : /\ NotYetAdded(d)' <=> NotYetAdded(d)
                         /\ d \in clients' <=> d \in clients
                         /\ d \in clients => ~NotYetAdded(d)
  BY <1>0 DEF Broadcast, NotYetAdded, FreshUntouched, slotVars
<1>3. \A d \in Clients : Lagging(d)' <=> (Lagging(d) \/ (d \in clients /\ ~CanSend(d)))
  <2>1. /\ dropping' = dropping /\ stale[b] = {}
        /\ stale'[b] = {d \in clients : ~CanSend(d)}
        /\ \A e \in Broadcasters : e # b => stale'[e] = stale[e]
    BY <1>0 DEF Broadcast, TypeOK
  <2> HIDE DEF CanSend
  <2> QED BY <2>1 DEF Lagging
<1>4. \A d \in slow : Standing(d) = "in"
  BY <1>0, <1>2 DEF Standing, TypeOK
<1>5. \A d \in Clients : Standing(d)' = IF d \in slow THEN "lagging" ELSE Standing(d)
  BY <1>2, <1>3 DEF Standing
<1>6. [d \in Clients |-> Standing(d)]'
        = [d \in Clients |-> IF d \in slow THEN "lagging"
                              ELSE [e \in Clients |-> Standing(e)][d]]
  BY <1>5
<1>7. joined' = joined /\ written' = written /\ sent' = sent + 1
  BY DEF Broadcast
<1>8. [d \in Clients |-> LastOf(joined[d], written[d])]'
        = [d \in Clients |-> LastOf(joined[d], written[d])]
  BY <1>7 DEF LastOf
<1>9. \A d \in slow : [e \in Clients |-> Standing(e)][d] = "in"
  BY <1>1, <1>4
<1>10. Delivery!Publish(slow)
  <2> HIDE DEF slow
  <2> QED BY <1>6, <1>7, <1>8, <1>9 DEF Delivery!Publish
<1> QED BY <1>1, <1>10

(* Every step of the hub is one of the promise, or changes nothing in it.  *)
LEMMA DeliveryStep ==
  ASSUME IndInv, FeedFresh, GapMeansDropped, FeedSorted, [Next]_vars
  PROVE  [Delivery!FeedNext]_(Delivery!feedVars)
<1>0. TypeOK /\ FreshUntouched
  BY DEF IndInv
<1> USE DEF slotVars, histVars
<1>1. ASSUME NEW c \in Clients, Connect(c) PROVE [Delivery!FeedNext]_(Delivery!feedVars)
  <2>1. CASE Add(c)
    BY <2>1, AddJoins DEF Delivery!FeedNext
  <2>2. CASE UpgradeFails(c)
    <3>1. NotYetAdded(c) /\ ~NotYetAdded(c)' /\ c \notin clients'
      BY <1>0, <2>2 DEF UpgradeFails, NotYetAdded, FreshUntouched, TypeOK
    <3>2. Standing(c) # "left" /\ Standing(c)' = "left"
      BY <3>1 DEF Standing
    <3>3. \A d \in Clients : d # c => Standing(d)' = Standing(d)
      BY <1>0, <2>2 DEF UpgradeFails, Standing, NotYetAdded, Lagging, TypeOK
    <3>4. UNCHANGED <<sent, joined, written>>
      BY <2>2 DEF UpgradeFails
    <3>5. Delivery!Leave(c)
      BY <3>2, <3>3, <3>4, FeedLeaves
    <3> QED BY <3>5 DEF Delivery!FeedNext
  <2>3. CASE Reserve(c) \/ Refuse(c) \/ Upgrade(c) \/ StartPump(c)
    <3>1. \A d \in Clients : NotYetAdded(d)' <=> NotYetAdded(d)
      BY <1>0, <2>3 DEF Reserve, Refuse, Upgrade, StartPump, NotYetAdded, TypeOK
    <3>2. \A d \in Clients : Standing(d)' = Standing(d)
      BY <2>3, <3>1 DEF Reserve, Refuse, Upgrade, StartPump, Standing, Lagging
    <3>3. UNCHANGED <<sent, joined, written>>
      BY <2>3 DEF Reserve, Refuse, Upgrade, StartPump
    <3> QED BY <3>2, <3>3, FeedStutters
  <2> QED BY <1>1, <2>1, <2>2, <2>3 DEF Connect
<1>2. ASSUME NEW c \in Clients, Serve(c) PROVE [Delivery!FeedNext]_(Delivery!feedVars)
  <2>1. \A d \in Clients : NotYetAdded(d)' <=> NotYetAdded(d)
    <3>1. CASE SyncSend(c)
      BY <1>0, <3>1 DEF SyncSend, SyncSteps, AfterSync, NotYetAdded, TypeOK
    <3>2. CASE SyncFails(c) \/ SyncSkip(c) \/ ReadFails(c) \/ Ping(c)
      BY <1>0, <3>2 DEF SyncFails, SyncSkip, ReadFails, Ping, SyncSteps, NotYetAdded, TypeOK
    <3>3. CASE HandlerRemove(c)
      BY <1>0, <3>3 DEF HandlerRemove, NotYetAdded, TypeOK
    <3> QED BY <1>2, <3>1, <3>2, <3>3 DEF Serve
  <2>2. UNCHANGED <<sent, joined, written, stale, dropping>>
    BY <1>2 DEF Serve, SyncSend, SyncFails, SyncSkip, Ping, ReadFails, HandlerRemove
  <2>3. \A d \in Clients : Lagging(d)' <=> Lagging(d)
    BY <2>2 DEF Lagging
  <2>4. CASE HandlerRemove(c)
    <3>1. HandlerOf(c) \in Removers /\ Remove(HandlerOf(c), c)
      BY <2>4, RemoversDistinct DEF HandlerRemove
    <3>2. Delivery!Leave(c) \/ UNCHANGED Delivery!feedVars
      BY <2>1, <2>2, <2>3, <3>1, RemoveStanding
    <3> QED BY <3>2 DEF Delivery!FeedNext
  <2>5. CASE ~HandlerRemove(c)
    <3>1. clients' = clients
      BY <1>2, <2>5 DEF Serve, SyncSend, SyncFails, SyncSkip, Ping, ReadFails
    <3>2. \A d \in Clients : Standing(d)' = Standing(d)
      BY <2>1, <2>3, <3>1 DEF Standing
    <3> QED BY <2>2, <3>2, FeedStutters
  <2> QED BY <2>4, <2>5
<1>3. ASSUME NEW c \in Clients, WritePump(c) PROVE [Delivery!FeedNext]_(Delivery!feedVars)
  <2>1. UNCHANGED <<sent, joined, stale, dropping, handler>>
    BY <1>3 DEF WritePump, PumpTake, PumpWrote, PumpWriteFails, PumpStops, PumpRemove
  <2>2. \A d \in Clients : /\ NotYetAdded(d)' <=> NotYetAdded(d)
                           /\ Lagging(d)' <=> Lagging(d)
    BY <2>1 DEF NotYetAdded, Lagging
  <2>3. CASE PumpRemove(c)
    <3>1. PumpOf(c) \in Removers /\ Remove(PumpOf(c), c) /\ UNCHANGED written
      BY <2>3, RemoversDistinct DEF PumpRemove
    <3>2. Delivery!Leave(c) \/ UNCHANGED Delivery!feedVars
      BY <2>1, <2>2, <3>1, RemoveStanding
    <3> QED BY <3>2 DEF Delivery!FeedNext
  <2>4. CASE PumpWrote(c) /\ IsBroadcast(wire[c])
    BY <2>4, WroteDelivers DEF Delivery!FeedNext
  <2>5. CASE ~PumpRemove(c) /\ ~(PumpWrote(c) /\ IsBroadcast(wire[c]))
    <3>1. clients' = clients /\ written' = written
      BY <1>3, <2>5 DEF WritePump, PumpTake, PumpWrote, PumpWriteFails, PumpStops
    <3>2. \A d \in Clients : Standing(d)' = Standing(d)
      BY <2>2, <3>1 DEF Standing
    <3> QED BY <2>1, <3>1, <3>2, FeedStutters
  <2> QED BY <2>3, <2>4, <2>5
<1>4. ASSUME NEW b \in Broadcasters, Fanout(b) PROVE [Delivery!FeedNext]_(Delivery!feedVars)
  <2>1. CASE Broadcast(b)
    BY <2>1, BroadcastPublishes DEF Delivery!FeedNext
  <2>2. CASE BroadcastPick(b)
    <3>1. PICK c \in stale[b] : /\ stale' = [stale EXCEPT ![b] = @ \ {c}]
                                /\ dropping' = [dropping EXCEPT ![b] = c]
      BY <2>2 DEF BroadcastPick
    <3>2. /\ \A e \in Broadcasters : e # b => stale'[e] = stale[e] /\ dropping'[e] = dropping[e]
          /\ stale'[b] = stale[b] \ {c} /\ dropping'[b] = c /\ dropping[b] = NoClient
          /\ \A d \in Clients : d # NoClient
      BY <1>0, <2>2, <3>1, HubAssumption DEF BroadcastPick, TypeOK, NoClient
    <3>3. \A d \in Clients : Lagging(d)' <=> Lagging(d)
      BY <3>2 DEF Lagging
    <3>4. UNCHANGED <<sent, joined, written, clients, handler>>
      BY <2>2 DEF BroadcastPick
    <3>5. \A d \in Clients : Standing(d)' = Standing(d)
      BY <3>3, <3>4 DEF Standing, NotYetAdded
    <3> QED BY <3>4, <3>5, FeedStutters
  <2>3. CASE BroadcastRemove(b)
    <3>1. dropping[b] \in Clients /\ BroadcastOf(b) \in Removers
      BY <1>0, <2>3, RemoversDistinct DEF BroadcastRemove, TypeOK
    <3>2. Targets(BroadcastOf(b), dropping[b]) /\ Remove(BroadcastOf(b), dropping[b])
      BY <2>3 DEF Targets, BroadcastRemove
    <3>3. Returned(BroadcastOf(b)) => dropping[b] \notin clients'
      BY <3>1, <3>2, RemoveReturns DEF IndInv
    <3>4. /\ UNCHANGED <<sent, joined, written, stale, handler>>
          /\ \A e \in Broadcasters : e # b => dropping'[e] = dropping[e]
          /\ dropping'[b] = dropping[b] \/ (Returned(BroadcastOf(b)) /\ dropping'[b] = NoClient)
          /\ \A d \in Clients : d # NoClient
      BY <1>0, <2>3, HubAssumption DEF BroadcastRemove, TypeOK, NoClient
    <3>5. \A d \in Clients : d \in clients' => (Lagging(d)' <=> Lagging(d))
      BY <3>3, <3>4 DEF Lagging
    <3>6. \A d \in Clients : NotYetAdded(d)' <=> NotYetAdded(d)
      BY <3>4 DEF NotYetAdded
    <3>7. Delivery!Leave(dropping[b]) \/ UNCHANGED Delivery!feedVars
      BY <3>1, <3>2, <3>4, <3>5, <3>6, RemoveStanding
    <3> QED BY <3>1, <3>7 DEF Delivery!FeedNext
  <2> QED BY <1>4, <2>1, <2>2, <2>3 DEF Fanout
<1>5. CASE (\E c \in Clients : PeerLeaves(c)) \/ Cancel \/ WaitReturns \/ Finished
             \/ UNCHANGED vars
  <2>1. UNCHANGED <<sent, joined, written, clients, handler, stale, dropping>>
    BY <1>5 DEF PeerLeaves, Cancel, WaitReturns, Finished, vars
  <2>2. \A d \in Clients : Standing(d)' = Standing(d)
    BY <2>1 DEF Standing, NotYetAdded, Lagging
  <2> QED BY <2>1, <2>2, FeedStutters
<1> QED BY <1>1, <1>2, <1>3, <1>4, <1>5 DEF Next

(* The hub implements the promise of Broadcast: to every viewer all events *)
(* since it joined, one after the other, until its buffer was full for one *)
(* of them; after that never an old one, and no way back in.               *)
THEOREM HubImplementsFeeds == Spec => ImplementsFeeds
<1>1. Init => Delivery!FeedInit
  BY DEF Init, Delivery!FeedInit, Standing, NotYetAdded, LastOf
<1>2. IndInv /\ FeedFresh /\ GapMeansDropped /\ FeedSorted /\ [Next]_vars
        => [Delivery!FeedNext]_(Delivery!feedVars)
  BY DeliveryStep
<1>3. Init => FeedFresh
  BY DEF Init, FeedFresh
<1> QED BY <1>1, <1>2, <1>3, FeedFreshStep, SlowMeansDropped, NeverBackwards, Inductive, PTL
         DEF Spec, ImplementsFeeds, Delivery!FeedSpec
=============================================================================
