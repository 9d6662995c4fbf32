--------------------------------- MODULE Hub ---------------------------------
(***************************************************************************)
(* One channel's WebSocket hub (internal/ws/hub.go) with the goroutines    *)
(* that share it: a wsHandler per connection attempt                       *)
(* (internal/server/websocket.go), a writePump per registered client,      *)
(* request handlers calling Broadcast, and App.Close.                      *)
(*                                                                         *)
(* Everything done under Hub.mu is one step.  Remove is three: unlink the  *)
(* client under the lock, close(done), conn.Close(); any other goroutine   *)
(* may run between them.                                                   *)
(*                                                                         *)
(* A message is the number of the Broadcast call that sent it, or OwnMsg   *)
(* for what the handler itself queues (sync messages and pongs).           *)
(***************************************************************************)
EXTENDS Integers, Sequences, FiniteSets

CONSTANTS
  Clients,        \* connection attempts
  Broadcasters,   \* goroutines that may be inside Broadcast
  maxConn,        \* Hub.maxConn
  SendBuffer,     \* capacity of Client.send (256 in the code)
  MaxBroadcasts   \* bound on the number of Broadcast calls

ASSUME HubAssumption ==
  /\ IsFiniteSet(Clients)
  /\ "none" \notin Clients
  /\ maxConn \in Nat
  /\ SendBuffer \in Nat \ {0}
  /\ MaxBroadcasts \in Nat

VARIABLES
  clients,      \* Hub.clients
  connections,  \* Hub.connections: reserved slots
  send,         \* Client.send
  done,         \* clients whose done channel is closed
  closed,       \* clients whose connection the server has closed
  gone,         \* clients whose peer has disconnected
  handler,      \* where each wsHandler is
  pump,         \* where each writePump is
  wire,         \* the message each pump is writing
  stale,        \* Broadcast's local list of clients to remove
  dropping,     \* the client Broadcast is inside Remove for
  stage,        \* where each goroutine is inside Remove
  server,       \* App.Close: running, waiting in Hub.Wait, stopped
  sent,         \* history: number of Broadcast calls made
  joined,       \* history: sent when the client was registered
  written       \* history: broadcasts written to the client, in order

slotVars == <<clients, connections, done, closed, stage>>
histVars == <<sent, joined, written>>
vars == <<clients, connections, send, done, closed, gone, handler, pump, wire,
          stale, dropping, stage, server, sent, joined, written>>

OwnMsg == 0
NoMsg == -1
NoClient == "none"
IsBroadcast(m) == m \in Nat /\ m # OwnMsg

HandlerOf(c) == <<"handler", c>>
PumpOf(c) == <<"pump", c>>
BroadcastOf(b) == <<"broadcast", b>>
Removers == {HandlerOf(c) : c \in Clients} \cup {PumpOf(c) : c \in Clients}
              \cup {BroadcastOf(b) : b \in Broadcasters}

(***************************************************************************)
(* idle -> refused | reserved -> upgraded -> registered -> partialSync ->  *)
(* sync -> pastStreams -> reading -> returning -> ended; syncFailed is the *)
(* Remove that syncClient calls, returning the deferred one of wsHandler.  *)
(***************************************************************************)
SyncSteps == {"partialSync", "sync", "pastStreams"}
HandlerStates == {"idle", "refused", "reserved", "upgraded", "registered", "syncFailed",
                  "reading", "returning", "ended"} \cup SyncSteps
PumpStates == {"none", "select", "writing", "removing", "exited"}
Stages == {"out", "unlink", "signal", "close"}

Init ==
  /\ clients = {} /\ connections = 0
  /\ send = [c \in Clients |-> <<>>]
  /\ done = {} /\ closed = {} /\ gone = {}
  /\ handler = [c \in Clients |-> "idle"]
  /\ pump = [c \in Clients |-> "none"]
  /\ wire = [c \in Clients |-> NoMsg]
  /\ stale = [b \in Broadcasters |-> {}]
  /\ dropping = [b \in Broadcasters |-> NoClient]
  /\ stage = [a \in Removers |-> "out"]
  /\ server = "running"
  /\ sent = 0
  /\ joined = [c \in Clients |-> 0]
  /\ written = [c \in Clients |-> <<>>]

-----------------------------------------------------------------------------
(* Hub and Client operations                                               *)

(* Faulty variant: a TrySend that does not look at the buffer.             *)
CanSendUnbounded(c) == c \notin done

(* TrySend succeeds unless done is closed or the buffer is full.           *)
CanSend(c) == c \notin done /\ Len(send[c]) < SendBuffer

(* Faulty variants of Remove: one that closes a client it did not find in  *)
(* the list, and one that never closes the connection.                     *)
RemoveTwice(a, c) ==
  /\ \/ /\ stage[a] = "unlink"
        /\ clients' = clients \ {c}
        /\ connections' = IF c \in clients THEN connections - 1 ELSE connections
        /\ stage' = [stage EXCEPT ![a] = "signal"]
        /\ UNCHANGED <<done, closed>>
     \/ /\ stage[a] = "signal"
        /\ done' = done \cup {c}
        /\ stage' = [stage EXCEPT ![a] = "close"]
        /\ UNCHANGED <<clients, connections, closed>>
     \/ /\ stage[a] = "close"
        /\ closed' = closed \cup {c}
        /\ stage' = [stage EXCEPT ![a] = "out"]
        /\ UNCHANGED <<clients, connections, done>>

RemoveKeepsConn(a, c) ==
  \/ /\ stage[a] = "unlink" /\ c \in clients
     /\ clients' = clients \ {c}
     /\ connections' = connections - 1
     /\ stage' = [stage EXCEPT ![a] = "signal"]
     /\ UNCHANGED <<done, closed>>
  \/ /\ stage[a] = "unlink" /\ c \notin clients
     /\ stage' = [stage EXCEPT ![a] = "out"]
     /\ UNCHANGED <<clients, connections, done, closed>>
  \/ /\ stage[a] = "signal"
     /\ done' = done \cup {c}
     /\ stage' = [stage EXCEPT ![a] = "out"]
     /\ UNCHANGED <<clients, connections, closed>>

(* One step of goroutine a inside Remove(c); the call returns with the     *)
(* step that sets stage[a] to "out".                                       *)
Remove(a, c) ==
  \/ /\ stage[a] = "unlink" /\ c \in clients
     /\ clients' = clients \ {c}
     /\ connections' = connections - 1
     /\ stage' = [stage EXCEPT ![a] = "signal"]
     /\ UNCHANGED <<done, closed>>
  \/ /\ stage[a] = "unlink" /\ c \notin clients
     /\ stage' = [stage EXCEPT ![a] = "out"]
     /\ UNCHANGED <<clients, connections, done, closed>>
  \/ /\ stage[a] = "signal"
     /\ done' = done \cup {c}
     /\ stage' = [stage EXCEPT ![a] = "close"]
     /\ UNCHANGED <<clients, connections, closed>>
  \/ /\ stage[a] = "close"
     /\ closed' = closed \cup {c}
     /\ stage' = [stage EXCEPT ![a] = "out"]
     /\ UNCHANGED <<clients, connections, done>>

Returned(a) == stage'[a] = "out"

-----------------------------------------------------------------------------
(* wsHandler                                                               *)

(* Faulty variant: off by one at the cap.                                  *)
ReserveAtCap(c) ==
  /\ handler[c] = "idle" /\ connections <= maxConn
  /\ handler' = [handler EXCEPT ![c] = "reserved"]
  /\ connections' = connections + 1
  /\ UNCHANGED <<clients, send, done, closed, gone, pump, wire, stale, dropping,
                 stage, server, histVars>>

(* Reserve: take a slot, or answer 400 at capacity.                        *)
Reserve(c) ==
  /\ handler[c] = "idle" /\ connections < maxConn
  /\ handler' = [handler EXCEPT ![c] = "reserved"]
  /\ connections' = connections + 1
  /\ UNCHANGED <<clients, send, done, closed, gone, pump, wire, stale, dropping,
                 stage, server, histVars>>

Refuse(c) ==
  /\ handler[c] = "idle" /\ connections >= maxConn
  /\ handler' = [handler EXCEPT ![c] = "refused"]
  /\ UNCHANGED <<slotVars, send, gone, pump, wire, stale, dropping, server,
                 histVars>>

Upgrade(c) ==
  /\ handler[c] = "reserved"
  /\ handler' = [handler EXCEPT ![c] = "upgraded"]
  /\ UNCHANGED <<slotVars, send, gone, pump, wire, stale, dropping, server,
                 histVars>>

(* Faulty variant: a failed upgrade without the Unreserve.                 *)
UpgradeFailsLeaks(c) ==
  /\ handler[c] = "reserved"
  /\ handler' = [handler EXCEPT ![c] = "ended"]
  /\ UNCHANGED <<slotVars, send, gone, pump, wire, stale, dropping, server,
                 histVars>>

(* The upgrade failed: Unreserve.                                          *)
UpgradeFails(c) ==
  /\ handler[c] = "reserved"
  /\ handler' = [handler EXCEPT ![c] = "ended"]
  /\ connections' = connections - 1
  /\ UNCHANGED <<clients, send, done, closed, gone, pump, wire, stale, dropping,
                 stage, server, histVars>>

(* Add, under the lock: append to clients.                                 *)
Add(c) ==
  /\ handler[c] = "upgraded"
  /\ handler' = [handler EXCEPT ![c] = "registered"]
  /\ clients' = clients \cup {c}
  /\ joined' = [joined EXCEPT ![c] = sent]
  /\ UNCHANGED <<connections, send, done, closed, gone, pump, wire, stale,
                 dropping, stage, server, sent, written>>

(* Add, after the lock: wg.Add(1) and start the pump.                      *)
StartPump(c) ==
  /\ handler[c] = "registered"
  /\ handler' = [handler EXCEPT ![c] = "partialSync"]
  /\ pump' = [pump EXCEPT ![c] = "select"]
  /\ UNCHANGED <<slotVars, send, gone, wire, stale, dropping, server, histVars>>

AfterSync == [partialSync |-> "sync", sync |-> "pastStreams",
              pastStreams |-> "reading"]

(* syncClient queues its next message; a full or closed client is removed. *)
SyncSend(c) ==
  /\ handler[c] \in SyncSteps /\ CanSend(c)
  /\ send' = [send EXCEPT ![c] = Append(@, OwnMsg)]
  /\ handler' = [handler EXCEPT ![c] = AfterSync[@]]
  /\ UNCHANGED <<slotVars, gone, pump, wire, stale, dropping, server, histVars>>

SyncFails(c) ==
  /\ handler[c] \in SyncSteps /\ ~CanSend(c)
  /\ handler' = [handler EXCEPT ![c] = "syncFailed"]
  /\ stage' = [stage EXCEPT ![HandlerOf(c)] = "unlink"]
  /\ UNCHANGED <<clients, connections, send, done, closed, gone, pump, wire,
                 stale, dropping, server, histVars>>

(* A short transcript has no partial sync, no past stream no last message; *)
(* a failing query ends syncClient early.                                  *)
SyncSkip(c) ==
  /\ \/ /\ handler[c] = "partialSync"
        /\ \E next \in {"sync", "reading"} :
             handler' = [handler EXCEPT ![c] = next]
     \/ /\ handler[c] = "pastStreams"
        /\ handler' = [handler EXCEPT ![c] = "reading"]
  /\ UNCHANGED <<slotVars, send, gone, pump, wire, stale, dropping, server,
                 histVars>>

(* ReadLoop got a ping: TrySend the pong, a failure is only logged.        *)
Ping(c) ==
  /\ handler[c] = "reading" /\ c \notin closed \cup gone
  /\ send' = IF CanSend(c) THEN [send EXCEPT ![c] = Append(@, OwnMsg)] ELSE send
  /\ UNCHANGED <<slotVars, gone, handler, pump, wire, stale, dropping, server,
                 histVars>>

(* Faulty variants: a handler without the deferred Remove, and a read loop *)
(* that goes on when the peer has left.                                    *)
ReadFailsNoDefer(c) ==
  /\ handler[c] = "reading" /\ c \in closed \cup gone
  /\ handler' = [handler EXCEPT ![c] = "ended"]
  /\ UNCHANGED <<slotVars, send, gone, pump, wire, stale, dropping, server,
                 histVars>>

ReadFailsClosedOnly(c) ==
  /\ handler[c] = "reading" /\ c \in closed
  /\ handler' = [handler EXCEPT ![c] = "returning"]
  /\ stage' = [stage EXCEPT ![HandlerOf(c)] = "unlink"]
  /\ UNCHANGED <<clients, connections, send, done, closed, gone, pump, wire,
                 stale, dropping, server, histVars>>

(* ReadLoop's read failed: run the deferred Remove.                        *)
ReadFails(c) ==
  /\ handler[c] = "reading" /\ c \in closed \cup gone
  /\ handler' = [handler EXCEPT ![c] = "returning"]
  /\ stage' = [stage EXCEPT ![HandlerOf(c)] = "unlink"]
  /\ UNCHANGED <<clients, connections, send, done, closed, gone, pump, wire,
                 stale, dropping, server, histVars>>

HandlerRemove(c) ==
  /\ handler[c] \in {"syncFailed", "returning"}
  /\ Remove(HandlerOf(c), c)
  /\ handler' =
       IF Returned(HandlerOf(c))
         THEN [handler EXCEPT ![c] = IF @ = "returning" THEN "ended" ELSE "reading"]
         ELSE handler
  /\ UNCHANGED <<send, gone, pump, wire, stale, dropping, server, histVars>>

-----------------------------------------------------------------------------
(* writePump: select over send, done and ctx, whichever is ready.          *)

PumpTake(c) ==
  /\ pump[c] = "select" /\ send[c] # <<>>
  /\ wire' = [wire EXCEPT ![c] = Head(send[c])]
  /\ send' = [send EXCEPT ![c] = Tail(@)]
  /\ pump' = [pump EXCEPT ![c] = "writing"]
  /\ UNCHANGED <<slotVars, gone, handler, stale, dropping, server, histVars>>

(* WriteJSON returns once the peer has taken the bytes: there is no write  *)
(* deadline, so a peer that stops reading can hold it here.                *)
PumpWrote(c) ==
  /\ pump[c] = "writing" /\ c \notin closed
  /\ pump' = [pump EXCEPT ![c] = "select"]
  /\ wire' = [wire EXCEPT ![c] = NoMsg]
  /\ written' = IF IsBroadcast(wire[c])
                  THEN [written EXCEPT ![c] = Append(@, wire[c])] ELSE written
  /\ UNCHANGED <<slotVars, send, gone, handler, stale, dropping, server, sent,
                 joined>>

(* Faulty variant: a failed write is logged and the pump goes on.          *)
PumpWriteGoesOn(c) ==
  /\ pump[c] = "writing" /\ c \in closed \cup gone
  /\ pump' = [pump EXCEPT ![c] = "select"]
  /\ wire' = [wire EXCEPT ![c] = NoMsg]
  /\ UNCHANGED <<slotVars, send, gone, handler, stale, dropping, server, histVars>>

PumpWriteFails(c) ==
  /\ pump[c] = "writing" /\ c \in closed \cup gone
  /\ pump' = [pump EXCEPT ![c] = "removing"]
  /\ wire' = [wire EXCEPT ![c] = NoMsg]
  /\ stage' = [stage EXCEPT ![PumpOf(c)] = "unlink"]
  /\ UNCHANGED <<clients, connections, send, done, closed, gone, handler, stale,
                 dropping, server, histVars>>

(* Faulty variant: a select without the context's case.                    *)
PumpStopsDone(c) ==
  /\ pump[c] = "select"
  /\ c \in done
  /\ pump' = [pump EXCEPT ![c] = "removing"]
  /\ stage' = [stage EXCEPT ![PumpOf(c)] = "unlink"]
  /\ UNCHANGED <<clients, connections, send, done, closed, gone, handler, wire,
                 stale, dropping, server, histVars>>

PumpStops(c) ==
  /\ pump[c] = "select"
  /\ c \in done \/ server # "running"
  /\ pump' = [pump EXCEPT ![c] = "removing"]
  /\ stage' = [stage EXCEPT ![PumpOf(c)] = "unlink"]
  /\ UNCHANGED <<clients, connections, send, done, closed, gone, handler, wire,
                 stale, dropping, server, histVars>>

PumpRemove(c) ==
  /\ pump[c] = "removing"
  /\ Remove(PumpOf(c), c)
  /\ pump' = IF Returned(PumpOf(c)) THEN [pump EXCEPT ![c] = "exited"] ELSE pump
  /\ UNCHANGED <<send, gone, handler, wire, stale, dropping, server, histVars>>

-----------------------------------------------------------------------------
(* Broadcast: queue under the lock for every client that can take it, then *)
(* Remove the others one by one.                                           *)

(* Faulty variant: a client whose buffer is full is skipped.               *)
BroadcastSkips(b) ==
  /\ stale[b] = {} /\ dropping[b] = NoClient
  /\ sent < MaxBroadcasts
  /\ sent' = sent + 1
  /\ send' = [c \in Clients |-> IF c \in clients /\ CanSend(c)
                                  THEN Append(send[c], sent + 1) ELSE send[c]]
  /\ UNCHANGED <<slotVars, gone, handler, pump, wire, stale, dropping, server,
                 joined, written>>

Broadcast(b) ==
  /\ stale[b] = {} /\ dropping[b] = NoClient
  /\ sent < MaxBroadcasts
  /\ sent' = sent + 1
  /\ send' = [c \in Clients |-> IF c \in clients /\ CanSend(c)
                                  THEN Append(send[c], sent + 1) ELSE send[c]]
  /\ stale' = [stale EXCEPT ![b] = {c \in clients : ~CanSend(c)}]
  /\ UNCHANGED <<slotVars, gone, handler, pump, wire, dropping, server, joined,
                 written>>

BroadcastPick(b) ==
  /\ dropping[b] = NoClient
  /\ \E c \in stale[b] :
       /\ stale' = [stale EXCEPT ![b] = @ \ {c}]
       /\ dropping' = [dropping EXCEPT ![b] = c]
  /\ stage' = [stage EXCEPT ![BroadcastOf(b)] = "unlink"]
  /\ UNCHANGED <<clients, connections, send, done, closed, gone, handler, pump,
                 wire, server, histVars>>

BroadcastRemove(b) ==
  /\ dropping[b] # NoClient
  /\ Remove(BroadcastOf(b), dropping[b])
  /\ dropping' = IF Returned(BroadcastOf(b))
                   THEN [dropping EXCEPT ![b] = NoClient] ELSE dropping
  /\ UNCHANGED <<send, gone, handler, pump, wire, stale, server, histVars>>

-----------------------------------------------------------------------------
(* The peers and the shutdown                                              *)

PeerLeaves(c) ==
  /\ handler[c] \notin {"idle", "refused", "reserved", "ended"} /\ c \notin gone
  /\ gone' = gone \cup {c}
  /\ UNCHANGED <<slotVars, send, handler, pump, wire, stale, dropping, server,
                 histVars>>

(* App.Close cancels the context every pump selects on, then Hub.Wait.     *)
Cancel ==
  /\ server = "running"
  /\ server' = "waiting"
  /\ UNCHANGED <<slotVars, send, gone, handler, pump, wire, stale, dropping,
                 histVars>>

WaitReturns ==
  /\ server = "waiting"
  /\ \A c \in Clients : pump[c] \in {"none", "exited"}
  /\ server' = "stopped"
  /\ UNCHANGED <<slotVars, send, gone, handler, pump, wire, stale, dropping,
                 histVars>>

(* The process has nothing left to do.                                     *)
Finished ==
  /\ server = "stopped"
  /\ \A c \in Clients : /\ handler[c] \in {"refused", "ended"}
                          /\ pump[c] \in {"none", "exited"}
  /\ sent = MaxBroadcasts
  /\ \A b \in Broadcasters : stale[b] = {} /\ dropping[b] = NoClient
  /\ UNCHANGED vars

Connect(c) == \/ Reserve(c) \/ Refuse(c) \/ Upgrade(c) \/ UpgradeFails(c)
              \/ Add(c) \/ StartPump(c)
Serve(c) == \/ SyncSend(c) \/ SyncFails(c) \/ SyncSkip(c)
            \/ Ping(c) \/ ReadFails(c) \/ HandlerRemove(c)
WritePump(c) == PumpTake(c) \/ PumpWrote(c) \/ PumpWriteFails(c)
                  \/ PumpStops(c) \/ PumpRemove(c)
Fanout(b) == Broadcast(b) \/ BroadcastPick(b) \/ BroadcastRemove(b)

Next ==
  \/ \E c \in Clients : Connect(c) \/ Serve(c) \/ WritePump(c) \/ PeerLeaves(c)
  \/ \E b \in Broadcasters : Fanout(b)
  \/ Cancel
  \/ WaitReturns
  \/ Finished

Spec == Init /\ [][Next]_vars

(***************************************************************************)
(* Every goroutine that can run does; Go's select picks among the ready    *)
(* cases at random, so a case that is ready again and again is taken: SF   *)
(* on PumpStops.  What the peers do is left out: no fairness on PumpWrote  *)
(* (a peer may stop reading), Ping or PeerLeaves.                          *)
(***************************************************************************)
Fairness ==
  /\ \A c \in Clients :
       /\ WF_vars(Upgrade(c) \/ UpgradeFails(c) \/ Add(c) \/ StartPump(c))
       /\ WF_vars(SyncSend(c) \/ SyncFails(c) \/ SyncSkip(c))
       /\ WF_vars(ReadFails(c))
       /\ WF_vars(HandlerRemove(c))
       /\ WF_vars(PumpTake(c))
       /\ SF_vars(PumpStops(c))
       /\ WF_vars(PumpWriteFails(c))
       /\ WF_vars(PumpRemove(c))
  /\ \A b \in Broadcasters : WF_vars(BroadcastPick(b) \/ BroadcastRemove(b))
  /\ WF_vars(WaitReturns)

FairSpec == Spec /\ Fairness
-----------------------------------------------------------------------------
(* Properties                                                              *)

(* Type invariant; a channel never holds more than its capacity.           *)
TypeOK ==
  /\ clients \subseteq Clients
  /\ connections \in Int
  /\ send \in [Clients -> Seq(Nat)]
  /\ \A c \in Clients : Len(send[c]) <= SendBuffer
  /\ done \subseteq Clients /\ closed \subseteq Clients /\ gone \subseteq Clients
  /\ handler \in [Clients -> HandlerStates]
  /\ pump \in [Clients -> PumpStates]
  /\ wire \in [Clients -> Nat \cup {NoMsg}]
  /\ stale \in [Broadcasters -> SUBSET Clients]
  /\ dropping \in [Broadcasters -> Clients \cup {NoClient}]
  /\ stage \in [Removers -> Stages]
  /\ server \in {"running", "waiting", "stopped"}
  /\ sent \in Nat
  /\ joined \in [Clients -> Nat]
  /\ written \in [Clients -> Seq(Nat)]

Reserved == {c \in Clients : handler[c] \in {"reserved", "upgraded"}}
Holders == Reserved \cup clients
Released == {c \in Clients : handler[c] \notin {"idle", "refused"}} \ Holders

(* Hub.connections counts exactly the attempts between Reserve and their   *)
(* Unreserve or Remove, however many goroutines call Remove for the same   *)
(* client: no slot leaks and none is returned twice.                       *)
SlotAccounting == connections = Cardinality(Holders)

(* Goroutine a, when inside Remove, was called for client c.               *)
Targets(a, c) ==
  \/ a \in {HandlerOf(c), PumpOf(c)}
  \/ \E b \in Broadcasters : a = BroadcastOf(b) /\ dropping[b] = c

(* Goroutine a has unlinked c and has not yet closed its connection.       *)
Closing(a, c) == Targets(a, c) /\ stage[a] \in {"signal", "close"}

(* Remove is idempotent under races: of the handler, the pump and the      *)
(* broadcasters removing one client exactly one goes on to close(done) and *)
(* conn.Close(), and only after the client left the list, so Broadcast     *)
(* never meets a registered client whose done channel is closed.           *)
OneCloser ==
  \A c \in Clients :
    /\ \A a1, a2 \in Removers : Closing(a1, c) /\ Closing(a2, c) => a1 = a2
    /\ \A a \in Removers : Closing(a, c) => c \notin clients /\ c \notin closed
    /\ c \in done \cup closed => c \notin clients

(* A wsHandler that has returned, or a pump that has exited, leaves no     *)
(* registered client behind (the deferred Removes).                        *)
NoLeakedClient ==
  \A c \in clients : handler[c] # "ended" /\ pump[c] # "exited"

(* What client c has been sent or still will be: the broadcasts written,   *)
(* the message being written, the buffer.                                  *)
Feed(c) == written[c] \o <<wire[c]>> \o send[c]

(* The broadcasts in the messages s come after number lo, are none after   *)
(* number hi, each at most once and in order.                              *)
InSequence(s, lo, hi) ==
  /\ \A i \in 1 .. Len(s) : IsBroadcast(s[i]) => s[i] \in lo + 1 .. hi
  /\ \A i, j \in 1 .. Len(s) :
       i < j /\ IsBroadcast(s[i]) /\ IsBroadcast(s[j]) => s[i] < s[j]

(* And none of them is missing.                                            *)
Carries(s, lo, hi) ==
  /\ InSequence(s, lo, hi)
  /\ \A n \in lo + 1 .. hi : \E i \in 1 .. Len(s) : s[i] = n

(* Some goroutine has decided to remove c.                                 *)
Doomed(c) == \/ pump[c] = "removing"
             \/ \E b \in Broadcasters : c \in stale[b] \/ dropping[b] = c

(* A slow client is dropped, never silently skipped: the feed of a client  *)
(* that nobody is removing is every broadcast since its registration, in   *)
(* order and without a gap.                                                *)
GapMeansDropped ==
  \A c \in clients : ~Doomed(c) => Carries(Feed(c), joined[c], sent)

(***************************************************************************)
(* The parts that make the slot invariants inductive: a client that is not *)
(* registered yet has been touched by no one, and a goroutine is inside    *)
(* Remove exactly when its own program counter says so.                    *)
(***************************************************************************)
NotYetAdded(c) == handler[c] \in {"idle", "refused", "reserved", "upgraded"}

FreshUntouched ==
  \A c \in Clients :
    /\ NotYetAdded(c) =>
         /\ c \notin clients /\ c \notin done /\ c \notin closed
         /\ \A b \in Broadcasters : c \notin stale[b] /\ dropping[b] # c
    /\ NotYetAdded(c) \/ handler[c] = "registered" => pump[c] = "none"

StageCoherent ==
  /\ \A c \in Clients :
       /\ stage[HandlerOf(c)] # "out" <=> handler[c] \in {"syncFailed", "returning"}
       /\ stage[PumpOf(c)] # "out" <=> pump[c] = "removing"
  /\ \A b \in Broadcasters :
       stage[BroadcastOf(b)] # "out" <=> dropping[b] # NoClient

IndInv ==
  /\ TypeOK /\ FreshUntouched /\ StageCoherent
  /\ OneCloser /\ NoLeakedClient /\ SlotAccounting

(* The part that makes GapMeansDropped inductive: a pump holds a message   *)
(* only while it writes it, and nobody writes to a client before Add.      *)
FeedFresh ==
  \A c \in Clients :
    /\ pump[c] # "writing" => wire[c] = NoMsg
    /\ NotYetAdded(c) => send[c] = <<>> /\ written[c] = <<>>
    /\ joined[c] <= sent

(* No client, not even one that is being removed, gets a broadcast twice   *)
(* or after a later one.                                                   *)
FeedSorted ==
  \A c \in Clients :
    /\ InSequence(Feed(c), joined[c], sent)
    /\ \A i \in 1 .. Len(written[c]) : IsBroadcast(written[c][i])

Pool == INSTANCE ConnPool WITH held <- Holders, released <- Released

(* The hub implements the bounded pool: Reserve under the lock keeps the   *)
(* cap at maxConn and every attempt takes and returns at most one slot.    *)
ImplementsPool == Pool!PoolSpec

(* What a viewer has been sent, and whether some Broadcast has found it    *)
(* too slow.                                                               *)
LastOf(lo, w) == IF w = <<>> THEN lo ELSE w[Len(w)]
Lagging(c) == \E b \in Broadcasters : c \in stale[b] \/ dropping[b] = c
Standing(c) == IF NotYetAdded(c) THEN "out"
               ELSE IF c \notin clients THEN "left"
               ELSE IF Lagging(c) THEN "lagging" ELSE "in"

Delivery == INSTANCE Feeds WITH
  events <- sent,
  standing <- [c \in Clients |-> Standing(c)],
  last <- [c \in Clients |-> LastOf(joined[c], written[c])]

(* The hub implements the promise of Broadcast to the viewers: a client is *)
(* sent every event since Add in order, until a Broadcast has found its    *)
(* buffer full; from then on it is only ever on its way out, and what it   *)
(* may still be sent by other broadcasters is never old.                   *)
ImplementsFeeds == Delivery!FeedSpec

(* A removed client's goroutines stop: conn.Close() ends the read loop and *)
(* unblocks a pump that is stuck writing, even to a peer that never reads. *)
RemovedClientStops ==
  \A c \in Clients :
    c \in done ~> handler[c] = "ended" /\ pump[c] = "exited"

(* A peer that disconnects gives its slot back, whatever the handler, the  *)
(* pump and the broadcasters were doing at the time.                       *)
DisconnectFreesSlot ==
  \A c \in Clients : c \in gone ~> c \notin Holders

(* "The pump exits when the client is removed or ctx is done" (Add's       *)
(* comment), as far as it is true: App.Close returns if every write to a   *)
(* peer ends.  A pump looks at the context only between writes, and a      *)
(* write to a peer that neither reads nor leaves has no deadline.          *)
CloseEnds ==
  (\A c \in Clients : []<>(pump[c] # "writing"))
    => (server = "waiting" ~> server = "stopped")
=============================================================================
