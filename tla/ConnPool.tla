------------------------------ MODULE ConnPool ------------------------------
(***************************************************************************)
(* What a channel's hub promises about its connection slots, without any   *)
(* of the machinery that keeps the promise: a connection attempt takes at  *)
(* most one slot, only while fewer than maxConn are taken, and gives it    *)
(* back at most once and for good.  Hub is shown to implement this.        *)
(***************************************************************************)
EXTENDS Naturals, FiniteSets

CONSTANTS Clients,   \* connection attempts, one per wsHandler call
          maxConn    \* Hub.maxConn

VARIABLES held,      \* attempts that hold a slot now
          released   \* attempts that held one and gave it back

poolVars == <<held, released>>

PoolInit == held = {} /\ released = {}

Acquire(c) ==
  /\ c \notin held \cup released
  /\ Cardinality(held) < maxConn
  /\ held' = held \cup {c}
  /\ UNCHANGED released

Release(c) ==
  /\ c \in held
  /\ held' = held \ {c}
  /\ released' = released \cup {c}

PoolNext == \E c \in Clients : Acquire(c) \/ Release(c)

PoolSpec == PoolInit /\ [][PoolNext]_poolVars
=============================================================================
