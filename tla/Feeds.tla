------------------------------- MODULE Feeds --------------------------------
(***************************************************************************)
(* What a channel's hub promises the viewers about the events it           *)
(* broadcasts, without locks, buffers or goroutines.  Events are numbered. *)
(* A viewer that is in gets every event since it joined, one after the     *)
(* other.  One that was too slow for an event is lagging: it may get later *)
(* ones, never an earlier one or one twice, and can only leave.  Hub is    *)
(* shown to implement this; it is what Transcript takes for granted of the *)
(* way from the handlers to a viewer.                                      *)
(***************************************************************************)
EXTENDS Naturals

CONSTANT Clients     \* connection attempts

VARIABLES events,    \* the number of events so far
          standing,  \* out, in, lagging or left, per client
          last       \* the last event a client got, at first the one it joined after

feedVars == <<events, standing, last>>

FeedInit ==
  /\ events = 0
  /\ standing = [c \in Clients |-> "out"]
  /\ last = [c \in Clients |-> 0]

Join(c) ==
  /\ standing[c] = "out"
  /\ standing' = [standing EXCEPT ![c] = "in"]
  /\ last' = [last EXCEPT ![c] = events]
  /\ UNCHANGED events

(* An event for everybody; those in slow are in and too slow for it.       *)
Publish(slow) ==
  /\ \A c \in slow : standing[c] = "in"
  /\ events' = events + 1
  /\ standing' = [c \in Clients |-> IF c \in slow THEN "lagging" ELSE standing[c]]
  /\ UNCHANGED last

(* The next event for a client that is in, a later one for the others.     *)
Deliver(c, n) ==
  /\ standing[c] # "out"
  /\ last[c] < n /\ n <= events
  /\ standing[c] = "in" => n = last[c] + 1
  /\ last' = [last EXCEPT ![c] = n]
  /\ UNCHANGED <<events, standing>>

Leave(c) ==
  /\ standing[c] # "left"
  /\ standing' = [standing EXCEPT ![c] = "left"]
  /\ UNCHANGED <<events, last>>

FeedNext ==
  \/ \E c \in Clients : Join(c) \/ Leave(c) \/ \E n \in 1 .. events : Deliver(c, n)
  \/ \E slow \in SUBSET Clients : Publish(slow)

FeedSpec == FeedInit /\ [][FeedNext]_feedVars
=============================================================================
