------------------------------ MODULE RateLimiter ------------------------------
(***************************************************************************)
(* AsyncBandwidthLimiter (session.py): one limiter shared by all peers of a *)
(* torrent books a slot of time for every block before it is sent or asked  *)
(* for.  A rate is the number of ticks a block takes, 0 for no limit; a     *)
(* tick is the 100 ms after which a sleeping transfer looks again.  Several *)
(* transfers sleep at once, and the user changes the rate meanwhile.        *)
(***************************************************************************)
EXTENDS Naturals, FiniteSets

CONSTANTS
  Transfers,            \* coroutines that call throttle
  Rates,                \* ticks per block the user may choose, 0 is unlimited
  MaxTime,              \* bound on the clock and on bookings
  MaxChanges            \* bound on changes of the rate

ASSUME RateAssumption ==
  Rates \subseteq Nat /\ 0 \in Rates /\ MaxTime \in Nat /\ MaxChanges \in Nat

VARIABLES
  now,                  \* time.monotonic
  rate, nextSlot, version,          \* rate_bps, _next_slot, _version
  wait,                 \* per transfer: its booking, or NoWait
  released, freeAt      \* blocks released under this rate, and when the next is due

rateVars == <<now, rate, nextSlot, version, wait, released, freeAt>>

NoWait == [start |-> 0, version |-> 0, wake |-> 0]
Later(a, b) == IF a < b THEN b ELSE a
Sooner(a, b) == IF a < b THEN a ELSE b

RateInit ==
  /\ now = 0 /\ rate \in Rates /\ nextSlot = 0 /\ version = 1
  /\ wait = [t \in Transfers |-> NoWait]
  /\ released = 0 /\ freeAt = 0

Asleep(t) == wait[t] /= NoWait

(* Mutant: an idle limiter saves up slots of the past.                      *)
SlotStartSavesUp == nextSlot

(* Inside the lock: the slot begins now or where the last booking ends.     *)
SlotStart == Later(now, nextSlot)
Booking == [start |-> SlotStart, version |-> version, wake |-> Sooner(now + 1, SlotStart)]

(* The block goes out now; with this rate the next one is due after it.     *)
GoOn(t) ==
  /\ wait' = [wait EXCEPT ![t] = NoWait]
  /\ released' = released + 1 /\ freeAt' = now + rate

(* Released at once, or asleep until the slot, looking at every tick.       *)
Book(t) ==
  IF rate = 0
  THEN wait' = [wait EXCEPT ![t] = NoWait] /\ UNCHANGED <<nextSlot, released, freeAt>>
  ELSE /\ nextSlot' = SlotStart + rate
       /\ IF SlotStart = now
          THEN GoOn(t)
          ELSE wait' = [wait EXCEPT ![t] = Booking] /\ UNCHANGED <<released, freeAt>>

Throttle(t) ==
  /\ ~Asleep(t) /\ nextSlot < MaxTime
  /\ Book(t)
  /\ UNCHANGED <<now, rate, version>>

(* After each sleep: another version means another rate, so book anew; else *)
(* go on or sleep for the rest.                                             *)
Wake(t) ==
  /\ Asleep(t) /\ wait[t].wake <= now
  /\ \/ wait[t].version /= version /\ Book(t)
     \/ /\ wait[t].version = version /\ wait[t].start <= now
        /\ GoOn(t) /\ UNCHANGED nextSlot
     \/ /\ wait[t].version = version /\ wait[t].start > now
        /\ wait' = [wait EXCEPT ![t].wake = Sooner(now + 1, wait[t].start)]
        /\ UNCHANGED <<nextSlot, released, freeAt>>
  /\ UNCHANGED <<now, rate, version>>

(* The connection ends; the slot it booked is not given back.               *)
CancelWait(t) ==
  /\ Asleep(t) /\ wait' = [wait EXCEPT ![t] = NoWait]
  /\ UNCHANGED <<now, rate, nextSlot, version, released, freeAt>>

(* Mutant: bookings survive a change of the rate.                           *)
SetRateSilently(r) ==
  /\ version <= MaxChanges
  /\ rate' = r /\ nextSlot' = now /\ UNCHANGED version
  /\ released' = 0 /\ freeAt' = now
  /\ UNCHANGED <<now, wait>>

(* set_rate: bookings made so far are void.                                 *)
SetRate(r) ==
  /\ version <= MaxChanges
  /\ rate' = r /\ nextSlot' = now /\ version' = version + 1
  /\ released' = 0 /\ freeAt' = now
  /\ UNCHANGED <<now, wait>>

(* Timers fire on time: nobody sleeps past the moment it is due to look.    *)
Tick ==
  /\ now < MaxTime /\ \A t \in Transfers : Asleep(t) => wait[t].wake > now
  /\ now' = now + 1
  /\ UNCHANGED <<rate, nextSlot, version, wait, released, freeAt>>

RateNext ==
  \/ \E t \in Transfers : Throttle(t) \/ Wake(t) \/ CancelWait(t)
  \/ \E r \in Rates : SetRate(r)
  \/ Tick

RateSpec == RateInit /\ [][RateNext]_rateVars

--------------------------------------------------------------------------------
RateTypeOK ==
  /\ now \in 0 .. MaxTime /\ rate \in Rates /\ nextSlot \in Nat
  /\ version \in 1 .. MaxChanges + 1 /\ released \in Nat /\ freeAt \in Nat
  /\ \A t \in Transfers : wait[t].version <= version

(* However many transfers share the limiter, one block follows another no   *)
(* sooner than the rate allows: also after the limiter was idle, when a     *)
(* sleeping transfer is cancelled, and when others still hold bookings of   *)
(* an earlier rate.                                                         *)
RateKept == [][released' > released => freeAt <= now]_rateVars
================================================================================
