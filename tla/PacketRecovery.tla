--------------------------- MODULE PacketRecovery ---------------------------
(***************************************************************************)
(* What a receiver does with lost and reordered RTP packets                 *)
(* (native/shared/media/src/recovery.rs): packets ahead of a hole are held, *)
(* the hole is asked for again, and after too long it is given up and a     *)
(* keyframe is asked for.                                                  *)
(*                                                                         *)
(* The sender numbers packets from any start; the wire carries the number   *)
(* modulo Cycle (2^16).  A packet is its number.  The network loses,        *)
(* reorders and repeats packets: one arrives at most Late behind the newest *)
(* that was sent, and at most Ahead of the newest that arrived.  Two        *)
(* packets half a cycle apart could not be told by their numbers.           *)
(* How long a hole and an ask have waited is the clock's choice, so the     *)
(* measured round trip, which only sets those times, and the counters of    *)
(* the diagnosis are left out.                                             *)
(***************************************************************************)
EXTENDS Integers, Sequences, FiniteSets

CONSTANTS
  Cycle,    \* the numbers of the wire
  Jump,     \* JUMP: further than this is another stream
  MostHeld, \* MOST_HELD
  MostAsks, \* MOST_ASKS
  Late,     \* the network's: how far behind the newest sent a packet may arrive
  Ahead,    \* the network's: how far ahead of the newest arrived one may arrive
  MaxSent   \* bound: packets sent

ASSUME RecoveryAssumption ==
  /\ Cycle \in Nat \ {0} /\ Jump \in Nat /\ MostHeld \in Nat /\ MostAsks \in Nat
  /\ Late \in Nat /\ Late < Jump /\ MaxSent \in Nat
  /\ Ahead \in Nat /\ 2 * (Jump + Ahead) < Cycle

VARIABLES
  start,    \* the number of the first packet
  sent,     \* how many were sent
  next,     \* the next number to release, or 0 before the first packet
  held,     \* held[e]: the packet held under number e
  missing,  \* missing[e]: how often number e was asked for
  out       \* history: the packets released, in order

recoveryVars == <<start, sent, next, held, missing, out>>

Nobody == [e \in {} |-> 0]

RecoveryInit ==
  /\ start \in 1..Cycle
  /\ sent = 0 /\ next = 0
  /\ held = Nobody /\ missing = Nobody
  /\ out = <<>>

Sends ==
  /\ sent < MaxSent
  /\ sent' = sent + 1
  /\ UNCHANGED <<start, next, held, missing, out>>

-----------------------------------------------------------------------------

Far(a, b) == IF a < b THEN b - a ELSE a - b

(* Mutant of Extended: the number of the wire in the cycle of near. *)
ExtendedHere(number, near) == near - (near % Cycle) + number

(* extended: of the cycles around near, the one that brings number closest. *)
Extended(number, near) ==
  LET base == near - (near % Cycle)
      near3 == {base - Cycle + number, base + number, base + Cycle + number}
  IN CHOOSE e \in near3 : \A f \in near3 : Far(e, near) < Far(f, near)
                                           \/ (Far(e, near) = Far(f, near) /\ e <= f)

(* A number far from zero, so that what comes before is still positive. *)
FirstOfAll(number) == Cycle * Cycle + number

Without(f, S) == [e \in DOMAIN f \ S |-> f[e]]

(* The numbers held from e on, up to the first hole. *)
RunFrom(h, e) == {k \in DOMAIN h : k >= e /\ \A i \in e..k : i \in DOMAIN h}

(* release_ready: they follow; the asks for waits go on, save what follows. *)
ReleaseFrom(h, e, waits) ==
  LET ready == RunFrom(h, e)
  IN /\ out' = out \o [i \in 1..Cardinality(ready) |-> h[e + i - 1]]
     /\ next' = e + Cardinality(ready)
     /\ held' = Without(h, ready)
     /\ missing' = Without(waits, ready)

(* Another stream: what was held is thrown away. *)
Restarts(e, n) ==
  /\ next' = e + 1
  /\ held' = Nobody /\ missing' = Nobody
  /\ out' = Append(out, n)

(* Its hole was given up, or it is there already. *)
TooLate(e) == e < next /\ next - e <= Jump

(* The packets the newest arrival is among. *)
LastArrived == {out[Len(out)]} \cup {held[e] : e \in DOMAIN held}

(* arrive. *)
Arrive(n) ==
  /\ n \in start..(start + sent - 1) /\ n + Late >= start + sent - 1
  /\ next /= 0 => \E m \in LastArrived : n <= m + Ahead
  /\ LET e == Extended(n % Cycle, next)
         h == [k \in DOMAIN held \cup {e} |-> IF k = e THEN n ELSE held[k]]
         holes == {k \in next..(e - 1) : k \notin DOMAIN held}
     IN \/ next = 0 /\ Restarts(FirstOfAll(n % Cycle), n)
        \/ next /= 0 /\ TooLate(e) /\ UNCHANGED <<next, held, missing, out>>
        \/ next /= 0 /\ ~TooLate(e) /\ Far(e, next) > Jump /\ Restarts(e, n)
        \/ /\ next /= 0 /\ ~TooLate(e) /\ Far(e, next) <= Jump /\ e > next
           /\ held' = h
           /\ missing' = [k \in (DOMAIN missing \cup holes) \ {e} |->
                            IF k \in DOMAIN missing THEN missing[k] ELSE 0]
           /\ UNCHANGED <<next, out>>
        \/ next /= 0 /\ e = next /\ ReleaseFrom(h, e, Without(missing, {e}))
  /\ UNCHANGED <<start, sent>>

(* Mutant of StillMissing: giving up one hole forgets them all. *)
ForgetsMissing(first) == Nobody

(* The holes behind the first packet held are still waited for. *)
StillMissing(first) == [e \in {k \in DOMAIN missing : k > first} |-> missing[e]]

(* What was not asked for enough, and has waited since the last time. *)
AskedAgain(waits) ==
  {[e \in DOMAIN waits |-> waits[e] + IF e \in waited THEN 1 ELSE 0] :
     waited \in SUBSET {e \in DOMAIN waits : waits[e] < MostAsks}}

(***************************************************************************)
(* due: the hole that held up the stream for too long, or too many packets, *)
(* is given up for the first packet held; the other holes are asked again.  *)
(***************************************************************************)
Due ==
  /\ \/ /\ Cardinality(DOMAIN held) <= MostHeld
        /\ missing' \in AskedAgain(missing)
        /\ UNCHANGED <<next, held, out>>
     \/ /\ DOMAIN missing /= {} \/ Cardinality(DOMAIN held) > MostHeld
        /\ DOMAIN held /= {}
        /\ LET first == CHOOSE e \in DOMAIN held : \A f \in DOMAIN held : e <= f
           IN \E waits \in AskedAgain(StillMissing(first)) : ReleaseFrom(held, first, waits)
  /\ UNCHANGED <<start, sent>>

RecoveryNext == Sends \/ Due \/ \E n \in start..(start + sent) : Arrive(n)

RecoverySpec == RecoveryInit /\ [][RecoveryNext]_recoveryVars

-----------------------------------------------------------------------------
(* Properties *)

RecoveryTypeOK ==
  /\ start \in Nat /\ sent \in 0..MaxSent /\ next \in Nat
  /\ DOMAIN held \subseteq Nat /\ DOMAIN missing \subseteq Nat
  /\ \A e \in DOMAIN missing : missing[e] \in 0..MostAsks
  /\ out \in Seq(Nat)

(***************************************************************************)
(* Whatever the network loses, reorders and repeats, and wherever the       *)
(* numbers of the wire begin again, the decoder gets packets in the order   *)
(* in which they were sent, none of them twice.                            *)
(***************************************************************************)
ReleasedInOrder == \A i \in 1..(Len(out) - 1) : out[i] < out[i + 1]

(***************************************************************************)
(* What is held waits for a hole that is being waited for, and no hole is   *)
(* waited for that holds up nothing: no packet is held forever.             *)
(***************************************************************************)
HolesAreWaitedFor ==
  /\ \A e \in DOMAIN held : next < e /\ next \in DOMAIN missing
  /\ \A e \in DOMAIN missing : /\ next <= e /\ e \notin DOMAIN held
                               /\ \E f \in DOMAIN held : e < f
  /\ \A f \in DOMAIN held : next..f \subseteq DOMAIN held \cup DOMAIN missing
=============================================================================
