--------------------------- MODULE BitrateGovernor ---------------------------
(***************************************************************************)
(* The bit rate of a broadcast following the loss of its path               *)
(* (native/shared/media/src/governor.rs), in measured windows of about a    *)
(* second: down fast, up slowly, a holdoff after each fall, and a word to   *)
(* the guard when no rate of this quality fits, or a better one would.      *)
(*                                                                         *)
(* A window's packets are its loss: congested, light or clean.  A window    *)
(* with too few packets to measure is added to the next, and is no step.    *)
(***************************************************************************)
EXTENDS Naturals

CONSTANTS
  Ceiling,        \* the rate of the quality that was chosen
  CleanWindows,   \* CLEAN_WINDOWS
  HoldoffWindows, \* HOLDOFF_WINDOWS
  StarvedWindows, \* STARVED_WINDOWS
  RoomyWindows    \* ROOMY_WINDOWS

ASSUME GovernorAssumption ==
  /\ Ceiling \in Nat
  /\ CleanWindows \in Nat \ {0} /\ HoldoffWindows \in Nat \ {0}
  /\ StarvedWindows \in Nat \ {0} /\ RoomyWindows \in Nat \ {0}

VARIABLES
  enabled,
  target,
  cleanWindows, holdoff,
  starvedWindows, roomyWindows, \* bound: no further than where they are told
  sinceFall  \* history: windows since the rate last fell, no further than the holdoff

governorVars == <<enabled, target, cleanWindows, holdoff, starvedWindows, roomyWindows, sinceFall>>

Loss == {"congested", "light", "clean"}

Scale(rate, percent) == (rate * percent) \div 100

Floor == Scale(Ceiling, 35)

AtMost(a, b) == IF a < b THEN a ELSE b
AtLeast(a, b) == IF a > b THEN a ELSE b

GovernorInit ==
  /\ enabled \in BOOLEAN
  /\ target = Ceiling
  /\ cleanWindows = 0 /\ holdoff = 0 /\ starvedWindows = 0 /\ roomyWindows = 0
  /\ sinceFall = HoldoffWindows

(* Mutant of CountsEnds: a window that breaks the run does not end it. *)
CountsOn(loss) ==
  /\ starvedWindows' = IF loss = "congested" /\ target = Floor
                       THEN AtMost(starvedWindows + 1, StarvedWindows) ELSE starvedWindows
  /\ roomyWindows' = IF loss = "clean" /\ target = Ceiling
                     THEN AtMost(roomyWindows + 1, RoomyWindows) ELSE roomyWindows

(* In a row at the floor with loss, or at the ceiling without. *)
CountsEnds(loss) ==
  /\ starvedWindows' = IF loss = "congested" /\ target = Floor
                       THEN AtMost(starvedWindows + 1, StarvedWindows) ELSE 0
  /\ roomyWindows' = IF loss = "clean" /\ target = Ceiling
                     THEN AtMost(roomyWindows + 1, RoomyWindows) ELSE 0

(* The rate the window asks for, or the one there is. *)
Wanted(loss) ==
  IF loss = "congested" THEN AtLeast(Scale(target, 70), Floor)
  ELSE IF loss = "clean" /\ cleanWindows + 1 >= CleanWindows
       THEN AtMost(Scale(target, 105), Ceiling) ELSE target

CleanAfter(loss) ==
  IF loss = "clean" /\ cleanWindows + 1 < CleanWindows THEN cleanWindows + 1 ELSE 0

Held(falls) == IF falls THEN HoldoffWindows ELSE 0

(* observe: while the holdoff lasts, the loss is counted and decides nothing. *)
Observe(loss, decides) ==
  /\ IF enabled THEN CountsEnds(loss) ELSE UNCHANGED <<starvedWindows, roomyWindows>>
  /\ cleanWindows' = IF decides THEN CleanAfter(loss) ELSE cleanWindows
  /\ holdoff' = IF decides THEN Held(Wanted(loss) < target)
                ELSE IF enabled THEN holdoff - 1 ELSE holdoff

(***************************************************************************)
(* close_window: the encoder takes a new rate, or refuses and keeps the     *)
(* first one for good (give_up).                                           *)
(***************************************************************************)
CloseWindow ==
  \E loss \in Loss :
    LET decides == enabled /\ holdoff = 0
    IN /\ Observe(loss, decides)
       /\ \/ /\ target' = IF decides THEN Wanted(loss) ELSE target
             /\ UNCHANGED enabled
          \/ /\ decides /\ Wanted(loss) /= target
             /\ enabled' = FALSE /\ target' = Ceiling
       /\ sinceFall' = IF target' < target THEN 0 ELSE AtMost(sinceFall + 1, HoldoffWindows)

GovernorSpec == GovernorInit /\ [][CloseWindow]_governorVars

Starved == starvedWindows >= StarvedWindows

Roomy == roomyWindows >= RoomyWindows

-----------------------------------------------------------------------------
(* Properties *)

GovernorTypeOK ==
  /\ enabled \in BOOLEAN
  /\ target \in Floor..Ceiling
  /\ cleanWindows \in 0..CleanWindows /\ holdoff \in 0..HoldoffWindows
  /\ starvedWindows \in 0..StarvedWindows /\ roomyWindows \in 0..RoomyWindows
  /\ sinceFall \in 0..HoldoffWindows

(***************************************************************************)
(* The guard never hears both words, and hears each only while the rate is  *)
(* where it means something: to step down is the last resort, below which   *)
(* no rate is left, and to step up never comes before the rate is back.  An *)
(* encoder that refuses new rates is never stepped.                        *)
(***************************************************************************)
StepsAreTheLastResort ==
  /\ Starved => enabled /\ target = Floor
  /\ Roomy => enabled /\ target = Ceiling

(* "decidir antes disso é punir duas vezes a mesma perda": two falls are    *)
(* further apart than the encoder takes to reach the new rate.             *)
FallsAreApart == [][target' < target => sinceFall >= HoldoffWindows]_governorVars
=============================================================================
