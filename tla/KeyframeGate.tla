---------------------------- MODULE KeyframeGate ----------------------------
(***************************************************************************)
(* The keyframes a broadcast gives to who asks (KeyframeGate of             *)
(* native/shared/core/src/sharing.rs): those asked for at once are given    *)
(* as one, two may follow each other closely, and then they are spaced.     *)
(*                                                                         *)
(* Time goes by in ticks, and every tick has a frame, with or without an    *)
(* ask.  A clock counts no further than what it is compared with.           *)
(***************************************************************************)
EXTENDS Naturals

CONSTANTS
  Spacing,     \* KEYFRAME_SPACING, in ticks
  Backoff,     \* BACKOFF_KEYFRAME_SPACING
  MostSpacing, \* MOST_KEYFRAME_SPACING
  QuietTime,   \* KEYFRAME_QUIET
  Burst        \* KEYFRAME_BURST

ASSUME GateAssumption ==
  /\ Spacing \in Nat /\ Backoff \in Nat /\ MostSpacing \in Nat /\ QuietTime \in Nat
  /\ Burst \in Nat \ {0}
  /\ Spacing <= MostSpacing

VARIABLES
  askWaits,    \* asked: an ask waits
  sinceLast,   \* ticks since the last keyframe
  sinceAsk,    \* ticks since the last ask
  streak,      \* asks given in this sequence, no further than where it matters
  constrained, \* BitrateGovernor's: the uplink has shown that it is narrow
  owed         \* history: ticks since somebody asked who has had no keyframe

gateVars == <<askWaits, sinceLast, sinceAsk, streak, constrained, owed>>

UpTo(n, most) == IF n < most THEN n ELSE most

MostStreak == Burst + 2

(* Never is as long ago as anything. *)
GateInit ==
  /\ askWaits = FALSE
  /\ sinceLast = MostSpacing /\ sinceAsk = QuietTime
  /\ streak = 0 /\ owed = 0
  /\ constrained \in BOOLEAN

(* The space before the next keyframe: the SFU's in the burst, then twice more each. *)
SpacingNow(given, narrow) ==
  LET free == IF narrow THEN 1 ELSE Burst
      past == IF given > free THEN given - free ELSE 0
  IN IF ~narrow /\ given < Burst THEN Spacing
     ELSE UpTo(Backoff * (IF past = 0 THEN 1 ELSE IF past = 1 THEN 2 ELSE 4), MostSpacing)

(* Mutant of Waits: an ask that cannot be given now is dropped. *)
WaitsNot(ask) == ask

Waits(ask) == askWaits \/ ask

(***************************************************************************)
(* due, with the frame it is called for: what waits is given if the last    *)
(* keyframe is far enough.  Any keyframe, the GOP's too, serves who waits.  *)
(***************************************************************************)
Frame(ask, gop) ==
  LET last  == UpTo(sinceLast + 1, MostSpacing)
      begun == IF ask /\ sinceAsk + 1 >= QuietTime THEN 0 ELSE streak
      gives == Waits(ask) /\ last >= SpacingNow(begun, constrained)
  IN /\ sinceAsk' = IF ask THEN 0 ELSE UpTo(sinceAsk + 1, QuietTime)
     /\ streak' = IF gives THEN UpTo(begun + 1, MostStreak) ELSE begun
     /\ askWaits' = (Waits(ask) /\ ~gives /\ ~gop)
     /\ sinceLast' = IF gives \/ gop THEN 0 ELSE last
     /\ owed' = IF gives \/ gop THEN 0 ELSE IF owed > 0 \/ ask THEN owed + 1 ELSE 0
     /\ UNCHANGED constrained

(* The governor's rate leaves the ceiling, or is back. *)
UplinkChanges ==
  /\ constrained' = ~constrained
  /\ UNCHANGED <<askWaits, sinceLast, sinceAsk, streak, owed>>

GateNext == UplinkChanges \/ \E ask, gop \in BOOLEAN : Frame(ask, gop)

GateSpec == GateInit /\ [][GateNext]_gateVars

-----------------------------------------------------------------------------
(* Properties *)

GateTypeOK ==
  /\ askWaits \in BOOLEAN /\ constrained \in BOOLEAN
  /\ sinceLast \in 0..MostSpacing /\ sinceAsk \in 0..QuietTime
  /\ streak \in 0..MostStreak /\ owed \in Nat

(***************************************************************************)
(* "Pedido que não pode sair agora não se perde": whoever asked, and        *)
(* however the uplink and the sequence change meanwhile, a keyframe comes   *)
(* within the longest space there is.                                      *)
(***************************************************************************)
NoAskIsLost == owed < MostSpacing \/ owed = 0
=============================================================================
