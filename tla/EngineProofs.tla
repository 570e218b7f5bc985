----------------------------- MODULE EngineProofs -----------------------------
(***************************************************************************)
(* What an app decides about the media it sends and seals.  The rate of a   *)
(* broadcast stays between the floor and the ceiling, the guard is told to  *)
(* step only at one of them, and no fall follows another before the holdoff *)
(* is over.  No ask for a keyframe is lost.  No counter seals twice, and a  *)
(* receiver refuses only what it opened or what has left its window.        *)
(* Packets are decoded in order, and none is held without a hole to wait    *)
(* for, wherever the numbers of the wire begin again.                       *)
(***************************************************************************)
EXTENDS BitrateGovernor, KeyframeGate, MediaKeys, PacketRecovery, FiniteSetTheorems,
        SequenceTheorems, WellFoundedInduction, TLAPS

-----------------------------------------------------------------------------
(* The bit rate *)

(* A percentage of a rate is a rate. *)
LEMMA ScaleIsNat ==
  ASSUME NEW rate \in Nat, NEW percent \in Nat
  PROVE  Scale(rate, percent) \in Nat
  BY DEF Scale

(* Less than all of it is no more than it. *)
LEMMA ScaleDown ==
  ASSUME NEW rate \in Nat, NEW percent \in 0..100
  PROVE  Scale(rate, percent) <= rate
<1>1. rate * percent <= rate * 100
  OBVIOUS
<1>2. (rate * percent) \div 100 <= (rate * 100) \div 100
  BY <1>1
<1>3. (rate * 100) \div 100 = rate
  OBVIOUS
<1> QED  BY <1>2, <1>3 DEF Scale

(* More than all of it is no less. *)
LEMMA ScaleUp ==
  ASSUME NEW rate \in Nat
  PROVE  Scale(rate, 105) >= rate
  BY DEF Scale

(* The floor is a rate, and no higher than the ceiling. *)
LEMMA FloorIsBelow ==
  Floor \in Nat /\ Floor <= Ceiling
BY GovernorAssumption, ScaleIsNat, ScaleDown DEF Floor

-----------------------------------------------------------------------------
(* The invariant: a count that has begun says where the rate is, and of the  *)
(* holdoff and the windows since the fall, one makes up for the other.      *)

CountsMeanIt ==
  /\ starvedWindows > 0 => enabled /\ target = Floor
  /\ roomyWindows > 0 => enabled /\ target = Ceiling

HoldoffCovers == sinceFall + holdoff >= HoldoffWindows

GovernorInv == GovernorTypeOK /\ CountsMeanIt /\ HoldoffCovers

(* What a window asks for is a rate of this quality. *)
LEMMA WantedIsARate ==
  ASSUME GovernorTypeOK, NEW loss \in Loss
  PROVE  Wanted(loss) \in Floor..Ceiling
<1> USE GovernorAssumption, FloorIsBelow
<1>1. target \in Nat /\ Floor <= target /\ target <= Ceiling
  BY DEF GovernorTypeOK
<1>2. Scale(target, 70) \in Nat /\ Scale(target, 70) <= target
  BY <1>1, ScaleIsNat, ScaleDown
<1>3. Scale(target, 105) \in Nat /\ Scale(target, 105) >= target
  BY <1>1, ScaleIsNat, ScaleUp
<1> QED  BY <1>1, <1>2, <1>3 DEF Wanted, AtLeast, AtMost

(* At the floor loss asks for no change, and at the ceiling no loss does. *)
LEMMA WantedAtTheEnds ==
  ASSUME GovernorTypeOK
  PROVE  /\ target = Floor => Wanted("congested") = target
         /\ target = Ceiling => Wanted("clean") = target
<1> USE GovernorAssumption, FloorIsBelow
<1>1. target \in Nat
  BY DEF GovernorTypeOK
<1>2. Scale(target, 70) \in Nat /\ Scale(target, 70) <= target
  BY <1>1, ScaleIsNat, ScaleDown
<1>3. Scale(target, 105) \in Nat /\ Scale(target, 105) >= target
  BY <1>1, ScaleIsNat, ScaleUp
<1> QED  BY <1>1, <1>2, <1>3 DEF Wanted, AtLeast, AtMost

LEMMA GovernorInvInit == GovernorInit => GovernorInv
BY GovernorAssumption, FloorIsBelow
DEF GovernorInit, GovernorInv, GovernorTypeOK, CountsMeanIt, HoldoffCovers

(* One window: what the counts, the rate and the holdoff become. *)
LEMMA GovernorInvStep ==
  ASSUME GovernorInv, CloseWindow
  PROVE  GovernorInv' /\ (target' < target => sinceFall >= HoldoffWindows)
<1> USE GovernorAssumption, FloorIsBelow
<1> PICK loss \in Loss :
      LET decides == enabled /\ holdoff = 0
      IN /\ Observe(loss, decides)
         /\ \/ /\ target' = IF decides THEN Wanted(loss) ELSE target
               /\ UNCHANGED enabled
            \/ /\ decides /\ Wanted(loss) /= target
               /\ enabled' = FALSE /\ target' = Ceiling
         /\ sinceFall' = IF target' < target THEN 0 ELSE AtMost(sinceFall + 1, HoldoffWindows)
  BY DEF CloseWindow
<1> DEFINE decides == enabled /\ holdoff = 0
<1>1. GovernorTypeOK /\ CountsMeanIt /\ HoldoffCovers
  BY DEF GovernorInv
<1>2. Wanted(loss) \in Floor..Ceiling
  BY <1>1, WantedIsARate
<1>3. /\ enabled' \in BOOLEAN /\ target' \in Floor..Ceiling
      /\ sinceFall' \in 0..HoldoffWindows
  <2>1. enabled' \in BOOLEAN
    BY <1>1 DEF GovernorTypeOK
  <2>2. target' \in Floor..Ceiling
    BY <1>1, <1>2 DEF GovernorTypeOK
  <2>3. sinceFall' \in 0..HoldoffWindows
    BY <1>1 DEF GovernorTypeOK, AtMost
  <2> QED  BY <2>1, <2>2, <2>3
<1>4. cleanWindows' \in 0..CleanWindows /\ holdoff' \in 0..HoldoffWindows
  BY <1>1 DEF GovernorTypeOK, Observe, CleanAfter, Held
<1>5. starvedWindows' \in 0..StarvedWindows /\ roomyWindows' \in 0..RoomyWindows
  BY <1>1 DEF GovernorTypeOK, Observe, CountsEnds, AtMost
<1>6. CountsMeanIt'
  <2>1. CASE ~enabled
    BY <1>1, <2>1 DEF GovernorTypeOK, CountsMeanIt, Observe
  <2>2. CASE enabled
    <3>1. starvedWindows' > 0 => loss = "congested" /\ target = Floor
      BY <2>2 DEF Observe, CountsEnds
    <3>2. roomyWindows' > 0 => loss = "clean" /\ target = Ceiling
      BY <2>2 DEF Observe, CountsEnds
    <3>3. starvedWindows' > 0 \/ roomyWindows' > 0 => Wanted(loss) = target
      BY <1>1, <3>1, <3>2, WantedAtTheEnds
    <3>4. starvedWindows' > 0 \/ roomyWindows' > 0 => enabled' /\ target' = target
      BY <2>2, <3>3
    <3> QED  BY <3>1, <3>2, <3>4 DEF CountsMeanIt
  <2> QED  BY <1>1, <2>1, <2>2 DEF GovernorTypeOK
<1>7. target' < target => decides /\ Wanted(loss) < target
  BY <1>1, <1>2 DEF GovernorTypeOK
<1>8. decides => sinceFall >= HoldoffWindows
  BY <1>1 DEF HoldoffCovers, GovernorTypeOK
<1>9. HoldoffCovers'
  <2>1. CASE decides
    BY <1>1, <1>2, <1>7, <1>8, <2>1 DEF HoldoffCovers, GovernorTypeOK, Observe, Held, AtMost
  <2>2. CASE ~decides
    BY <1>1, <1>7, <2>2 DEF HoldoffCovers, GovernorTypeOK, Observe, AtMost
  <2> QED  BY <2>1, <2>2
<1> QED  BY <1>3, <1>4, <1>5, <1>6, <1>7, <1>8, <1>9 DEF GovernorInv, GovernorTypeOK

(* No window, no change. *)
LEMMA GovernorInvStutters ==
  ASSUME GovernorInv, UNCHANGED governorVars
  PROVE  GovernorInv'
BY DEF GovernorInv, GovernorTypeOK, CountsMeanIt, HoldoffCovers, governorVars

(* The invariant of governor.rs: the rate is between floor and ceiling, and its *)
(* counts are of windows at the one or at the other.                           *)
THEOREM GovernorInvariant == GovernorSpec => []GovernorInv
<1>1. GovernorInv /\ [CloseWindow]_governorVars => GovernorInv'
  BY GovernorInvStep, GovernorInvStutters
<1> QED  BY <1>1, GovernorInvInit, PTL DEF GovernorSpec

-----------------------------------------------------------------------------
(* The properties *)

(* The rate and every count stay in their bounds. *)
THEOREM GovernorTypes == GovernorSpec => []GovernorTypeOK
<1>1. GovernorInv => GovernorTypeOK
  BY DEF GovernorInv
<1> QED  BY <1>1, GovernorInvariant, PTL

(* The guard is told to step down only at the floor and up only at the ceiling. *)
THEOREM StepsLast == GovernorSpec => []StepsAreTheLastResort
<1>1. GovernorInv => StepsAreTheLastResort
  BY GovernorAssumption
  DEF GovernorInv, GovernorTypeOK, CountsMeanIt, StepsAreTheLastResort, Starved, Roomy
<1> QED  BY <1>1, GovernorInvariant, PTL

(* Between two falls of the rate the holdoff goes by. *)
THEOREM FallsApart == GovernorSpec => FallsAreApart
<1>1. GovernorInv /\ [CloseWindow]_governorVars
        => [target' < target => sinceFall >= HoldoffWindows]_governorVars
  BY GovernorInvStep
<1> QED  BY <1>1, GovernorInvariant, PTL DEF GovernorSpec, FallsAreApart

-----------------------------------------------------------------------------
(* The keyframes *)

(* However long the sequence, the space is no longer than the longest. *)
LEMMA SpacingIsBounded ==
  ASSUME NEW given \in Nat, NEW narrow \in BOOLEAN
  PROVE  SpacingNow(given, narrow) \in 0..MostSpacing
<1> USE GateAssumption
<1> DEFINE free == IF narrow THEN 1 ELSE Burst
           past == IF given > free THEN given - free ELSE 0
           times == IF past = 0 THEN 1 ELSE IF past = 1 THEN 2 ELSE 4
<1>1. Backoff * times \in Nat
  <2>1. times \in Nat
    OBVIOUS
  <2> HIDE DEF times
  <2> QED  BY <2>1
<1>2. UpTo(Backoff * times, MostSpacing) \in 0..MostSpacing
  <2> HIDE DEF times
  <2> QED  BY <1>1 DEF UpTo
<1> QED  BY <1>2 DEF SpacingNow

(* Whoever is owed a keyframe waits, and has since after the last one. *)
OwedWaits == owed > 0 => askWaits /\ owed <= sinceLast /\ owed < MostSpacing

GateInv == GateTypeOK /\ OwedWaits

LEMMA GateInvInit == GateInit => GateInv
<1> SUFFICES ASSUME GateInit PROVE GateInv
  OBVIOUS
<1>1. askWaits \in BOOLEAN /\ constrained \in BOOLEAN
  BY DEF GateInit
<1>2. /\ sinceLast \in 0..MostSpacing /\ sinceAsk \in 0..QuietTime
      /\ streak \in 0..MostStreak /\ owed \in Nat
  BY GateAssumption DEF GateInit, MostStreak
<1>3. OwedWaits
  BY DEF GateInit, OwedWaits
<1> QED  BY <1>1, <1>2, <1>3 DEF GateInv, GateTypeOK

(* One frame. *)
LEMMA GateInvFrame ==
  ASSUME GateInv, NEW ask \in BOOLEAN, NEW gop \in BOOLEAN, Frame(ask, gop)
  PROVE  GateInv'
<1> USE GateAssumption
<1> DEFINE last  == UpTo(sinceLast + 1, MostSpacing)
           begun == IF ask /\ sinceAsk + 1 >= QuietTime THEN 0 ELSE streak
           gives == Waits(ask) /\ last >= SpacingNow(begun, constrained)
<1>1. /\ askWaits \in BOOLEAN /\ constrained \in BOOLEAN
      /\ sinceLast \in 0..MostSpacing /\ sinceAsk \in 0..QuietTime
      /\ streak \in 0..MostStreak /\ owed \in Nat
  BY DEF GateInv, GateTypeOK
<1>2. begun \in 0..MostStreak /\ MostStreak \in Nat
  BY <1>1 DEF MostStreak
<1>3. last \in 0..MostSpacing /\ (last < MostSpacing => last = sinceLast + 1)
  BY <1>1 DEF UpTo
<1>4. SpacingNow(begun, constrained) \in 0..MostSpacing
  BY <1>1, <1>2, SpacingIsBounded
<1>5. /\ sinceAsk' = (IF ask THEN 0 ELSE UpTo(sinceAsk + 1, QuietTime))
      /\ streak' = (IF gives THEN UpTo(begun + 1, MostStreak) ELSE begun)
      /\ askWaits' = (Waits(ask) /\ ~gives /\ ~gop)
      /\ sinceLast' = (IF gives \/ gop THEN 0 ELSE last)
      /\ owed' = (IF gives \/ gop THEN 0 ELSE IF owed > 0 \/ ask THEN owed + 1 ELSE 0)
      /\ constrained' = constrained
  BY DEF Frame
<1>6. GateTypeOK'
  <2>1. sinceAsk' \in 0..QuietTime
    BY <1>1, <1>5 DEF UpTo
  <2>2. streak' \in 0..MostStreak
    <3> HIDE DEF begun, gives
    <3> QED  BY <1>2, <1>5 DEF UpTo
  <2>3. sinceLast' \in 0..MostSpacing /\ owed' \in Nat
    <3> HIDE DEF last, gives
    <3> QED  BY <1>1, <1>3, <1>5
  <2> QED  BY <1>1, <1>5, <2>1, <2>2, <2>3 DEF GateTypeOK
<1>7. OwedWaits'
  <2> SUFFICES ASSUME owed' > 0
               PROVE  askWaits' /\ owed' <= sinceLast' /\ owed' < MostSpacing
    BY DEF OwedWaits
  <2>1. ~gives /\ ~gop /\ (owed > 0 \/ ask) /\ owed' = owed + 1 /\ sinceLast' = last
    <3> HIDE DEF last, gives
    <3> QED  BY <1>5
  <2>2. Waits(ask)
    BY <2>1 DEF GateInv, OwedWaits, Waits
  <2>3. last < SpacingNow(begun, constrained)
    <3> HIDE DEF last, begun
    <3> QED  BY <1>3, <1>4, <2>1, <2>2
  <2>4. last < MostSpacing /\ last = sinceLast + 1
    <3> HIDE DEF last, begun
    <3> QED  BY <1>3, <1>4, <2>3
  <2>5. owed <= sinceLast
    BY <1>1 DEF GateInv, OwedWaits
  <2>6. askWaits'
    <3> HIDE DEF gives
    <3> QED  BY <1>5, <2>1, <2>2
  <2> HIDE DEF last
  <2> QED  BY <1>1, <2>1, <2>4, <2>5, <2>6
<1> QED  BY <1>6, <1>7 DEF GateInv

(* The uplink owes nobody anything. *)
LEMMA GateInvUplink ==
  ASSUME GateInv, UplinkChanges
  PROVE  GateInv'
BY DEF GateInv, GateTypeOK, OwedWaits, UplinkChanges

LEMMA GateInvStutters ==
  ASSUME GateInv, UNCHANGED gateVars
  PROVE  GateInv'
BY DEF GateInv, GateTypeOK, OwedWaits, gateVars

(* The invariant of KeyframeGate (sharing.rs): an ask that is owed waits in it. *)
THEOREM GateInvariant == GateSpec => []GateInv
<1>1. GateInv /\ [GateNext]_gateVars => GateInv'
  BY GateInvFrame, GateInvUplink, GateInvStutters DEF GateNext
<1> QED  BY <1>1, GateInvInit, PTL DEF GateSpec

(* KeyframeGate (sharing.rs): its clocks stop at the longest space and at the *)
(* quiet time, and its streak at the longest one.                            *)
THEOREM GateTypesHold == GateSpec => []GateTypeOK
<1>1. GateInv => GateTypeOK
  BY DEF GateInv
<1> QED  BY <1>1, GateInvariant, PTL

(* Whoever asks has a keyframe within the longest space there is. *)
THEOREM AsksAreKept == GateSpec => []NoAskIsLost
<1>1. GateInv => NoAskIsLost
  BY DEF GateInv, GateTypeOK, OwedWaits, NoAskIsLost
<1> QED  BY <1>1, GateInvariant, PTL

-----------------------------------------------------------------------------
(* The media keys *)

(***************************************************************************)
(* Who seals: no sender is ahead of the group, and what an epoch has sealed *)
(* is behind its counter, so that the next frame has a counter of its own.  *)
(***************************************************************************)
SendTypes ==
  /\ sendEpoch \in Epoch /\ sessionKey \in Epoch \cup {NoKey}
  /\ connected \in BOOLEAN /\ transportKey \in Epoch \cup {NoKey}
  /\ nextCounter \in [Epoch -> Nat]
  /\ sealed \subseteq SealedFrame /\ IsFiniteSet(sealed)

SendersBehind ==
  /\ sessionKey /= NoKey => sessionKey <= sendEpoch
  /\ transportKey /= NoKey => transportKey <= sendEpoch

CountedBelow ==
  \A f \in sealed : f.epoch <= sendEpoch /\ f.counter < nextCounter[f.epoch]

SealInv == SendTypes /\ SendersBehind /\ CountedBelow /\ NoncesAreFresh

LEMMA SealInvInit == MediaKeysInit => SealInv
<1> USE MediaKeysAssumption
<1> SUFFICES ASSUME MediaKeysInit PROVE SealInv
  OBVIOUS
<1>1. SendTypes
  <2>1. 0 \in Epoch
    BY DEF Epoch
  <2>2. nextCounter \in [Epoch -> Nat]
    BY DEF MediaKeysInit
  <2>3. sealed \subseteq SealedFrame /\ IsFiniteSet(sealed)
    BY FS_EmptySet DEF MediaKeysInit
  <2> QED  BY <2>1, <2>2, <2>3 DEF MediaKeysInit, SendTypes
<1>2. SendersBehind /\ CountedBelow /\ NoncesAreFresh
  BY DEF MediaKeysInit, SendersBehind, CountedBelow, NoncesAreFresh
<1> QED  BY <1>1, <1>2 DEF SealInv

LEMMA SenderTurnsSeals ==
  ASSUME SealInv, SenderTurns
  PROVE  SealInv'
<1> USE MediaKeysAssumption DEF SealInv, SenderTurns, Epoch
<1>1. sendEpoch + 1 \in 0..LastEpoch /\ sendEpoch' = sendEpoch + 1 /\ sealed' = sealed
  BY DEF SendTypes
<1>2. SendTypes'
  BY <1>1 DEF SendTypes, SealedFrame
<1>3. SendersBehind'
  <2>1. /\ sendEpoch \in Nat /\ sendEpoch' = sendEpoch + 1 /\ sessionKey' = sendEpoch'
        /\ transportKey \in Nat \cup {NoKey}
        /\ transportKey' = sendEpoch' \/ transportKey' = transportKey
    BY <1>1 DEF SendTypes
  <2>2. transportKey /= NoKey => transportKey <= sendEpoch
    BY DEF SendersBehind
  <2> QED  BY ONLY <2>1, <2>2, MediaKeysAssumption DEF SendersBehind
<1>4. CountedBelow'
  <2> SUFFICES ASSUME NEW f \in sealed
               PROVE  f.epoch <= sendEpoch + 1 /\ f.counter < nextCounter'[f.epoch]
    BY <1>1 DEF CountedBelow
  <2>1. f.epoch \in 0..LastEpoch /\ f.epoch <= sendEpoch /\ f.counter < nextCounter[f.epoch]
    BY DEF SendTypes, SealedFrame, CountedBelow
  <2>2. nextCounter'[f.epoch] = nextCounter[f.epoch]
    BY <1>1, <2>1 DEF SendTypes
  <2> QED  BY <1>1, <2>1, <2>2 DEF SendTypes
<1>5. NoncesAreFresh'
  BY <1>1 DEF NoncesAreFresh
<1> QED  BY <1>2, <1>3, <1>4, <1>5

(* A frame takes the counter of its epoch, which no other frame has reached. *)
LEMMA SendFrameSeals ==
  ASSUME SealInv, SendFrame
  PROVE  SealInv'
<1> USE MediaKeysAssumption DEF SealInv, SendFrame
<1> DEFINE new == [epoch |-> transportKey, counter |-> nextCounter[transportKey],
                   id |-> Cardinality(sealed)]
<1>1. /\ transportKey \in Epoch /\ nextCounter[transportKey] \in Nat
      /\ Cardinality(sealed) \in Nat
  BY FS_CardinalityType DEF SendTypes
<1>2. new \in SealedFrame
  BY <1>1 DEF SealedFrame
<1>3. sealed' = sealed \cup {new}
  OBVIOUS
<1>4. /\ nextCounter' \in [Epoch -> Nat]
      /\ nextCounter'[transportKey] = nextCounter[transportKey] + 1
      /\ \A e \in Epoch \ {transportKey} : nextCounter'[e] = nextCounter[e]
  BY <1>1 DEF SendTypes
<1> HIDE DEF new
<1>5. SendTypes'
  BY <1>2, <1>3, <1>4, FS_AddElement DEF SendTypes
<1>6. SendersBehind'
  BY DEF SendersBehind
<1>7. CountedBelow'
  <2> SUFFICES ASSUME NEW f \in sealed'
               PROVE  f.epoch <= sendEpoch /\ f.counter < nextCounter'[f.epoch]
    BY DEF CountedBelow
  <2>1. CASE f = new
    BY <2>1, <1>1, <1>4 DEF new, SendersBehind
  <2>2. CASE f \in sealed
    <3>1. f.epoch \in Epoch /\ f.counter \in Nat
      BY <2>2 DEF SendTypes, SealedFrame
    <3>2. f.epoch <= sendEpoch /\ f.counter < nextCounter[f.epoch]
      BY <2>2 DEF CountedBelow
    <3> QED  BY <3>1, <3>2, <1>1, <1>4 DEF SendTypes
  <2> QED  BY <1>3, <2>1, <2>2
<1>8. NoncesAreFresh'
  <2>1. \A f \in sealed : ~(f.epoch = new.epoch /\ f.counter = new.counter)
    <3> SUFFICES ASSUME NEW f \in sealed, f.epoch = new.epoch, f.counter = new.counter
                 PROVE  FALSE
      OBVIOUS
    <3>1. new.epoch = transportKey /\ new.counter = nextCounter[transportKey]
      BY DEF new
    <3>2. f.counter < nextCounter[f.epoch]
      BY DEF CountedBelow
    <3> QED  BY <3>1, <3>2, <1>1
  <2> QED  BY <1>3, <2>1 DEF NoncesAreFresh
<1> QED  BY <1>5, <1>6, <1>7, <1>8

LEMMA SealInvKept == SealInv /\ [MediaKeysNext]_mediaKeysVars => SealInv'
<1> USE MediaKeysAssumption
<1> SUFFICES ASSUME SealInv, [MediaKeysNext]_mediaKeysVars PROVE SealInv'
  OBVIOUS
<1>1. CASE SenderFails \/ UseSfu \/ Released
  BY <1>1 DEF SealInv, SendTypes, SendersBehind, CountedBelow, NoncesAreFresh,
              SenderFails, UseSfu, Released, Kept
<1>2. CASE UNCHANGED sendVars
  BY <1>2 DEF SealInv, SendTypes, SendersBehind, CountedBelow, NoncesAreFresh, sendVars
<1>3. ASSUME \/ \E e \in Epoch : WatcherTurns(e)
             \/ Consumes \/ WatchStarts \/ ConsumeFails \/ WatchStops
             \/ \E f \in sealed : FrameOpens(f)
             \/ TickPasses
             \/ UNCHANGED mediaKeysVars
      PROVE  UNCHANGED sendVars
  BY <1>3 DEF WatcherTurns, Consumes, WatchStarts, ConsumeFails, WatchStops, FrameOpens,
              TickPasses, mediaKeysVars
<1> QED
  BY <1>1, <1>2, <1>3, SenderTurnsSeals, SendFrameSeals DEF MediaKeysNext

(* The invariant of the senders (e2ee.rs): what was sealed is behind the counter. *)
THEOREM SealInvHolds == MediaKeysSpec => []SealInv
BY SealInvInit, SealInvKept, PTL DEF MediaKeysSpec

(***************************************************************************)
(* Session of sharing.rs: no counter of an epoch seals two frames, however  *)
(* often the transport is lost and made again.                              *)
(***************************************************************************)
THEOREM FreshNonces == MediaKeysSpec => []NoncesAreFresh
<1>1. SealInv => NoncesAreFresh
  BY DEF SealInv
<1> QED  BY <1>1, SealInvHolds, PTL

-----------------------------------------------------------------------------
(***************************************************************************)
(* Who watches: the bits of a receiver are the frames of its epoch that     *)
(* this watch has opened, counted from the highest.                         *)
(***************************************************************************)
Recorded(r, frames) ==
  /\ \A g \in frames : g.epoch = r.epoch =>
       /\ r.seen /= {} /\ g.counter <= r.highest
       /\ r.highest - g.counter < WindowSize => r.highest - g.counter \in r.seen
  /\ \A n \in r.seen : n <= r.highest /\
       \E g \in frames : g.epoch = r.epoch /\ g.counter = r.highest - n
  /\ r.seen /= {} => 0 \in r.seen

(* A receiver that opened nothing, of an epoch of which nothing was opened. *)
LEMMA FreshRecords ==
  ASSUME NEW e \in Epoch, NEW frames, \A g \in frames : g.epoch /= e
  PROVE  Fresh(e) \in Receiver /\ Fresh(e).epoch = e /\ Recorded(Fresh(e), frames)
BY DEF Fresh, Receiver, Recorded

(* A frame of another epoch is not its concern. *)
LEMMA OthersRecord ==
  ASSUME NEW r \in Receiver, NEW frames, NEW f, f.epoch /= r.epoch, Recorded(r, frames)
  PROVE  Recorded(r, frames \cup {f})
BY DEF Recorded

(* prepare and commit: one more frame of its epoch. *)
LEMMA AfterRecords ==
  ASSUME NEW r \in Receiver, NEW frames \in SUBSET SealedFrame, NEW f \in SealedFrame,
         f.epoch = r.epoch, Recorded(r, frames), Accepts(r, f.counter)
  PROVE  /\ After(r, f.counter) \in Receiver
         /\ After(r, f.counter).epoch = r.epoch
         /\ Recorded(After(r, f.counter), frames \cup {f})
<1> USE MediaKeysAssumption
<1> DEFINE n == f.counter
           s == After(r, n)
<1>1. /\ n \in Nat /\ r.highest \in Nat /\ r.epoch \in Epoch
      /\ r.seen \subseteq 0..WindowSize - 1
      /\ \A g \in frames : g.counter \in Nat
  BY DEF Receiver, SealedFrame
<1>2. CASE r.seen = {}
  <2>1. s = [epoch |-> r.epoch, highest |-> n, seen |-> {0}]
    BY <1>2 DEF After, Receiver
  <2>2. s \in Receiver
    BY <2>1, <1>1 DEF Receiver
  <2>3. \A g \in frames : g.epoch /= r.epoch
    BY <1>2 DEF Recorded
  <2>4. Recorded(s, frames \cup {f})
    <3> HIDE DEF s
    <3> QED  BY <2>1, <2>3, <1>1 DEF Recorded
  <2> QED  BY <2>1, <2>2, <2>4
<1>3. CASE r.seen /= {} /\ n > r.highest
  <2> DEFINE by == n - r.highest
             kept == Shifted(r.seen, by) \cup {0}
  <2>1. s = [epoch |-> r.epoch, highest |-> n, seen |-> kept]
    BY <1>3 DEF After, Receiver
  <2>2. by \in Nat /\ n = r.highest + by /\ kept \subseteq 0..WindowSize - 1
    BY <1>1, <1>3 DEF Shifted
  <2>3. s \in Receiver
    BY <2>1, <2>2, <1>1 DEF Receiver
  <2>4. \A o \in kept : o = 0 \/ \E b \in r.seen : o = b + by
    BY DEF Shifted
  <2>5. \A b \in r.seen : b + by < WindowSize => b + by \in kept
    BY <1>1, <2>2 DEF Shifted
  <2>6. Recorded(s, frames \cup {f})
    <3> HIDE DEF s, kept, by
    <3>1. s.epoch = r.epoch /\ s.highest = n /\ s.seen = kept /\ 0 \in kept
      BY <2>1 DEF kept
    <3>2. ASSUME NEW g \in frames \cup {f}, g.epoch = r.epoch
          PROVE  /\ g.counter <= n
                 /\ n - g.counter < WindowSize => n - g.counter \in kept
      <4>1. CASE g = f
        BY <4>1, <3>1, <1>1
      <4>2. CASE g \in frames
        <5>1. /\ g.counter \in Nat /\ g.counter <= r.highest
              /\ r.highest - g.counter < WindowSize => r.highest - g.counter \in r.seen
          BY <4>2, <3>2, <1>1 DEF Recorded
        <5>2. n - g.counter = (r.highest - g.counter) + by
          BY <5>1, <2>2, <1>1
        <5> QED  BY <5>1, <5>2, <2>2, <2>5, <1>1
      <4> QED  BY <4>1, <4>2
    <3>3. ASSUME NEW o \in kept
          PROVE  /\ o <= n
                 /\ \E g \in frames \cup {f} : g.epoch = r.epoch /\ g.counter = n - o
      <4>1. CASE o = 0
        BY <4>1, <1>1
      <4>2. CASE \E b \in r.seen : o = b + by
        <5>1. PICK b \in r.seen : o = b + by
          BY <4>2
        <5>2. PICK g \in frames : g.epoch = r.epoch /\ g.counter = r.highest - b
          BY DEF Recorded
        <5>3. b \in Nat /\ b <= r.highest
          BY <1>1 DEF Recorded
        <5>4. o <= n /\ n - o = r.highest - b
          BY <5>1, <5>3, <2>2, <1>1
        <5> QED  BY <5>2, <5>4
      <4> QED  BY <4>1, <4>2, <2>4
    <3> QED  BY <3>1, <3>2, <3>3 DEF Recorded
  <2> QED  BY <2>1, <2>3, <2>6
<1>4. CASE r.seen /= {} /\ ~ (n > r.highest)
  <2> DEFINE o == r.highest - n
  <2>1. s = [epoch |-> r.epoch, highest |-> r.highest, seen |-> r.seen \cup {o}]
    BY <1>4 DEF After, Receiver
  <2>2. o \in 0..WindowSize - 1 /\ n = r.highest - o /\ o <= r.highest
    BY <1>4, <1>1 DEF Accepts
  <2>3. s \in Receiver
    BY <2>1, <2>2, <1>1 DEF Receiver
  <2>4. Recorded(s, frames \cup {f})
    <3> HIDE DEF s, o
    <3>1. s.epoch = r.epoch /\ s.highest = r.highest /\ s.seen = r.seen \cup {o}
      BY <2>1
    <3>2. n <= r.highest /\ r.highest - n = o
      BY <1>4, <1>1 DEF o
    <3> QED  BY <3>1, <3>2, <2>2, <1>1, <1>4 DEF Recorded
  <2> QED  BY <2>1, <2>3, <2>4
<1> QED  BY <1>2, <1>3, <1>4

(* The receivers of a watch are those of two epochs, one after the other.   *)
WatchTypes ==
  /\ heardEpoch \in Epoch /\ askedWith \in Epoch \cup {NoKey}
  /\ currentKey \in Receiver \cup {NoKey} /\ previousKey \in Receiver \cup {NoKey}
  /\ ticksLeft \in 0..Overlap + 1
  /\ openedFrames \subseteq sealed

EpochsInOrder ==
  /\ askedWith /= NoKey => askedWith <= heardEpoch
  /\ currentKey /= NoKey => currentKey.epoch <= heardEpoch
  /\ previousKey /= NoKey => currentKey /= NoKey /\ previousKey.epoch < currentKey.epoch
  /\ \A g \in openedFrames : g.epoch <= heardEpoch

BothRecord ==
  /\ currentKey /= NoKey => Recorded(currentKey, openedFrames)
  /\ previousKey /= NoKey => Recorded(previousKey, openedFrames)

WatchInv == WatchTypes /\ EpochsInOrder /\ BothRecord

LEMMA WatchInvInit == MediaKeysInit => WatchInv
<1> USE MediaKeysAssumption
<1> SUFFICES ASSUME MediaKeysInit PROVE WatchInv
  OBVIOUS
<1>1. WatchTypes
  BY DEF MediaKeysInit, WatchTypes, Epoch
<1>2. EpochsInOrder /\ BothRecord
  BY DEF MediaKeysInit, EpochsInOrder, BothRecord
<1> QED  BY <1>1, <1>2 DEF WatchInv

(* The new receiver is of an epoch of which nothing was opened yet. *)
LEMMA WatcherTurnsRecords ==
  ASSUME WatchInv, SendTypes, NEW e \in Epoch, WatcherTurns(e)
  PROVE  WatchInv'
<1> USE MediaKeysAssumption DEF WatchInv, WatcherTurns
<1>1. /\ heardEpoch' = e /\ e > heardEpoch /\ e \in Nat /\ heardEpoch \in Nat
      /\ UNCHANGED <<askedWith, openedFrames, sealed>>
  BY DEF WatchTypes, Epoch, sendVars
<1>2. \A g \in openedFrames : g.epoch \in Nat /\ g.epoch <= e
  BY <1>1 DEF EpochsInOrder, WatchTypes, SendTypes, SealedFrame, Epoch
<1>3. \A g \in openedFrames : g.epoch /= e
  BY <1>1 DEF EpochsInOrder, WatchTypes, SendTypes, SealedFrame, Epoch
<1>4. Fresh(e) \in Receiver /\ Fresh(e).epoch = e /\ Recorded(Fresh(e), openedFrames)
  BY <1>3, FreshRecords
<1>5. CASE currentKey = NoKey
  <2>1. currentKey' = NoKey /\ previousKey' = previousKey /\ ticksLeft' = ticksLeft
    BY <1>5
  <2>2. previousKey = NoKey
    BY <1>5 DEF EpochsInOrder
  <2>3. askedWith /= NoKey => askedWith \in Nat
    BY DEF WatchTypes, Epoch
  <2>4. WatchTypes'
    BY <1>1, <1>5, <2>1, <2>2 DEF WatchTypes
  <2>5. EpochsInOrder'
    BY <1>1, <2>1, <2>2, <2>3, <1>2 DEF EpochsInOrder
  <2>6. BothRecord'
    BY <2>1, <2>2 DEF BothRecord
  <2> QED  BY <2>4, <2>5, <2>6
<1>6. CASE currentKey /= NoKey
  <2>1. currentKey.epoch \in Nat /\ currentKey.epoch <= heardEpoch
    BY <1>6 DEF WatchTypes, Receiver, Epoch, EpochsInOrder
  <2>2. currentKey' = Fresh(e) /\ previousKey' = currentKey /\ ticksLeft' = Overlap + 1
    BY <1>1, <1>6, <2>1
  <2>3. currentKey' /= NoKey
    <3>1. \A r \in Receiver : r \in [epoch : Nat, highest : Nat, seen : SUBSET Nat]
      BY DEF Receiver, Epoch
    <3> QED  BY <1>4, <2>2, <3>1
  <2>4. WatchTypes'
    BY <1>1, <1>4, <1>6, <2>2 DEF WatchTypes
  <2>5. EpochsInOrder'
    BY <1>1, <1>4, <1>2, <2>1, <2>2, <2>3 DEF EpochsInOrder, WatchTypes, Epoch
  <2>6. BothRecord'
    BY <1>1, <1>4, <1>6, <2>2 DEF BothRecord
  <2> QED  BY <2>4, <2>5, <2>6
<1> QED  BY <1>5, <1>6

(* A frame goes to the receiver of its epoch; the other one is not touched. *)
LEMMA FrameOpensRecords ==
  ASSUME WatchInv, SendTypes, NEW f \in sealed, FrameOpens(f)
  PROVE  WatchInv'
<1> USE MediaKeysAssumption DEF WatchInv, FrameOpens
<1>1. /\ openedFrames' = openedFrames \cup {f}
      /\ UNCHANGED <<heardEpoch, askedWith, ticksLeft, sealed>>
      /\ openedFrames \in SUBSET SealedFrame /\ f \in SealedFrame /\ f.epoch \in Nat
  BY DEF WatchTypes, SendTypes, SealedFrame, Epoch, sendVars
<1>2. \A r \in Receiver : r /= NoKey /\ r.epoch \in Nat
  <2>1. \A r \in Receiver : r \in [epoch : Nat, highest : Nat, seen : SUBSET Nat]
    BY DEF Receiver, Epoch
  <2> QED  BY <2>1
<1>3. currentKey \in Receiver /\ heardEpoch \in Nat
  BY DEF WatchTypes, Epoch
<1>4. CASE /\ f.epoch = currentKey.epoch /\ Accepts(currentKey, f.counter)
           /\ currentKey' = After(currentKey, f.counter) /\ UNCHANGED previousKey
  <2>1. /\ currentKey' \in Receiver /\ currentKey'.epoch = currentKey.epoch
        /\ Recorded(currentKey', openedFrames')
    BY <1>1, <1>3, <1>4, AfterRecords DEF BothRecord
  <2>2. previousKey /= NoKey => Recorded(previousKey, openedFrames')
    <3> SUFFICES ASSUME previousKey /= NoKey PROVE Recorded(previousKey, openedFrames')
      OBVIOUS
    <3>1. previousKey \in Receiver /\ previousKey.epoch /= f.epoch
      BY <1>2, <1>3, <1>4 DEF WatchTypes, EpochsInOrder
    <3> QED  BY <1>1, <3>1, OthersRecord DEF BothRecord
  <2>3. WatchTypes'
    BY <1>1, <1>4, <2>1 DEF WatchTypes
  <2>4. EpochsInOrder'
    BY <1>1, <1>2, <1>3, <1>4, <2>1 DEF EpochsInOrder
  <2>5. BothRecord'
    BY <1>4, <2>1, <2>2 DEF BothRecord
  <2> QED  BY <2>3, <2>4, <2>5
<1>5. CASE /\ f.epoch /= currentKey.epoch /\ previousKey /= NoKey
           /\ f.epoch = previousKey.epoch /\ Accepts(previousKey, f.counter)
           /\ previousKey' = After(previousKey, f.counter) /\ UNCHANGED currentKey
  <2>1. previousKey \in Receiver
    BY <1>5 DEF WatchTypes
  <2>2. /\ previousKey' \in Receiver /\ previousKey'.epoch = previousKey.epoch
        /\ Recorded(previousKey', openedFrames')
    BY <1>1, <1>5, <2>1, AfterRecords DEF BothRecord
  <2>3. Recorded(currentKey, openedFrames')
    BY <1>1, <1>2, <1>3, <1>5, OthersRecord DEF BothRecord
  <2>4. WatchTypes'
    BY <1>1, <1>5, <2>2 DEF WatchTypes
  <2>5. EpochsInOrder'
    BY <1>1, <1>2, <1>3, <1>5, <2>1, <2>2 DEF EpochsInOrder
  <2>6. BothRecord'
    BY <1>5, <2>2, <2>3 DEF BothRecord
  <2> QED  BY <2>4, <2>5, <2>6
<1> QED  BY <1>4, <1>5

(* A watch that starts has one receiver, which has opened nothing. *)
LEMMA WatchStartsRecords ==
  ASSUME WatchInv, WatchStarts
  PROVE  WatchInv'
<1> USE MediaKeysAssumption DEF WatchInv, WatchStarts
<1>1. /\ askedWith \in Epoch /\ askedWith <= heardEpoch
      /\ UNCHANGED <<heardEpoch, sealed>>
      /\ openedFrames' = {} /\ previousKey' = NoKey /\ askedWith' = NoKey /\ ticksLeft' = 0
  BY DEF WatchTypes, EpochsInOrder, sendVars
<1>2. Fresh(askedWith) \in Receiver /\ Fresh(askedWith).epoch = askedWith
      /\ Recorded(Fresh(askedWith), {})
  BY <1>1, FreshRecords
<1>3. WatchTypes'
  BY <1>1, <1>2 DEF WatchTypes
<1>4. EpochsInOrder'
  BY <1>1, <1>2 DEF EpochsInOrder
<1>5. BothRecord'
  BY <1>1, <1>2 DEF BothRecord
<1> QED  BY <1>3, <1>4, <1>5

LEMMA WatchInvKept == WatchInv /\ SealInv /\ [MediaKeysNext]_mediaKeysVars => WatchInv'
<1> USE MediaKeysAssumption DEF WatchInv
<1> SUFFICES ASSUME WatchInv, SealInv, [MediaKeysNext]_mediaKeysVars PROVE WatchInv'
  OBVIOUS
<1>1. CASE SenderTurns \/ SenderFails \/ UseSfu \/ Released \/ SendFrame
  BY <1>1 DEF SenderTurns, SenderFails, UseSfu, Released, SendFrame, watchVars,
              WatchTypes, EpochsInOrder, BothRecord
<1>2. CASE Consumes
  BY <1>2 DEF Consumes, sendVars, WatchTypes, EpochsInOrder, BothRecord, Epoch
<1>3. CASE ConsumeFails
  BY <1>3 DEF ConsumeFails, sendVars, WatchTypes, EpochsInOrder, BothRecord
<1>4. CASE WatchStops
  BY <1>4 DEF WatchStops, sendVars, WatchTypes, EpochsInOrder, BothRecord
<1>5. CASE TickPasses
  BY <1>5 DEF TickPasses, sendVars, WatchTypes, EpochsInOrder, BothRecord
<1>6. CASE UNCHANGED mediaKeysVars
  BY <1>6 DEF mediaKeysVars, sendVars, watchVars, WatchTypes, EpochsInOrder, BothRecord
<1> QED
  BY <1>1, <1>2, <1>3, <1>4, <1>5, <1>6, WatcherTurnsRecords, FrameOpensRecords,
     WatchStartsRecords
  DEF MediaKeysNext, SealInv

(* The invariant of the windows (e2ee.rs): their bits are the frames opened. *)
THEOREM WatchInvHolds == MediaKeysSpec => [](SealInv /\ WatchInv)
BY SealInvInit, SealInvKept, WatchInvInit, WatchInvKept, PTL DEF MediaKeysSpec

(* E2eeSession, FrameCrypto and their receivers (e2ee.rs): the keys are of   *)
(* epochs, and no frame is opened that was not sealed.                       *)
THEOREM MediaKeysTypesHold == MediaKeysSpec => []MediaKeysTypeOK
<1>1. SealInv /\ WatchInv => MediaKeysTypeOK
  BY DEF SealInv, SendTypes, WatchInv, WatchTypes, MediaKeysTypeOK
<1> QED  BY <1>1, WatchInvHolds, PTL

(***************************************************************************)
(* ReplayWindow of e2ee.rs: a receiver refuses a frame of its epoch only if *)
(* it has opened it, or another that is a whole window ahead.               *)
(***************************************************************************)
THEOREM ExactWindow == MediaKeysSpec => []WindowIsExact
<1>1. SealInv /\ WatchInv => WindowIsExact
  <2> USE MediaKeysAssumption
  <2> SUFFICES ASSUME SealInv, WatchInv,
                      NEW r \in {currentKey, previousKey} \ {NoKey}, NEW f \in sealed,
                      f.epoch = r.epoch
               PROVE  Accepts(r, f.counter) <=>
                        /\ f \notin openedFrames
                        /\ \A g \in openedFrames :
                             g.epoch = f.epoch => g.counter < f.counter + WindowSize
    BY DEF WindowIsExact
  <2>1. r \in Receiver /\ Recorded(r, openedFrames)
    BY DEF WatchInv, WatchTypes, BothRecord
  <2>2. /\ f.counter \in Nat /\ r.highest \in Nat
        /\ \A g \in openedFrames : g \in sealed /\ g.counter \in Nat
    BY <2>1 DEF SealInv, SendTypes, SealedFrame, Receiver, WatchInv, WatchTypes
  <2>3. ASSUME Accepts(r, f.counter)
        PROVE  /\ f \notin openedFrames
               /\ \A g \in openedFrames :
                    g.epoch = f.epoch => g.counter < f.counter + WindowSize
    BY <2>1, <2>2, <2>3 DEF Accepts, Recorded
  <2>4. ASSUME f \notin openedFrames,
               \A g \in openedFrames : g.epoch = f.epoch => g.counter < f.counter + WindowSize,
               r.seen /= {}, ~ (f.counter > r.highest)
        PROVE  r.highest - f.counter < WindowSize /\ r.highest - f.counter \notin r.seen
    <3>1. PICK g \in openedFrames : g.epoch = r.epoch /\ g.counter = r.highest - 0
      BY <2>1, <2>4 DEF Recorded
    <3>2. r.highest - f.counter < WindowSize
      BY <2>2, <2>4, <3>1
    <3>3. ASSUME r.highest - f.counter \in r.seen
          PROVE  FALSE
      <4>1. PICK h \in openedFrames :
              h.epoch = r.epoch /\ h.counter = r.highest - (r.highest - f.counter)
        BY <2>1, <3>3 DEF Recorded
      <4>2. h.counter = f.counter
        BY <2>2, <4>1
      <4>3. h = f
        BY <2>2, <4>1, <4>2 DEF SealInv, NoncesAreFresh
      <4> QED  BY <2>4, <4>3
    <3> QED  BY <3>2, <3>3
  <2> QED  BY <2>3, <2>4 DEF Accepts
<1> QED  BY <1>1, WatchInvHolds, PTL

-----------------------------------------------------------------------------
(* Lost and reordered packets: the numbers of the wire *)

LEMMA RecoveryValues ==
  /\ Cycle \in Nat \ {0} /\ Jump \in Nat /\ Late \in Nat /\ Late < Jump
  /\ Ahead \in Nat /\ 2 * (Jump + Ahead) < Cycle
BY RecoveryAssumption

(* What a number is in its cycle. *)
LEMMA Wraps ==
  ASSUME NEW a \in Nat
  PROVE  /\ a % Cycle \in Nat /\ a % Cycle < Cycle /\ a \div Cycle \in Int
         /\ a = Cycle * (a \div Cycle) + (a % Cycle)
BY RecoveryValues

LEMMA Distributes ==
  ASSUME NEW a \in Int, NEW b \in Int
  PROVE  /\ Cycle * (a + b) = Cycle * a + Cycle * b
         /\ Cycle * (a - b) = Cycle * a - Cycle * b
         /\ Cycle * a \in Int
BY RecoveryValues

LEMMA NoFurtherThanACycle ==
  ASSUME NEW m \in Int, Cycle * m < 2 * Cycle, -2 * Cycle < Cycle * m
  PROVE  m \in {-1, 0, 1}
BY RecoveryValues

LEMMA NearStaysNear ==
  ASSUME NEW c \in Nat \ {0}, NEW x \in Int, NEW near \in Nat, NEW v \in Int,
         NEW r \in Nat, r < c, NEW number \in Nat, number < c,
         x = near - r + number + v, 2 * (x - near) < c, 2 * (near - x) < c
  PROVE  v < 2 * c /\ -2 * c < v
OBVIOUS

(***************************************************************************)
(* extended: less than half a cycle from near, a number of the wire is      *)
(* brought back to the one it was, whatever cycles lie between.             *)
(***************************************************************************)
LEMMA Unrolled ==
  ASSUME NEW n \in Nat, NEW near \in Nat, NEW j \in Int, NEW x \in Int, x = n + Cycle * j,
         2 * Far(x, near) < Cycle
  PROVE  Extended(n % Cycle, near) = x
<1> DEFINE Near3(base, number) == {base - Cycle + number, base + number, base + Cycle + number}
           Closest(N, e) == \A f \in N : Far(e, near) < Far(f, near)
                                         \/ (Far(e, near) = Far(f, near) /\ e <= f)
<1>1. PICK q \in Int, number \in Nat : number = n % Cycle /\ number < Cycle /\ n = Cycle * q + number
  BY Wraps
<1>2. PICK p \in Int, r \in Nat : r = near % Cycle /\ r < Cycle /\ near = Cycle * p + r
  BY Wraps
<1> DEFINE near3 == Near3(near - r, number)
<1>3. PICK m \in Int : Cycle * m \in Int /\ x = near - r + number + Cycle * m
  <2>1. /\ Cycle * (q + j) = Cycle * q + Cycle * j
        /\ Cycle * q \in Int /\ Cycle * j \in Int
    BY Distributes, Zenon
  <2>3. PICK k \in Int : k = q + j
    OBVIOUS
  <2>4. Cycle * (k - p) = Cycle * k - Cycle * p /\ Cycle * p \in Int
    BY Distributes, Zenon
  <2>5. Cycle * (k - p) = Cycle * q + Cycle * j - Cycle * p /\ Cycle * (k - p) \in Int
    BY <2>1, <2>3, <2>4
  <2>2. x = near - r + number + Cycle * (k - p)
    BY <1>1, <1>2, <2>1, <2>4, <2>5
  <2>6. k - p \in Int
    OBVIOUS
  <2> QED
    BY <2>2, <2>5, <2>6
<1>4. 2 * (x - near) < Cycle /\ 2 * (near - x) < Cycle
  BY RecoveryValues DEF Far
<1>5. Cycle * m < 2 * Cycle /\ -2 * Cycle < Cycle * m
  <2>1. Cycle \in Nat \ {0}
    BY RecoveryValues
  <2> QED
    BY <1>1, <1>2, <1>3, <1>4, <2>1, NearStaysNear, Zenon
<1>6. m \in {-1, 0, 1}
  BY <1>3, <1>5, NoFurtherThanACycle
<1>7. x \in {(near - r) + number, (near - r) - Cycle + number, (near - r) + Cycle + number}
  <2>1. Cycle * 1 = Cycle /\ Cycle * 0 = 0 /\ Cycle * (-1) = 0 - Cycle
    BY RecoveryValues
  <2>2. Cycle * m \in {0 - Cycle, 0, Cycle}
    BY <1>6, <2>1
  <2> HIDE DEF near3
  <2>3. \A v \in {0 - Cycle, 0, Cycle} : (near - r) + number + v
                                          \in {(near - r) + number, (near - r) - Cycle + number,
                                              (near - r) + Cycle + number}
    BY RecoveryValues
  <2> QED
    BY <1>3, <2>2, <2>3
<1>8. x \in near3 /\ \A f \in near3 : f \in Int /\ (f = x \/ f >= x + Cycle \/ f <= x - Cycle)
  BY <1>7, RecoveryValues
<1>9. \A f \in near3 : f = x \/ Far(x, near) < Far(f, near)
  BY <1>4, <1>8, RecoveryValues DEF Far
<1>10. Closest(near3, x) /\ \A e \in near3 : Closest(near3, e) => e = x
  <2>1. Far(x, near) \in Int /\ \A f \in near3 : Far(f, near) \in Int
    BY <1>8 DEF Far
  <2> HIDE DEF near3
  <2> QED
    BY <1>8, <1>9, <2>1
<1>11. Extended(number, near) = CHOOSE e \in near3 : Closest(near3, e)
  BY <1>1, <1>2 DEF Extended
<1>12. (CHOOSE e \in near3 : Closest(near3, e)) = x
  <2> HIDE DEF near3, Closest
  <2> QED
    BY <1>8, <1>10
<1> QED
  BY <1>1, <1>11, <1>12

-----------------------------------------------------------------------------
(* Lost and reordered packets: what is held, waited for and released *)

RecoveryShapes ==
  /\ start \in Nat /\ sent \in Nat /\ next \in Nat /\ out \in Seq(Nat)
  /\ DOMAIN held \subseteq Nat /\ IsFiniteSet(DOMAIN held) /\ DOMAIN missing \subseteq Nat
  /\ next = 0 => DOMAIN held = {} /\ DOMAIN missing = {} /\ out = <<>>
  /\ next /= 0 => out /= <<>>
  /\ \A e \in DOMAIN held : held[e] \in Nat /\ held[e] < start + sent /\ e <= next + Jump
  /\ out /= <<>> => out[Len(out)] < start + sent

(* One offset leads from the packets, released and held, to their numbers. *)
NumbersFollow ==
  next /= 0 => \E j \in Int : /\ out[Len(out)] = next - 1 - Cycle * j
                              /\ \A e \in DOMAIN held : held[e] = e - Cycle * j

RecoveryInv == RecoveryShapes /\ NumbersFollow /\ HolesAreWaitedFor /\ ReleasedInOrder

LEMMA LeastOfSome ==
  ASSUME NEW T \in SUBSET Nat, T /= {}
  PROVE  \E m \in T : \A k \in T : m <= k
<1>1. PICK m \in T : \A k \in T : ~(<<k, m>> \in OpToRel(<, Nat))
  BY NatLessThanWellFounded, WFMin
<1>2. \A k \in T : <<k, m>> \in OpToRel(<, Nat) <=> k < m
  BY DEF OpToRel
<1>3. \A k \in T : ~(k < m)
  BY <1>1, <1>2, Zenon
<1> QED
  BY <1>3

(* What follows e in a finite set is an interval, and ends at a hole. *)
LEMMA RunIsAnInterval ==
  ASSUME NEW h, NEW e \in DOMAIN h, DOMAIN h \subseteq Nat, IsFiniteSet(DOMAIN h)
  PROVE  \E c \in Nat \ {0} : /\ Cardinality(RunFrom(h, e)) = c
                              /\ RunFrom(h, e) = e..(e + c - 1)
                              /\ e + c \notin DOMAIN h
<1> DEFINE T == {k \in Nat : k >= e /\ k \notin DOMAIN h}
<1>1. T /= {}
  <2>1. SUFFICES ASSUME T = {}
                 PROVE  FALSE
    OBVIOUS
  <2>2. Nat \subseteq (0..e) \cup DOMAIN h
    BY <2>1
  <2>3. IsFiniteSet((0..e) \cup DOMAIN h)
    <3>1. IsFiniteSet(0..e)
      BY FS_Interval
    <3> QED
      BY <3>1, FS_Union
  <2>4. IsFiniteSet(Nat)
    BY <2>2, <2>3, FS_Subset
  <2>5. PICK n \in Nat : n = Cardinality(Nat)
    BY <2>4, FS_CardinalityType
  <2>6. Cardinality(0..n) = n + 1 /\ 0..n \subseteq Nat
    BY FS_Interval
  <2> QED
    BY <2>4, <2>5, <2>6, FS_Subset
<1>2. PICK m \in T : \A k \in T : m <= k
  BY <1>1, LeastOfSome
<1>3. m \in Nat /\ e \in Nat /\ m > e /\ m \notin DOMAIN h
  BY <1>2
<1>4. \A k \in e..(m - 1) : k \in DOMAIN h
  BY <1>2, <1>3
<1>5. RunFrom(h, e) = e..(m - 1)
  <2>1. \A k \in DOMAIN h : k >= e /\ (\A i \in e..k : i \in DOMAIN h) => k < m
    BY <1>3
  <2>2. \A k \in e..(m - 1) : \A i \in e..k : i \in e..(m - 1)
    BY <1>3
  <2> QED
    BY <1>3, <1>4, <2>1, <2>2 DEF RunFrom
<1>6. Cardinality(e..(m - 1)) = m - e
  BY <1>3, FS_Interval
<1> WITNESS m - e \in Nat \ {0}
<1> QED
  BY <1>3, <1>5, <1>6

Rising(q) == \A i \in 1..(Len(q) - 1) : q[i] < q[i + 1]

LEMMA RisesOn ==
  ASSUME NEW n \in Nat \ {0}, NEW c \in Nat \ {0}, NEW v \in Nat, NEW q, NEW r,
         \A i \in 1..n : r[i] = q[i] /\ q[i] \in Nat, \A i \in 1..c : r[n + i] = v + i,
         \A i \in 1..(n - 1) : q[i] < q[i + 1], q[n] <= v
  PROVE  \A i \in 1..(n + c - 1) : r[i] < r[i + 1]
<1> SUFFICES ASSUME NEW i \in 1..(n + c - 1)
             PROVE  r[i] < r[i + 1]
  OBVIOUS
<1>1. CASE i < n
  <2>1. i \in 1..n /\ i + 1 \in 1..n /\ i \in 1..(n - 1)
    BY <1>1
  <2> QED
    BY <2>1
<1>2. CASE i = n
  <2>1. n \in 1..n /\ 1 \in 1..c
    OBVIOUS
  <2>2. r[n] = q[n] /\ r[n + 1] = v + 1 /\ q[n] <= v
    BY <2>1
  <2> QED
    BY <1>2, <2>2
<1>3. CASE i > n
  <2>1. PICK k \in 1..(c - 1) : i = n + k
    <3>1. i - n \in 1..(c - 1) /\ i = n + (i - n)
      BY <1>3
    <3> QED
      BY <3>1
  <2>2. k \in 1..c /\ k + 1 \in 1..c /\ i + 1 = n + (k + 1)
    BY <2>1
  <2>3. r[n + k] = v + k /\ r[n + (k + 1)] = v + (k + 1)
    BY <2>2
  <2> QED
    BY <2>1, <2>2, <2>3
<1> QED
  BY <1>1, <1>2, <1>3

(* The packets that were released go on with a run of numbers. *)
LEMMA RunFollows ==
  ASSUME out \in Seq(Nat), out /= <<>>, Rising(out), NEW c \in Nat \ {0}, NEW v \in Int,
         out[Len(out)] <= v, out' = out \o [i \in 1..c |-> v + i]
  PROVE  out' \in Seq(Nat) /\ out' /= <<>> /\ out'[Len(out')] = v + c /\ Rising(out')
<1>1. PICK n \in Nat \ {0}, q \in Seq(Nat) : q = out /\ n = Len(q)
  BY EmptySeq
<1>2. q[n] \in Nat /\ v \in Nat /\ \A i \in 1..n : q[i] \in Nat
  BY <1>1
<1>3. PICK s : s = [i \in 1..c |-> v + i]
  OBVIOUS
<1>4. s \in Seq(Nat) /\ Len(s) = c
  BY <1>2, <1>3
<1>5. PICK r : r = q \o s /\ out' = r
  BY <1>1, <1>3
<1>6. /\ r \in Seq(Nat) /\ Len(r) = n + c
      /\ \A i \in 1..n : r[i] = q[i]
      /\ \A i \in 1..c : r[n + i] = v + i
  BY <1>1, <1>2, <1>3, <1>4, <1>5
<1>7. \A i \in 1..(n - 1) : q[i] < q[i + 1]
  BY <1>1 DEF Rising
<1>8. \A i \in 1..(n + c - 1) : r[i] < r[i + 1]
  BY ZenonT(40), <1>1, <1>2, <1>6, <1>7, RisesOn
<1>9. c \in 1..c /\ n + c /= 0
  OBVIOUS
<1>10. r /= <<>> /\ r[Len(r)] = v + c
  BY <1>6, <1>9, EmptySeq
<1>11. Rising(r)
  BY <1>6, <1>8 DEF Rising
<1> QED
  BY <1>5, <1>6, <1>10, <1>11

(* Or with one that is greater. *)
LEMMA AppendRises ==
  ASSUME NEW q \in Seq(Nat), q /= <<>>, Rising(q), NEW n \in Nat, q[Len(q)] < n
  PROVE  /\ Append(q, n) \in Seq(Nat) /\ Append(q, n) /= <<>>
         /\ Append(q, n)[Len(Append(q, n))] = n /\ Rising(Append(q, n))
<1>1. PICK l \in Nat \ {0} : l = Len(q)
  BY EmptySeq
<1>2. PICK r : r = Append(q, n)
  OBVIOUS
<1>3. /\ r \in Seq(Nat) /\ Len(r) = l + 1 /\ r[l + 1] = n /\ r /= <<>>
      /\ \A i \in 1..l : r[i] = q[i]
  BY <1>1, <1>2
<1>4. \A i \in 1..l : r[i] < r[i + 1]
  <2> SUFFICES ASSUME NEW i \in 1..l
               PROVE  r[i] < r[i + 1]
    OBVIOUS
  <2>1. CASE i = l
    BY <1>1, <1>3, <2>1
  <2>2. CASE i < l
    <3>1. i \in 1..(Len(q) - 1) /\ i + 1 \in 1..l
      BY <1>1, <2>2
    <3> QED
      BY <1>3, <3>1 DEF Rising
  <2> QED
    BY <2>1, <2>2
<1>5. Rising(r)
  BY <1>3, <1>4 DEF Rising
<1> QED
  BY <1>2, <1>3, <1>5

(***************************************************************************)
(* release_ready: from e on, packets that follow what was released and      *)
(* whose holes are waited for leave what is held in order.                  *)
(***************************************************************************)
LEMMA ReleaseKeeps ==
  ASSUME RecoveryShapes, ReleasedInOrder, next /= 0, UNCHANGED <<start, sent>>,
         NEW h, NEW waits, NEW e \in DOMAIN h, NEW j \in Int, ReleaseFrom(h, e, waits),
         DOMAIN h \subseteq Nat, IsFiniteSet(DOMAIN h), DOMAIN waits \subseteq Nat,
         next <= e, out[Len(out)] <= e - 1 - Cycle * j,
         \A f \in DOMAIN h : /\ e <= f /\ f <= next + Jump
                             /\ h[f] = f - Cycle * j /\ h[f] \in Nat /\ h[f] < start + sent,
         \A k \in DOMAIN waits : e < k /\ k \notin DOMAIN h /\ \E f \in DOMAIN h : k < f,
         \A f \in DOMAIN h : e..f \subseteq DOMAIN h \cup DOMAIN waits
  PROVE  RecoveryInv'
<1>1. PICK c \in Nat \ {0} : /\ Cardinality(RunFrom(h, e)) = c
                             /\ RunFrom(h, e) = e..(e + c - 1)
                             /\ e + c \notin DOMAIN h
  BY RunIsAnInterval
<1>2. PICK v \in Int : v = e - 1 - Cycle * j /\ \A f \in DOMAIN h : h[f] = v + (f - (e - 1))
  <2>1. PICK k \in Int : k = Cycle * j
    BY Distributes, Zenon
  <2>2. e - 1 - k \in Int /\ \A f \in DOMAIN h : f - k = (e - 1 - k) + (f - (e - 1))
    OBVIOUS
  <2> QED
    BY <2>1, <2>2
<1>3. PICK s : s = [i \in 1..c |-> h[e + i - 1]]
  OBVIOUS
<1>4. /\ out' = out \o s /\ next' = e + c
      /\ held' = Without(h, e..(e + c - 1)) /\ missing' = Without(waits, e..(e + c - 1))
  BY <1>1, <1>3 DEF ReleaseFrom
<1>5. \A i \in 1..c : e + i - 1 \in DOMAIN h
  <2>1. \A i \in 1..c : e + i - 1 \in e..(e + c - 1)
    OBVIOUS
  <2> QED
    BY <1>1, <2>1 DEF RunFrom
<1>6. s = [i \in 1..c |-> v + i]
  <2>1. \A i \in 1..c : h[e + i - 1] = v + i
    BY <1>2, <1>5
  <2> QED
    BY <1>3, <2>1
<1>7. /\ out' \in Seq(Nat) /\ out' /= <<>> /\ out'[Len(out')] = v + c
      /\ Rising(out')
  <2>1. out \in Seq(Nat) /\ out /= <<>> /\ out[Len(out)] <= v /\ Rising(out)
    BY <1>2 DEF RecoveryShapes, ReleasedInOrder, Rising
  <2>2. out' = out \o [i \in 1..c |-> v + i]
    BY <1>4, <1>6
  <2> QED
    BY <2>1, <2>2, RunFollows
<1>8. v + c < start + sent /\ start' + sent' = start + sent
  <2>1. e + c - 1 \in DOMAIN h /\ c \in 1..c
    BY <1>5
  <2>2. h[e + c - 1] = v + c
    BY <1>2, <2>1
  <2> QED
    BY <2>1, <2>2
<1>9. /\ DOMAIN held' = DOMAIN h \ e..(e + c - 1) /\ \A f \in DOMAIN held' : held'[f] = h[f]
      /\ DOMAIN missing' = DOMAIN waits \ e..(e + c - 1)
  BY <1>4 DEF Without
<1>10. \A f \in DOMAIN held' : f \in DOMAIN h /\ f > e + c
  BY SMTT(40), <1>1, <1>9
<1>11. RecoveryShapes'
  <2>1. IsFiniteSet(DOMAIN held')
    BY <1>9, FS_Subset
  <2>2. next' \in Nat /\ next' /= 0 /\ next <= next' /\ e \in Nat /\ start' \in Nat /\ sent' \in Nat
    BY SMTT(40), <1>4 DEF RecoveryShapes
  <2>3. \A f \in DOMAIN held' : held'[f] \in Nat /\ held'[f] < start' + sent' /\ f <= next' + Jump
    <3> SUFFICES ASSUME NEW f \in DOMAIN held'
                 PROVE  held'[f] \in Nat /\ held'[f] < start' + sent' /\ f <= next' + Jump
      OBVIOUS
    <3>1. f \in DOMAIN h /\ held'[f] = h[f] /\ f \in Nat
      BY <1>9
    <3>2. f <= next + Jump /\ next \in Nat /\ Jump \in Nat
      BY <3>1, RecoveryValues DEF RecoveryShapes
    <3>3. f <= next' + Jump
      BY <2>2, <3>1, <3>2
    <3> QED
      BY <1>8, <3>1, <3>3
  <2> QED
    BY <1>7, <1>8, <1>9, <2>1, <2>2, <2>3 DEF RecoveryShapes
<1>12. NumbersFollow'
  <2>1. next' - 1 - Cycle * j = v + c
    <3>1. PICK k \in Int : k = Cycle * j
      BY Distributes, Zenon
    <3>2. e \in Int /\ v = e - 1 - k /\ next' = e + c
      BY <1>2, <1>4, <3>1
    <3>3. next' - 1 - k = v + c
      BY <3>2
    <3> QED
      BY <3>1, <3>3
  <2> QED
    BY <1>7, <1>9, <2>1 DEF NumbersFollow
<1>13. HolesAreWaitedFor'
  <2>1. \A f \in DOMAIN held' : next' < f /\ next' \in DOMAIN missing'
    <3> SUFFICES ASSUME NEW f \in DOMAIN held'
                 PROVE  next' < f /\ next' \in DOMAIN missing'
      OBVIOUS
    <3>1. e + c \in e..f /\ e + c < f
      BY <1>10
    <3>2. e + c \in DOMAIN waits
      BY <1>1, <1>10, <3>1
    <3> QED
      BY <1>4, <1>9, <3>1, <3>2
  <2>2. \A k \in DOMAIN missing' : /\ next' <= k /\ k \notin DOMAIN held'
                                   /\ \E f \in DOMAIN held' : k < f
    <3> SUFFICES ASSUME NEW k \in DOMAIN missing'
                 PROVE  /\ next' <= k /\ k \notin DOMAIN held'
                        /\ \E f \in DOMAIN held' : k < f
      OBVIOUS
    <3>1. k \in DOMAIN waits /\ k \in Nat /\ e < k /\ k > e + c - 1 /\ k \notin DOMAIN h
      BY <1>9
    <3>2. PICK f \in DOMAIN h : k < f
      BY <3>1
    <3>3. f \in DOMAIN held'
      BY <1>9, <3>1, <3>2
    <3> QED
      BY SMTT(40), <1>4, <1>9, <3>1, <3>2, <3>3
  <2>3. \A f \in DOMAIN held' : next'..f \subseteq DOMAIN held' \cup DOMAIN missing'
    <3> SUFFICES ASSUME NEW f \in DOMAIN held', NEW i \in next'..f
                 PROVE  i \in DOMAIN held' \cup DOMAIN missing'
      OBVIOUS
    <3>1. i \in e..f /\ i \notin e..(e + c - 1)
      BY <1>4, <1>10
    <3> QED
      BY <1>9, <1>10, <3>1
  <2> QED
    BY <2>1, <2>2, <2>3 DEF HolesAreWaitedFor
<1>14. ReleasedInOrder'
  BY <1>7 DEF ReleasedInOrder, Rising
<1> QED
  BY <1>11, <1>12, <1>13, <1>14 DEF RecoveryInv

(* One packet arrives: first, of another stream, too late, ahead or in turn. *)
LEMMA ArriveKeeps ==
  ASSUME RecoveryInv, NEW n, Arrive(n)
  PROVE  RecoveryInv'
<1> USE RecoveryValues
<1>1. /\ n \in Nat /\ n < start + sent /\ start + sent - 1 <= n + Late
      /\ start' = start /\ sent' = sent /\ start \in Nat /\ sent \in Nat
  <2>1. n \in start..(start + sent - 1) /\ n + Late >= start + sent - 1 /\ UNCHANGED <<start, sent>>
    BY Zenon DEF Arrive
  <2>2. start \in Nat /\ sent \in Nat
    BY DEF RecoveryInv, RecoveryShapes
  <2> QED
    BY <2>1, <2>2
<1>2. CASE next = 0 /\ Restarts(FirstOfAll(n % Cycle), n)
  <2>1. PICK q \in Int, number \in Nat : number = n % Cycle /\ number < Cycle /\ n = Cycle * q + number
    BY <1>1, Wraps
  <2>2. Cycle * (Cycle - q) = Cycle * Cycle - Cycle * q /\ Cycle * Cycle \in Nat
        /\ Cycle - q \in Int /\ Cycle * q \in Int
    <3>1. Cycle \in Int /\ Cycle - q \in Int
      OBVIOUS
    <3>2. Cycle * (Cycle - q) = Cycle * Cycle - Cycle * q /\ Cycle * q \in Int
      BY <3>1, Distributes, Zenon
    <3> QED
      BY <3>1, <3>2
  <2>3. /\ next' = Cycle * Cycle + number + 1 /\ out' = <<n>>
        /\ held' = Nobody /\ missing' = Nobody
    BY <1>2, <2>1 DEF Restarts, FirstOfAll, RecoveryInv, RecoveryShapes
  <2>4. next' \in Nat /\ next' /= 0 /\ n = next' - 1 - Cycle * (Cycle - q)
    BY <1>1, <2>1, <2>2, <2>3
  <2>5. DOMAIN held' = {} /\ DOMAIN missing' = {} /\ IsFiniteSet({})
    BY <2>3, FS_EmptySet DEF Nobody
  <2>6. /\ out' \in Seq(Nat) /\ out' /= <<>> /\ Len(out') = 1 /\ out'[1] = n
    BY <1>1, <2>3
  <2>7. RecoveryShapes'
    BY <1>1, <2>4, <2>5, <2>6 DEF RecoveryShapes
  <2>8. NumbersFollow'
    BY <2>2, <2>4, <2>5, <2>6 DEF NumbersFollow
  <2> QED
    BY <2>5, <2>6, <2>7, <2>8 DEF RecoveryInv, HolesAreWaitedFor, ReleasedInOrder
<1>3. CASE next /= 0
  <2>1. PICK j \in Int : /\ out[Len(out)] = next - 1 - Cycle * j
                         /\ \A e \in DOMAIN held : held[e] = e - Cycle * j
    BY <1>3 DEF RecoveryInv, NumbersFollow
  <2>2. PICK k \in Int : k = Cycle * j
    BY Distributes, Zenon
  <2>3. PICK x \in Int : x = n + Cycle * j /\ x = n + k
    BY <1>1, <2>2
  <2>4. /\ next \in Nat /\ out \in Seq(Nat) /\ out /= <<>> /\ out[Len(out)] < start + sent
        /\ \A e \in DOMAIN held : e \in Nat /\ e <= next + Jump /\ next < e
    BY <1>3 DEF RecoveryInv, RecoveryShapes, HolesAreWaitedFor
  <2>5. x <= next + Jump + Ahead /\ next <= x + Late + 1
    <3>1. PICK m \in LastArrived : n <= m + Ahead
      BY <1>3 DEF Arrive
    <3>2. m \in Int /\ m + k <= next + Jump
      <4>1. /\ out[Len(out)] = next - 1 - k
            /\ \A e \in DOMAIN held : held[e] = e - k
        BY <2>1, <2>2
      <4>2. m = out[Len(out)] \/ \E e \in DOMAIN held : m = held[e]
        BY <3>1 DEF LastArrived
      <4>3. CASE m = out[Len(out)]
        BY <2>4, <4>1, <4>3
      <4>4. CASE \E e \in DOMAIN held : m = held[e]
        <5>1. PICK e \in DOMAIN held : m = held[e]
          BY <4>4
        <5>2. e \in Nat /\ e <= next + Jump /\ m = e - k
          BY <2>4, <4>1, <5>1
        <5> QED
          BY <5>2
      <4> QED
        BY <4>2, <4>3, <4>4
    <3>3. x <= next + Jump + Ahead
      BY <1>1, <2>3, <2>4, <3>1, <3>2
    <3>4. next - 1 - k < start + sent
      BY <2>1, <2>2, <2>4
    <3> QED
      BY <1>1, <2>3, <2>4, <3>3, <3>4
  <2>6. 2 * Far(x, next) < Cycle
    BY <2>4, <2>5 DEF Far
  <2>7. Extended(n % Cycle, next) = x
    BY <1>1, <2>3, <2>4, <2>6, Unrolled
  <2>8. PICK h, holes : /\ h = [f \in DOMAIN held \cup {x} |-> IF f = x THEN n ELSE held[f]]
                        /\ holes = {f \in next..(x - 1) : f \notin DOMAIN held}
    OBVIOUS
  <2>9. CASE TooLate(x) /\ UNCHANGED <<next, held, missing, out>>
    BY <1>1, <2>9 DEF RecoveryInv, RecoveryShapes, NumbersFollow, HolesAreWaitedFor, ReleasedInOrder
  <2>10. CASE ~TooLate(x) /\ Far(x, next) > Jump /\ Restarts(x, n)
    <3>1. x > next
      BY <2>4, <2>5, <2>10 DEF TooLate, Far
    <3>2. /\ next' = x + 1 /\ out' = Append(out, n) /\ DOMAIN held' = {} /\ DOMAIN missing' = {}
      BY <2>10 DEF Restarts, Nobody
    <3>3. out[Len(out)] < n /\ next' \in Nat /\ next' /= 0 /\ n = next' - 1 - Cycle * j
      BY <1>1, <2>1, <2>2, <2>3, <2>4, <3>1, <3>2
    <3>4. /\ out' \in Seq(Nat) /\ out' /= <<>> /\ out'[Len(out')] = n /\ Rising(out')
      <4>1. Rising(out)
        BY DEF RecoveryInv, ReleasedInOrder, Rising
      <4> QED
        BY <1>1, <2>4, <3>2, <3>3, <4>1, AppendRises
    <3>5. RecoveryShapes'
      BY <1>1, <3>2, <3>3, <3>4, FS_EmptySet DEF RecoveryShapes
    <3>6. NumbersFollow'
      BY <3>2, <3>3, <3>4 DEF NumbersFollow
    <3> QED
      BY <3>2, <3>4, <3>5, <3>6 DEF RecoveryInv, HolesAreWaitedFor, ReleasedInOrder, Rising
  <2>11. CASE /\ ~TooLate(x) /\ Far(x, next) <= Jump /\ x > next
              /\ held' = h
              /\ missing' = [f \in (DOMAIN missing \cup holes) \ {x} |->
                               IF f \in DOMAIN missing THEN missing[f] ELSE 0]
              /\ UNCHANGED <<next, out>>
    <3>1. /\ DOMAIN held' = DOMAIN held \cup {x} /\ held'[x] = n
          /\ \A f \in DOMAIN held : f /= x => held'[f] = held[f]
          /\ DOMAIN missing' = (DOMAIN missing \cup holes) \ {x}
          /\ next' = next /\ out' = out /\ next < x /\ x <= next + Jump /\ x \in Nat
      BY <2>4, <2>8, <2>11 DEF Far
    <3>2. n = x - Cycle * j
      BY <1>1, <2>2, <2>3
    <3>3. RecoveryShapes'
      <4>1. IsFiniteSet(DOMAIN held')
        <5>1. IsFiniteSet(DOMAIN held)
          BY DEF RecoveryInv, RecoveryShapes
        <5>2. IsFiniteSet(DOMAIN held \cup {x})
          BY <5>1, FS_AddElement, Zenon
        <5> QED
          BY <3>1, <5>2
      <4>2. holes \subseteq Nat /\ DOMAIN held' \subseteq Nat
        BY <2>4, <2>8, <3>1
      <4>3. DOMAIN missing' \subseteq Nat
        BY <3>1, <4>2 DEF RecoveryInv, RecoveryShapes
      <4>4. \A f \in DOMAIN held' :
              held'[f] \in Nat /\ held'[f] < start' + sent' /\ f <= next' + Jump
        BY <1>1, <3>1 DEF RecoveryInv, RecoveryShapes
      <4> QED
        BY <1>1, <1>3, <2>4, <3>1, <4>1, <4>2, <4>3, <4>4 DEF RecoveryShapes
    <3>4. NumbersFollow'
      BY <2>1, <3>1, <3>2 DEF NumbersFollow
    <3>5. HolesAreWaitedFor'
      <4> USE DEF RecoveryInv, HolesAreWaitedFor
      <4>1. \A f \in DOMAIN held' : next' < f
        BY <2>4, <3>1
      <4>2. next \in holes
        BY <2>4, <2>8, <3>1
      <4>3. next' \in DOMAIN missing'
        BY <2>4, <3>1, <4>2
      <4>4. \A f \in DOMAIN missing' : next' <= f /\ f \notin DOMAIN held'
        BY <2>8, <2>4, <3>1
      <4>5. \A f \in DOMAIN missing' : \E g \in DOMAIN held' : f < g
        <5> SUFFICES ASSUME NEW f \in DOMAIN missing'
                     PROVE  \E g \in DOMAIN held' : f < g
          OBVIOUS
        <5>1. CASE f \in DOMAIN missing
          BY <3>1, <5>1
        <5>2. CASE f \in holes
          <6>1. f < x
            BY <2>4, <2>8, <5>2
          <6> QED
            BY <3>1, <6>1
        <5> QED
          BY <3>1, <5>1, <5>2
      <4>6. \A f \in DOMAIN held' : next'..f \subseteq DOMAIN held' \cup DOMAIN missing'
        <5> SUFFICES ASSUME NEW f \in DOMAIN held', NEW i \in next..f, i /= x, i \notin DOMAIN held
                     PROVE  i \in DOMAIN missing'
          BY <3>1
        <5>1. CASE f = x
          BY <2>4, <2>8, <3>1, <5>1
        <5>2. CASE f /= x
          BY <3>1, <5>2
        <5> QED
          BY <5>1, <5>2
      <4> QED
        BY <4>1, <4>3, <4>4, <4>5, <4>6
    <3>6. ReleasedInOrder'
      BY <3>1 DEF RecoveryInv, ReleasedInOrder
    <3> QED
      BY <3>3, <3>4, <3>5, <3>6 DEF RecoveryInv
  <2>12. CASE x = next /\ ReleaseFrom(h, x, Without(missing, {x}))
    <3>1. PICK waits : waits = Without(missing, {x})
      OBVIOUS
    <3>2. /\ DOMAIN h = DOMAIN held \cup {x} /\ h[x] = n
          /\ \A f \in DOMAIN held : f /= x => h[f] = held[f]
          /\ DOMAIN waits = DOMAIN missing \ {x}
      BY <2>8, <3>1 DEF Without
    <3>3. n = x - Cycle * j /\ out[Len(out)] <= x - 1 - Cycle * j /\ next <= x
      BY <1>1, <2>1, <2>2, <2>3, <2>4, <2>12
    <3>4. IsFiniteSet(DOMAIN h) /\ DOMAIN h \subseteq Nat /\ DOMAIN waits \subseteq Nat
      BY SMTT(40), <2>4, <2>12, <3>2, FS_AddElement DEF RecoveryInv, RecoveryShapes
    <3>5. \A f \in DOMAIN h : /\ x <= f /\ f <= next + Jump
                              /\ h[f] = f - Cycle * j /\ h[f] \in Nat /\ h[f] < start + sent
      BY <1>1, <2>1, <2>4, <2>12, <3>2, <3>3 DEF RecoveryInv, RecoveryShapes
    <3>6. \A f \in DOMAIN waits : x < f /\ f \notin DOMAIN h /\ \E g \in DOMAIN h : f < g
      BY SMTT(40), <2>4, <2>12, <3>2, <3>4 DEF RecoveryInv, HolesAreWaitedFor
    <3>7. \A f \in DOMAIN h : x..f \subseteq DOMAIN h \cup DOMAIN waits
      BY <2>4, <2>12, <3>2 DEF RecoveryInv, HolesAreWaitedFor
    <3> QED
      BY ZenonT(40), <1>1, <1>3, <2>12, <3>1, <3>2, <3>3, <3>4, <3>5, <3>6, <3>7, ReleaseKeeps DEF RecoveryInv
  <2> QED
    BY <1>3, <2>7, <2>8, <2>9, <2>10, <2>11, <2>12 DEF Arrive
<1> QED
  BY <1>2, <1>3 DEF Arrive

(* The clock: asks again, or gives the first hole up. *)
LEMMA DueKeeps ==
  ASSUME RecoveryInv, Due
  PROVE  RecoveryInv'
<1>1. UNCHANGED <<start, sent>>
  BY DEF Due
<1>2. CASE missing' \in AskedAgain(missing) /\ UNCHANGED <<next, held, out>>
  <2>1. DOMAIN missing' = DOMAIN missing
    BY <1>2 DEF AskedAgain
  <2> QED
    BY <1>1, <1>2, <2>1 DEF RecoveryInv, RecoveryShapes, NumbersFollow, HolesAreWaitedFor,
      ReleasedInOrder
<1>3. CASE /\ DOMAIN held /= {}
           /\ LET first == CHOOSE e \in DOMAIN held : \A f \in DOMAIN held : e <= f
              IN \E waits \in AskedAgain(StillMissing(first)) : ReleaseFrom(held, first, waits)
  <2>1. PICK first \in DOMAIN held : \A f \in DOMAIN held : first <= f
    <3>1. DOMAIN held \subseteq Nat /\ DOMAIN held /= {}
      BY <1>3 DEF RecoveryInv, RecoveryShapes
    <3> QED
      BY <3>1, LeastOfSome
  <2>2. first = CHOOSE e \in DOMAIN held : \A f \in DOMAIN held : e <= f
    <3>1. \A e \in DOMAIN held : (\A f \in DOMAIN held : e <= f) => e = first
      BY <2>1 DEF RecoveryInv, RecoveryShapes
    <3> QED
      BY <2>1, <3>1
  <2>3. PICK waits \in AskedAgain(StillMissing(first)) : ReleaseFrom(held, first, waits)
    BY <1>3, <2>2
  <2>4. DOMAIN waits = {k \in DOMAIN missing : k > first}
    BY <2>3 DEF AskedAgain, StillMissing
  <2>5. PICK h : h = held
    OBVIOUS
  <2>6. next /= 0 /\ next < first /\ first \in Nat /\ next \in Nat
    BY <2>1 DEF RecoveryInv, RecoveryShapes, HolesAreWaitedFor
  <2>7. PICK j \in Int : /\ out[Len(out)] = next - 1 - Cycle * j
                         /\ \A e \in DOMAIN held : held[e] = e - Cycle * j
    BY <2>6 DEF RecoveryInv, NumbersFollow
  <2>8. out[Len(out)] <= first - 1 - Cycle * j
    <3>1. PICK k \in Int : k = Cycle * j
      BY Distributes, Zenon
    <3>2. next - 1 - k <= first - 1 - k
      BY <2>6
    <3> QED
      BY <2>7, <3>1, <3>2
  <2>9. \A f \in DOMAIN h : /\ first <= f /\ f <= next + Jump
                            /\ h[f] = f - Cycle * j /\ h[f] \in Nat /\ h[f] < start + sent
    BY <2>1, <2>5, <2>7 DEF RecoveryInv, RecoveryShapes
  <2>10. \A k \in DOMAIN waits : first < k /\ k \notin DOMAIN h /\ \E f \in DOMAIN h : k < f
    BY <2>4, <2>5, <2>6 DEF RecoveryInv, RecoveryShapes, HolesAreWaitedFor
  <2>11. \A f \in DOMAIN h : first..f \subseteq DOMAIN h \cup DOMAIN waits
    <3> SUFFICES ASSUME NEW f \in DOMAIN h, NEW i \in first..f, i \notin DOMAIN h
                 PROVE  i \in DOMAIN waits
      OBVIOUS
    <3>1. i \in next..f /\ i > first
      BY <2>1, <2>5, <2>6
    <3>2. i \in DOMAIN missing
      BY <2>5, <3>1 DEF RecoveryInv, HolesAreWaitedFor
    <3> QED
      BY <2>4, <3>1, <3>2
  <2>12. IsFiniteSet(DOMAIN h) /\ DOMAIN h \subseteq Nat /\ DOMAIN waits \subseteq Nat
    BY <2>4, <2>5 DEF RecoveryInv, RecoveryShapes
  <2>13. ReleaseFrom(h, first, waits) /\ first \in DOMAIN h /\ next <= first
    BY <2>1, <2>3, <2>5, <2>6
  <2> QED
    BY <1>1, <2>6, <2>8, <2>9, <2>10, <2>11, <2>12, <2>13, ReleaseKeeps DEF RecoveryInv
<1> QED
  BY <1>2, <1>3 DEF Due

(* The invariant of recovery.rs: the numbers that were extended are those of *)
(* the packets, up to one offset, and what is held waits for a hole.         *)
THEOREM RecoveryInvariant == RecoverySpec => []RecoveryInv
<1>1. RecoveryInit => RecoveryInv
  <2> SUFFICES ASSUME RecoveryInit
               PROVE  RecoveryInv
    OBVIOUS
  <2>1. DOMAIN held = {} /\ DOMAIN missing = {} /\ IsFiniteSet({})
    BY FS_EmptySet DEF RecoveryInit, Nobody
  <2>2. start \in Nat /\ sent = 0 /\ next = 0 /\ out = <<>> /\ Len(out) = 0
    BY RecoveryValues, EmptySeq DEF RecoveryInit
  <2> QED
    BY <2>1, <2>2 DEF RecoveryInv, RecoveryShapes, NumbersFollow, HolesAreWaitedFor, ReleasedInOrder
<1>2. RecoveryInv /\ [RecoveryNext]_recoveryVars => RecoveryInv'
  <2> SUFFICES ASSUME RecoveryInv, [RecoveryNext]_recoveryVars
               PROVE  RecoveryInv'
    OBVIOUS
  <2>1. CASE Sends \/ UNCHANGED recoveryVars
    <3>1. UNCHANGED <<start, next, held, missing, out>> /\ sent' \in {sent, sent + 1}
      BY <2>1 DEF Sends, recoveryVars
    <3> QED
      BY <3>1 DEF RecoveryInv, RecoveryShapes, NumbersFollow, HolesAreWaitedFor, ReleasedInOrder
  <2>2. CASE Due
    BY <2>2, DueKeeps
  <2>3. CASE \E n \in start..(start + sent) : Arrive(n)
    BY <2>3, ArriveKeeps
  <2> QED
    BY <2>1, <2>2, <2>3 DEF RecoveryNext
<1> QED
  BY <1>1, <1>2, PTL DEF RecoverySpec

(***************************************************************************)
(* The decoder gets the packets in the order they were sent, none twice,    *)
(* however many were sent and wherever the numbers of the wire wrap.        *)
(***************************************************************************)
THEOREM DecodedInOrder == RecoverySpec => []ReleasedInOrder
BY RecoveryInvariant, PTL DEF RecoveryInv

(***************************************************************************)
(* A packet that is held waits for a hole that is asked for or given up,    *)
(* and no hole is waited for that holds up nothing.                         *)
(***************************************************************************)
THEOREM NothingHeldForever == RecoverySpec => []HolesAreWaitedFor
BY RecoveryInvariant, PTL DEF RecoveryInv

(* Nobody is asked more often than he may be. *)
AsksBounded == sent \in 0..MaxSent /\ \A e \in DOMAIN missing : missing[e] \in 0..MostAsks

LEMMA AskedAgainBounded ==
  ASSUME NEW waits, \A e \in DOMAIN waits : waits[e] \in 0..MostAsks, NEW f \in AskedAgain(waits)
  PROVE  DOMAIN f = DOMAIN waits /\ \A e \in DOMAIN f : f[e] \in 0..MostAsks
<1>1. PICK W \in SUBSET {e \in DOMAIN waits : waits[e] < MostAsks} :
        f = [e \in DOMAIN waits |-> waits[e] + IF e \in W THEN 1 ELSE 0]
  BY DEF AskedAgain
<1>2. MostAsks \in Nat
  BY RecoveryAssumption
<1>3. DOMAIN f = DOMAIN waits
  BY <1>1
<1>4. ASSUME NEW e \in DOMAIN f PROVE f[e] \in 0..MostAsks
  <2>1. e \in DOMAIN waits /\ waits[e] \in 0..MostAsks /\ (e \in W => waits[e] < MostAsks)
    BY <1>3
  <2>2. f[e] = waits[e] + IF e \in W THEN 1 ELSE 0
    BY <1>1, <2>1
  <2> QED  BY <1>2, <2>1, <2>2
<1> QED  BY <1>3, <1>4

LEMMA AsksStayBounded == AsksBounded /\ [RecoveryNext]_recoveryVars => AsksBounded'
<1> SUFFICES ASSUME AsksBounded, [RecoveryNext]_recoveryVars PROVE AsksBounded'
  OBVIOUS
<1>0. MaxSent \in Nat /\ MostAsks \in Nat
  BY RecoveryAssumption
<1>1. CASE Sends \/ UNCHANGED recoveryVars
  <2>1. missing' = missing /\ sent' \in 0..MaxSent
    BY <1>0, <1>1 DEF Sends, recoveryVars, AsksBounded
  <2> QED  BY <2>1 DEF AsksBounded
<1>2. CASE Due
  <2>1. sent' = sent
    BY <1>2 DEF Due
  <2>2. CASE missing' \in AskedAgain(missing)
    <3>1. \A e \in DOMAIN missing' : missing'[e] \in 0..MostAsks
      BY <2>2, AskedAgainBounded DEF AsksBounded
    <3> QED  BY <2>1, <3>1 DEF AsksBounded
  <2>3. CASE missing' \notin AskedAgain(missing)
    <3>1. PICK first, waits : waits \in AskedAgain(StillMissing(first)) /\ ReleaseFrom(held, first, waits)
      BY <1>2, <2>3 DEF Due
    <3>2. \A e \in DOMAIN StillMissing(first) : StillMissing(first)[e] \in 0..MostAsks
      BY DEF StillMissing, AsksBounded
    <3>3. \A e \in DOMAIN waits : waits[e] \in 0..MostAsks
      BY <3>1, <3>2, AskedAgainBounded
    <3>4. \A e \in DOMAIN missing' : missing'[e] \in 0..MostAsks
      BY <3>1, <3>3 DEF ReleaseFrom, Without
    <3> QED  BY <2>1, <3>4 DEF AsksBounded
  <2> QED  BY <2>2, <2>3
<1>3. CASE \E n \in start..(start + sent) : Arrive(n)
  <2>1. PICK n \in start..(start + sent) : Arrive(n)
    BY <1>3
  <2>2. sent' = sent
    BY <2>1 DEF Arrive
  <2>3. \/ missing' = Nobody \/ missing' = missing
        \/ \E S : missing' = [k \in S |-> IF k \in DOMAIN missing THEN missing[k] ELSE 0]
        \/ \E S, h, e : ReleaseFrom(h, e, Without(missing, S))
    BY <2>1, Zenon DEF Arrive, Restarts
  <2>4. ASSUME NEW S, NEW h, NEW e, ReleaseFrom(h, e, Without(missing, S))
        PROVE  \A k \in DOMAIN missing' : k \in DOMAIN missing /\ missing'[k] = missing[k]
    <3>1. missing' = Without(Without(missing, S), RunFrom(h, e))
      BY <2>4 DEF ReleaseFrom
    <3> QED  BY <3>1 DEF Without
  <2>5. \A e \in DOMAIN missing' : missing'[e] \in 0..MostAsks
    BY <1>0, <2>3, <2>4 DEF Nobody, AsksBounded
  <2> QED  BY <2>2, <2>5 DEF AsksBounded
<1> QED  BY <1>1, <1>2, <1>3 DEF RecoveryNext

(***************************************************************************)
(* The recovery of sharing.rs holds and waits for numbers, and asks for no   *)
(* packet more often than it may.                                           *)
(***************************************************************************)
THEOREM RecoveryTypesHold == RecoverySpec => []RecoveryTypeOK
<1>1. RecoveryInit => AsksBounded
  BY RecoveryAssumption DEF RecoveryInit, Nobody, AsksBounded
<1>2. RecoveryInv /\ AsksBounded => RecoveryTypeOK
  BY RecoveryAssumption DEF RecoveryInv, RecoveryShapes, AsksBounded, RecoveryTypeOK
<1> QED  BY <1>1, <1>2, AsksStayBounded, RecoveryInvariant, PTL DEF RecoverySpec
=============================================================================
