----------------------------- MODULE MediaKeys -----------------------------
(***************************************************************************)
(* The keys of one source over the epochs of the MLS group: the counters    *)
(* with which one app seals its frames (MediaSender of e2ee.rs, Session of  *)
(* sharing.rs, PlainSender), and the window in which another one opens them *)
(* (MediaReceiver, MediaReceiveWindow, ReplayWindow, and consume of         *)
(* room.rs).                                                               *)
(*                                                                         *)
(* A member keeps its identity here: whoever starts another one publishes   *)
(* again, as another producer.  Each side applies the Commits in its own    *)
(* time.  A frame that was sealed arrives at any time, again, or never.     *)
(***************************************************************************)
EXTENDS Naturals, FiniteSets

CONSTANTS
  WindowSize, \* REPLAY_WINDOW_SIZE
  Overlap,    \* PREVIOUS_EPOCH_WINDOW, in ticks
  LastEpoch,  \* bound on the epochs
  MaxFrames,  \* bound on the frames
  NoKey       \* no sender, no receiver

ASSUME MediaKeysAssumption ==
  /\ WindowSize \in Nat \ {0}
  /\ Overlap \in Nat /\ LastEpoch \in Nat /\ MaxFrames \in Nat
  /\ NoKey \notin Nat
  /\ NoKey \notin [epoch : Nat, highest : Nat, seen : SUBSET Nat]

Epoch == 0..LastEpoch

SealedFrame == [epoch : Epoch, counter : Nat, id : Nat]

(* A MediaReceiver with its ReplayWindow: n in seen is highest - n.  Nothing *)
(* is seen before the first frame, and then highest has no meaning.         *)
Receiver == [epoch : Epoch, highest : Nat, seen : SUBSET (0..WindowSize - 1)]

VARIABLES
  sendEpoch,    \* the epoch of the group of who sends
  sessionKey,   \* Session.e2ee: the epoch of its MediaSender, or NoKey
  connected,    \* Session.sender is a PlainSender
  transportKey, \* PlainSender.e2ee: the epoch of its MediaSender, or NoKey
  nextCounter,  \* next_counter of the MediaSender of each epoch
  sealed,       \* the frames that were sent
  heardEpoch,   \* the epoch of the group of who watches
  askedWith,    \* consume: the epoch of the receiver it took with it, or NoKey
  currentKey,   \* MediaReceiveWindow.current of the watch, or NoKey
  previousKey,  \* MediaReceiveWindow.previous, or NoKey
  ticksLeft,    \* the ticks, this one included, in which that one is still used
  openedFrames  \* history: the frames this watch has opened

sendVars == <<sendEpoch, sessionKey, connected, transportKey, nextCounter, sealed>>

watchVars == <<heardEpoch, askedWith, currentKey, previousKey, ticksLeft, openedFrames>>

mediaKeysVars == <<sendVars, watchVars>>

(* Whoever did not make the group has no key before its Welcome. *)
MediaKeysInit ==
  /\ sendEpoch = 0 /\ sessionKey \in {0, NoKey}
  /\ connected = FALSE /\ transportKey = NoKey
  /\ nextCounter = [e \in Epoch |-> 0]
  /\ sealed = {}
  /\ heardEpoch = 0 /\ askedWith = NoKey
  /\ currentKey = NoKey /\ previousKey = NoKey /\ ticksLeft = 0
  /\ openedFrames = {}

-----------------------------------------------------------------------------
(* Who sends *)

(* refresh_e2ee_media, set_e2ee_senders: a Commit gave another epoch. *)
SenderTurns ==
  /\ sendEpoch < LastEpoch
  /\ sendEpoch' = sendEpoch + 1
  /\ sessionKey' = sendEpoch'
  /\ nextCounter' = [nextCounter EXCEPT ![sendEpoch'] = 0]
  /\ transportKey' = IF connected THEN sendEpoch' ELSE transportKey
  /\ UNCHANGED <<connected, sealed, watchVars>>

(* fail_e2ee installs no sender: what the transport has stays with it. *)
SenderFails ==
  /\ sessionKey' = NoKey
  /\ UNCHANGED <<sendEpoch, connected, transportKey, nextCounter, sealed, watchVars>>

(* Mutant of Kept: the transport begins with a sender of its own. *)
Remade(counters) == IF sessionKey = NoKey THEN counters ELSE [counters EXCEPT ![sessionKey] = 0]

Kept(counters) == counters

(* use_sfu: the first address, or another one, with the senders there are. *)
UseSfu ==
  /\ connected' = TRUE
  /\ transportKey' = sessionKey
  /\ nextCounter' = Kept(nextCounter)
  /\ UNCHANGED <<sendEpoch, sessionKey, sealed, watchVars>>

(* release_if_idle, renew_sfu_key. *)
Released ==
  /\ connected' = FALSE /\ transportKey' = NoKey
  /\ UNCHANGED <<sendEpoch, sessionKey, nextCounter, sealed, watchVars>>

(* Without a key a frame is refused; its id is no part of it. *)
SendFrame ==
  /\ connected /\ transportKey /= NoKey
  /\ Cardinality(sealed) < MaxFrames
  /\ sealed' = sealed \cup {[epoch |-> transportKey, counter |-> nextCounter[transportKey],
                             id |-> Cardinality(sealed)]}
  /\ nextCounter' = [nextCounter EXCEPT ![transportKey] = @ + 1]
  /\ UNCHANGED <<sendEpoch, sessionKey, connected, transportKey, watchVars>>

-----------------------------------------------------------------------------
(* Who watches *)

Fresh(e) == [epoch |-> e, highest |-> 0, seen |-> {}]

(* prepare *)
Accepts(r, n) ==
  \/ r.seen = {}
  \/ n > r.highest
  \/ r.highest - n < WindowSize /\ r.highest - n \notin r.seen

(* Mutant of Shifted: the bits stay where they are when highest moves. *)
Unshifted(seen, by) == seen

Shifted(seen, by) == {n + by : n \in seen} \cap 0..WindowSize - 1

(* commit *)
After(r, n) ==
  IF r.seen = {} THEN [r EXCEPT !.highest = n, !.seen = {0}]
  ELSE IF n > r.highest
  THEN [r EXCEPT !.highest = n, !.seen = Shifted(r.seen, n - r.highest) \cup {0}]
  ELSE [r EXCEPT !.seen = @ \cup {r.highest - n}]

(* refresh_e2ee_media, rotate_e2ee and rotate: a Commit, or a Welcome that   *)
(* skips some, gave another epoch.  A watch still asked for is not there.    *)
WatcherTurns(e) ==
  /\ e > heardEpoch
  /\ heardEpoch' = e
  /\ currentKey' = IF currentKey = NoKey THEN NoKey ELSE Fresh(e)
  /\ IF currentKey = NoKey \/ currentKey.epoch = e
     THEN UNCHANGED <<previousKey, ticksLeft>>
     ELSE previousKey' = currentKey /\ ticksLeft' = Overlap + 1
  /\ UNCHANGED <<askedWith, openedFrames, sendVars>>

(* consume takes the receiver of the epoch there is, marks and asks. *)
Consumes ==
  /\ currentKey = NoKey /\ askedWith = NoKey
  /\ askedWith' = heardEpoch
  /\ UNCHANGED <<heardEpoch, currentKey, previousKey, ticksLeft, openedFrames, sendVars>>

(* The answer: the watch starts with the receiver that was taken. *)
WatchStarts ==
  /\ askedWith /= NoKey
  /\ currentKey' = Fresh(askedWith)
  /\ previousKey' = NoKey /\ ticksLeft' = 0 /\ openedFrames' = {}
  /\ askedWith' = NoKey
  /\ UNCHANGED <<heardEpoch, sendVars>>

(* Refused, or closed meanwhile. *)
ConsumeFails ==
  /\ askedWith /= NoKey
  /\ askedWith' = NoKey
  /\ UNCHANGED <<heardEpoch, currentKey, previousKey, ticksLeft, openedFrames, sendVars>>

(* stop, renew *)
WatchStops ==
  /\ currentKey /= NoKey
  /\ currentKey' = NoKey /\ previousKey' = NoKey /\ ticksLeft' = 0 /\ openedFrames' = {}
  /\ UNCHANGED <<heardEpoch, askedWith, sendVars>>

(* receiver_for, decrypt: a frame arrives and is opened; a refused one changes *)
(* nothing.                                                                   *)
FrameOpens(f) ==
  /\ currentKey /= NoKey
  /\ \/ /\ f.epoch = currentKey.epoch
        /\ Accepts(currentKey, f.counter)
        /\ currentKey' = After(currentKey, f.counter)
        /\ UNCHANGED previousKey
     \/ /\ f.epoch /= currentKey.epoch
        /\ previousKey /= NoKey /\ f.epoch = previousKey.epoch /\ ticksLeft > 0
        /\ Accepts(previousKey, f.counter)
        /\ previousKey' = After(previousKey, f.counter)
        /\ UNCHANGED currentKey
  /\ openedFrames' = openedFrames \cup {f}
  /\ UNCHANGED <<heardEpoch, askedWith, ticksLeft, sendVars>>

TickPasses ==
  /\ ticksLeft > 0
  /\ ticksLeft' = ticksLeft - 1
  /\ UNCHANGED <<heardEpoch, askedWith, currentKey, previousKey, openedFrames, sendVars>>

MediaKeysNext ==
  \/ SenderTurns \/ SenderFails \/ UseSfu \/ Released \/ SendFrame
  \/ \E e \in Epoch : WatcherTurns(e)
  \/ Consumes \/ WatchStarts \/ ConsumeFails \/ WatchStops
  \/ \E f \in sealed : FrameOpens(f)
  \/ TickPasses

MediaKeysSpec == MediaKeysInit /\ [][MediaKeysNext]_mediaKeysVars

-----------------------------------------------------------------------------
(* Properties *)

MediaKeysTypeOK ==
  /\ sendEpoch \in Epoch /\ sessionKey \in Epoch \cup {NoKey}
  /\ connected \in BOOLEAN /\ transportKey \in Epoch \cup {NoKey}
  /\ nextCounter \in [Epoch -> Nat]
  /\ sealed \subseteq SealedFrame
  /\ heardEpoch \in Epoch /\ askedWith \in Epoch \cup {NoKey}
  /\ currentKey \in Receiver \cup {NoKey} /\ previousKey \in Receiver \cup {NoKey}
  /\ ticksLeft \in 0..Overlap + 1
  /\ openedFrames \subseteq sealed

(***************************************************************************)
(* "Recreating them with the same exporter key would restart their          *)
(* counters": no counter of an epoch seals two frames, whatever transports  *)
(* are lost and made, and whatever the encryption goes through.             *)
(***************************************************************************)
NoncesAreFresh ==
  \A f, g \in sealed : f.epoch = g.epoch /\ f.counter = g.counter => f = g

(***************************************************************************)
(* A receiver opens a frame of its epoch unless it has opened that frame    *)
(* before, or one that is WindowSize ahead of it: in any order, with any    *)
(* loss and any repetition, nothing is heard twice and nothing that is in   *)
(* time is refused, before the rotation and after it.                      *)
(***************************************************************************)
WindowIsExact ==
  \A r \in {currentKey, previousKey} \ {NoKey} : \A f \in sealed :
    f.epoch = r.epoch =>
      (Accepts(r, f.counter) <=>
         /\ f \notin openedFrames
         /\ \A g \in openedFrames : g.epoch = f.epoch => g.counter < f.counter + WindowSize)

(***************************************************************************)
(* "Troca a chave da época MLS depois do Commit. O receptor anterior fica   *)
(* só na pequena janela" (watching.rs:304): a watch has the receiver of the *)
(* epoch of its group.  Violated: a Commit that comes while consume waits   *)
(* finds no watch to rotate, and the watch starts with the receiver of the  *)
(* epoch before.                                                           *)
(***************************************************************************)
KeyIsTheGroups == currentKey /= NoKey => currentKey.epoch = heardEpoch

(* What a comment says and the model refutes: no run checks it *)

(* "grants the old receiver one short delivery window": a second rotation   *)
(* within it takes the rest of it away.                                    *)
OldKeyHasItsTime ==
  [][\A e \in Epoch : WatcherTurns(e) => previousKey = NoKey \/ ticksLeft = 0]_mediaKeysVars
=============================================================================
