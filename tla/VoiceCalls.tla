----------------------------- MODULE VoiceCalls -----------------------------
(***************************************************************************)
(* The voice call of the desktop app (native/apps/unkvoid/src/voice.rs):    *)
(* joining and leaving a voice channel, opening the microphone, muting and  *)
(* deafening.                                                               *)
(*                                                                         *)
(* A click runs on the window's thread and leaves the slow part to a task;  *)
(* what the room says is heard on a thread of the room's own.  All of them  *)
(* meet in the shared state, each lock for itself.  An attempt to join is   *)
(* numbered in the order of the clicks, and its room has its number.  A     *)
(* click, and what a room says, is one step; a task is a step per await.    *)
(*                                                                         *)
(* The rooms are the SFU's: an account that enters one is replaced in any   *)
(* other (SfuRoom).  Every channel here lets the person speak.  A second    *)
(* click while the microphone is being opened again, with a task of its own *)
(* beside the first, is left out.                                           *)
(***************************************************************************)
EXTENDS Naturals, FiniteSets

CONSTANTS
  Channel,   \* the voice channels
  None,
  MaxJoins,  \* bound: attempts to join
  MaxEvents  \* bound: clicks on mute or deafen, kicks, moves and lost sessions

(* Last words and states are no absence of one. *)
ASSUME VoiceAssumption ==
  /\ None \notin Channel \cup {"replaced", "kicked", "moved", "connecting", "connected"}
  /\ MaxJoins \in Nat /\ MaxEvents \in Nat

Attempt == 1..MaxJoins

VARIABLES
  begun,    \* how many attempts were begun
  task,     \* task[a]: where the task of attempt a waits
  chan,     \* chan[a]: the channel asked for
  prev,     \* prev[a]: the room its task leaves first, or 0
  wants,    \* wants[a]: the microphone was to open muted when it was asked for
  retry,    \* the attempts whose room is asked for a microphone once more
  room,     \* the room the SFU has this person in, or 0
  mic,      \* mic[a]: the microphone the room of a sends
  news,     \* the rooms with a room.mine not yet heard
  said,     \* said[a]: the last word of the room of a, not yet heard
  listens,  \* the rooms that are listened to
  hanging,  \* the rooms being left
  mutes,    \* the tasks that mute or unmute a room
  seat, status, inside, micOpening, mine, atRest, deafened, before, \* the state
  call,     \* the room of the call that is held, or 0
  device,   \* the room the held microphone speaks to, or 0
  happened

roomVars  == <<chan, prev, wants, retry, room, mic, news, said, listens, hanging>>
stateVars == <<seat, status, inside, micOpening, mine, atRest, deafened, before>>
voiceVars == <<begun, task, roomVars, mutes, stateVars, call, device, happened>>

Phase == {"idle", "hanging", "entering", "admitted", "refused", "greeted", "building",
          "opening", "starting", "holding", "telling", "done"}

Running == {a \in Attempt : task[a] \notin {"idle", "done"}}

VoiceInit ==
  /\ begun = 0 /\ happened = 0
  /\ task = [a \in Attempt |-> "idle"]
  /\ chan = [a \in Attempt |-> None]
  /\ prev = [a \in Attempt |-> 0]
  /\ wants = [a \in Attempt |-> FALSE]
  /\ mic = [a \in Attempt |-> "none"]
  /\ said = [a \in Attempt |-> None]
  /\ retry = {} /\ news = {} /\ listens = {} /\ hanging = {} /\ mutes = {}
  /\ seat = None /\ status = None
  /\ inside = FALSE /\ micOpening = FALSE
  /\ mine = "nothing"
  /\ atRest \in BOOLEAN /\ deafened = FALSE /\ before = FALSE
  /\ room = 0 /\ call = 0 /\ device = 0

-----------------------------------------------------------------------------
(* The shared state *)

(* Voice::leave: the mute of the room becomes the mute outside it. *)
VoiceLeft ==
  /\ atRest' = IF inside THEN mine = "muted" ELSE atRest
  /\ mine' = "nothing"
  /\ inside' = FALSE

(* Mutant of Seatless: the call is over and the bar keeps its channel. *)
SeatKept ==
  /\ VoiceLeft
  /\ micOpening' = FALSE
  /\ UNCHANGED <<seat, status, deafened, before>>

Seatless ==
  /\ VoiceLeft
  /\ micOpening' = FALSE
  /\ seat' = None
  /\ status' = None
  /\ UNCHANGED <<deafened, before>>

(* The call is taken from where it is held, and its room is left. *)
Dropped ==
  /\ call' = 0
  /\ device' = 0
  /\ hanging' = hanging \cup ({call} \ {0})

(* A new attempt takes the place of the call; its task leaves r first. *)
Begins(c, r) ==
  /\ begun < MaxJoins
  /\ begun' = begun + 1
  /\ chan' = [chan EXCEPT ![begun + 1] = c]
  /\ prev' = [prev EXCEPT ![begun + 1] = r]
  /\ task' = [task EXCEPT ![begun + 1] = "hanging"]
  /\ Dropped

Connecting(c) ==
  /\ VoiceLeft
  /\ micOpening' = TRUE
  /\ seat' = c
  /\ status' = "connecting"
  /\ UNCHANGED <<deafened, before>>

-----------------------------------------------------------------------------
(* Clicks *)

(* join: the channel the person already sits in is not joined again. *)
Join(c) ==
  /\ seat /= c
  /\ Begins(c, call)
  /\ Connecting(c)
  /\ UNCHANGED <<wants, retry, room, mic, news, said, listens, mutes, happened>>

(* leave. *)
Leave ==
  /\ seat /= None
  /\ Dropped
  /\ Seatless
  /\ UNCHANGED <<begun, task, chan, prev, wants, retry, room, mic, news, said, listens, mutes,
                 happened>>

(* A room, if it is heard: what is done to it is a task. *)
Tell(muted) == mutes' = mutes \cup {<<call, muted>>}

(* toggle_mute on a microphone that did not open: it is tried again. *)
OpensAgain ==
  /\ inside /\ mine = "silent" /\ ~micOpening /\ call /= 0 /\ task[call] = "done"
  /\ atRest' = FALSE
  /\ task' = [task EXCEPT ![call] = "opening"]
  /\ wants' = [wants EXCEPT ![call] = deafened]
  /\ retry' = retry \cup {call}
  /\ UNCHANGED <<begun, chan, prev, room, mic, news, said, listens, hanging, mutes, seat, status,
                 inside, micOpening, mine, deafened, before, call, device>>

(* toggle_mute: the open microphone, or the mute to come in with. *)
Mutes ==
  /\ ~(inside /\ mine = "silent" /\ ~micOpening)
  /\ deafened' = FALSE
  /\ IF call /= 0 /\ inside /\ mine \in {"open", "muted"}
     THEN Tell(mine = "open") /\ UNCHANGED atRest
     ELSE atRest' = ~atRest /\ UNCHANGED mutes
  /\ UNCHANGED <<begun, task, roomVars, seat, status, inside, micOpening, mine, before, call,
                 device>>

(* toggle_deafen: deafening mutes; the mute of before comes back after it. *)
Deafens ==
  /\ deafened' = ~deafened
  /\ before' = IF deafened THEN before ELSE mine = "muted" \/ atRest
  /\ IF call /= 0 /\ inside THEN Tell(deafened' \/ before) ELSE UNCHANGED mutes
  /\ UNCHANGED <<begun, task, roomVars, seat, status, inside, micOpening, mine, atRest, call,
                 device>>

ClickVoice ==
  /\ happened < MaxEvents
  /\ happened' = happened + 1
  /\ OpensAgain \/ Mutes \/ Deafens

(* mute_microphone, in a task of its own: nothing without a microphone. *)
MuteTask(m) ==
  LET r == m[1]
  IN /\ m \in mutes
     /\ mutes' = mutes \ {m}
     /\ IF mic[r] = "none" THEN UNCHANGED <<mic, news>>
        ELSE /\ mic' = [mic EXCEPT ![r] = IF m[2] THEN "muted" ELSE "open"]
             /\ news' = news \cup {r}
     /\ UNCHANGED <<begun, task, chan, prev, wants, retry, room, said, listens, hanging, stateVars,
                    call, device, happened>>

-----------------------------------------------------------------------------
(* The task of an attempt *)

At(a, here, next) == task[a] = here /\ task' = [task EXCEPT ![a] = next]

(* hang_up, and the end of Room::leave: the microphone first, then the room. *)
HungUp(r) ==
  /\ r \in hanging
  /\ hanging' = hanging \ {r}
  /\ room' = IF room = r THEN 0 ELSE room
  /\ mic' = [mic EXCEPT ![r] = "none"]
  /\ news' = news \cup ({r} \cap listens)
  /\ UNCHANGED <<begun, task, chan, prev, wants, retry, said, listens, mutes, stateVars, call,
                 device, happened>>

(* The room of before is left: the server is asked. *)
Asks(a) ==
  /\ At(a, "hanging", "entering")
  /\ prev[a] \notin hanging
  /\ prev' = [prev EXCEPT ![a] = 0]
  /\ UNCHANGED <<begun, chan, wants, retry, room, mic, news, said, listens, hanging, mutes,
                 stateVars, call, device, happened>>

(* A room says so when it ends; nobody hears one that was superseded. *)
LastWord(word) ==
  /\ said' = [r \in Attempt |-> IF r = room /\ (r \in listens \/ task[r] /= "done") THEN word
                              ELSE said[r]]
  /\ mic' = [r \in Attempt |-> IF r = room THEN "none" ELSE mic[r]]

(* The SFU lets the account in, and out of any other room. *)
Admits(a) ==
  /\ At(a, "entering", "admitted")
  /\ LastWord("replaced")
  /\ room' = a
  /\ UNCHANGED <<begun, chan, prev, wants, retry, news, listens, hanging, mutes, stateVars, call,
                 device, happened>>

(* The token, the server or the cipher failed. *)
Refuses(a) ==
  /\ At(a, "entering", "refused")
  /\ UNCHANGED <<begun, roomVars, mutes, stateVars, call, device, happened>>

(* Another channel was asked for, or the person left, during the wait. *)
Superseded(a) == seat /= chan[a]

(* Mutant of Fails: the error is shown and the bar goes on connecting. *)
FailsQuietly(a) == At(a, "refused", "done") /\ UNCHANGED stateVars

Fails(a) ==
  /\ At(a, "refused", "done")
  /\ IF Superseded(a) THEN UNCHANGED stateVars ELSE Seatless

(* After the wait: whoever was superseded says goodbye. *)
Looks(a) ==
  /\ \/ Fails(a) /\ UNCHANGED <<hanging, said>>
     \/ /\ Superseded(a)
        /\ At(a, "admitted", "done")
        /\ hanging' = hanging \cup {a}
        /\ said' = [said EXCEPT ![a] = None]
        /\ UNCHANGED stateVars
     \/ /\ ~Superseded(a)
        /\ At(a, "admitted", "greeted")
        /\ UNCHANGED <<hanging, said, stateVars>>
  /\ UNCHANGED <<begun, chan, prev, wants, retry, room, mic, news, listens, mutes, call, device,
                 happened>>

Inside(a) ==
  /\ At(a, "greeted", "building")
  /\ inside' = TRUE
  /\ mine' = "silent"
  /\ status' = "connected"
  /\ UNCHANGED <<begun, roomVars, mutes, seat, micOpening, atRest, deafened, before, call, device,
                 happened>>

(***************************************************************************)
(* The speaker is built: the call is held, in the place of any other.  The  *)
(* microphone is asked for by who may speak, as the state says it now.      *)
(***************************************************************************)
HoldsCall(a) ==
  /\ At(a, "building", IF mine = "nothing" THEN "telling" ELSE "opening")
  /\ call' = a
  /\ device' = 0
  /\ listens' = listens \cup {a}
  /\ wants' = [wants EXCEPT ![a] = atRest \/ deafened]
  /\ UNCHANGED <<begun, chan, prev, retry, room, mic, news, said, hanging, mutes, stateVars, happened>>

(* The room opens its microphone, unmuted, once it is encrypted; or not. *)
MicOpens(a) ==
  /\ \/ /\ room = a
        /\ At(a, "opening", "starting")
        /\ IF mic[a] = "none" THEN mic' = [mic EXCEPT ![a] = "open"] /\ news' = news \cup {a}
           ELSE UNCHANGED <<mic, news>>
     \/ At(a, "opening", "telling") /\ UNCHANGED <<mic, news>>
  /\ UNCHANGED <<begun, chan, prev, wants, retry, room, said, listens, hanging, mutes, stateVars, call,
                 device, happened>>

(* The system's microphone starts, then it is muted; or it does not start. *)
MicStarts(a) ==
  /\ \/ /\ At(a, "starting", "holding")
        /\ mic' = [mic EXCEPT ![a] = IF wants[a] /\ @ /= "none" THEN "muted" ELSE @]
     \/ /\ At(a, "starting", "telling")
        /\ mic' = [mic EXCEPT ![a] = "none"]
  /\ news' = news \cup {a}
  /\ wants' = [wants EXCEPT ![a] = FALSE]
  /\ UNCHANGED <<begun, chan, prev, retry, room, said, listens, hanging, mutes, stateVars, call,
                 device, happened>>

(* It is given to the call there is now; without one it stops. *)
MicHeld(a) ==
  /\ At(a, "holding", "telling")
  /\ device' = IF call /= 0 THEN a ELSE device
  /\ UNCHANGED <<begun, roomVars, mutes, stateVars, call, happened>>

(* The room was told of the mute: the attempt is over. *)
Told(a) ==
  /\ At(a, "telling", "done")
  /\ micOpening' = (micOpening /\ a \in retry)
  /\ retry' = retry \ {a}
  /\ UNCHANGED <<begun, chan, prev, wants, room, mic, news, said, listens, hanging, mutes, seat, status,
                 inside, mine, atRest, deafened, before, call, device, happened>>

-----------------------------------------------------------------------------
(* What a room says *)

(* A moderator kicks or moves the person, or the session does not come back. *)
Ends ==
  /\ happened < MaxEvents
  /\ happened' = happened + 1
  /\ room /= 0
  /\ room' = 0
  /\ \E word \in {"kicked", "moved"} : LastWord(word)
  /\ UNCHANGED <<begun, task, chan, prev, wants, retry, news, listens, hanging, mutes, stateVars, call,
                 device>>

(* room.mine, of whatever room says it. *)
HearMine(r) ==
  /\ r \in news \cap listens
  /\ news' = news \ {r}
  /\ mine' = IF mic[r] = "none" THEN "silent" ELSE mic[r]
  /\ UNCHANGED <<begun, task, chan, prev, wants, retry, room, mic, said, listens, hanging, mutes, seat,
                 status, inside, micOpening, atRest, deafened, before, call, device, happened>>

(* The last word closes the call there is; a move goes on to a channel of   *)
(* the server the person sits in.                                          *)
HearEnd(r) ==
  /\ r \in listens /\ said[r] /= None
  /\ said' = [said EXCEPT ![r] = None]
  /\ listens' = listens \ {r} /\ news' = news \ {r}
  /\ \/ /\ said[r] = "moved" /\ seat /= None
        /\ \E c \in Channel : Begins(c, 0) /\ Connecting(c)
     \/ /\ Dropped /\ Seatless
        /\ UNCHANGED <<begun, chan, prev, task>>
  /\ UNCHANGED <<wants, retry, room, mic, mutes, happened>>

Steps(a) ==
  \/ Asks(a) \/ Admits(a) \/ Refuses(a) \/ Looks(a) \/ Inside(a) \/ HoldsCall(a)
  \/ MicOpens(a) \/ MicStarts(a) \/ MicHeld(a) \/ Told(a)

VoiceNext ==
  \/ \E c \in Channel : Join(c)
  \/ Leave \/ ClickVoice \/ Ends
  \/ \E m \in mutes : MuteTask(m)
  \/ \E a \in Attempt : Steps(a) \/ HungUp(a) \/ HearMine(a) \/ HearEnd(a)

VoiceSpec == VoiceInit /\ [][VoiceNext]_voiceVars

-----------------------------------------------------------------------------
(* Properties *)

VoiceTypeOK ==
  /\ begun \in 0..MaxJoins /\ happened \in 0..MaxEvents
  /\ task \in [Attempt -> Phase]
  /\ chan \in [Attempt -> Channel \cup {None}]
  /\ prev \in [Attempt -> 0..MaxJoins]
  /\ wants \in [Attempt -> BOOLEAN]
  /\ mic \in [Attempt -> {"none", "open", "muted"}]
  /\ said \in [Attempt -> {None, "replaced", "kicked", "moved"}]
  /\ retry \subseteq Attempt /\ news \subseteq Attempt
  /\ listens \subseteq Attempt /\ hanging \subseteq Attempt
  /\ mutes \subseteq Attempt \X BOOLEAN
  /\ seat \in Channel \cup {None}
  /\ status \in {None, "connecting", "connected"}
  /\ inside \in BOOLEAN /\ micOpening \in BOOLEAN
  /\ mine \in {"nothing", "silent", "open", "muted"}
  /\ atRest \in BOOLEAN /\ deafened \in BOOLEAN /\ before \in BOOLEAN
  /\ room \in 0..MaxJoins /\ call \in 0..MaxJoins /\ device \in 0..MaxJoins
  /\ device /= 0 => call /= 0

Rest ==
  /\ Running = {} /\ hanging = {} /\ mutes = {} /\ news \cap listens = {}
  /\ \A r \in listens : said[r] = None

(***************************************************************************)
(* The bar says "Conectando..." only while an attempt for the channel of    *)
(* the seat is on its way, however many were begun, left and failed.        *)
(***************************************************************************)
ConnectingHasATask ==
  (status = "connecting" \/ micOpening) => \E a \in Running : chan[a] = seat

(***************************************************************************)
(* When everything has been answered and heard, a person with a seat is in  *)
(* a room of that channel, holds its call, and is nowhere else.             *)
(***************************************************************************)
SeatedIsConnected ==
  Rest /\ seat /= None =>
    /\ call /= 0 /\ chan[call] = seat /\ inside
    /\ room = call

-----------------------------------------------------------------------------
(* What the documents say and the model refutes: no run checks it *)

(* Outside the voice, no room has the person: "este se despede". *)
NoHiddenCall == Rest /\ seat = None => room = 0

(* "Ensurdecer cala o que chega e o microfone junto." *)
DeafenedIsMuted == Rest /\ deafened /\ call /= 0 => mic[call] /= "open"
=============================================================================
