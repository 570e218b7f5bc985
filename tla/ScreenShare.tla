----------------------------- MODULE ScreenShare -----------------------------
(***************************************************************************)
(* The screen a person sends (native/shared/core/src/room.rs and            *)
(* sharing.rs): sharing, stopping and changing its quality, the guard that  *)
(* redoes a capture that stalls and walks the ladder of qualities, and the  *)
(* broadcast that goes up again after the server was lost.                  *)
(*                                                                         *)
(* Clicks, the guard and the loop of the room are tasks of their own.  Each *)
(* waits for the SFU or for the capture to open while the others go on, and *)
(* a lock is held for one step: between two of them others go on too.       *)
(*                                                                         *)
(* Qualities are numbered down: 0 is the best, Lowest 720p30.  The room     *)
(* sends a microphone too, so its key changes only when it is renewed.      *)
(* What the guard hears from the counters is its choice.  Sound, the camera *)
(* and which encoder are left out.                                          *)
(***************************************************************************)
EXTENDS Naturals, FiniteSets

CONSTANTS
  Lowest,     \* the last rung of the ladder
  NoQuality,
  MaxScreenClicks,  \* bound: clicks, each with its task
  MaxChanges, \* bound: how many of them change the quality
  MaxBeats,   \* bound: times the guard does something
  MaxFaults   \* bound: producers the server ends, and sessions begun anew

ASSUME ShareAssumption ==
  /\ Lowest \in Nat /\ NoQuality \notin 0..Lowest
  /\ MaxScreenClicks \in Nat /\ MaxChanges \in Nat /\ MaxBeats \in Nat /\ MaxFaults \in Nat

VARIABLES
  shared,    \* the quality of the recipe on air, or NoQuality
  screen,    \* sending.screen: a broadcast, or NoScreenUp
  screenProducers, \* producers[Screen]
  server,    \* the screen's producer the SFU has, or 0
  renewed,   \* the key is not the one of the SFU's transport
  opened,    \* producers opened so far
  dead,      \* producerDead not yet heard
  tasks,     \* what each task goes on with
  stray,     \* history: the person stopped between the look and the putting back of screen
  clicked, changed, beats, faults

shareVars == <<shared, screen, screenProducers, server, renewed, opened, dead, tasks,
               stray, clicked, changed, beats, faults>>

countVars == <<clicked, changed, beats, faults>>

Quality == 0..Lowest

(* q: as it is captured; chosen: as the person asked, so far as it knows. *)
OnScreen == [q: Quality, chosen: Quality]

NoScreenUp == [q |-> NoQuality, chosen |-> NoQuality]

(* Task n is the n-th click's; the guard and the loop have one each. *)
Loop == 0
Guard == MaxScreenClicks + 1

Actor == 0..Guard

(***************************************************************************)
(* at: what the task does next; q: the quality it will share, or redo to;   *)
(* ids: the producers it opened or has to close; b: the broadcast it took;  *)
(* keeps: redoing leaves what was chosen; still: the person was sharing     *)
(* when it looked; again: it resends.                                       *)
(***************************************************************************)
Resting == [at |-> "rest", q |-> NoQuality, ids |-> {}, b |-> NoScreenUp,
            keeps |-> FALSE, still |-> FALSE, again |-> FALSE]

ShareInit ==
  /\ shared = NoQuality /\ screen = NoScreenUp /\ screenProducers = {}
  /\ server = 0 /\ renewed = FALSE /\ opened = 0 /\ dead = {}
  /\ tasks = [t \in Actor |-> Resting]
  /\ stray = FALSE
  /\ clicked = 0 /\ changed = 0 /\ beats = 0 /\ faults = 0

Goes(t, work) == tasks' = [tasks EXCEPT ![t] = work]

(* The next task of t, with a quality or with none. *)
TurnsTo(t, here, q) == Goes(t, [Resting EXCEPT !.at = here, !.q = q])

(* sending.screen changes hands; what was put back before is not there any more. *)
Screens(b) == screen' = b /\ stray' = FALSE

-----------------------------------------------------------------------------
(* Clicks, the guard and the loop *)

(* What is done depends on whether the person shares: with the same sound a  *)
(* change of quality, with another one stop_sharing and then share.          *)
ClickShare(q) ==
  /\ clicked < MaxScreenClicks
  /\ clicked' = clicked + 1
  /\ \/ shared = NoQuality /\ TurnsTo(clicked', "share", q) /\ UNCHANGED changed
     \/ shared /= NoQuality /\ TurnsTo(clicked', "stop", q) /\ UNCHANGED changed
     \/ /\ shared /= NoQuality /\ changed < MaxChanges
        /\ changed' = changed + 1
        /\ TurnsTo(clicked', "grab", q)
  /\ UNCHANGED <<shared, screen, screenProducers, server, renewed, opened, dead, stray, beats,
                 faults>>

ClickStop ==
  /\ clicked < MaxScreenClicks
  /\ clicked' = clicked + 1
  /\ TurnsTo(clicked', "stop", NoQuality)
  /\ UNCHANGED <<shared, screen, screenProducers, server, renewed, opened, dead, stray, changed,
                 beats, faults>>

(* redo_screen: the broadcast is taken for as long as it takes. *)
Grabs(t, q, keeps) ==
  /\ screen /= NoScreenUp
  /\ Screens(NoScreenUp)
  /\ Goes(t, [Resting EXCEPT !.at = "look", !.q = q, !.b = screen, !.keeps = keeps])

(* A stall: the same recipe.  Loss: a rung down.  A clean minute: one up.   *)
(* A window that closed: stopped.  No server: resent.                       *)
Guards ==
  /\ beats < MaxBeats /\ tasks[Guard] = Resting
  /\ beats' = beats + 1
  /\ \/ /\ screen /= NoScreenUp
        /\ \/ Grabs(Guard, screen.q, FALSE)
           \/ screen.q < Lowest /\ Grabs(Guard, screen.q + 1, TRUE)
           \/ screen.q > screen.chosen /\ Grabs(Guard, screen.q - 1, TRUE)
           \/ TurnsTo(Guard, "stop", NoQuality) /\ UNCHANGED <<screen, stray>>
     \/ TurnsTo(Guard, "resend", NoQuality) /\ UNCHANGED <<screen, stray>>
  /\ UNCHANGED <<shared, screenProducers, server, renewed, opened, dead, clicked, changed, faults>>

(* died: not of a producer that was replaced. *)
Hears ==
  /\ tasks[Loop] = Resting
  /\ \E id \in dead :
       /\ dead' = dead \ {id}
       /\ IF id \in screenProducers THEN TurnsTo(Loop, "stop", NoQuality) ELSE UNCHANGED tasks
  /\ UNCHANGED <<shared, screen, screenProducers, server, renewed, opened, stray, countVars>>

(* The server ends the producer: no packet in 30 s, or no permission. *)
ServerEnds ==
  /\ faults < MaxFaults /\ server /= 0
  /\ faults' = faults + 1
  /\ dead' = dead \cup {server}
  /\ server' = 0
  /\ UNCHANGED <<shared, screen, screenProducers, renewed, opened, tasks, stray, clicked, changed,
                 beats>>

(* The session begins anew: the SFU has nothing; republish, and then resend. *)
Republish ==
  /\ faults < MaxFaults /\ tasks[Loop] = Resting
  /\ faults' = faults + 1
  /\ server' = 0
  /\ screenProducers' = {}
  /\ TurnsTo(Loop, "resend", NoQuality)
  /\ UNCHANGED <<shared, screen, renewed, opened, dead, stray, clicked, changed, beats>>

-----------------------------------------------------------------------------
(* share *)

IsAt(t, here) == tasks[t].at = here

(* Not twice: nobody shares, and, under another lock, nothing is up. *)
Tests(t) ==
  /\ IsAt(t, "share")
  /\ IF shared = NoQuality THEN TurnsTo(t, "probe", tasks[t].q) ELSE Goes(t, Resting)
  /\ UNCHANGED <<shared, screen, screenProducers, server, renewed, opened, dead, stray, countVars>>

Probes(t) ==
  /\ IsAt(t, "probe")
  /\ IF screen = NoScreenUp THEN TurnsTo(t, "open", tasks[t].q) ELSE Goes(t, Resting)
  /\ UNCHANGED <<shared, screen, screenProducers, server, renewed, opened, dead, stray, countVars>>

(* open: the SFU makes a producer, unless it has one with these numbers.    *)
(* A new key takes the place of the transport and of what was on it.        *)
Opens(t) ==
  /\ IsAt(t, "open")
  /\ \/ /\ server = 0 \/ renewed
        /\ opened' = opened + 1 /\ server' = opened' /\ renewed' = FALSE
        /\ Goes(t, [tasks[t] EXCEPT !.at = "launch", !.ids = {opened'}])
     \/ /\ Goes(t, Resting)
        /\ UNCHANGED <<server, renewed, opened>>
  /\ UNCHANGED <<shared, screen, screenProducers, dead, stray, countVars>>

(* The capture opens and is put in its place, or it does not open. *)
Launches(t) ==
  /\ IsAt(t, "launch")
  /\ \/ /\ Screens([q |-> tasks[t].q, chosen |-> tasks[t].q])
        /\ Goes(t, [tasks[t] EXCEPT !.at = "note"])
     \/ /\ Goes(t, [Resting EXCEPT !.at = "close", !.ids = tasks[t].ids])
        /\ UNCHANGED <<screen, stray>>
  /\ UNCHANGED <<shared, screenProducers, server, renewed, opened, dead, countVars>>

NotesScreen(t) ==
  /\ IsAt(t, "note")
  /\ screenProducers' = tasks[t].ids
  /\ TurnsTo(t, "air", tasks[t].q)
  /\ UNCHANGED <<shared, screen, server, renewed, opened, dead, stray, countVars>>

GoesOnAir(t) ==
  /\ IsAt(t, "air")
  /\ shared' = tasks[t].q
  /\ Goes(t, Resting)
  /\ UNCHANGED <<screen, screenProducers, server, renewed, opened, dead, stray, countVars>>

-----------------------------------------------------------------------------
(* stop_sharing and resend *)

(* stop_sharing; after it, perhaps, share with another sound. *)
Stops(t) ==
  /\ IsAt(t, "stop")
  /\ shared' = NoQuality
  /\ TurnsTo(t, "take", tasks[t].q)
  /\ UNCHANGED <<screen, screenProducers, server, renewed, opened, dead, stray, countVars>>

(* resend: what is on air is remembered, and stops. *)
Resends(t) ==
  /\ IsAt(t, "resend")
  /\ shared' = NoQuality
  /\ Goes(t, [Resting EXCEPT !.at = "take", !.q = shared, !.again = TRUE])
  /\ UNCHANGED <<screen, screenProducers, server, renewed, opened, dead, stray, countVars>>

Takes(t) ==
  /\ IsAt(t, "take")
  /\ Screens(NoScreenUp)
  /\ Goes(t, [tasks[t] EXCEPT !.at = "drain"])
  /\ UNCHANGED <<shared, screenProducers, server, renewed, opened, dead, countVars>>

(* retire, or the drain of resend. *)
Drains(t) ==
  /\ IsAt(t, "drain")
  /\ screenProducers' = {}
  /\ Goes(t, [tasks[t] EXCEPT !.at = "close", !.ids = screenProducers])
  /\ UNCHANGED <<shared, screen, server, renewed, opened, dead, stray, countVars>>

(* What comes after close, or after the key was renewed. *)
SharesNext(t) ==
  IF tasks[t].q = NoQuality THEN Goes(t, Resting) ELSE TurnsTo(t, "share", tasks[t].q)

ClosesScreen(t) ==
  /\ IsAt(t, "close")
  /\ server' = IF server \in tasks[t].ids THEN 0 ELSE server
  /\ IF tasks[t].again THEN Goes(t, [tasks[t] EXCEPT !.at = "renew"]) ELSE SharesNext(t)
  /\ UNCHANGED <<shared, screen, screenProducers, renewed, opened, dead, stray, countVars>>

(* renew_sfu_key. *)
RenewsKey(t) ==
  /\ IsAt(t, "renew")
  /\ renewed' = TRUE
  /\ SharesNext(t)
  /\ UNCHANGED <<shared, screen, screenProducers, server, opened, dead, stray, countVars>>

-----------------------------------------------------------------------------
(* redo_screen and change_quality *)

(* The recipe changes although the broadcast is not there. *)
GrabsToChange(t) ==
  /\ IsAt(t, "grab")
  /\ \/ Grabs(t, tasks[t].q, FALSE)
     \/ screen = NoScreenUp /\ TurnsTo(t, "recipe", tasks[t].q) /\ UNCHANGED <<screen, stray>>
  /\ UNCHANGED <<shared, screenProducers, server, renewed, opened, dead, countVars>>

LooksBack(t) ==
  /\ IsAt(t, "look")
  /\ Goes(t, [tasks[t] EXCEPT !.at = "put", !.still = (shared /= NoQuality)])
  /\ UNCHANGED <<shared, screen, screenProducers, server, renewed, opened, dead, stray, countVars>>

(* Mutant of PutsBack: what was redone goes back on air. *)
PutsBackAnyway(t) == screen = NoScreenUp

(* Stopped when t looked, or shared again: what was redone stops. *)
PutsBack(t) == tasks[t].still /\ screen = NoScreenUp

(***************************************************************************)
(* The broadcast as restart leaves it: made anew with the quality asked     *)
(* for, which it takes for the chosen one unless a step keeps that; or, if  *)
(* that was refused, with the one before; or as it was, if neither opens.   *)
(***************************************************************************)
Redone(t) ==
  LET b == tasks[t].b
  IN {[q |-> tasks[t].q, chosen |-> IF tasks[t].keeps THEN b.chosen ELSE tasks[t].q],
      [q |-> b.q, chosen |-> b.q], b}

(* Whoever stopped since t looked is not seen. *)
Puts(t) ==
  /\ IsAt(t, "put")
  /\ \/ /\ PutsBack(t)
        /\ \E b \in Redone(t) : screen' = b
        /\ stray' = (tasks[t].still /\ shared = NoQuality)
     \/ ~ PutsBack(t) /\ UNCHANGED <<screen, stray>>
  /\ IF t \in 1..MaxScreenClicks THEN TurnsTo(t, "recipe", tasks[t].q) ELSE Goes(t, Resting)
  /\ UNCHANGED <<shared, screenProducers, server, renewed, opened, dead, countVars>>

(* change_quality: the recipe changes, if there is one. *)
ChangesRecipe(t) ==
  /\ IsAt(t, "recipe")
  /\ shared' = IF shared = NoQuality THEN NoQuality ELSE tasks[t].q
  /\ Goes(t, Resting)
  /\ UNCHANGED <<screen, screenProducers, server, renewed, opened, dead, stray, countVars>>

ShareNext ==
  \/ (\E q \in Quality : ClickShare(q)) \/ ClickStop \/ Guards \/ Hears \/ ServerEnds \/ Republish
  \/ \E t \in Actor :
       \/ Tests(t) \/ Probes(t) \/ Opens(t) \/ Launches(t) \/ NotesScreen(t) \/ GoesOnAir(t)
       \/ Stops(t) \/ Resends(t) \/ Takes(t) \/ Drains(t) \/ ClosesScreen(t) \/ RenewsKey(t)
       \/ GrabsToChange(t) \/ LooksBack(t) \/ Puts(t) \/ ChangesRecipe(t)

ShareSpec == ShareInit /\ [][ShareNext]_shareVars

-----------------------------------------------------------------------------
(* Properties *)

ShareTypeOK ==
  /\ shared \in Quality \cup {NoQuality}
  /\ screen \in OnScreen \cup {NoScreenUp}
  /\ server \in 0..opened /\ screenProducers \subseteq 1..opened /\ dead \subseteq 1..opened
  /\ \A t \in Actor : tasks[t].ids \subseteq 1..opened

ShareRest == dead = {} /\ \A t \in Actor : tasks[t] = Resting

(***************************************************************************)
(* When all has come to rest, whoever does not share sends nothing: a       *)
(* broadcast that the server ended, that was being resent, or that stopped  *)
(* before the guard or a change of quality asked whether to put it back     *)
(* ("para aqui em vez de voltar ao ar", redo_screen), leaves no capture up. *)
(***************************************************************************)
StoppedSharesNothing ==
  ShareRest /\ shared = NoQuality /\ ~ stray => screen = NoScreenUp

(* What comments say and the model refutes: no run checks it *)

(* "Se a pessoa parou de transmitir no meio, a transmissão refeita para aqui *)
(* em vez de voltar ao ar" (redo_screen).  Who stops after redo_screen looked *)
(* at shared, and before it takes the other lock to put the broadcast back,   *)
(* sends on, and share does nothing any more until they stop once again.      *)
WhoStoppedSendsNothing ==
  ShareRest /\ shared = NoQuality => screen = NoScreenUp

(* "Um degrau acima, até a qualidade que a pessoa escolheu" (step_up): below *)
(* it, there is a rung up.  A refresh after a step down forgets the choice.  *)
ChosenIsWithinReach ==
  ShareRest /\ shared /= NoQuality /\ screen /= NoScreenUp =>
    screen.q = shared \/ (screen.chosen = shared /\ screen.q > screen.chosen)
=============================================================================
