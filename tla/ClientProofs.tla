---------------------------- MODULE ClientProofs ----------------------------
(***************************************************************************)
(* The theorems about the tasks of the desktop app, in four parts that     *)
(* share no state: the screen a person sends, what it watches, the calls    *)
(* and the session of a device.  Each has its inductive invariant: a lock   *)
(* is taken for itself, so what a task found may be gone when it goes on,   *)
(* and the invariant says who will put it right.                           *)
(***************************************************************************)
EXTENDS ScreenShare, ClientMedia, VoiceCalls, ClientSession, FiniteSetTheorems, TLAPS

-----------------------------------------------------------------------------
(* The screen a person sends *)

MaybeQuality == Quality \cup {NoQuality}

MaybeScreen == OnScreen \cup {NoScreenUp}

Stage == {"rest", "share", "probe", "open", "launch", "note", "air", "stop", "resend", "take", "drain",
          "close", "renew", "grab", "look", "put", "recipe"}

(* What a task may hold: one that will share has a quality to share, and one *)
(* that redoes a broadcast has it.                                           *)
ShareWork ==
  {w \in [at: Stage, q: MaybeQuality, ids: SUBSET Nat, b: MaybeScreen,
          keeps: BOOLEAN, still: BOOLEAN, again: BOOLEAN] :
     /\ w.at \in {"share", "probe", "open", "launch", "note", "air", "grab", "look", "put", "recipe"}
          => w.q \in Quality
     /\ w.at \in {"look", "put"} => w.b \in OnScreen}

ShareTypes ==
  /\ shared \in MaybeQuality /\ screen \in MaybeScreen /\ stray \in BOOLEAN
  /\ screenProducers \subseteq Nat /\ server \in Nat /\ opened \in Nat /\ clicked \in Nat
  /\ tasks \in [Actor -> ShareWork]

(* A click that did not come yet has no task. *)
Unclicked == \A t \in (clicked + 1)..MaxScreenClicks : tasks[t] = Resting

(* Where a task is about to say that a broadcast is on air, or to take it down. *)
Settling == {"note", "air", "take"}

(* Some other task than t is. *)
SettledBy(t) == \E u \in Actor \ {t} : tasks[u].at \in Settling

(* What nobody put back, and is up while nobody shares, is about to be said to *)
(* be on air, or taken down.                                                   *)
UpIsSettled ==
  shared = NoQuality /\ screen /= NoScreenUp /\ ~ stray => \E t \in Actor : tasks[t].at \in Settling

ShareInv == ShareTypes /\ Unclicked /\ UpIsSettled

(* Task t goes on with w; if it leaves a broadcast up, that is settled. *)
GoesOn(t) ==
  /\ shared' \in MaybeQuality /\ screen' \in MaybeScreen /\ stray' \in BOOLEAN
  /\ screenProducers' \subseteq Nat
  /\ \E w \in ShareWork :
       /\ Goes(t, w)
       /\ shared' = NoQuality /\ screen' /= NoScreenUp /\ ~ stray'
            => w.at \in Settling \/ SettledBy(t)

LEMMA ShareValues ==
  /\ NoQuality \in MaybeQuality /\ NoQuality \notin Quality
  /\ NoScreenUp \in MaybeScreen /\ NoScreenUp \notin OnScreen
  /\ Resting \in ShareWork /\ Resting.at = "rest" /\ Resting.ids = {}
  /\ Loop \in Actor /\ Guard \in Actor /\ 1..MaxScreenClicks \subseteq Actor
  /\ Guard \notin 1..MaxScreenClicks /\ Loop \notin 1..MaxScreenClicks
<1>1. /\ NoQuality \in MaybeQuality /\ NoQuality \notin Quality
      /\ NoScreenUp \in MaybeScreen
  BY ShareAssumption DEF MaybeQuality, Quality, MaybeScreen
<1>2. NoScreenUp \notin OnScreen
  BY <1>1 DEF NoScreenUp, OnScreen
<1>3. Resting \in ShareWork /\ Resting.at = "rest" /\ Resting.ids = {}
  BY <1>1 DEF Resting, ShareWork, Stage
<1> QED
  BY <1>1, <1>2, <1>3, ShareAssumption DEF Loop, Guard, Actor

(* A task that turns to something else, with the quality it needs. *)
LEMMA Turning ==
  ASSUME NEW here \in Stage \ {"look", "put"}, NEW q \in MaybeQuality,
         here \in {"rest", "stop", "resend", "take", "drain", "close", "renew"} \/ q \in Quality,
         NEW t, TurnsTo(t, here, q)
  PROVE  \E w \in ShareWork : Goes(t, w) /\ w.at = here
<1> DEFINE w == [Resting EXCEPT !.at = here, !.q = q]
<1>1. w \in ShareWork /\ w.at = here
  BY ShareValues DEF ShareWork, Resting
<1> HIDE DEF w
<1>2. Goes(t, w)
  BY DEF TurnsTo, w
<1> QED
  BY <1>1, <1>2

LEMMA GoingOnKeeps ==
  ASSUME ShareInv, NEW t \in Actor, GoesOn(t),
         server' \in Nat, opened' \in Nat, clicked' \in Nat, clicked' >= clicked,
         t \notin (clicked' + 1)..MaxScreenClicks
  PROVE  ShareInv'
<1>1. PICK w \in ShareWork :
        /\ Goes(t, w)
        /\ shared' = NoQuality /\ screen' /= NoScreenUp /\ ~ stray'
             => w.at \in Settling \/ SettledBy(t)
  BY DEF GoesOn
<1>2. tasks \in [Actor -> ShareWork] /\ tasks' = [tasks EXCEPT ![t] = w] /\ clicked \in Nat
  BY <1>1 DEF ShareInv, ShareTypes, Goes
<1>3. ShareTypes'
  BY <1>2 DEF ShareTypes, GoesOn
<1>4. Unclicked'
  <2> SUFFICES ASSUME NEW u \in (clicked' + 1)..MaxScreenClicks
               PROVE  tasks'[u] = Resting
    BY DEF Unclicked
  <2>0. u /= t
    OBVIOUS
  <2>1. u \in (clicked + 1)..MaxScreenClicks /\ u \in 1..MaxScreenClicks
    <3> DEFINE n == clicked'
    <3>1. n \in Nat /\ n >= clicked /\ u \in (n + 1)..MaxScreenClicks
      OBVIOUS
    <3> HIDE DEF n
    <3> QED
      BY <1>2, <3>1, ShareAssumption
  <2> QED
    BY <1>2, <2>0, <2>1, ShareValues DEF ShareInv, Unclicked
<1>5. UpIsSettled'
  BY <1>1, <1>2 DEF UpIsSettled, SettledBy
<1> QED
  BY <1>3, <1>4, <1>5 DEF ShareInv

(* A task that settles nothing goes on, and leaves things as they are. *)
LEMMA StandsBy ==
  ASSUME ShareInv, NEW t \in Actor, tasks[t].at \notin Settling,
         shared' \in MaybeQuality, shared' = NoQuality => shared = NoQuality,
         UNCHANGED <<screen, stray>>, screenProducers' \subseteq Nat,
         NEW w \in ShareWork, Goes(t, w)
  PROVE  GoesOn(t)
<1>1. screen \in MaybeScreen /\ stray \in BOOLEAN
  BY DEF ShareInv, ShareTypes
<1>2. shared = NoQuality /\ screen /= NoScreenUp /\ ~ stray => SettledBy(t)
  BY DEF ShareInv, UpIsSettled, SettledBy
<1> QED
  BY <1>1, <1>2 DEF GoesOn

(* redo_screen takes the broadcast; nobody can leave up what is not there. *)
LEMMA GrabbingGoesOn ==
  ASSUME ShareInv, NEW t \in Actor, NEW q \in Quality, NEW keeps \in BOOLEAN, Grabs(t, q, keeps),
         UNCHANGED <<shared, screenProducers>>
  PROVE  GoesOn(t)
<1> DEFINE w == [Resting EXCEPT !.at = "look", !.q = q, !.b = screen, !.keeps = keeps]
<1>1. /\ shared \in MaybeQuality /\ screen \in OnScreen /\ screenProducers \subseteq Nat
      /\ q \in MaybeQuality
  BY DEF Grabs, ShareInv, ShareTypes, MaybeScreen, MaybeQuality
<1>2. w \in ShareWork
  BY <1>1, ShareValues DEF ShareWork, Resting, Stage, MaybeScreen
<1> HIDE DEF w
<1>3. Goes(t, w) /\ screen' = NoScreenUp /\ stray' = FALSE
  BY DEF Grabs, Screens, w
<1> QED
  BY <1>1, <1>2, <1>3, ShareValues DEF GoesOn

LEMMA ShareClicksKeep ==
  ASSUME ShareInv, (\E q \in Quality : ClickShare(q)) \/ ClickStop
  PROVE  ShareInv'
<1> DEFINE t == clicked + 1
<1>1. /\ clicked < MaxScreenClicks /\ clicked' = t /\ clicked \in Nat
      /\ server' = server /\ opened' = opened /\ server \in Nat /\ opened \in Nat
      /\ UNCHANGED <<shared, screen, screenProducers, stray>>
      /\ shared \in MaybeQuality /\ screenProducers \subseteq Nat
  BY DEF ClickShare, ClickStop, ShareInv, ShareTypes
<1>2. t \in Actor /\ tasks[t] = Resting /\ t \notin (clicked' + 1)..MaxScreenClicks
      /\ clicked' \in Nat /\ clicked' >= clicked
  BY <1>1, ShareAssumption, ShareValues DEF ShareInv, Unclicked
<1>3. \E here \in {"share", "stop", "grab"}, q \in MaybeQuality :
        TurnsTo(t, here, q) /\ (here = "stop" \/ q \in Quality)
  BY <1>1, ShareValues DEF ClickShare, ClickStop, MaybeQuality
<1>4. PICK w \in ShareWork : Goes(t, w)
  BY <1>3, Turning DEF Stage
<1>5. GoesOn(t)
  BY <1>1, <1>2, <1>4, StandsBy, ShareValues DEF Settling
<1> QED
  BY <1>1, <1>2, <1>5, GoingOnKeeps

(* The guard and the loop of the room, which have one task each. *)
LEMMA ShareOthersKeep ==
  ASSUME ShareInv, Guards \/ Hears \/ ServerEnds \/ Republish
  PROVE  ShareInv'
<1>0. /\ screenProducers \subseteq Nat /\ clicked \in Nat
      /\ shared \in MaybeQuality /\ screen \in MaybeScreen /\ server \in Nat /\ opened \in Nat
  BY DEF ShareInv, ShareTypes
<1>1. server' \in Nat /\ opened' \in Nat /\ clicked' = clicked /\ shared' = shared
  <2>1. CASE Guards
    BY <1>0, <2>1 DEF Guards
  <2>2. CASE Hears
    BY <1>0, <2>2 DEF Hears, countVars
  <2>3. CASE ServerEnds
    BY <1>0, <2>3 DEF ServerEnds
  <2>4. CASE Republish
    BY <1>0, <2>4 DEF Republish
  <2> QED
    BY <2>1, <2>2, <2>3, <2>4
<1>2. \A t \in {Loop, Guard} : t \in Actor /\ t \notin (clicked' + 1)..MaxScreenClicks
  BY <1>0, <1>1, ShareAssumption, ShareValues DEF Loop, Guard
<1>3. ASSUME NEW t \in {Loop, Guard}, tasks[t] = Resting, UNCHANGED <<screen, stray>>,
             screenProducers' \subseteq Nat,
             NEW here \in {"stop", "resend"}, TurnsTo(t, here, NoQuality)
      PROVE  ShareInv'
  <2>1. PICK w \in ShareWork : Goes(t, w)
    BY <1>3, Turning, ShareValues DEF Stage
  <2>2. GoesOn(t)
    BY <1>0, <1>1, <1>2, <1>3, <2>1, StandsBy, ShareValues DEF Settling
  <2> QED
    BY <1>0, <1>1, <1>2, <2>2, GoingOnKeeps
<1>4. CASE Guards
  <2>1. /\ tasks[Guard] = Resting /\ UNCHANGED <<shared, screenProducers>>
        /\ \/ \E q \in Quality, keeps \in BOOLEAN : Grabs(Guard, q, keeps)
           \/ \E here \in {"stop", "resend"} :
                TurnsTo(Guard, here, NoQuality) /\ UNCHANGED <<screen, stray>>
    <3>1. ASSUME screen /= NoScreenUp
          PROVE  /\ screen.q \in Quality
                 /\ screen.q < Lowest => screen.q + 1 \in Quality
                 /\ screen.q > screen.chosen => screen.q - 1 \in Quality
      <4>1. screen \in OnScreen
        BY <1>0, <3>1 DEF MaybeScreen
      <4> QED
        BY <4>1, ShareAssumption DEF OnScreen, Quality
    <3> QED
      BY <1>4, <3>1 DEF Guards
  <2>2. CASE \E q \in Quality, keeps \in BOOLEAN : Grabs(Guard, q, keeps)
    BY <1>0, <1>1, <1>2, <2>1, <2>2, GrabbingGoesOn, GoingOnKeeps
  <2> QED
    BY <1>0, <1>3, <2>1, <2>2
<1>5. CASE Republish
  BY <1>3, <1>5 DEF Republish
<1>6. CASE Hears
  <2>1. CASE TurnsTo(Loop, "stop", NoQuality)
    BY <1>0, <1>3, <1>6, <2>1 DEF Hears
  <2>2. CASE UNCHANGED tasks
    BY <1>0, <1>1, <1>6, <2>2 DEF Hears, ShareInv, ShareTypes, Unclicked, UpIsSettled
  <2> QED
    BY <1>6, <2>1, <2>2 DEF Hears
<1>7. CASE ServerEnds
  BY <1>0, <1>1, <1>7 DEF ServerEnds, ShareInv, ShareTypes, Unclicked, UpIsSettled
<1> QED
  BY <1>4, <1>5, <1>6, <1>7

TaskSteps(t) ==
  \/ Tests(t) \/ Probes(t) \/ Opens(t) \/ Launches(t) \/ NotesScreen(t) \/ GoesOnAir(t)
  \/ Stops(t) \/ Resends(t) \/ Takes(t) \/ Drains(t) \/ ClosesScreen(t) \/ RenewsKey(t)
  \/ GrabsToChange(t) \/ LooksBack(t) \/ Puts(t) \/ ChangesRecipe(t)

(* What the task at hand holds, and where it waits. *)
LEMMA TaskAtHand ==
  ASSUME ShareInv, NEW t \in Actor, TaskSteps(t)
  PROVE  /\ tasks[t] \in ShareWork
         /\ clicked' = clicked /\ clicked \in Nat
         /\ t \notin (clicked + 1)..MaxScreenClicks
         /\ server' \in Nat /\ opened' \in Nat
<1>1. tasks[t] \in ShareWork /\ clicked \in Nat /\ server \in Nat /\ opened \in Nat
  BY DEF ShareInv, ShareTypes
<1>2. tasks[t].at /= "rest" /\ clicked' = clicked
  BY DEF TaskSteps, Tests, Probes, Opens, Launches, NotesScreen, GoesOnAir, Stops, Resends, Takes, Drains,
         ClosesScreen, RenewsKey, GrabsToChange, LooksBack, Puts, ChangesRecipe, IsAt, countVars
<1>3. t \notin (clicked + 1)..MaxScreenClicks
  BY <1>2, ShareValues DEF ShareInv, Unclicked
<1>4. server' \in {server, 0, opened + 1} /\ opened' \in {opened, opened + 1}
  BY DEF TaskSteps, Tests, Probes, Opens, Launches, NotesScreen, GoesOnAir, Stops, Resends, Takes, Drains,
         ClosesScreen, RenewsKey, GrabsToChange, LooksBack, Puts, ChangesRecipe
<1> QED
  BY <1>1, <1>2, <1>3, <1>4

LEMMA ShareTasksKeep ==
  ASSUME ShareInv, NEW t \in Actor, TaskSteps(t)
  PROVE  ShareInv'
<1> DEFINE w == tasks[t]
<1>1. w \in ShareWork
  BY TaskAtHand
<1>2. /\ shared \in MaybeQuality /\ screen \in MaybeScreen /\ stray \in BOOLEAN
      /\ screenProducers \subseteq Nat /\ opened \in Nat
      /\ Quality \subseteq MaybeQuality /\ OnScreen \subseteq MaybeScreen
  BY DEF ShareInv, ShareTypes, MaybeQuality, MaybeScreen
<1>3. /\ w.ids \subseteq Nat /\ w.q \in MaybeQuality /\ w.b \in MaybeScreen /\ w.at \in Stage
      /\ w.at \in {"share", "probe", "open", "launch", "note", "air", "grab", "look", "put", "recipe"}
           => w.q \in Quality
      /\ w.at \in {"look", "put"} => w.b \in OnScreen
  BY <1>1 DEF ShareWork
<1>4. ASSUME GoesOn(t)
      PROVE  ShareInv'
  BY <1>4, TaskAtHand, GoingOnKeeps
<1>5. ASSUME w.at \notin Settling, UNCHANGED <<screen, stray>>, screenProducers' \subseteq Nat,
             shared' \in MaybeQuality, shared' = NoQuality => shared = NoQuality,
             NEW v \in ShareWork, Goes(t, v)
      PROVE  ShareInv'
  BY <1>4, <1>5, StandsBy
<1>6. ASSUME SharesNext(t)
      PROVE  \E v \in ShareWork : Goes(t, v)
  <2>1. CASE w.q = NoQuality
    BY <1>6, <2>1, ShareValues DEF SharesNext
  <2>2. CASE w.q \in Quality
    <3>1. TurnsTo(t, "share", w.q) /\ "share" \in Stage \ {"look", "put"}
      BY <1>6, <2>2, ShareValues DEF SharesNext, Stage
    <3> QED
      BY <1>3, <2>2, <3>1, Turning
  <2> QED
    BY <1>3, <2>1, <2>2 DEF MaybeQuality
<1>7. CASE Tests(t) \/ Probes(t)
  <2>1. /\ w.at \in {"share", "probe"} /\ UNCHANGED <<shared, screen, screenProducers, stray>>
        /\ TurnsTo(t, "probe", w.q) \/ TurnsTo(t, "open", w.q) \/ Goes(t, Resting)
    BY <1>7 DEF Tests, Probes, IsAt
  <2>2. \E v \in ShareWork : Goes(t, v)
    BY <1>3, <2>1, Turning, ShareValues DEF Stage
  <2> QED
    BY <1>2, <1>5, <2>1, <2>2 DEF Settling
<1>8. CASE Opens(t)
  <2> DEFINE v == [w EXCEPT !.at = "launch", !.ids = {opened'}]
  <2>1. /\ UNCHANGED <<shared, screen, screenProducers, stray>> /\ w.at = "open"
        /\ opened' \in Nat
    BY <1>8, TaskAtHand DEF Opens, IsAt
  <2>2. v \in ShareWork
    BY <1>1, <1>3, <2>1 DEF ShareWork, Stage
  <2> HIDE DEF v
  <2>3. Goes(t, v) \/ Goes(t, Resting)
    BY <1>8 DEF Opens, v
  <2> QED
    BY <1>2, <1>5, <2>1, <2>2, <2>3, ShareValues DEF Settling
<1>9. CASE Launches(t)
  <2> DEFINE v == [w EXCEPT !.at = "note"]
             x == [Resting EXCEPT !.at = "close", !.ids = w.ids]
             up == [q |-> w.q, chosen |-> w.q]
  <2>1. UNCHANGED <<shared, screenProducers>> /\ w.at = "launch"
    BY <1>9 DEF Launches, IsAt
  <2>2. v \in ShareWork /\ v.at = "note"
    BY <1>1, <1>3, <2>1 DEF ShareWork, Stage
  <2>3. x \in ShareWork
    BY <1>3, ShareValues DEF ShareWork, Resting, Stage
  <2>4. up \in MaybeScreen
    BY <1>2, <1>3, <2>1 DEF OnScreen
  <2>5. \/ screen' = up /\ stray' = FALSE /\ Goes(t, v)
        \/ UNCHANGED <<screen, stray>> /\ Goes(t, x)
    BY <1>9 DEF Launches, Screens
  <2> HIDE DEF v, x, up
  <2>6. CASE screen' = up /\ stray' = FALSE /\ Goes(t, v)
    BY <1>2, <1>4, <2>1, <2>2, <2>4, <2>6 DEF GoesOn, Settling
  <2>7. CASE UNCHANGED <<screen, stray>> /\ Goes(t, x)
    BY <1>2, <1>5, <2>1, <2>3, <2>7 DEF Settling
  <2> QED
    BY <2>5, <2>6, <2>7
<1>10. CASE NotesScreen(t)
  <2>1. /\ w.at = "note" /\ UNCHANGED <<shared, screen, stray>> /\ screenProducers' = w.ids
        /\ TurnsTo(t, "air", w.q)
    BY <1>10 DEF NotesScreen, IsAt
  <2>2. PICK v \in ShareWork : Goes(t, v) /\ v.at = "air"
    BY <1>3, <2>1, Turning DEF Stage
  <2>3. GoesOn(t)
    BY <1>2, <1>3, <2>1, <2>2 DEF GoesOn, Settling
  <2> QED
    BY <1>4, <2>3
<1>11. CASE GoesOnAir(t)
  <2>1. /\ w.at = "air" /\ shared' = w.q /\ UNCHANGED <<screen, screenProducers, stray>>
        /\ Goes(t, Resting)
    BY <1>11 DEF GoesOnAir, IsAt
  <2>2. GoesOn(t)
    BY <1>2, <1>3, <2>1, ShareValues DEF GoesOn
  <2> QED
    BY <1>4, <2>2
<1>12. CASE Stops(t)
  <2>1. /\ shared' = NoQuality /\ UNCHANGED <<screen, screenProducers, stray>>
        /\ TurnsTo(t, "take", w.q)
    BY <1>12 DEF Stops
  <2>2. PICK v \in ShareWork : Goes(t, v) /\ v.at = "take"
    BY <1>3, <2>1, Turning DEF Stage
  <2>3. GoesOn(t)
    BY <1>2, <2>1, <2>2, ShareValues DEF GoesOn, Settling
  <2> QED
    BY <1>4, <2>3
<1>13. CASE Resends(t)
  <2> DEFINE v == [Resting EXCEPT !.at = "take", !.q = shared, !.again = TRUE]
  <2>1. v \in ShareWork /\ v.at = "take"
    BY <1>2, ShareValues DEF ShareWork, Resting, Stage
  <2> HIDE DEF v
  <2>2. shared' = NoQuality /\ UNCHANGED <<screen, screenProducers, stray>> /\ Goes(t, v)
    BY <1>13 DEF Resends, v
  <2>3. GoesOn(t)
    BY <1>2, <2>1, <2>2, ShareValues DEF GoesOn, Settling
  <2> QED
    BY <1>4, <2>3
<1>14. CASE Takes(t)
  <2> DEFINE v == [w EXCEPT !.at = "drain"]
  <2>1. v \in ShareWork
    BY <1>1 DEF ShareWork, Stage
  <2> HIDE DEF v
  <2>2. screen' = NoScreenUp /\ stray' = FALSE /\ UNCHANGED <<shared, screenProducers>> /\ Goes(t, v)
    BY <1>14 DEF Takes, Screens, v
  <2>3. GoesOn(t)
    BY <1>2, <2>1, <2>2, ShareValues DEF GoesOn
  <2> QED
    BY <1>4, <2>3
<1>15. CASE Drains(t)
  <2> DEFINE v == [w EXCEPT !.at = "close", !.ids = screenProducers]
  <2>1. v \in ShareWork
    BY <1>1, <1>2 DEF ShareWork, Stage
  <2> HIDE DEF v
  <2>2. /\ w.at = "drain" /\ screenProducers' = {} /\ UNCHANGED <<shared, screen, stray>>
        /\ Goes(t, v)
    BY <1>15 DEF Drains, IsAt, v
  <2> QED
    BY <1>2, <1>5, <2>1, <2>2 DEF Settling
<1>16. CASE ClosesScreen(t)
  <2> DEFINE v == [w EXCEPT !.at = "renew"]
  <2>1. v \in ShareWork
    BY <1>1 DEF ShareWork, Stage
  <2> HIDE DEF v
  <2>2. /\ w.at = "close" /\ UNCHANGED <<shared, screen, screenProducers, stray>>
        /\ Goes(t, v) \/ SharesNext(t)
    BY <1>16 DEF ClosesScreen, IsAt, v
  <2>3. \E x \in ShareWork : Goes(t, x)
    BY <1>6, <2>1, <2>2
  <2> QED
    BY <1>2, <1>5, <2>2, <2>3 DEF Settling
<1>17. CASE RenewsKey(t)
  <2>1. w.at = "renew" /\ UNCHANGED <<shared, screen, screenProducers, stray>> /\ SharesNext(t)
    BY <1>17 DEF RenewsKey, IsAt
  <2>2. \E x \in ShareWork : Goes(t, x)
    BY <1>6, <2>1
  <2> QED
    BY <1>2, <1>5, <2>1, <2>2 DEF Settling
<1>18. CASE GrabsToChange(t)
  <2>1. /\ w.at = "grab" /\ UNCHANGED <<shared, screenProducers>>
        /\ \/ Grabs(t, w.q, FALSE)
           \/ UNCHANGED <<screen, stray>> /\ TurnsTo(t, "recipe", w.q)
    BY <1>18 DEF GrabsToChange, IsAt
  <2>2. CASE Grabs(t, w.q, FALSE)
    BY <1>3, <1>4, <2>1, <2>2, GrabbingGoesOn
  <2>3. CASE UNCHANGED <<screen, stray>> /\ TurnsTo(t, "recipe", w.q)
    <3>1. \E v \in ShareWork : Goes(t, v)
      BY <1>3, <2>1, <2>3, Turning DEF Stage
    <3> QED
      BY <1>2, <1>5, <2>1, <2>3, <3>1 DEF Settling
  <2> QED
    BY <2>1, <2>2, <2>3
<1>19. CASE LooksBack(t)
  <2> DEFINE v == [w EXCEPT !.at = "put", !.still = (shared /= NoQuality)]
  <2>1. UNCHANGED <<shared, screen, screenProducers, stray>> /\ w.at = "look" /\ Goes(t, v)
    BY <1>19 DEF LooksBack, IsAt
  <2>2. v \in ShareWork
    BY <1>1, <1>3, <2>1 DEF ShareWork, Stage
  <2> HIDE DEF v
  <2> QED
    BY <1>2, <1>5, <2>1, <2>2 DEF Settling
<1>20. CASE Puts(t)
  <2>1. /\ w.at = "put" /\ UNCHANGED <<shared, screenProducers>>
        /\ TurnsTo(t, "recipe", w.q) \/ Goes(t, Resting)
    BY <1>20 DEF Puts, IsAt
  <2>2. PICK v \in ShareWork : Goes(t, v)
    BY <1>3, <2>1, Turning, ShareValues DEF Stage
  <2>3. Redone(t) \subseteq OnScreen
    <3>1. w.q \in Quality /\ w.b \in OnScreen
      BY <1>3, <2>1
    <3>2. w.b.q \in Quality /\ w.b.chosen \in Quality
      BY <3>1 DEF OnScreen
    <3> QED
      BY <3>1, <3>2 DEF Redone, OnScreen
  <2>4. CASE PutsBack(t)
    <3>1. /\ screen' \in OnScreen /\ stray' = (w.still /\ shared = NoQuality) /\ w.still
      BY <1>20, <2>3, <2>4 DEF Puts, PutsBack
    <3>2. GoesOn(t)
      BY <1>2, <2>1, <2>2, <3>1 DEF GoesOn
    <3> QED
      BY <1>4, <3>2
  <2>5. CASE UNCHANGED <<screen, stray>>
    BY <1>2, <1>5, <2>1, <2>2, <2>5 DEF Settling
  <2> QED
    BY <1>20, <2>4, <2>5 DEF Puts
<1>21. CASE ChangesRecipe(t)
  <2>1. /\ w.at = "recipe" /\ UNCHANGED <<screen, screenProducers, stray>> /\ Goes(t, Resting)
        /\ shared' = IF shared = NoQuality THEN NoQuality ELSE w.q
    BY <1>21 DEF ChangesRecipe, IsAt
  <2>2. shared' \in MaybeQuality /\ (shared' = NoQuality => shared = NoQuality)
    BY <1>2, <1>3, <2>1, ShareValues
  <2> QED
    BY <1>2, <1>5, <2>1, <2>2, ShareValues DEF Settling
<1>22. ASSUME Tests(t) \/ Probes(t) \/ Opens(t) \/ Launches(t) \/ NotesScreen(t) \/ GoesOnAir(t) \/ Stops(t)
       PROVE  ShareInv'
  BY <1>7, <1>8, <1>9, <1>10, <1>11, <1>12, <1>22
<1>23. ASSUME Resends(t) \/ Takes(t) \/ Drains(t) \/ ClosesScreen(t) \/ RenewsKey(t)
       PROVE  ShareInv'
  BY <1>13, <1>14, <1>15, <1>16, <1>17, <1>23
<1>24. ASSUME GrabsToChange(t) \/ LooksBack(t) \/ Puts(t) \/ ChangesRecipe(t)
       PROVE  ShareInv'
  BY <1>18, <1>19, <1>20, <1>21, <1>24
<1> QED
  BY <1>22, <1>23, <1>24 DEF TaskSteps

(* The invariant of the shared screen: a capture that is up while nobody shares, *)
(* and was not put back by redo_screen (room.rs) after the person had stopped,    *)
(* is some task's to say that it is on air or to take down.                       *)
THEOREM ShareInvariant == ShareSpec => []ShareInv
<1>1. ShareInit => ShareInv
  <2> SUFFICES ASSUME ShareInit PROVE ShareInv
    OBVIOUS
  <2>1. ShareTypes
    BY ShareValues DEF ShareInit, ShareTypes
  <2>2. Unclicked
    BY ShareValues DEF ShareInit, Unclicked
  <2>3. UpIsSettled
    BY DEF ShareInit, UpIsSettled
  <2> QED
    BY <2>1, <2>2, <2>3 DEF ShareInv
<1>2. ShareInv /\ [ShareNext]_shareVars => ShareInv'
  <2> SUFFICES ASSUME ShareInv, [ShareNext]_shareVars PROVE ShareInv'
    OBVIOUS
  <2>1. CASE ShareNext
    BY <2>1, ShareClicksKeep, ShareOthersKeep, ShareTasksKeep DEF ShareNext, TaskSteps
  <2>2. CASE UNCHANGED shareVars
    BY <2>2 DEF shareVars, ShareInv, ShareTypes, Unclicked, UpIsSettled
  <2> QED
    BY <2>1, <2>2
<1> QED
  BY <1>1, <1>2, PTL DEF ShareSpec

(* When all has come to rest, whoever does not share sends nothing, unless     *)
(* they stopped between the two locks of redo_screen (room.rs).  A capture     *)
(* that is up while nobody shares is not forgotten: the task that put it there *)
(* has still to say that it is shared (share), or the one that stops it has    *)
(* still to take it (stop_sharing, resend).                                    *)
THEOREM StoppedIsStopped == ShareSpec => []StoppedSharesNothing
<1>1. ShareInv => StoppedSharesNothing
  BY ShareValues DEF ShareInv, UpIsSettled, StoppedSharesNothing, ShareRest, Settling
<1> QED
  BY <1>1, ShareInvariant, PTL

(* No producer has a number that is still to come. *)
Numbered ==
  /\ server \in 0..opened /\ screenProducers \subseteq 1..opened /\ dead \subseteq 1..opened
  /\ \A t \in Actor : tasks[t].ids \subseteq 1..opened

(* A task goes on with numbers it knew. *)
LEMMA GoesNumbered ==
  ASSUME ShareTypes, Numbered, opened' = opened, server' \in {server, 0},
         dead' \subseteq dead \cup ({server} \ {0}),
         screenProducers' \subseteq 1..opened,
         NEW t, NEW w, w.ids \subseteq 1..opened, Goes(t, w)
  PROVE  Numbered'
BY DEF ShareTypes, Numbered, Goes

(* And so it does when it turns to something else. *)
LEMMA TurnsNumbered ==
  ASSUME ShareTypes, Numbered, opened' = opened, server' \in {server, 0},
         dead' \subseteq dead \cup ({server} \ {0}),
         screenProducers' \subseteq 1..opened,
         NEW t, NEW here, NEW q, TurnsTo(t, here, q)
  PROVE  Numbered'
<1>1. [Resting EXCEPT !.at = here, !.q = q].ids = {}
  BY DEF Resting
<1> QED
  BY <1>1, GoesNumbered DEF TurnsTo

LEMMA GrabsNumbered ==
  ASSUME ShareTypes, Numbered, UNCHANGED <<opened, server, dead, screenProducers>>,
         NEW t, NEW q, NEW keeps, Grabs(t, q, keeps)
  PROVE  Numbered'
<1>1. [Resting EXCEPT !.at = "look", !.q = q, !.b = screen, !.keeps = keeps].ids = {}
  BY DEF Resting
<1>2. screenProducers \subseteq 1..opened
  BY DEF Numbered
<1> QED
  BY <1>1, <1>2, GoesNumbered DEF Grabs

(* Clicks, the guard, the loop and the server name no other producer. *)
LEMMA OthersNumbered ==
  ASSUME ShareTypes, Numbered,
         (\E q \in Quality : ClickShare(q)) \/ ClickStop \/ Guards \/ Hears \/ ServerEnds \/ Republish
  PROVE  Numbered'
<1>0. screenProducers \subseteq 1..opened /\ opened \in Nat /\ server \in Nat
  BY DEF Numbered, ShareTypes
<1>1. ASSUME NEW q \in Quality, ClickShare(q)
      PROVE  Numbered'
  BY <1>0, <1>1, TurnsNumbered DEF ClickShare
<1>2. CASE ClickStop
  BY <1>0, <1>2, TurnsNumbered DEF ClickStop
<1>3. CASE Guards
  <2>1. UNCHANGED <<server, opened, dead, screenProducers>>
    BY <1>3 DEF Guards
  <2> QED
    BY <1>0, <1>3, <2>1, TurnsNumbered, GrabsNumbered DEF Guards
<1>4. CASE Hears
  <2>1. UNCHANGED <<server, opened, screenProducers>> /\ dead' \subseteq dead
    BY <1>4 DEF Hears
  <2>2. CASE UNCHANGED tasks
    BY <2>1, <2>2 DEF Numbered
  <2> QED
    BY <1>0, <1>4, <2>1, <2>2, TurnsNumbered DEF Hears
<1>5. CASE ServerEnds
  <2>1. /\ UNCHANGED <<screenProducers, tasks, opened>>
        /\ server' = 0 /\ dead' = dead \cup {server} /\ server /= 0
    BY <1>5 DEF ServerEnds
  <2> QED
    BY <1>0, <2>1 DEF Numbered
<1>6. CASE Republish
  BY <1>0, <1>6, TurnsNumbered DEF Republish
<1> QED
  BY <1>1, <1>2, <1>3, <1>4, <1>5, <1>6

LEMMA TasksNumbered ==
  ASSUME ShareTypes, Numbered, NEW t \in Actor, TaskSteps(t)
  PROVE  Numbered'
<1>0. /\ screenProducers \subseteq 1..opened /\ opened \in Nat /\ server \in Nat
      /\ tasks[t] \in ShareWork /\ tasks[t].ids \subseteq 1..opened /\ Resting.ids = {}
  BY DEF Numbered, ShareTypes, Resting
<1>1. /\ \A here : [tasks[t] EXCEPT !.at = here].ids = tasks[t].ids
      /\ \A ids : [tasks[t] EXCEPT !.at = "close", !.ids = ids].ids = ids
      /\ \A ids : [Resting EXCEPT !.at = "close", !.ids = ids].ids = ids
      /\ [Resting EXCEPT !.at = "take", !.q = shared, !.again = TRUE].ids = {}
      /\ \A f : [tasks[t] EXCEPT !.at = "put", !.still = f].ids = tasks[t].ids
  BY <1>0 DEF ShareWork, Resting
<1>2. CASE Opens(t)
  <2>1. UNCHANGED <<screenProducers, dead>>
    BY <1>2 DEF Opens
  <2>2. CASE /\ opened' = opened + 1 /\ server' = opened'
             /\ Goes(t, [tasks[t] EXCEPT !.at = "launch", !.ids = {opened'}])
    <3>1. [tasks[t] EXCEPT !.at = "launch", !.ids = {opened'}].ids = {opened'}
      BY <1>0 DEF ShareWork
    <3>2. \A u \in Actor : tasks'[u].ids \subseteq 1..opened'
      BY <1>0, <2>2, <3>1 DEF Goes, ShareTypes, Numbered
    <3> QED
      BY <1>0, <2>1, <2>2, <3>2 DEF Numbered
  <2>3. CASE Goes(t, Resting) /\ UNCHANGED <<server, opened>>
    BY <1>0, <2>1, <2>3, GoesNumbered
  <2> QED
    BY <1>2, <2>2, <2>3 DEF Opens
<1>3. ASSUME ~ Opens(t)
      PROVE  opened' = opened /\ server' \in {server, 0} /\ dead' = dead
  BY <1>3 DEF TaskSteps, Tests, Probes, Launches, NotesScreen, GoesOnAir, Stops, Resends, Takes, Drains,
              ClosesScreen, RenewsKey, GrabsToChange, LooksBack, Puts, ChangesRecipe
<1>4. CASE Tests(t) \/ Probes(t) \/ NotesScreen(t) \/ Stops(t)
  <2>1. screenProducers' \subseteq 1..opened /\ opened' = opened /\ server' = server /\ dead' = dead
    BY <1>0, <1>4 DEF Tests, Probes, NotesScreen, Stops
  <2>2. CASE Goes(t, Resting)
    BY <1>0, <2>1, <2>2, GoesNumbered
  <2> QED
    BY <1>0, <1>4, <2>1, <2>2, TurnsNumbered DEF Tests, Probes, NotesScreen, Stops
<1>5. CASE Launches(t)
  BY <1>0, <1>1, <1>5, GoesNumbered DEF Launches
<1>6. CASE GoesOnAir(t) \/ ChangesRecipe(t)
  BY <1>0, <1>6, GoesNumbered DEF GoesOnAir, ChangesRecipe
<1>7. CASE Resends(t)
  BY <1>0, <1>1, <1>7, GoesNumbered DEF Resends
<1>8. CASE Takes(t)
  BY <1>0, <1>1, <1>8, GoesNumbered DEF Takes
<1>9. CASE Drains(t)
  BY <1>0, <1>1, <1>9, GoesNumbered DEF Drains
<1>10. CASE ClosesScreen(t) \/ RenewsKey(t)
  <2>1. /\ opened' = opened /\ server' \in {server, 0} /\ UNCHANGED <<dead, screenProducers>>
        /\ Goes(t, [tasks[t] EXCEPT !.at = "renew"]) \/ SharesNext(t)
    BY <1>10 DEF ClosesScreen, RenewsKey
  <2>2. CASE SharesNext(t)
    BY <1>0, <2>1, <2>2, GoesNumbered, TurnsNumbered DEF SharesNext
  <2> QED
    BY <1>0, <1>1, <2>1, <2>2, GoesNumbered
<1>11. CASE GrabsToChange(t)
  BY <1>0, <1>11, TurnsNumbered, GrabsNumbered DEF GrabsToChange
<1>12. CASE LooksBack(t)
  BY <1>0, <1>1, <1>12, GoesNumbered DEF LooksBack
<1>13. CASE Puts(t)
  <2>1. /\ UNCHANGED <<opened, server, dead, screenProducers>>
        /\ TurnsTo(t, "recipe", tasks[t].q) \/ Goes(t, Resting)
    BY <1>13 DEF Puts
  <2> QED
    BY <1>0, <2>1, GoesNumbered, TurnsNumbered
<1> QED
  BY <1>2, <1>4, <1>5, <1>6, <1>7, <1>8, <1>9, <1>10, <1>11, <1>12, <1>13 DEF TaskSteps

(***************************************************************************)
(* sharing.rs: what is captured has a quality of the ladder, and no task    *)
(* closes or notes a producer that is not opened yet.                       *)
(***************************************************************************)
THEOREM ShareTypesHold == ShareSpec => []ShareTypeOK
<1>1. ShareInit => Numbered
  <2> SUFFICES ASSUME ShareInit PROVE Numbered
    OBVIOUS
  <2>1. \A t \in Actor : tasks[t].ids = {}
    BY DEF ShareInit, Resting
  <2> QED
    BY <2>1 DEF ShareInit, Numbered
<1>2. ShareInv /\ Numbered /\ [ShareNext]_shareVars => Numbered'
  <2> SUFFICES ASSUME ShareInv, Numbered, [ShareNext]_shareVars
               PROVE  Numbered'
    OBVIOUS
  <2>1. ShareTypes
    BY DEF ShareInv
  <2>2. CASE ShareNext
    BY <2>1, <2>2, OthersNumbered, TasksNumbered DEF ShareNext, TaskSteps
  <2>3. CASE UNCHANGED shareVars
    BY <2>3 DEF shareVars, Numbered
  <2> QED
    BY <2>2, <2>3
<1>3. ShareInv /\ Numbered => ShareTypeOK
  BY DEF ShareInv, ShareTypes, MaybeQuality, MaybeScreen, Numbered, ShareTypeOK
<1> QED
  BY <1>1, <1>2, <1>3, ShareInvariant, PTL DEF ShareSpec

-----------------------------------------------------------------------------
(* What a client watches *)

MediaTypes ==
  /\ fresh \subseteq Producer /\ onAir \subseteq Producer /\ roster \subseteq Producer
  /\ watching \subseteq Producer /\ closed \subseteq Producer /\ away \subseteq Producer
  /\ opening \subseteq Producer /\ evicted \subseteq Producer /\ cut \subseteq Producer
  /\ doubled \subseteq Producer
  /\ unheard \in Seq({"newProducer", "producerClosed"} \X Producer)
  /\ focus \in Producer \cup {NoScreen}
  /\ consumers \in [Producer -> 0..MaxMade]
  /\ made \in 0..MaxMade /\ clicks \in 0..MaxClicks
  /\ of \in [Consumer -> Producer \cup {NoScreen}]
  /\ run \in [Consumer -> {"closed", "paused", "running"}]
  /\ work \in [Task -> Work]

(* What each kind of work holds; a click that did not come has none. *)
WorkIsShaped ==
  \A t \in Task :
    /\ work[t].at \in {"marks", "asks", "reads", "starts", "resumes"} => work[t].p \in Producer
    /\ work[t].at \in {"idle", "all"} => work[t].p = NoScreen
    /\ work[t].at \in {"idle", "all", "marks", "asks", "view"} => work[t].c = 0
    /\ work[t].at = "view" \/ (work[t].at = "closes" /\ work[t].p = NoScreen) => work[t].todo = {}
    /\ work[t].at \in {"starts", "resumes"} => work[t].c /= 0
    /\ t > clicks => work[t] = Free

(* Task t has p open: it asked for its consumer, or is about to. *)
Brings(t, p) == work[t].p = p /\ work[t].at \notin {"view", "marks"}

(* What task t goes for: what it has still to test, and to mark. *)
Wants(t) == {p \in Producer : p \in work[t].todo \/ (work[t].p = p /\ work[t].at = "marks")}

(* A producer's id is used once: nothing knows of it before it is made, and  *)
(* the one whose end is announced is gone.                                  *)
NeverBack ==
  /\ fresh \cap (onAir \cup roster \cup watching) = {}
  /\ \A i \in 1..Len(unheard) :
       /\ unheard[i][2] \notin fresh
       /\ unheard[i][1] = "producerClosed" => unheard[i][2] \notin onAir
  /\ \A t \in Task : Wants(t) \cap fresh = {} /\ \A p \in fresh : ~Brings(t, p)
  /\ closed \subseteq evicted

(* A mark is of one task; what is undone or hidden was closed by the person. *)
Sole ==
  /\ \A p \in opening : \E t \in Task : Brings(t, p)
  /\ \A t \in Task, p \in Producer : Brings(t, p) =>
       /\ p \in opening
       /\ \A u \in Task : Brings(u, p) => u = t
       /\ work[t].at = "closes" => p \in evicted
  /\ \A t \in Task : work[t].at = "view" /\ work[t].p /= NoScreen => work[t].p \in cut

(* A screen never closed has one consumer, none until it is asked for; not so  *)
(* one that was marked when it was watched already.                          *)
OneOpen ==
  /\ \A p \in Producer \ onAir : Open(p) = {}
  /\ \A p \in Producer \ (evicted \cup doubled) :
       /\ \A c, d \in Open(p) : c = d
       /\ p \notin watching \cup opening => Open(p) = {}
       /\ \A t \in Task : Brings(t, p) =>
            /\ work[t].at = "asks" => Open(p) = {}
            /\ work[t].at \in {"reads", "starts"} => Open(p) \subseteq {work[t].c}
  /\ \A t \in Task, p \in Producer \ evicted :
       Brings(t, p) /\ work[t].at = "resumes" => p \in watching \cup (Producer \ onAir)

(* A consumer is held by one task or noted, never both. *)
TaskHolds ==
  /\ \A t \in Task : work[t].c /= 0 =>
       /\ work[t].c <= made
       /\ \A u \in Task : work[u].c = work[t].c => u = t
       /\ \A q \in Producer : consumers[q] /= work[t].c
  /\ \A q \in Producer : consumers[q] /= 0 => consumers[q] <= made /\ of[consumers[q]] = q
  /\ \A t \in Task, p \in Producer : Brings(t, p) /\ work[t].c /= 0 =>
       /\ of[work[t].c] = p
       /\ work[t].at \in {"reads", "starts", "resumes"} /\ p \in onAir => run[work[t].c] /= "closed"
  /\ \A t \in Task, p \in onAir : Brings(t, p) /\ work[t].at \in {"reads", "starts", "resumes"} => work[t].c /= 0

(* What is watched has its consumer noted, or is about to. *)
TaskServes ==
  \A p \in (watching \cap onAir) \ cut :
    consumers[p] \in Open(p) \/ \E t \in Task : Brings(t, p) /\ work[t].at = "resumes"

(* What is on air and was never closed is watched, or somebody goes for it. *)
Reached ==
  \A p \in onAir \ evicted :
    \/ p \in watching
    \/ \E t \in Task : p \in Wants(t) \/ Brings(t, p)
    \/ \E i \in 1..Len(unheard) : unheard[i] = <<"newProducer", p>>

MediaInv ==
  MediaTypes /\ WorkIsShaped /\ NeverBack /\ Sole /\ OneOpen /\ TaskHolds /\ TaskServes /\ Reached

(* Task t goes on so, and no other does. *)
Becomes(t, at, todo, p, c) ==
  /\ work' \in [Task -> Work]
  /\ work'[t].at = at /\ work'[t].todo = todo /\ work'[t].p = p /\ work'[t].c = c
  /\ \A u \in Task \ {t} : work'[u] = work[u]

LEMMA WorkValues ==
  /\ Free \in Work /\ Free.at = "idle" /\ Free.todo = {} /\ Free.moves = {}
  /\ Free.p = NoScreen /\ Free.c = 0
  /\ 0 \in Task /\ NoScreen \notin Producer /\ 0 \notin Consumer
<1>1. /\ Free.at = "idle" /\ Free.todo = {} /\ Free.moves = {}
      /\ Free.p = NoScreen /\ Free.c = 0
  BY DEF Free
<1>2. 0 \in 0..MaxMade /\ 0 \in Task /\ 0 \notin Consumer
  BY MediaAssumption DEF Task, Consumer
<1>3. Free \in Work
  BY <1>2 DEF Free, Work
<1> QED
  BY <1>1, <1>2, <1>3, MediaAssumption

LEMMA DoingBecomes ==
  ASSUME MediaTypes, NEW t \in Task, NEW w \in Work, Do(t, w)
  PROVE  Becomes(t, w.at, w.todo, w.p, w.c) /\ work'[t] = w
BY DEF MediaTypes, Do, Becomes

(* What it goes for is what is left of todo, and what it is about to mark. *)
LEMMA WantsThen ==
  ASSUME NEW t \in Task, NEW at, NEW todo, NEW p, NEW c, Becomes(t, at, todo, p, c)
  PROVE  /\ \A u \in Task \ {t} : Wants(u)' = Wants(u)
         /\ Wants(t)' = {q \in Producer : q \in todo \/ (p = q /\ at = "marks")}
BY DEF Becomes, Wants

(* The work that the clicks and the loop begin: to view, to consume, to close. *)
LEMMA ViewToDo ==
  ASSUME NEW f, NEW r, NEW p \in Producer \cup {NoScreen}
  PROVE  /\ ApplyView(f, r, p) \in Work
         /\ ApplyView(f, r, p).at = "view" /\ ApplyView(f, r, p).todo = {}
         /\ ApplyView(f, r, p).p = p /\ ApplyView(f, r, p).c = 0
<1> DEFINE moves == {m \in Change : /\ m[3] = consumers[m[1]]
                                    /\ IF m[2] THEN m[1] \in r \ away /\ Unseen(m[1], f)
                                       ELSE m[1] \in away /\ ~(m[1] \in r /\ Unseen(m[1], f))}
<1>1. moves \in SUBSET Change
  OBVIOUS
<1>2. ApplyView(f, r, p) = [Free EXCEPT !.at = "view", !.p = p, !.moves = moves]
  BY DEF ApplyView
<1> HIDE DEF moves
<1> QED
  BY <1>1, <1>2, WorkValues DEF Free, Work

LEMMA WorkToDo ==
  ASSUME MediaTypes
  PROVE  /\ \A gone :
              /\ ConsumeAll(gone) \in Work
              /\ ConsumeAll(gone).at = "all" /\ ConsumeAll(gone).todo = roster \ gone
              /\ ConsumeAll(gone).p = NoScreen /\ ConsumeAll(gone).c = 0
         /\ \A c \in 0..MaxMade :
              LET w == [Free EXCEPT !.at = "closes", !.c = c]
              IN w \in Work /\ w.at = "closes" /\ w.todo = {} /\ w.p = NoScreen /\ w.c = c
<1>1. Free \in Work /\ 0 \in 0..MaxMade
  BY WorkValues, MediaAssumption
<1>2. ASSUME NEW gone
      PROVE  /\ ConsumeAll(gone) \in Work
             /\ ConsumeAll(gone).at = "all" /\ ConsumeAll(gone).todo = roster \ gone
             /\ ConsumeAll(gone).p = NoScreen /\ ConsumeAll(gone).c = 0
  BY <1>1 DEF MediaTypes, ConsumeAll, Free, Work
<1>3. ASSUME NEW c \in 0..MaxMade
      PROVE  LET w == [Free EXCEPT !.at = "closes", !.c = c]
             IN w \in Work /\ w.at = "closes" /\ w.todo = {} /\ w.p = NoScreen /\ w.c = c
  BY <1>1 DEF Free, Work
<1> QED
  BY <1>2, <1>3

LEMMA TypesStay ==
  ASSUME MediaTypes, UNCHANGED work, UNCHANGED <<made, clicks, of, consumers, evicted, cut, doubled, roster,
         watching, closed, away, opening, focus>>,
         fresh' \subseteq Producer, onAir' \subseteq Producer,
         unheard' \in Seq({"newProducer", "producerClosed"} \X Producer),
         run' \in [Consumer -> {"closed", "paused", "running"}]
  PROVE  MediaTypes'
BY DEF MediaTypes

(* An event the SFU sends is the last one. *)
LEMMA AnnouncedIsNew ==
  ASSUME MediaTypes, NEW what \in {"newProducer", "producerClosed"}, NEW p \in Producer,
         unheard' = Append(unheard, <<what, p>>)
  PROVE  /\ unheard' \in Seq({"newProducer", "producerClosed"} \X Producer)
         /\ Len(unheard') = Len(unheard) + 1 /\ Len(unheard) \in Nat
         /\ unheard'[Len(unheard) + 1] = <<what, p>>
         /\ \A i \in 1..Len(unheard) : unheard'[i] = unheard[i]
<1>1. unheard \in Seq({"newProducer", "producerClosed"} \X Producer)
  BY DEF MediaTypes
<1>2. <<what, p>> \in {"newProducer", "producerClosed"} \X Producer
  OBVIOUS
<1> HIDE DEF MediaTypes
<1> QED
  BY <1>1, <1>2

LEMMA ProducesKeeps ==
  ASSUME MediaInv, NEW p \in Producer, Produces(p)
  PROVE  MediaInv'
<1>1. /\ p \in fresh /\ fresh' = fresh \ {p} /\ onAir' = onAir \cup {p}
      /\ unheard' = Append(unheard, <<"newProducer", p>>)
      /\ UNCHANGED <<made, of, run, roster, watching, closed, away, opening, focus, consumers, work,
                     clicks, evicted, cut, doubled>>
  BY DEF Produces
<1>2. MediaTypes /\ p \notin onAir \cup watching /\ \A t \in Task : ~Brings(t, p)
  BY <1>1 DEF MediaInv, NeverBack
<1>3. /\ unheard' \in Seq({"newProducer", "producerClosed"} \X Producer)
      /\ Len(unheard') = Len(unheard) + 1 /\ Len(unheard) \in Nat
      /\ unheard'[Len(unheard) + 1] = <<"newProducer", p>>
      /\ \A i \in 1..Len(unheard) : unheard'[i] = unheard[i]
  BY <1>1, <1>2, AnnouncedIsNew
<1>4. \A q \in Producer : Open(q)' = Open(q)
  BY <1>1 DEF Open
<1>5. /\ \A t, q : Brings(t, q)' <=> Brings(t, q)
      /\ \A t : Wants(t)' = Wants(t)
  BY <1>1 DEF Brings, Wants
<1>6. MediaTypes'
  BY <1>1, <1>2, <1>3, TypesStay DEF MediaTypes
<1>7. WorkIsShaped' /\ Sole'
  BY <1>1, <1>5 DEF MediaInv, WorkIsShaped, Sole
<1>8. NeverBack'
  <2>1. ASSUME NEW i \in 1..Len(unheard')
        PROVE  /\ unheard'[i][2] \notin fresh'
               /\ unheard'[i][1] = "producerClosed" => unheard'[i][2] \notin onAir'
    <3>1. CASE i = Len(unheard) + 1
      BY <1>1, <1>3, <3>1
    <3>2. CASE i \in 1..Len(unheard)
      BY <1>1, <1>3, <3>2 DEF MediaInv, NeverBack
    <3> QED
      BY <1>3, <2>1, <3>1, <3>2
  <2>2. \A t \in Task : Wants(t)' \cap fresh' = {} /\ \A q \in fresh' : ~(Brings(t, q)')
    BY <1>1, <1>5 DEF MediaInv, NeverBack
  <2>3. fresh' \cap (onAir' \cup roster' \cup watching') = {} /\ closed' \subseteq evicted'
    BY <1>1 DEF MediaInv, NeverBack
  <2> QED
    BY <2>1, <2>2, <2>3 DEF NeverBack
<1>9. OneOpen'
  BY <1>1, <1>2, <1>4, <1>5 DEF MediaInv, OneOpen
<1>10. TaskHolds'
  BY <1>1, <1>2, <1>5 DEF MediaInv, TaskHolds
<1>11. TaskServes'
  BY <1>1, <1>2, <1>4, <1>5 DEF MediaInv, MediaTypes, TaskServes
<1>12. Reached'
  <2> SUFFICES ASSUME NEW q \in onAir' \ evicted, q \notin watching,
                      ~ \E t \in Task : q \in Wants(t) \/ Brings(t, q)
               PROVE  \E i \in 1..Len(unheard') : unheard'[i] = <<"newProducer", q>>
    BY <1>1, <1>5 DEF Reached
  <2>1. CASE q = p
    BY <1>3, <2>1
  <2>2. CASE q /= p
    <3>1. PICK i \in 1..Len(unheard) : unheard[i] = <<"newProducer", q>>
      BY <1>1, <2>2 DEF MediaInv, Reached
    <3>2. i \in 1..Len(unheard') /\ unheard'[i] = <<"newProducer", q>>
      BY <1>3, <3>1
    <3> QED
      BY <3>2
  <2> QED
    BY <2>1, <2>2
<1> QED
  BY <1>6, <1>7, <1>8, <1>9, <1>10, <1>11, <1>12 DEF MediaInv

LEMMA StopsKeeps ==
  ASSUME MediaInv, NEW p \in Producer, StopsProducing(p)
  PROVE  MediaInv'
<1>1. /\ p \in onAir /\ onAir' = onAir \ {p}
      /\ unheard' = Append(unheard, <<"producerClosed", p>>)
      /\ UNCHANGED <<fresh, made, of, roster, watching, closed, away, opening, focus, consumers, work,
                     clicks, evicted, cut, doubled>>
  BY DEF StopsProducing
<1>2. MediaTypes /\ p \notin fresh
  BY <1>1 DEF MediaInv, NeverBack
<1>3. /\ unheard' \in Seq({"newProducer", "producerClosed"} \X Producer)
      /\ Len(unheard') = Len(unheard) + 1 /\ Len(unheard) \in Nat
      /\ unheard'[Len(unheard) + 1] = <<"producerClosed", p>>
      /\ \A i \in 1..Len(unheard) : unheard'[i] = unheard[i]
  BY <1>1, <1>2, AnnouncedIsNew
<1>4. /\ run' \in [Consumer -> {"closed", "paused", "running"}]
      /\ \A c \in Consumer : run'[c] = IF of[c] = p THEN "closed" ELSE run[c]
  BY <1>2 DEF StopsProducing, MediaTypes
<1>5. /\ Open(p)' = {}
      /\ \A q \in Producer \ {p} : Open(q)' = Open(q)
  BY <1>1, <1>4 DEF Open
<1>6. /\ \A t, q : Brings(t, q)' <=> Brings(t, q)
      /\ \A t : Wants(t)' = Wants(t)
  BY <1>1 DEF Brings, Wants
<1>7. MediaTypes'
  BY <1>1, <1>2, <1>3, <1>4, TypesStay DEF MediaTypes
<1>8. WorkIsShaped' /\ Sole'
  BY <1>1, <1>6 DEF MediaInv, WorkIsShaped, Sole
<1>9. NeverBack'
  <2>1. ASSUME NEW i \in 1..Len(unheard')
        PROVE  /\ unheard'[i][2] \notin fresh'
               /\ unheard'[i][1] = "producerClosed" => unheard'[i][2] \notin onAir'
    <3>1. CASE i = Len(unheard) + 1
      BY <1>1, <1>2, <1>3, <3>1
    <3>2. CASE i \in 1..Len(unheard)
      BY <1>1, <1>3, <3>2 DEF MediaInv, NeverBack
    <3> QED
      BY <1>3, <2>1, <3>1, <3>2
  <2>2. \A t \in Task : Wants(t)' \cap fresh' = {} /\ \A q \in fresh' : ~(Brings(t, q)')
    BY <1>1, <1>6 DEF MediaInv, NeverBack
  <2>3. fresh' \cap (onAir' \cup roster' \cup watching') = {} /\ closed' \subseteq evicted'
    BY <1>1 DEF MediaInv, NeverBack
  <2> QED
    BY <2>1, <2>2, <2>3 DEF NeverBack
<1>10. OneOpen'
  <2>1. \A q \in Producer \ onAir' : Open(q)' = {}
    BY <1>1, <1>5 DEF MediaInv, OneOpen
  <2>2. \A q \in Producer : Open(q)' \subseteq Open(q)
    BY <1>5
  <2> QED
    BY <1>1, <1>6, <2>1, <2>2 DEF MediaInv, OneOpen
<1>11. TaskHolds'
  <2>1. ASSUME NEW t \in Task, NEW q \in Producer, Brings(t, q)', (work[t].c /= 0)'
        PROVE  /\ (of[work[t].c] = q)'
               /\ (work[t].at \in {"reads", "starts", "resumes"} /\ q \in onAir)' => (run[work[t].c])' /= "closed"
    <3>1. of[work[t].c] = q /\ work[t].c \in Consumer
      <4>1. work[t].c \in 0..MaxMade
        BY <1>2 DEF MediaTypes, Work
      <4> QED
        BY <1>1, <1>6, <2>1, <4>1, MediaAssumption DEF MediaInv, TaskHolds, Consumer
    <3> QED
      BY <1>1, <1>4, <1>6, <2>1, <3>1 DEF MediaInv, TaskHolds
  <2>2. \A t \in Task, q \in onAir' : Brings(t, q)' /\ (work[t].at \in {"reads", "starts", "resumes"})' => (work[t].c /= 0)'
    BY <1>1, <1>6 DEF MediaInv, TaskHolds
  <2>3. /\ \A t \in Task : (work[t].c /= 0)' =>
             /\ (work[t].c <= made)'
             /\ \A u \in Task : (work[u].c = work[t].c)' => u = t
             /\ \A q \in Producer : (consumers[q] /= work[t].c)'
        /\ \A q \in Producer : (consumers[q] /= 0)' => (consumers[q] <= made /\ of[consumers[q]] = q)'
    BY <1>1 DEF MediaInv, TaskHolds
  <2> QED
    BY <2>1, <2>2, <2>3 DEF TaskHolds
<1>12. TaskServes'
  BY <1>1, <1>2, <1>5, <1>6 DEF MediaInv, MediaTypes, TaskServes
<1>13. Reached'
  <2> SUFFICES ASSUME NEW q \in onAir \ evicted,
                      ~(q \in watching), ~ \E t \in Task : q \in Wants(t) \/ Brings(t, q)
               PROVE  \E i \in 1..Len(unheard') : unheard'[i] = <<"newProducer", q>>
    BY <1>1, <1>6 DEF Reached
  <2>1. PICK i \in 1..Len(unheard) : unheard[i] = <<"newProducer", q>>
    BY DEF MediaInv, Reached
  <2>2. i \in 1..Len(unheard')
    BY <1>3
  <2>3. unheard'[i] = <<"newProducer", q>>
    BY <1>3, <2>1
  <2> QED
    BY <2>2, <2>3
<1> QED
  BY <1>7, <1>8, <1>9, <1>10, <1>11, <1>12, <1>13 DEF MediaInv

(* A step of task t that neither begins nor ends to open a screen. *)
TaskIsQuiet(t) ==
  /\ work' \in [Task -> Work] /\ \A u \in Task \ {t} : work'[u] = work[u]
  /\ \A q \in Producer : ~Brings(t, q) /\ ~(Brings(t, q)')
  /\ work'[t].at = "view" /\ work'[t].p /= NoScreen => work'[t].p \in cut'
  /\ UNCHANGED <<onAir, made, of, opening, doubled>>
  /\ evicted \subseteq evicted' /\ cut \subseteq cut' /\ evicted' \subseteq Producer

LEMMA QuietKeepsSole ==
  ASSUME MediaInv, NEW t \in Task, TaskIsQuiet(t)
  PROVE  /\ Sole'
         /\ \A u \in Task, q \in Producer : Brings(u, q)' <=> Brings(u, q)
         /\ \A u \in Task, q \in Producer : Brings(u, q) => work'[u] = work[u]
<1>1. \A u \in Task, q \in Producer : Brings(u, q)' <=> Brings(u, q)
  BY DEF TaskIsQuiet, Brings
<1>2. \A u \in Task, q \in Producer : Brings(u, q) => work'[u] = work[u] /\ u /= t
  BY DEF TaskIsQuiet
<1>3. opening \subseteq Producer
  BY DEF MediaInv, MediaTypes
<1>4. \A q \in opening' : \E u \in Task : Brings(u, q)'
  BY <1>1, <1>3 DEF TaskIsQuiet, MediaInv, Sole
<1>5. \A u \in Task, q \in Producer : Brings(u, q)' =>
        /\ q \in opening'
        /\ \A v \in Task : Brings(v, q)' => v = u
        /\ (work[u].at = "closes")' => q \in evicted'
  BY <1>1, <1>2 DEF TaskIsQuiet, MediaInv, Sole
<1>6. \A u \in Task : (work[u].at = "view" /\ work[u].p /= NoScreen => work[u].p \in cut)'
  BY DEF TaskIsQuiet, MediaInv, Sole
<1> QED
  BY <1>1, <1>2, <1>4, <1>5, <1>6 DEF Sole

LEMMA QuietKeepsOpen ==
  ASSUME MediaInv, NEW t \in Task, TaskIsQuiet(t),
         \A q \in Producer : Open(q)' \subseteq Open(q),
         watching \subseteq watching' \cup evicted' \cup (Producer \ onAir)
  PROVE  OneOpen'
<1>1. /\ \A u \in Task, q \in Producer : Brings(u, q)' <=> Brings(u, q)
      /\ \A u \in Task, q \in Producer : Brings(u, q) => work'[u] = work[u]
  BY QuietKeepsSole
<1>2. \A q \in Producer \ onAir' : Open(q)' = {}
  BY DEF TaskIsQuiet, MediaInv, OneOpen
<1>3. ASSUME NEW q \in Producer \ (evicted' \cup doubled')
      PROVE  /\ \A c, d \in Open(q)' : c = d
             /\ q \notin watching' \cup opening' => Open(q)' = {}
  BY <1>2 DEF TaskIsQuiet, MediaInv, OneOpen
<1>4. ASSUME NEW q \in Producer \ (evicted' \cup doubled'), NEW u \in Task, Brings(u, q)'
      PROVE  /\ (work[u].at = "asks")' => Open(q)' = {}
             /\ (work[u].at \in {"reads", "starts"})' => Open(q)' \subseteq {(work[u].c)'}
  BY <1>1, <1>4 DEF TaskIsQuiet, MediaInv, OneOpen
<1>5. ASSUME NEW u \in Task, NEW q \in Producer \ evicted', Brings(u, q)', (work[u].at = "resumes")'
      PROVE  q \in watching' \cup (Producer \ onAir')
  BY <1>1, <1>5 DEF TaskIsQuiet, MediaInv, OneOpen
<1> QED
  BY <1>2, <1>3, <1>4, <1>5 DEF OneOpen

(* It may close the consumer it held, and hold one that was noted. *)
LEMMA QuietKeepsHeld ==
  ASSUME MediaInv, NEW t \in Task, TaskIsQuiet(t),
         \A c \in Consumer : run'[c] = "closed" => run[c] = "closed" \/ c = work[t].c,
         \A q \in Producer : consumers'[q] \in {consumers[q], 0},
         \/ work'[t].c \in {work[t].c, 0}
         \/ \E q \in Producer : work'[t].c = consumers[q] /\ consumers'[q] = 0
  PROVE  TaskHolds'
<1>1. /\ \A u \in Task, q \in Producer : Brings(u, q)' <=> Brings(u, q)
      /\ \A u \in Task, q \in Producer : Brings(u, q) => work'[u] = work[u]
  BY QuietKeepsSole
<1>2. /\ made \in 0..MaxMade /\ \A u \in Task : work[u].c \in 0..MaxMade
      /\ consumers \in [Producer -> 0..MaxMade] /\ onAir \subseteq Producer
  BY DEF MediaInv, MediaTypes, Work
<1>3. ASSUME NEW u \in Task, work'[u].c /= 0
      PROVE  /\ work'[u].c <= made'
             /\ \A q \in Producer : consumers'[q] /= work'[u].c
  <2>1. CASE work'[u].c = work[u].c
    BY <1>3, <2>1 DEF TaskIsQuiet, MediaInv, TaskHolds
  <2>2. CASE u = t /\ \E q \in Producer : work'[t].c = consumers[q] /\ consumers'[q] = 0
    BY <1>3, <2>2 DEF TaskIsQuiet, MediaInv, TaskHolds
  <2> QED
    BY <1>3, <2>1, <2>2 DEF TaskIsQuiet
<1>4. ASSUME NEW u \in Task, work'[u].c /= 0, NEW v \in Task, work'[v].c = work'[u].c
      PROVE  v = u
  <2>1. CASE work'[t].c \in {work[t].c, 0}
    BY <1>4, <2>1 DEF TaskIsQuiet, MediaInv, TaskHolds
  <2>2. CASE \E q \in Producer : work'[t].c = consumers[q] /\ consumers'[q] = 0
    BY <1>4, <2>2 DEF TaskIsQuiet, MediaInv, TaskHolds
  <2> QED
    BY <2>1, <2>2
<1>5. \A q \in Producer : consumers'[q] /= 0 => consumers'[q] <= made' /\ of'[consumers'[q]] = q
  BY DEF TaskIsQuiet, MediaInv, TaskHolds
<1>6. ASSUME NEW u \in Task, NEW q \in Producer, Brings(u, q)', work'[u].c /= 0
      PROVE  /\ of'[work'[u].c] = q
             /\ work'[u].at \in {"reads", "starts", "resumes"} /\ q \in onAir' => run'[work'[u].c] /= "closed"
  <2>1. work'[u] = work[u] /\ u /= t /\ Brings(u, q)
    BY <1>1, <1>6 DEF TaskIsQuiet
  <2>2. work[u].c \in Consumer /\ work[u].c /= work[t].c
    BY <1>2, <1>6, <2>1, MediaAssumption DEF MediaInv, TaskHolds, Consumer
  <2> QED
    BY <1>6, <2>1, <2>2 DEF TaskIsQuiet, MediaInv, TaskHolds
<1>7. \A u \in Task, q \in onAir' : Brings(u, q)' /\ work'[u].at \in {"reads", "starts", "resumes"} => work'[u].c /= 0
  BY <1>1, <1>2 DEF TaskIsQuiet, MediaInv, TaskHolds
<1> QED
  BY <1>3, <1>4, <1>5, <1>6, <1>7 DEF TaskHolds

(* What is still watched keeps its consumer noted and open. *)
LEMMA QuietKeepsServed ==
  ASSUME MediaInv, NEW t \in Task, TaskIsQuiet(t), watching' \subseteq watching,
         \A q \in (watching' \cap onAir) \ cut' :
           /\ consumers'[q] = consumers[q]
           /\ consumers[q] \in Open(q) => consumers[q] \in Open(q)'
  PROVE  TaskServes'
<1>1. /\ \A u \in Task, q \in Producer : Brings(u, q)' <=> Brings(u, q)
      /\ \A u \in Task, q \in Producer : Brings(u, q) => work'[u] = work[u]
  BY QuietKeepsSole
<1> SUFFICES ASSUME NEW q \in (watching' \cap onAir) \ cut'
             PROVE  consumers'[q] \in Open(q)' \/ \E u \in Task : Brings(u, q)' /\ work'[u].at = "resumes"
  BY DEF TaskServes, TaskIsQuiet
<1>2. q \in (watching \cap onAir) \ cut /\ q \in Producer
  BY DEF TaskIsQuiet, MediaInv, MediaTypes
<1> QED
  BY <1>1, <1>2 DEF MediaInv, TaskServes

(* What is reached stays so, unless it is closed now. *)
LEMMA QuietKeepsReached ==
  ASSUME MediaInv, NEW t \in Task, TaskIsQuiet(t),
         \A q \in onAir \ evicted' :
           /\ q \in watching \cup Wants(t) => q \in watching' \cup Wants(t)' \cup opening
           /\ \A i \in 1..Len(unheard) : unheard[i] = <<"newProducer", q>> =>
                \/ q \in Wants(t)'
                \/ \E j \in 1..Len(unheard') : unheard'[j] = unheard[i]
  PROVE  Reached'
<1>1. /\ \A u \in Task, q \in Producer : Brings(u, q)' <=> Brings(u, q)
      /\ \A u \in Task, q \in Producer : Brings(u, q) => work'[u] = work[u]
  BY QuietKeepsSole
<1> SUFFICES ASSUME NEW q \in onAir \ evicted'
             PROVE  \/ q \in watching'
                    \/ \E u \in Task : q \in Wants(u)' \/ Brings(u, q)'
                    \/ \E j \in 1..Len(unheard') : unheard'[j] = <<"newProducer", q>>
  BY DEF Reached, TaskIsQuiet
<1>2. q \in onAir \ evicted /\ q \in Producer
  BY DEF TaskIsQuiet, MediaInv, MediaTypes
<1>3. q \in opening => \E u \in Task : Brings(u, q)
  BY DEF MediaInv, Sole
<1>4. CASE q \in watching \cup Wants(t)
  BY <1>1, <1>2, <1>3, <1>4
<1>5. CASE \E u \in Task \ {t} : q \in Wants(u)
  BY <1>5 DEF TaskIsQuiet, Wants
<1>6. CASE \E u \in Task : Brings(u, q)
  BY <1>1, <1>2, <1>6
<1>7. CASE \E i \in 1..Len(unheard) : unheard[i] = <<"newProducer", q>>
  BY <1>7
<1> QED
  BY <1>2, <1>4, <1>5, <1>6, <1>7 DEF MediaInv, Reached

(* It goes for nothing that was not yet made. *)
LEMMA QuietKeepsFresh ==
  ASSUME MediaInv, NEW t \in Task, TaskIsQuiet(t), fresh' = fresh, Wants(t)' \cap fresh = {}
  PROVE  \A u \in Task : Wants(u)' \cap fresh' = {} /\ \A q \in fresh' : ~(Brings(u, q)')
<1>1. \A u \in Task, q \in Producer : Brings(u, q)' <=> Brings(u, q)
  BY QuietKeepsSole
<1>2. \A u \in Task \ {t} : Wants(u)' = Wants(u)
  BY DEF TaskIsQuiet, Wants
<1>3. fresh \subseteq Producer
  BY DEF MediaInv, MediaTypes
<1> QED
  BY <1>1, <1>2, <1>3 DEF MediaInv, NeverBack

LEMMA BecomesQuiet ==
  ASSUME NEW t \in Task, NEW at, NEW todo, NEW p, NEW c, Becomes(t, at, todo, p, c),
         \A q \in Producer : ~Brings(t, q),
         p = NoScreen \/ (at = "view" /\ p \in cut') \/ at = "marks",
         UNCHANGED <<onAir, made, of, opening, doubled>>,
         evicted \subseteq evicted', cut \subseteq cut', evicted' \subseteq Producer
  PROVE  TaskIsQuiet(t)
BY WorkValues DEF Becomes, TaskIsQuiet, Brings

(* The first event is heard: the others move up. *)
LEMMA HeardFirst ==
  ASSUME MediaTypes, unheard /= <<>>, unheard' = Tail(unheard)
  PROVE  /\ unheard' \in Seq({"newProducer", "producerClosed"} \X Producer)
         /\ Head(unheard) = unheard[1] /\ 1 \in 1..Len(unheard)
         /\ Head(unheard) \in {"newProducer", "producerClosed"} \X Producer
         /\ \A i \in 1..Len(unheard') : unheard'[i] = unheard[i + 1] /\ i + 1 \in 1..Len(unheard)
         /\ \A i \in 1..Len(unheard) : unheard[i] = Head(unheard)
              \/ \E j \in 1..Len(unheard') : unheard'[j] = unheard[i]
<1>1. unheard \in Seq({"newProducer", "producerClosed"} \X Producer)
  BY DEF MediaTypes
<1> HIDE DEF MediaTypes
<1>2. /\ unheard' \in Seq({"newProducer", "producerClosed"} \X Producer)
      /\ Len(unheard) \in Nat /\ Len(unheard) >= 1 /\ Len(unheard') = Len(unheard) - 1
      /\ Head(unheard) = unheard[1] /\ 1 \in 1..Len(unheard)
      /\ \A i \in 1..Len(unheard') : unheard'[i] = unheard[i + 1] /\ i + 1 \in 1..Len(unheard)
  BY <1>1
<1>3. Head(unheard) \in {"newProducer", "producerClosed"} \X Producer
  BY <1>1, <1>2
<1>4. ASSUME NEW i \in 1..Len(unheard), i /= 1
      PROVE  \E j \in 1..Len(unheard') : unheard'[j] = unheard[i]
  <2>1. i - 1 \in 1..Len(unheard') /\ (i - 1) + 1 = i
    BY <1>2, <1>4
  <2>2. unheard'[i - 1] = unheard[(i - 1) + 1]
    BY <1>2, <2>1
  <2> QED
    BY <2>1, <2>2
<1> QED
  BY <1>2, <1>3, <1>4

LEMMA HearNewKeeps ==
  ASSUME MediaInv, Hear, HearNew
  PROVE  MediaInv'
<1> DEFINE p == Head(unheard)[2]
           todo == (roster \cup {p}) \ closed
           w == [Free EXCEPT !.at = "all", !.todo = todo]
<1>1. /\ work[0] = Free /\ unheard /= <<>> /\ unheard' = Tail(unheard)
      /\ roster' = roster \cup {p} /\ Head(unheard)[1] = "newProducer" /\ Do(0, w)
      /\ UNCHANGED <<fresh, onAir, made, of, run, watching, closed, away, opening, focus, consumers,
                     clicks, evicted, cut, doubled>>
  BY DEF Hear, HearNew, serverVars, markVars
<1>2. MediaTypes
  BY DEF MediaInv
<1>3. /\ unheard' \in Seq({"newProducer", "producerClosed"} \X Producer)
      /\ Head(unheard) = unheard[1] /\ 1 \in 1..Len(unheard)
      /\ Head(unheard) \in {"newProducer", "producerClosed"} \X Producer
      /\ \A i \in 1..Len(unheard') : unheard'[i] = unheard[i + 1] /\ i + 1 \in 1..Len(unheard)
      /\ \A i \in 1..Len(unheard) : unheard[i] = Head(unheard)
           \/ \E j \in 1..Len(unheard') : unheard'[j] = unheard[i]
  BY <1>1, <1>2, HeardFirst
<1>4. p \in Producer /\ p \notin fresh
  BY <1>3 DEF MediaInv, NeverBack
<1>5. todo \subseteq Producer /\ todo \cap fresh = {}
  BY <1>2, <1>4 DEF MediaTypes, MediaInv, NeverBack
<1> HIDE DEF p, todo
<1>6. w \in Work /\ w.at = "all" /\ w.todo = todo /\ w.p = NoScreen /\ w.c = 0
  BY <1>5, WorkValues DEF Free, Work
<1> HIDE DEF w
<1>7. Becomes(0, "all", todo, NoScreen, 0)
  BY <1>1, <1>2, <1>6, WorkValues, DoingBecomes
<1>8. Wants(0) = {} /\ work[0].c = 0 /\ \A q \in Producer : ~Brings(0, q)
  BY <1>1, WorkValues DEF Brings, Wants
<1>9. TaskIsQuiet(0)
  BY <1>1, <1>2, <1>7, <1>8, WorkValues, BecomesQuiet DEF MediaTypes
<1>10. \A q \in Producer : Open(q)' = Open(q)
  BY <1>1 DEF Open
<1>11. MediaTypes' /\ WorkIsShaped'
  <2>1. MediaTypes'
    BY <1>1, <1>2, <1>3, <1>4, <1>7 DEF MediaTypes, Becomes
  <2>2. WorkIsShaped'
    BY <1>1, <1>2, <1>7 DEF MediaInv, MediaTypes, WorkIsShaped, Becomes
  <2> QED
    BY <2>1, <2>2
<1>12. NeverBack'
  <2>1. \A i \in 1..Len(unheard') :
          /\ unheard'[i][2] \notin fresh'
          /\ unheard'[i][1] = "producerClosed" => unheard'[i][2] \notin onAir'
    BY <1>1, <1>3 DEF MediaInv, NeverBack
  <2>2. \A t \in Task : Wants(t)' \cap fresh' = {} /\ \A q \in fresh' : ~(Brings(t, q)')
    <3>1. Wants(0)' \cap fresh = {}
      BY <1>5, <1>7, WantsThen, WorkValues
    <3> QED
      BY <1>1, <1>9, <3>1, QuietKeepsFresh, WorkValues
  <2>3. fresh' \cap (onAir' \cup roster' \cup watching') = {} /\ closed' \subseteq evicted'
    BY <1>1, <1>4 DEF MediaInv, NeverBack
  <2> QED
    BY <2>1, <2>2, <2>3 DEF NeverBack
<1>13. Sole' /\ OneOpen' /\ TaskHolds' /\ TaskServes'
  <2>1. Sole'
    BY <1>9, QuietKeepsSole, WorkValues
  <2>2. OneOpen'
    BY <1>1, <1>9, <1>10, QuietKeepsOpen, WorkValues
  <2>3. TaskHolds'
    BY <1>1, <1>7, <1>8, <1>9, QuietKeepsHeld, WorkValues DEF Becomes
  <2>4. TaskServes'
    BY <1>1, <1>2, <1>9, <1>10, QuietKeepsServed, WorkValues DEF MediaTypes
  <2> QED
    BY <2>1, <2>2, <2>3, <2>4
<1>14. Reached'
  <2>1. ASSUME NEW q \in onAir \ evicted', NEW i \in 1..Len(unheard), unheard[i] = <<"newProducer", q>>
        PROVE  \/ q \in Wants(0)'
               \/ \E j \in 1..Len(unheard') : unheard'[j] = unheard[i]
    <3>1. CASE q = p
      BY <1>1, <1>4, <1>7, <3>1, WantsThen, WorkValues DEF MediaInv, NeverBack, todo
    <3>2. CASE q /= p
      BY SMTT(40), <1>3, <2>1, <3>2 DEF p
    <3> QED
      BY <3>1, <3>2
  <2>2. \A q \in onAir \ evicted' :
          q \in watching \cup Wants(0) => q \in watching' \cup Wants(0)' \cup opening
    BY <1>1, <1>8
  <2> QED
    BY <1>9, <2>1, <2>2, QuietKeepsReached, WorkValues
<1> QED
  BY <1>11, <1>12, <1>13, <1>14 DEF MediaInv

LEMMA HearClosedKeeps ==
  ASSUME MediaInv, Hear, HearClosed
  PROVE  MediaInv'
<1> DEFINE p == Head(unheard)[2]
           moves == {m \in Change : m[1] \in away \ {p} /\ ~m[2] /\ m[3] = consumers[m[1]]}
           w == [Free EXCEPT !.at = "view", !.moves = moves]
<1>1. /\ work[0] = Free /\ unheard /= <<>> /\ unheard' = Tail(unheard)
      /\ Head(unheard)[1] = "producerClosed"
      /\ roster' = roster \ {p} /\ watching' = watching \ {p} /\ closed' = closed \ {p}
      /\ away' = away \ {p} /\ consumers' = [consumers EXCEPT ![p] = 0]
      /\ focus' = IF focus = p THEN NoScreen ELSE focus
      /\ Do(0, w) \/ work' = work
      /\ UNCHANGED <<fresh, onAir, made, of, run, opening, clicks, evicted, cut, doubled>>
  BY DEF Hear, HearClosed, serverVars, markVars
<1>2. MediaTypes
  BY DEF MediaInv
<1>3. /\ unheard' \in Seq({"newProducer", "producerClosed"} \X Producer)
      /\ Head(unheard) = unheard[1] /\ 1 \in 1..Len(unheard)
      /\ Head(unheard) \in {"newProducer", "producerClosed"} \X Producer
      /\ \A i \in 1..Len(unheard') : unheard'[i] = unheard[i + 1] /\ i + 1 \in 1..Len(unheard)
      /\ \A i \in 1..Len(unheard) : unheard[i] = Head(unheard)
           \/ \E j \in 1..Len(unheard') : unheard'[j] = unheard[i]
  BY <1>1, <1>2, HeardFirst
<1>4. p \in Producer /\ p \notin onAir
  BY <1>1, <1>3 DEF MediaInv, NeverBack
<1>5. moves \in SUBSET Change
  OBVIOUS
<1> HIDE DEF p, moves
<1>6. w \in Work /\ w.at = "view" /\ w.todo = {} /\ w.p = NoScreen /\ w.c = 0
  BY <1>5, WorkValues DEF Free, Work
<1> HIDE DEF w
<1>7. \E at \in {"view", "idle"} : Becomes(0, at, {}, NoScreen, 0) /\ (at = "idle" => work' = work)
  <2>1. CASE Do(0, w)
    BY <1>2, <1>6, <2>1, WorkValues, DoingBecomes
  <2>2. CASE work' = work
    BY <1>1, <1>2, <2>2, WorkValues DEF Becomes, MediaTypes
  <2> QED
    BY <1>1, <2>1, <2>2
<1>8. Wants(0) = {} /\ work[0].c = 0 /\ \A q \in Producer : ~Brings(0, q)
  BY <1>1, WorkValues DEF Brings, Wants
<1>9. TaskIsQuiet(0) /\ work'[0].c = 0
  BY <1>1, <1>2, <1>7, <1>8, WorkValues, BecomesQuiet DEF MediaTypes, Becomes
<1>10. \A q \in Producer : Open(q)' = Open(q)
  BY <1>1 DEF Open
<1>11. MediaTypes' /\ WorkIsShaped'
  <2>1. MediaTypes'
    BY <1>1, <1>2, <1>3, <1>4, <1>7, MediaAssumption DEF MediaTypes, Becomes
  <2>2. WorkIsShaped'
    BY <1>1, <1>2, <1>7, WorkValues DEF MediaInv, MediaTypes, WorkIsShaped, Becomes
  <2> QED
    BY <2>1, <2>2
<1>12. NeverBack'
  <2>1. \A i \in 1..Len(unheard') :
          /\ unheard'[i][2] \notin fresh'
          /\ unheard'[i][1] = "producerClosed" => unheard'[i][2] \notin onAir'
    BY <1>1, <1>3 DEF MediaInv, NeverBack
  <2>2. \A t \in Task : Wants(t)' \cap fresh' = {} /\ \A q \in fresh' : ~(Brings(t, q)')
    <3>1. Wants(0)' \cap fresh = {}
      BY <1>7, WantsThen, WorkValues
    <3> QED
      BY <1>1, <1>9, <3>1, QuietKeepsFresh, WorkValues
  <2>3. fresh' \cap (onAir' \cup roster' \cup watching') = {} /\ closed' \subseteq evicted'
    BY <1>1 DEF MediaInv, NeverBack
  <2> QED
    BY <2>1, <2>2, <2>3 DEF NeverBack
<1>13. Sole' /\ OneOpen' /\ TaskHolds' /\ TaskServes'
  <2>1. Sole'
    BY <1>9, QuietKeepsSole, WorkValues
  <2>2. OneOpen'
    BY <1>1, <1>2, <1>4, <1>9, <1>10, QuietKeepsOpen, WorkValues DEF MediaTypes
  <2>3. TaskHolds'
    <3>1. \A q \in Producer : consumers'[q] \in {consumers[q], 0}
      BY <1>1, <1>2, <1>4 DEF MediaTypes
    <3> QED
      BY <1>1, <1>8, <1>9, <3>1, QuietKeepsHeld, WorkValues
  <2>4. TaskServes'
    BY <1>1, <1>2, <1>4, <1>9, <1>10, QuietKeepsServed, WorkValues DEF MediaTypes
  <2> QED
    BY <2>1, <2>2, <2>3, <2>4
<1>14. Reached'
  <2>1. ASSUME NEW q \in onAir \ evicted', NEW i \in 1..Len(unheard), unheard[i] = <<"newProducer", q>>
        PROVE  \/ q \in Wants(0)'
               \/ \E j \in 1..Len(unheard') : unheard'[j] = unheard[i]
    <3>1. unheard[i][1] /= Head(unheard)[1]
      BY <1>1, <2>1
    <3> QED
      BY <1>3, <3>1
  <2>2. \A q \in onAir \ evicted' :
          q \in watching \cup Wants(0) => q \in watching' \cup Wants(0)' \cup opening
    BY <1>1, <1>4, <1>8
  <2> QED
    BY <1>9, <2>1, <2>2, QuietKeepsReached, WorkValues
<1> QED
  BY <1>11, <1>12, <1>13, <1>14 DEF MediaInv

(* What each click does: the task it begins, and what it closes. *)
LEMMA ClickDoes ==
  ASSUME MediaInv, Click
  PROVE  /\ clicks + 1 \in Task /\ clicks' = clicks + 1 /\ clicks' \in 0..MaxClicks
         /\ work[clicks + 1] = Free
         /\ UNCHANGED <<fresh, onAir, made, of, run, unheard, roster, away, opening, doubled>>
         /\ focus' \in Producer \cup {NoScreen}
         /\ \E p \in Producer \cup {NoScreen}, at \in {"all", "view", "closes"}, c \in 0..MaxMade,
              todo \in SUBSET roster :
              /\ watching' = watching \ {p}
              /\ closed' \subseteq closed \cup (evicted' \cap {p}) /\ closed' \subseteq Producer
              /\ evicted' = evicted \cup ({p} \cap Producer)
              /\ cut \subseteq cut' /\ cut' \subseteq Producer
              /\ \/ Becomes(clicks + 1, at, todo, NoScreen, c)
                 \/ at = "view" /\ p \in cut' /\ Becomes(clicks + 1, at, todo, p, c)
              /\ (at /= "closes" => c = 0) /\ (at /= "all" => todo = {})
              /\ \/ c = 0 /\ UNCHANGED consumers
                 \/ /\ p \in Producer /\ c = consumers[p]
                    /\ consumers' = [consumers EXCEPT ![p] = 0]
<1> DEFINE t == clicks + 1
<1>1. /\ t \in Task /\ clicks' = t /\ clicks' \in 0..MaxClicks /\ work[t] = Free
      /\ UNCHANGED <<fresh, onAir, made, of, run, unheard, roster, away, opening, doubled>>
  <2>1. clicks \in Nat /\ clicks < MaxClicks /\ clicks' = t
    BY MediaAssumption DEF Click, MediaInv, MediaTypes
  <2>2. t \in Task /\ t \in 0..MaxClicks /\ t > clicks
    BY <2>1, MediaAssumption DEF Task
  <2> QED
    BY <2>1, <2>2 DEF Click, serverVars, markVars, MediaInv, WorkIsShaped
<1>2. MediaTypes /\ 0 \in 0..MaxMade
  BY MediaAssumption DEF MediaInv, MediaTypes
<1> DEFINE Done(p, at, c, todo) ==
             /\ watching' = watching \ {p}
             /\ closed' \subseteq closed \cup (evicted' \cap {p}) /\ closed' \subseteq Producer
             /\ evicted' = evicted \cup ({p} \cap Producer)
             /\ cut \subseteq cut' /\ cut' \subseteq Producer
             /\ \/ Becomes(t, at, todo, NoScreen, c)
                \/ at = "view" /\ p \in cut' /\ Becomes(t, at, todo, p, c)
             /\ (at /= "closes" => c = 0) /\ (at /= "all" => todo = {})
             /\ \/ c = 0 /\ UNCHANGED consumers
                \/ /\ p \in Producer /\ c = consumers[p]
                   /\ consumers' = [consumers EXCEPT ![p] = 0]
<1> SUFFICES /\ focus' \in Producer \cup {NoScreen}
             /\ \E p \in Producer \cup {NoScreen}, at \in {"all", "view", "closes"}, c \in 0..MaxMade,
                  todo \in SUBSET roster : Done(p, at, c, todo)
  BY <1>1
<1>3. roster \subseteq Producer
  BY <1>2 DEF MediaTypes
<1>4. ASSUME NEW p \in roster, CloseWatched(p), focus = p
      PROVE  focus' \in Producer \cup {NoScreen} /\ Done(p, "view", 0, {})
  <2> DEFINE w == ApplyView(NoScreen, roster, p)
  <2>1. Do(t, w)
    BY <1>4 DEF CloseWatched
  <2>2. p \in Producer \cup {NoScreen}
    BY <1>3
  <2>3. w \in Work /\ w.at = "view" /\ w.todo = {} /\ w.p = p /\ w.c = 0
    BY <2>2, ViewToDo
  <2> HIDE DEF w
  <2>4. Becomes(t, "view", {}, p, 0)
    BY <1>1, <1>2, <2>1, <2>3, DoingBecomes
  <2> HIDE DEF t
  <2> QED
    BY <1>2, <1>3, <1>4, <2>4 DEF CloseWatched, MediaTypes
<1>5. ASSUME NEW p \in roster, CloseWatched(p), focus /= p
      PROVE  focus' \in Producer \cup {NoScreen} /\ Done(p, "closes", consumers[p], {})
  <2> DEFINE c == consumers[p]
             w == [Free EXCEPT !.at = "closes", !.c = c]
  <2>1. Do(t, w)
    BY <1>5 DEF CloseWatched
  <2>2. c \in 0..MaxMade
    BY <1>2, <1>3 DEF MediaTypes
  <2>3. w \in Work /\ w.at = "closes" /\ w.todo = {} /\ w.p = NoScreen /\ w.c = c
    BY <1>2, <2>2, WorkToDo
  <2> HIDE DEF w
  <2>4. Becomes(t, "closes", {}, NoScreen, c)
    BY <1>1, <1>2, <2>1, <2>3, DoingBecomes
  <2> HIDE DEF t
  <2> QED
    BY <1>2, <1>3, <1>5, <2>4 DEF CloseWatched, MediaTypes
<1>6. ASSUME NEW p \in roster, Watch(p)
      PROVE  focus' \in Producer \cup {NoScreen} /\ Done(NoScreen, "all", 0, roster \ (closed \ {p}))
  <2> DEFINE w == ConsumeAll(closed \ {p})
  <2>1. Do(t, w)
    BY <1>6 DEF Watch
  <2>2. w \in Work /\ w.at = "all" /\ w.todo = roster \ (closed \ {p}) /\ w.p = NoScreen /\ w.c = 0
    BY <1>2, WorkToDo
  <2> HIDE DEF w
  <2>3. Becomes(t, "all", roster \ (closed \ {p}), NoScreen, 0)
    BY <1>1, <1>2, <2>1, <2>2, DoingBecomes
  <2> HIDE DEF t
  <2> QED
    BY <1>2, <1>3, <1>6, <2>3, WorkValues DEF Watch, MediaTypes
<1>7. ASSUME NEW f \in Producer \cup {NoScreen}, SetFocus(f)
      PROVE  focus' \in Producer \cup {NoScreen} /\ Done(NoScreen, "view", 0, {})
  <2> DEFINE w == ApplyView(f, roster, NoScreen)
  <2>1. Do(t, w)
    BY <1>7 DEF SetFocus
  <2>2. w \in Work /\ w.at = "view" /\ w.todo = {} /\ w.p = NoScreen /\ w.c = 0
    BY ViewToDo
  <2> HIDE DEF w
  <2>3. Becomes(t, "view", {}, NoScreen, 0)
    BY <1>1, <1>2, <2>1, <2>2, DoingBecomes
  <2> HIDE DEF t
  <2> QED
    BY <1>2, <1>3, <1>7, <2>3, WorkValues DEF SetFocus, MediaTypes
<1> HIDE DEF Done, t
<1>8. CASE \E p \in roster : CloseWatched(p) \/ Watch(p) \/ SetFocus(p)
  <2>1. PICK p \in roster : CloseWatched(p) \/ Watch(p) \/ SetFocus(p)
    BY <1>8
  <2>2. p \in Producer /\ consumers[p] \in 0..MaxMade
    BY <1>2, <1>3 DEF MediaTypes
  <2> QED
    BY <1>2, <1>4, <1>5, <1>6, <1>7, <2>1, <2>2
<1>9. CASE SetFocus(NoScreen)
  BY <1>2, <1>7, <1>9
<1> QED
  BY <1>8, <1>9 DEF Click

LEMMA ClickKeeps ==
  ASSUME MediaInv, Click
  PROVE  MediaInv'
<1>0. PICK t \in Task : t = clicks + 1
  BY ClickDoes
<1>1. /\ t \in Task /\ clicks' = t /\ clicks' \in 0..MaxClicks
      /\ work[t] = Free
      /\ UNCHANGED <<fresh, onAir, made, of, run, unheard, roster, away, opening, doubled>>
      /\ focus' \in Producer \cup {NoScreen}
  BY <1>0, ClickDoes
<1>2. PICK p \in Producer \cup {NoScreen}, at \in {"all", "view", "closes"}, c \in 0..MaxMade,
           todo \in SUBSET roster :
        /\ watching' = watching \ {p}
        /\ closed' \subseteq closed \cup (evicted' \cap {p}) /\ closed' \subseteq Producer
        /\ evicted' = evicted \cup ({p} \cap Producer)
        /\ cut \subseteq cut' /\ cut' \subseteq Producer
        /\ \/ Becomes(t, at, todo, NoScreen, c)
           \/ at = "view" /\ p \in cut' /\ Becomes(t, at, todo, p, c)
        /\ (at /= "closes" => c = 0) /\ (at /= "all" => todo = {})
        /\ \/ c = 0 /\ UNCHANGED consumers
           \/ /\ p \in Producer /\ c = consumers[p]
              /\ consumers' = [consumers EXCEPT ![p] = 0]
  BY <1>0, ClickDoes
<1>3. MediaTypes /\ clicks \in Nat
  BY DEF MediaInv, MediaTypes
<1> DEFINE q0 == work'[t].p
<1>4. Becomes(t, at, todo, q0, c) /\ (q0 = NoScreen \/ (at = "view" /\ q0 \in cut'))
  BY <1>2 DEF Becomes
<1>5. Wants(t) = {} /\ work[t].c = 0 /\ \A q \in Producer : ~Brings(t, q)
  BY <1>1, WorkValues DEF Brings, Wants
<1> HIDE DEF q0
<1>6. TaskIsQuiet(t)
  <2>1. evicted' \subseteq Producer /\ evicted \subseteq evicted' /\ cut \subseteq cut'
    BY <1>2, <1>3 DEF MediaTypes
  <2> QED
    BY <1>1, <1>4, <1>5, <2>1, BecomesQuiet
<1>7. \A q \in Producer : Open(q)' = Open(q)
  BY <1>1 DEF Open
<1>8. MediaTypes'
  <2>1. consumers' \in [Producer -> 0..MaxMade] /\ 0 \in 0..MaxMade
    BY <1>2, <1>3, MediaAssumption DEF MediaTypes
  <2>2. watching' \subseteq Producer /\ evicted' \subseteq Producer /\ work' \in [Task -> Work]
    BY <1>2, <1>3, <1>4 DEF MediaTypes, Becomes
  <2> QED
    BY <1>1, <1>2, <1>3, <2>1, <2>2 DEF MediaTypes
<1>9. WorkIsShaped'
  <2>1. ASSUME NEW u \in Task, u > clicks' PROVE work'[u] = Free
    BY <1>0, <1>1, <1>3, <1>4, <2>1 DEF MediaInv, WorkIsShaped, Becomes, Task
  <2>2. ASSUME NEW u \in Task
        PROVE  /\ work'[u].at \in {"marks", "asks", "reads", "starts", "resumes"}
                    => work'[u].p \in Producer
               /\ work'[u].at \in {"idle", "all"} => work'[u].p = NoScreen
               /\ work'[u].at \in {"idle", "all", "marks", "asks", "view"} => work'[u].c = 0
               /\ work'[u].at = "view" \/ (work'[u].at = "closes" /\ work'[u].p = NoScreen)
                    => work'[u].todo = {}
               /\ work'[u].at \in {"starts", "resumes"} => work'[u].c /= 0
    BY <1>2, <1>4 DEF MediaInv, WorkIsShaped, Becomes
  <2> QED
    BY <2>1, <2>2 DEF WorkIsShaped
<1>10. NeverBack'
  <2>1. \A i \in 1..Len(unheard') :
          /\ unheard'[i][2] \notin fresh'
          /\ unheard'[i][1] = "producerClosed" => unheard'[i][2] \notin onAir'
    BY <1>1 DEF MediaInv, NeverBack
  <2>2. \A u \in Task : Wants(u)' \cap fresh' = {} /\ \A q \in fresh' : ~(Brings(u, q)')
    <3>1. Wants(t)' \subseteq roster
      BY <1>2, <1>4, WantsThen
    <3>2. roster \cap fresh = {}
      BY DEF MediaInv, NeverBack
    <3> QED
      BY <1>1, <1>6, <3>1, <3>2, QuietKeepsFresh
  <2>3. fresh' \cap (onAir' \cup roster' \cup watching') = {} /\ closed' \subseteq evicted'
    BY <1>1, <1>2 DEF MediaInv, NeverBack
  <2> QED
    BY <2>1, <2>2, <2>3 DEF NeverBack
<1>11. Sole'
  BY <1>1, <1>6, QuietKeepsSole
<1>12. OneOpen'
  BY <1>1, <1>2, <1>3, <1>6, <1>7, QuietKeepsOpen DEF MediaTypes
<1>13. TaskHolds'
  <2>1. /\ \A q \in Producer : consumers'[q] \in {consumers[q], 0}
        /\ \/ work'[t].c \in {work[t].c, 0}
           \/ \E q \in Producer : work'[t].c = consumers[q] /\ consumers'[q] = 0
    BY <1>2, <1>3, <1>4 DEF MediaTypes, Becomes
  <2> QED
    BY <1>1, <1>6, <2>1, QuietKeepsHeld
<1>14. TaskServes'
  <2>1. ASSUME NEW q \in (watching' \cap onAir) \ cut'
        PROVE  /\ consumers'[q] = consumers[q]
               /\ consumers[q] \in Open(q) => consumers[q] \in Open(q)'
    <3>1. q \in Producer /\ q /= p
      BY <1>2, <1>3 DEF MediaTypes
    <3> QED
      BY <1>2, <1>3, <1>7, <3>1 DEF MediaTypes
  <2>2. watching' \subseteq watching
    BY <1>2
  <2> QED
    BY <1>1, <1>6, <2>1, <2>2, QuietKeepsServed
<1>15. Reached'
  <2>1. \A q \in onAir \ evicted' :
          q \in watching \cup Wants(t) => q \in watching' \cup Wants(t)' \cup opening
    BY <1>2, <1>3, <1>5 DEF MediaTypes
  <2> QED
    BY <1>1, <1>6, <2>1, QuietKeepsReached
<1> QED
  BY <1>8, <1>9, <1>10, <1>11, <1>12, <1>13, <1>14, <1>15 DEF MediaInv

(* What no task changes. *)
TaskFrame == UNCHANGED <<fresh, onAir, roster, closed, focus, evicted, cut, unheard, clicks>>

(* What a task that goes on is at, is shaped and about what was produced. *)
LEMMA GoingOnIsShaped ==
  ASSUME MediaInv, TaskFrame, NEW t \in Task, work[t].at /= "idle",
         NEW at, NEW todo, NEW p, NEW c, Becomes(t, at, todo, p, c),
         todo \subseteq work[t].todo,
         \/ p = NoScreen
         \/ at = "view" /\ work[t].at = "view"
         \/ Brings(t, p) \/ p \in Wants(t),
         at \in {"marks", "asks", "reads", "starts", "resumes"} => p \in Producer,
         at \in {"idle", "all"} => p = NoScreen,
         at \in {"idle", "all", "marks", "asks", "view"} => c = 0,
         at = "view" \/ (at = "closes" /\ p = NoScreen) => todo = {},
         at \in {"starts", "resumes"} => c /= 0,
         watching' \subseteq watching \cup {q \in Producer : Brings(t, q)}
  PROVE  WorkIsShaped' /\ NeverBack'
<1>1. MediaTypes /\ ~(t > clicks)
  BY WorkValues DEF MediaInv, WorkIsShaped
<1>2. WorkIsShaped'
  BY <1>1 DEF MediaInv, WorkIsShaped, Becomes, TaskFrame
<1>3. \A i \in 1..Len(unheard') :
        /\ unheard'[i][2] \notin fresh'
        /\ unheard'[i][1] = "producerClosed" => unheard'[i][2] \notin onAir'
  BY DEF MediaInv, NeverBack, TaskFrame
<1>4. ASSUME NEW u \in Task
      PROVE  Wants(u)' \cap fresh' = {} /\ \A q \in fresh' : ~(Brings(u, q)')
  <2>1. CASE u = t
    BY <1>1, <2>1, WorkValues DEF MediaInv, MediaTypes, NeverBack, Becomes, TaskFrame, Brings, Wants
  <2>2. CASE u /= t
    BY <2>2 DEF MediaInv, NeverBack, Becomes, TaskFrame, Brings, Wants
  <2> QED
    BY <2>1, <2>2
<1>5. fresh' \cap (onAir' \cup roster' \cup watching') = {} /\ closed' \subseteq evicted'
  BY DEF MediaInv, NeverBack, TaskFrame
<1> QED
  BY <1>2, <1>3, <1>4, <1>5 DEF NeverBack

(* A task that chooses opens nothing yet: what it no longer goes for is        *)
(* watched, or another one opens it.                                         *)
LEMMA ChoosingKeeps ==
  ASSUME MediaInv, NEW t \in Task, work[t].at \in {"all", "marks"}, TaskFrame,
         UNCHANGED <<made, of, run, watching, away, opening, consumers, doubled>>,
         NEW at \in {"idle", "all", "marks"}, NEW todo \in SUBSET work[t].todo,
         NEW p \in {NoScreen} \cup (work[t].todo \ todo),
         Becomes(t, at, todo, p, 0),
         p = NoScreen <=> at /= "marks",
         work[t].todo \subseteq todo \cup {p} \cup watching \cup opening,
         work[t].at = "marks" => work[t].p \in watching \cup opening
  PROVE  MediaInv'
<1>1. Wants(t) \subseteq Wants(t)' \cup watching \cup opening
  <2>1. Wants(t)' = {q \in Producer : q \in todo \/ (p = q /\ at = "marks")}
    BY WantsThen
  <2>2. ASSUME NEW q \in Producer, q \in work[t].todo
        PROVE  q \in Wants(t)' \cup watching \cup opening
    BY <2>1, <2>2, MediaAssumption
  <2> QED
    BY <2>2 DEF Wants
<1>2. /\ MediaTypes /\ work[t].c = 0 /\ work[t].todo \subseteq Producer
      /\ \A q \in Producer : ~Brings(t, q)
  BY WorkValues DEF MediaInv, MediaTypes, Work, WorkIsShaped, Brings
<1>3. TaskIsQuiet(t)
  BY <1>1, <1>2, BecomesQuiet DEF TaskFrame, MediaTypes
<1>4. \A q \in Producer : Open(q)' = Open(q)
  BY DEF Open
<1>5. MediaTypes'
  BY <1>1, <1>2 DEF MediaTypes, Becomes, TaskFrame
<1>6. WorkIsShaped' /\ NeverBack'
  <2>1. p = NoScreen \/ p \in Wants(t)
    BY <1>2 DEF Wants
  <2> QED
    BY <1>2, <2>1, WorkValues, GoingOnIsShaped
<1>7. Sole' /\ OneOpen'
  BY <1>3, <1>4, QuietKeepsSole, QuietKeepsOpen
<1>8. TaskHolds'
  BY <1>1, <1>2, <1>3, QuietKeepsHeld DEF Becomes
<1>9. TaskServes'
  BY <1>2, <1>3, <1>4, QuietKeepsServed DEF MediaTypes
<1>10. Reached'
  <2>1. \A q \in onAir \ evicted' :
          q \in watching \cup Wants(t) => q \in watching' \cup Wants(t)' \cup opening
    BY <1>1
  <2>2. unheard' = unheard
    BY DEF TaskFrame
  <2> QED
    BY <1>3, <2>1, <2>2, QuietKeepsReached
<1> QED
  BY <1>5, <1>6, <1>7, <1>8, <1>9, <1>10 DEF MediaInv

LEMMA ViewKeeps ==
  ASSUME MediaInv, NEW t \in Task, View(t)
  PROVE  MediaInv'
<1>1. /\ work[t].at = "view" /\ TaskFrame
      /\ UNCHANGED <<made, of, watching, opening, doubled>>
  BY DEF View, TaskFrame, shownVars, markVars
<1>2. /\ MediaTypes /\ work[t].c = 0 /\ work[t].todo = {} /\ Wants(t) = {}
      /\ \A q \in Producer : ~Brings(t, q)
  BY <1>1 DEF MediaInv, WorkIsShaped, Brings, Wants
<1>3. work[t] \in Work /\ work[t].p \in Producer \cup {NoScreen} /\ (work[t].p \in Producer => work[t].p \in cut)
  BY <1>1, <1>2, WorkValues DEF MediaTypes, Work, MediaInv, Sole
<1> DEFINE Moved ==
             /\ Becomes(t, "view", work[t].todo, work[t].p, 0)
             /\ UNCHANGED consumers
             /\ away' \subseteq Producer /\ run' \in [Consumer -> {"closed", "paused", "running"}]
             /\ \A c \in Consumer : run'[c] = "closed" <=> run[c] = "closed"
           Ended ==
             /\ UNCHANGED <<run, away>>
             /\ \/ work[t].p = NoScreen /\ Becomes(t, "idle", {}, NoScreen, 0) /\ UNCHANGED consumers
                \/ /\ work[t].p \in Producer
                   /\ consumers' = [consumers EXCEPT ![work[t].p] = 0]
                   /\ Becomes(t, "closes", {}, NoScreen, consumers[work[t].p])
<1>4. Moved \/ Ended
  <2>1. CASE work[t].moves /= {}
    <3>1. PICK m \in work[t].moves :
            LET done == m[3] = 0 \/ run[m[3]] /= "closed"
            IN /\ Do(t, [work[t] EXCEPT !.moves = @ \ {m}])
               /\ run' = IF m[3] /= 0 /\ done
                         THEN [run EXCEPT ![m[3]] = IF m[2] THEN "paused" ELSE "running"] ELSE run
               /\ away' = IF ~done THEN away ELSE IF m[2] THEN away \cup {m[1]} ELSE away \ {m[1]}
               /\ UNCHANGED consumers
      BY <2>1 DEF View
    <3>2. m \in Change
      BY <1>3, <3>1 DEF Work
    <3>3. m[1] \in Producer /\ m[2] \in BOOLEAN /\ m[3] \in 0..MaxMade /\ (m[3] /= 0 => m[3] \in Consumer)
      BY <3>2, MediaAssumption DEF Change, Consumer
    <3> DEFINE w == [work[t] EXCEPT !.moves = @ \ {m}]
    <3>4. w \in Work /\ w.at = "view" /\ w.todo = work[t].todo /\ w.p = work[t].p /\ w.c = 0
      BY <1>1, <1>2, <1>3 DEF Work
    <3>0. Do(t, w)
      BY <3>1
    <3> HIDE DEF w
    <3>5. Becomes(t, "view", work[t].todo, work[t].p, 0)
      BY <1>2, <3>0, <3>4, DoingBecomes
    <3>6. away' \subseteq Producer
      BY <1>2, <3>1, <3>3 DEF MediaTypes
    <3>7. /\ run' \in [Consumer -> {"closed", "paused", "running"}]
          /\ \A c \in Consumer : run'[c] = "closed" <=> run[c] = "closed"
      <4>1. CASE run' = run
        BY <1>2, <4>1 DEF MediaTypes
      <4>2. CASE run' /= run
        <5>1. /\ run' = [run EXCEPT ![m[3]] = IF m[2] THEN "paused" ELSE "running"]
              /\ m[3] \in Consumer /\ run[m[3]] /= "closed"
          BY <3>1, <3>3, <4>2
        <5> QED
          BY <1>2, <5>1 DEF MediaTypes
      <4> QED
        BY <4>1, <4>2
    <3> QED
      BY <3>1, <3>5, <3>6, <3>7
  <2>2. CASE work[t].moves = {}
    <3>1. /\ UNCHANGED <<run, away>>
          /\ IF work[t].p = NoScreen THEN Do(t, Free) /\ UNCHANGED consumers
             ELSE /\ consumers' = [consumers EXCEPT ![work[t].p] = 0]
                  /\ Do(t, [Free EXCEPT !.at = "closes", !.c = consumers[work[t].p]])
      BY <2>2 DEF View
    <3>2. CASE work[t].p = NoScreen
      <4>1. Becomes(t, "idle", {}, NoScreen, 0)
        BY <1>2, <3>1, <3>2, WorkValues, DoingBecomes
      <4> QED
        BY <3>1, <3>2, <4>1
    <3>3. CASE work[t].p /= NoScreen
      <4> DEFINE c == consumers[work[t].p]
                 w == [Free EXCEPT !.at = "closes", !.c = c]
      <4>1. work[t].p \in Producer /\ c \in 0..MaxMade
        BY <1>2, <1>3, <3>3 DEF MediaTypes
      <4>2. w \in Work /\ w.at = "closes" /\ w.todo = {} /\ w.p = NoScreen /\ w.c = c
        BY <1>2, <4>1, WorkToDo
      <4>3. Do(t, w)
        BY <3>1, <3>3
      <4> HIDE DEF w
      <4>4. Becomes(t, "closes", {}, NoScreen, c)
        BY <1>2, <4>2, <4>3, DoingBecomes
      <4> QED
        BY <3>1, <3>3, <4>1, <4>4
    <3> QED
      BY <3>2, <3>3
  <2> QED
    BY <2>1, <2>2
<1>5. \E at \in {"view", "idle", "closes"}, todo \in SUBSET work[t].todo, p \in {work[t].p, NoScreen}, c \in 0..MaxMade :
        /\ Becomes(t, at, todo, p, c) /\ (p = NoScreen \/ at = "view") /\ (at /= "closes" => c = 0)
        /\ (at = "idle" => p = NoScreen) /\ todo = {}
  <2>1. 0 \in 0..MaxMade /\ (work[t].p \in Producer => consumers[work[t].p] \in 0..MaxMade)
    BY <1>2, MediaAssumption DEF MediaTypes
  <2>2. CASE Moved
    BY <1>2, <2>1, <2>2
  <2>3. CASE Ended
    BY <1>2, <2>1, <2>3
  <2> QED
    BY <1>4, <2>2, <2>3
<1>6. /\ run' \in [Consumer -> {"closed", "paused", "running"}] /\ away' \subseteq Producer
      /\ \A c \in Consumer : run'[c] = "closed" <=> run[c] = "closed"
      /\ consumers' \in [Producer -> 0..MaxMade]
      /\ \A q \in Producer : consumers'[q] = consumers[q] \/ (q = work[t].p /\ consumers'[q] = 0)
      /\ \/ work'[t].c \in {work[t].c, 0}
         \/ \E q \in Producer : work'[t].c = consumers[q] /\ consumers'[q] = 0
  BY <1>2, <1>4, MediaAssumption, WorkValues DEF MediaTypes, Becomes
<1> HIDE DEF Moved, Ended
<1>7. TaskIsQuiet(t)
  <2>1. PICK at \in {"view", "idle", "closes"}, todo \in SUBSET work[t].todo, p \in {work[t].p, NoScreen}, c \in 0..MaxMade :
          Becomes(t, at, todo, p, c) /\ (p = NoScreen \/ at = "view")
    BY <1>5
  <2>2. p = NoScreen \/ (at = "view" /\ p \in cut')
    BY <1>1, <1>3, <2>1 DEF TaskFrame
  <2> QED
    BY <1>1, <1>2, <2>1, <2>2, BecomesQuiet DEF TaskFrame, MediaTypes
<1>8. \A q \in Producer : Open(q)' = Open(q)
  BY <1>1, <1>6 DEF Open
<1>9. MediaTypes'
  BY <1>1, <1>2, <1>6, <1>7 DEF MediaTypes, TaskIsQuiet, TaskFrame
<1>10. WorkIsShaped' /\ NeverBack'
  BY <1>1, <1>5, GoingOnIsShaped
<1>11. Sole' /\ OneOpen'
  BY <1>1, <1>7, <1>8, QuietKeepsSole, QuietKeepsOpen
<1>12. TaskHolds'
  BY <1>6, <1>7, QuietKeepsHeld
<1>13. TaskServes'
  <2>1. ASSUME NEW q \in (watching' \cap onAir) \ cut'
        PROVE  /\ consumers'[q] = consumers[q]
               /\ consumers[q] \in Open(q) => consumers[q] \in Open(q)'
    BY <1>1, <1>2, <1>3, <1>6, <1>8 DEF MediaTypes, TaskFrame
  <2> QED
    BY <1>1, <1>7, <2>1, QuietKeepsServed
<1>14. Reached'
  <2>1. \A q \in onAir \ evicted' :
          q \in watching \cup Wants(t) => q \in watching' \cup Wants(t)' \cup opening
    BY <1>1, <1>2
  <2>2. unheard' = unheard
    BY <1>1 DEF TaskFrame
  <2> QED
    BY <1>7, <2>1, <2>2, QuietKeepsReached
<1> QED
  BY <1>9, <1>10, <1>11, <1>12, <1>13, <1>14 DEF MediaInv

(* Task t has brought p, or gives it up: its mark falls. *)
GivesUp(t, p) ==
  /\ Brings(t, p) /\ work[t].at /= "idle" /\ TaskFrame
  /\ Becomes(t, "all", work[t].todo, NoScreen, 0)
  /\ opening' = opening \ {p} /\ UNCHANGED <<made, of, doubled>>
  /\ away' \subseteq Producer /\ run' \in [Consumer -> {"closed", "paused", "running"}]
  /\ watching \subseteq watching' /\ watching' \subseteq watching \cup {p}
  /\ \A c \in Consumer : run'[c] = "closed" <=> run[c] = "closed" \/ (c = work[t].c /\ run'[c] = "closed")
  /\ \/ UNCHANGED consumers
     \/ work[t].c /= 0 /\ consumers' = [consumers EXCEPT ![p] = work[t].c]

LEMMA EndingKeeps ==
  ASSUME MediaInv, NEW t \in Task, NEW p \in Producer, GivesUp(t, p),
         p \in onAir \ evicted => p \in watching',
         p \in (watching' \cap onAir) \ cut => consumers'[p] \in Open(p)'
  PROVE  MediaInv'
<1>1. /\ MediaTypes /\ work[t].c \in 0..MaxMade
      /\ \A u \in Task, q \in Producer : Brings(u, q) /\ Brings(u, p) => q = p
  BY DEF MediaInv, MediaTypes, Work, Brings
<1>2. /\ \A u \in Task, q \in Producer : Brings(u, q)' <=> Brings(u, q) /\ q /= p
      /\ \A u \in Task, q \in Producer : Brings(u, q) /\ q /= p => work'[u] = work[u] /\ u /= t
  <2>1. \A u \in Task : Brings(u, p) => u = t
    BY DEF GivesUp, MediaInv, Sole
  <2>2. \A q \in Producer : ~(Brings(t, q)')
    BY WorkValues DEF GivesUp, Becomes, Brings
  <2>3. \A q \in Producer : Brings(t, q) => q = p
    BY <1>1 DEF GivesUp
  <2>4. \A u \in Task \ {t}, q \in Producer : Brings(u, q)' <=> Brings(u, q)
    BY DEF GivesUp, Becomes, Brings
  <2> QED
    BY <2>1, <2>2, <2>3, <2>4 DEF GivesUp, Becomes
<1>3. \A q \in Producer : Open(q)' \subseteq Open(q)
  BY DEF GivesUp, Open
<1>4. MediaTypes'
  BY <1>1, MediaAssumption DEF MediaTypes, GivesUp, Becomes, TaskFrame
<1>5. WorkIsShaped' /\ NeverBack'
  BY GoingOnIsShaped DEF GivesUp
<1>6. Sole'
  <2>1. \A q \in opening' : \E u \in Task : Brings(u, q)'
    BY <1>1, <1>2 DEF GivesUp, MediaInv, MediaTypes, Sole
  <2>2. \A u \in Task, q \in Producer : Brings(u, q)' =>
          /\ q \in opening'
          /\ \A v \in Task : Brings(v, q)' => v = u
          /\ (work[u].at = "closes")' => q \in evicted'
    BY <1>2 DEF GivesUp, TaskFrame, MediaInv, Sole
  <2>3. \A u \in Task : (work[u].at = "view" /\ work[u].p /= NoScreen => work[u].p \in cut)'
    BY DEF GivesUp, Becomes, TaskFrame, MediaInv, Sole
  <2> QED
    BY <2>1, <2>2, <2>3 DEF Sole
<1>7. OneOpen'
  <2>1. \A q \in Producer \ onAir' : Open(q)' = {}
    BY <1>3 DEF GivesUp, TaskFrame, MediaInv, OneOpen
  <2>2. ASSUME NEW q \in Producer \ (evicted' \cup doubled')
        PROVE  /\ \A c, d \in Open(q)' : c = d
               /\ q \notin watching' \cup opening' => Open(q)' = {}
    <3>1. q \in Producer \ evicted
      BY DEF GivesUp, TaskFrame
    <3>2. CASE q = p
      BY <1>3, <2>1, <3>1, <3>2 DEF GivesUp, TaskFrame, MediaInv, OneOpen
    <3>3. CASE q /= p
      BY <1>3, <3>1, <3>3 DEF GivesUp, MediaInv, OneOpen
    <3> QED
      BY <3>2, <3>3
  <2>3. ASSUME NEW q \in Producer \ (evicted' \cup doubled'), NEW u \in Task, Brings(u, q)'
        PROVE  /\ (work[u].at = "asks")' => Open(q)' = {}
               /\ (work[u].at \in {"reads", "starts"})' => Open(q)' \subseteq {(work[u].c)'}
    BY <1>2, <1>3, <2>3 DEF GivesUp, TaskFrame, MediaInv, OneOpen
  <2>4. ASSUME NEW u \in Task, NEW q \in Producer \ evicted', Brings(u, q)', (work[u].at = "resumes")'
        PROVE  q \in watching' \cup (Producer \ onAir')
    BY <1>2, <2>4 DEF GivesUp, TaskFrame, MediaInv, OneOpen
  <2> QED
    BY <2>1, <2>2, <2>3, <2>4 DEF OneOpen
<1>8. TaskHolds'
  <2>1. /\ \A u \in Task : u /= t => work'[u] = work[u]
        /\ work'[t].c = 0 /\ made' = made /\ of' = of /\ onAir' = onAir
    BY DEF GivesUp, Becomes, TaskFrame
  <2>2. \A q \in Producer : \/ consumers'[q] = consumers[q]
                            \/ q = p /\ work[t].c /= 0 /\ consumers'[q] = work[t].c
    BY <1>1 DEF GivesUp, MediaTypes
  <2>3. work[t].c /= 0 => of[work[t].c] = p
    BY DEF GivesUp, MediaInv, TaskHolds
  <2>4. ASSUME NEW u \in Task, work'[u].c /= 0
        PROVE  /\ work'[u].c <= made'
               /\ \A v \in Task : work'[v].c = work'[u].c => v = u
               /\ \A q \in Producer : consumers'[q] /= work'[u].c
    BY <2>1, <2>2, <2>4 DEF MediaInv, TaskHolds
  <2>5. \A q \in Producer : consumers'[q] /= 0 => consumers'[q] <= made' /\ of'[consumers'[q]] = q
    BY <2>1, <2>2, <2>3 DEF MediaInv, TaskHolds
  <2>6. ASSUME NEW u \in Task, NEW q \in Producer, Brings(u, q)', work'[u].c /= 0
        PROVE  /\ of'[work'[u].c] = q
               /\ work'[u].at \in {"reads", "starts", "resumes"} /\ q \in onAir' => run'[work'[u].c] /= "closed"
    <3>1. work'[u] = work[u] /\ u /= t /\ Brings(u, q)
      BY <1>2, <2>6
    <3>2. work[u].c \in Consumer /\ work[u].c /= work[t].c
      BY <1>1, <2>6, <3>1, MediaAssumption DEF MediaInv, MediaTypes, Work, TaskHolds, Consumer
    <3> QED
      BY <2>1, <2>6, <3>1, <3>2 DEF GivesUp, MediaInv, TaskHolds
  <2>7. \A u \in Task, q \in onAir' : Brings(u, q)' /\ work'[u].at \in {"reads", "starts", "resumes"} => work'[u].c /= 0
    BY <1>1, <1>2, <2>1 DEF MediaInv, MediaTypes, TaskHolds
  <2> QED
    BY <2>4, <2>5, <2>6, <2>7 DEF TaskHolds
<1>9. TaskServes'
  <2> SUFFICES ASSUME NEW q \in (watching' \cap onAir) \ cut, q /= p
               PROVE  consumers'[q] \in Open(q)' \/ \E u \in Task : Brings(u, q)' /\ work'[u].at = "resumes"
    BY DEF TaskServes, GivesUp, TaskFrame
  <2>1. q \in (watching \cap onAir) \ cut /\ q \in Producer /\ consumers'[q] = consumers[q]
    BY <1>1 DEF GivesUp, MediaTypes
  <2>2. CASE consumers[q] \in Open(q)
    <3>1. consumers[q] \in Consumer /\ of[consumers[q]] = q /\ run[consumers[q]] /= "closed"
      BY <2>2 DEF Open
    <3>2. consumers[q] /= work[t].c
      BY <2>1, <3>1, WorkValues DEF MediaInv, TaskHolds
    <3> QED
      BY <2>1, <3>1, <3>2 DEF GivesUp, Open
  <2>3. CASE \E u \in Task : Brings(u, q) /\ work[u].at = "resumes"
    BY <1>2, <2>1, <2>3
  <2> QED
    BY <2>1, <2>2, <2>3 DEF MediaInv, TaskServes
<1>10. Reached'
  <2> SUFFICES ASSUME NEW q \in onAir \ evicted, q \notin watching'
               PROVE  \/ \E u \in Task : q \in Wants(u)' \/ Brings(u, q)'
                      \/ \E i \in 1..Len(unheard) : unheard[i] = <<"newProducer", q>>
    BY DEF Reached, GivesUp, TaskFrame
  <2>1. q /= p /\ q \in Producer /\ q \notin watching
    BY <1>1 DEF GivesUp, MediaTypes
  <2>2. \A u \in Task : Wants(u)' = Wants(u)
    BY WantsThen, WorkValues DEF GivesUp, Brings, Wants
  <2> QED
    BY <1>2, <2>1, <2>2 DEF MediaInv, Reached
<1> QED
  BY <1>4, <1>5, <1>6, <1>7, <1>8, <1>9, <1>10 DEF MediaInv

(* A step of task t that goes on opening p, or begins to. *)
LEMMA BringingIsOne ==
  ASSUME MediaInv, NEW t \in Task, NEW p \in Producer,
         NEW at \in {"asks", "reads", "starts", "resumes", "closes"}, NEW todo, NEW c,
         Becomes(t, at, todo, p, c), TaskFrame,
         \/ Brings(t, p) /\ opening' = opening
         \/ work[t].at = "marks" /\ p \notin opening /\ opening' = opening \cup {p},
         at = "closes" => p \in evicted
  PROVE  /\ Sole'
         /\ \A u \in Task : Brings(u, p)' <=> u = t
         /\ \A u \in Task, q \in Producer : q /= p =>
              (Brings(u, q)' <=> Brings(u, q)) /\ (Brings(u, q) => u /= t)
<1>1. opening \subseteq Producer
  BY DEF MediaInv, MediaTypes
<1>2. \A u \in Task : Brings(u, p)' <=> u = t
  BY DEF Becomes, Brings, MediaInv, Sole
<1>3. \A u \in Task, q \in Producer : q /= p =>
        (Brings(u, q)' <=> Brings(u, q)) /\ (Brings(u, q) => u /= t)
  <2>1. \A q \in Producer : q /= p => ~Brings(t, q) /\ ~(Brings(t, q)')
    BY WorkValues DEF Becomes, Brings, MediaInv, WorkIsShaped
  <2>2. \A u \in Task \ {t}, q \in Producer : Brings(u, q)' <=> Brings(u, q)
    BY DEF Becomes, Brings
  <2> QED
    BY <2>1, <2>2
<1>4. \A q \in opening' : \E u \in Task : Brings(u, q)'
  BY <1>1, <1>2, <1>3 DEF MediaInv, Sole
<1>5. ASSUME NEW u \in Task, NEW q \in Producer, Brings(u, q)'
      PROVE  /\ q \in opening'
             /\ \A v \in Task : Brings(v, q)' => v = u
             /\ (work[u].at = "closes")' => q \in evicted'
  <2>1. CASE q = p
    BY <1>2, <1>5, <2>1 DEF Becomes, TaskFrame, MediaInv, Sole
  <2>2. CASE q /= p
    BY <1>3, <1>5, <2>2 DEF Becomes, TaskFrame, MediaInv, Sole
  <2> QED
    BY <2>1, <2>2
<1>6. \A u \in Task : (work[u].at = "view" /\ work[u].p /= NoScreen => work[u].p \in cut)'
  BY DEF Becomes, TaskFrame, MediaInv, Sole
<1> QED
  BY <1>2, <1>3, <1>4, <1>5, <1>6 DEF Sole

(* The mark is taken: task t begins to open p. *)
LEMMA MarkingKeeps ==
  ASSUME MediaInv, NEW t \in Task, NEW p \in Producer, work[t].at = "marks", work[t].p = p,
         p \notin opening, opening' = opening \cup {p}, doubled' = doubled \cup ({p} \cap watching),
         TaskFrame, UNCHANGED <<made, of, run, watching, away, consumers>>,
         Becomes(t, "asks", work[t].todo, p, 0)
  PROVE  MediaInv'
<1>1. MediaTypes /\ work[t].c = 0 /\ work[t].todo \subseteq Producer /\ p \in Wants(t)
  BY DEF MediaInv, MediaTypes, Work, WorkIsShaped, Wants
<1>2. /\ Wants(t)' \cup {p} = Wants(t)
      /\ \A u \in Task \ {t} : Wants(u)' = Wants(u)
  BY <1>1, WantsThen DEF Wants
<1>3. /\ Sole'
      /\ \A u \in Task : Brings(u, p)' <=> u = t
      /\ \A u \in Task, q \in Producer : q /= p =>
           (Brings(u, q)' <=> Brings(u, q)) /\ (Brings(u, q) => u /= t)
  BY BringingIsOne
<1>4. \A q \in Producer : Open(q)' = Open(q)
  BY DEF Open
<1>5. MediaTypes'
  BY <1>1 DEF MediaTypes, Becomes, TaskFrame
<1>6. WorkIsShaped' /\ NeverBack'
  BY <1>1, GoingOnIsShaped
<1>7. OneOpen'
  <2>1. \A q \in Producer \ onAir' : Open(q)' = {}
    BY <1>4 DEF TaskFrame, MediaInv, OneOpen
  <2>2. ASSUME NEW q \in Producer \ (evicted' \cup doubled')
        PROVE  /\ \A c, d \in Open(q)' : c = d
               /\ q \notin watching' \cup opening' => Open(q)' = {}
    BY <1>4 DEF TaskFrame, MediaInv, OneOpen
  <2>3. ASSUME NEW q \in Producer \ (evicted' \cup doubled'), NEW u \in Task, Brings(u, q)'
        PROVE  /\ (work[u].at = "asks")' => Open(q)' = {}
               /\ (work[u].at \in {"reads", "starts"})' => Open(q)' \subseteq {(work[u].c)'}
    <3>1. CASE q = p
      BY <1>3, <1>4, <2>3, <3>1 DEF Becomes, TaskFrame, MediaInv, OneOpen
    <3>2. CASE q /= p
      BY <1>3, <1>4, <2>3, <3>2 DEF Becomes, TaskFrame, MediaInv, OneOpen
    <3> QED
      BY <3>1, <3>2
  <2>4. ASSUME NEW u \in Task, NEW q \in Producer \ evicted', Brings(u, q)', (work[u].at = "resumes")'
        PROVE  q \in watching' \cup (Producer \ onAir')
    BY <1>3, <2>4 DEF Becomes, TaskFrame, MediaInv, OneOpen
  <2> QED
    BY <2>1, <2>2, <2>3, <2>4 DEF OneOpen
<1>8. TaskHolds'
  <2>1. \A u \in Task : work'[u].c = work[u].c
    BY <1>1 DEF Becomes
  <2>2. ASSUME NEW u \in Task, NEW q \in Producer, Brings(u, q)', work'[u].c /= 0
        PROVE  Brings(u, q) /\ work'[u] = work[u]
    BY <1>1, <1>3, <2>1, <2>2 DEF Becomes
  <2>3. ASSUME NEW u \in Task, NEW q \in onAir', Brings(u, q)', work'[u].at \in {"reads", "starts", "resumes"}
        PROVE  work'[u].c /= 0
    <3>1. u /= t /\ q \in onAir
      BY <2>3 DEF Becomes, TaskFrame
    <3>2. work'[u] = work[u] /\ q \in Producer
      BY <3>1 DEF Becomes, MediaInv, MediaTypes
    <3>3. Brings(u, q)
      BY <1>3, <2>3, <3>1, <3>2 DEF Brings
    <3> QED
      BY <2>3, <3>1, <3>2, <3>3 DEF MediaInv, TaskHolds
  <2>4. /\ \A u \in Task : work'[u].c /= 0 =>
             /\ work'[u].c <= made'
             /\ \A v \in Task : work'[v].c = work'[u].c => v = u
             /\ \A q \in Producer : consumers'[q] /= work'[u].c
        /\ \A q \in Producer : consumers'[q] /= 0 => consumers'[q] <= made' /\ of'[consumers'[q]] = q
    BY <2>1 DEF MediaInv, TaskHolds
  <2>5. ASSUME NEW u \in Task, NEW q \in Producer, Brings(u, q)', work'[u].c /= 0
        PROVE  /\ of'[work'[u].c] = q
               /\ work'[u].at \in {"reads", "starts", "resumes"} /\ q \in onAir' => run'[work'[u].c] /= "closed"
    BY <2>2, <2>5 DEF TaskFrame, MediaInv, TaskHolds
  <2> QED
    BY <2>3, <2>4, <2>5 DEF TaskHolds
<1>9. TaskServes'
  <2> SUFFICES ASSUME NEW q \in (watching \cap onAir) \ cut
               PROVE  consumers[q] \in Open(q) \/ \E u \in Task : Brings(u, q)' /\ work'[u].at = "resumes"
    BY <1>1, <1>4 DEF TaskServes, TaskFrame, MediaTypes
  <2>1. q \in Producer
    BY <1>1 DEF MediaTypes
  <2>2. CASE \E u \in Task : Brings(u, q) /\ work[u].at = "resumes"
    <3>1. PICK u \in Task : Brings(u, q) /\ work[u].at = "resumes"
      BY <2>2
    <3>2. u /= t /\ work'[u] = work[u]
      BY <3>1 DEF Becomes
    <3> QED
      BY <3>1, <3>2 DEF Brings
  <2> QED
    BY <2>1, <2>2 DEF MediaInv, TaskServes
<1>10. Reached'
  <2> SUFFICES ASSUME NEW q \in onAir \ evicted, q \notin watching, q /= p
               PROVE  \/ \E u \in Task : q \in Wants(u)' \/ Brings(u, q)'
                      \/ \E i \in 1..Len(unheard) : unheard[i] = <<"newProducer", q>>
    BY <1>3 DEF Reached, TaskFrame
  <2>1. q \in Producer
    BY <1>1 DEF MediaTypes
  <2> QED
    BY <1>2, <1>3, <2>1 DEF MediaInv, Reached
<1> QED
  BY <1>3, <1>5, <1>6, <1>7, <1>8, <1>9, <1>10 DEF MediaInv

(* The next of todo. *)
LEMMA ConsumeKeeps ==
  ASSUME MediaInv, NEW t \in Task, Consume(t)
  PROVE  MediaInv'
<1>1. /\ work[t].at = "all" /\ TaskFrame
      /\ UNCHANGED <<made, of, run, watching, away, opening, consumers, doubled>>
  BY DEF Consume, serverVars, shownVars, markVars, TaskFrame
<1>2. /\ MediaTypes /\ work[t] \in Work /\ work[t].todo \subseteq Producer
      /\ work[t].p = NoScreen /\ work[t].c = 0
  BY <1>1 DEF MediaInv, MediaTypes, Work, WorkIsShaped
<1>3. CASE work[t].todo = {} /\ Do(t, Free)
  <2>1. Becomes(t, "idle", {}, NoScreen, 0)
    BY <1>2, <1>3, WorkValues, DoingBecomes
  <2> QED
    BY <1>1, <1>3, <2>1, ChoosingKeeps
<1>4. ASSUME NEW p \in work[t].todo, p \in watching, Do(t, [work[t] EXCEPT !.todo = @ \ {p}])
      PROVE  MediaInv'
  <2> DEFINE w == [work[t] EXCEPT !.todo = @ \ {p}]
             todo == work[t].todo \ {p}
  <2>1. w \in Work /\ w.at = "all" /\ w.todo = todo /\ w.p = NoScreen /\ w.c = 0
    BY <1>1, <1>2 DEF Work
  <2>2. Do(t, w)
    BY <1>4
  <2> HIDE DEF w
  <2>3. Becomes(t, "all", todo, NoScreen, 0)
    BY ZenonT(40), <1>2, <2>1, <2>2, DoingBecomes
  <2>4. work[t].todo \subseteq todo \cup {NoScreen} \cup watching \cup opening
    BY <1>4
  <2> QED
    BY <1>1, <2>3, <2>4, ChoosingKeeps
<1>5. ASSUME NEW p \in work[t].todo, Do(t, [work[t] EXCEPT !.todo = @ \ {p}, !.at = "marks", !.p = p])
      PROVE  MediaInv'
  <2> DEFINE w == [work[t] EXCEPT !.todo = @ \ {p}, !.at = "marks", !.p = p]
             todo == work[t].todo \ {p}
  <2>1. w \in Work /\ w.at = "marks" /\ w.todo = todo /\ w.p = p /\ w.c = 0
    BY <1>1, <1>2 DEF Work
  <2>2. Do(t, w)
    BY <1>5
  <2> HIDE DEF w
  <2>3. Becomes(t, "marks", todo, p, 0)
    BY <1>2, <2>1, <2>2, DoingBecomes
  <2>4. p /= NoScreen
    BY <1>2, MediaAssumption
  <2> QED
    BY <1>1, <2>3, <2>4, ChoosingKeeps
<1> QED
  BY <1>3, <1>4, <1>5 DEF Consume

(* The mark, unless another task has it. *)
LEMMA MarksKeeps ==
  ASSUME MediaInv, NEW t \in Task, Marks(t)
  PROVE  MediaInv'
<1>1. /\ work[t].at = "marks" /\ TaskFrame
      /\ UNCHANGED <<made, of, run, watching, away, consumers>>
  BY DEF Marks, serverVars, shownVars, TaskFrame
<1>2. PICK p \in Producer :
        p = work[t].p /\ MediaTypes /\ work[t] \in Work /\ work[t].c = 0
  BY <1>1 DEF MediaInv, MediaTypes, WorkIsShaped
<1>3. CASE Marked(p)
  <2> DEFINE w == [work[t] EXCEPT !.at = "all", !.p = NoScreen]
  <2>1. Do(t, w) /\ UNCHANGED <<opening, doubled>> /\ p \in opening
    BY <1>2, <1>3 DEF Marks, Marked, markVars
  <2>2. w \in Work /\ w.at = "all" /\ w.todo = work[t].todo /\ w.p = NoScreen /\ w.c = 0
    BY <1>2 DEF Work
  <2> HIDE DEF w
  <2>3. Becomes(t, "all", work[t].todo, NoScreen, 0)
    BY <1>2, <2>1, <2>2, DoingBecomes
  <2> QED
    BY <1>1, <1>2, <2>1, <2>3, ChoosingKeeps
<1>4. CASE ~Marked(p)
  <2> DEFINE w == [work[t] EXCEPT !.at = "asks"]
  <2>1. /\ Do(t, w) /\ p \notin opening /\ opening' = opening \cup {p}
        /\ doubled' = doubled \cup ({p} \cap watching)
    BY <1>2, <1>4 DEF Marks, Marked
  <2>2. w \in Work /\ w.at = "asks" /\ w.todo = work[t].todo /\ w.p = p /\ w.c = 0
    BY <1>2 DEF Work
  <2> HIDE DEF w
  <2>3. Becomes(t, "asks", work[t].todo, p, 0)
    BY <1>2, <2>1, <2>2, DoingBecomes
  <2> QED
    BY <1>1, <1>2, <2>1, <2>3, MarkingKeeps
<1> QED
  BY <1>3, <1>4

(* The SFU makes the consumer, or has nothing to consume. *)
LEMMA ServesKeeps ==
  ASSUME MediaInv, NEW t \in Task, Serves(t)
  PROVE  MediaInv'
<1>1. /\ work[t].at = "asks" /\ TaskFrame
      /\ UNCHANGED <<watching, away, opening, doubled, consumers>>
  BY DEF Serves, shownVars, markVars, TaskFrame
<1>0. MediaTypes /\ work[t] \in Work /\ work[t].p \in Producer /\ work[t].c = 0 /\ made \in Nat
  BY <1>1, MediaAssumption DEF MediaInv, MediaTypes, WorkIsShaped
<1>2. PICK p \in Producer, c \in Nat :
        /\ p = work[t].p /\ c = made + 1
        /\ MediaTypes /\ work[t] \in Work /\ work[t].c = 0 /\ Brings(t, p)
  BY <1>0, <1>1 DEF Brings
<1> DEFINE Made == /\ p \in onAir /\ made' = c /\ c \in 1..MaxMade
                   /\ of' = [of EXCEPT ![c] = p] /\ run' = [run EXCEPT ![c] = "paused"]
                   /\ Becomes(t, "reads", work[t].todo, p, c)
           Gone == /\ p \notin onAir /\ UNCHANGED <<made, of, run>>
                   /\ Becomes(t, "reads", work[t].todo, p, 0)
<1>3. Made \/ Gone
  <2>1. CASE p \in onAir
    <3> DEFINE w == [work[t] EXCEPT !.at = "reads", !.c = c]
    <3>1. /\ made < MaxMade /\ made' = c /\ of' = [of EXCEPT ![c] = p]
          /\ run' = [run EXCEPT ![c] = "paused"] /\ Do(t, w)
      BY <1>2, <2>1 DEF Serves
    <3>2. c \in 1..MaxMade /\ c \in 0..MaxMade
      BY <1>2, <3>1, MediaAssumption DEF MediaTypes
    <3>3. w \in Work /\ w.at = "reads" /\ w.todo = work[t].todo /\ w.p = p /\ w.c = c
      BY <1>2, <3>2 DEF Work
    <3> HIDE DEF w
    <3>4. Becomes(t, "reads", work[t].todo, p, c)
      BY <1>2, <3>1, <3>3, DoingBecomes
    <3> QED
      BY <2>1, <3>1, <3>2, <3>4
  <2>2. CASE p \notin onAir
    <3> DEFINE w == [work[t] EXCEPT !.at = "reads", !.c = 0]
    <3>1. Do(t, w) /\ UNCHANGED <<made, of, run>>
      BY <1>2, <2>2 DEF Serves
    <3>2. w \in Work /\ w.at = "reads" /\ w.todo = work[t].todo /\ w.p = p /\ w.c = 0
      BY <1>2 DEF Work
    <3> HIDE DEF w
    <3>3. Becomes(t, "reads", work[t].todo, p, 0)
      BY <1>2, <3>1, <3>2, DoingBecomes
    <3> QED
      BY <2>2, <3>1, <3>3
  <2> QED
    BY <2>1, <2>2
<1>4. PICK d \in 0..MaxMade :
        /\ Becomes(t, "reads", work[t].todo, p, d)
        /\ made' \in 0..MaxMade /\ made' >= made
        /\ \/ d = 0 /\ p \notin onAir /\ UNCHANGED <<made, of, run>>
           \/ d = c /\ p \in onAir /\ d \in Consumer /\ made' = d
  <2>1. 0 \in 0..MaxMade /\ made \in 0..MaxMade
    BY <1>2, MediaAssumption DEF MediaTypes
  <2>2. CASE Made
    <3>1. c \in 0..MaxMade /\ c >= made /\ c \in Consumer
      BY <1>2, <2>1, <2>2, MediaAssumption DEF Consumer
    <3> QED
      BY <2>2, <3>1
  <2>3. CASE Gone
    BY <2>1, <2>3, MediaAssumption
  <2> QED
    BY <1>3, <2>2, <2>3
<1>5. /\ \A e \in Consumer : e /= d => of'[e] = of[e] /\ run'[e] = run[e]
      /\ d \in Consumer => of'[d] = p /\ run'[d] = "paused" /\ d = c /\ p \in onAir
      /\ of' \in [Consumer -> Producer \cup {NoScreen}]
      /\ run' \in [Consumer -> {"closed", "paused", "running"}]
  <2>1. CASE d = 0
    <3>1. UNCHANGED <<of, run>> /\ d \notin Consumer
      BY <1>2, <1>4, <2>1, WorkValues DEF MediaTypes
    <3> QED
      BY <1>2, <3>1 DEF MediaTypes
  <2>2. CASE d /= 0
    <3>1. Made
      BY <1>3, <1>4, <2>2
    <3>2. d = c /\ c \in Consumer
      BY <1>4, <2>2
    <3> QED
      BY <1>2, <3>1, <3>2 DEF MediaTypes
  <2> QED
    BY <2>1, <2>2
<1> HIDE DEF Made, Gone
<1>6. /\ Sole'
      /\ \A u \in Task : Brings(u, p)' <=> u = t
      /\ \A u \in Task, q \in Producer : q /= p =>
           (Brings(u, q)' <=> Brings(u, q)) /\ (Brings(u, q) => u /= t)
  BY <1>1, <1>2, <1>4, BringingIsOne
<1>7. /\ Open(p)' \subseteq Open(p) \cup {d}
      /\ \A q \in Producer : q /= p => Open(q)' \subseteq Open(q)
      /\ p \notin onAir => Open(p)' \subseteq Open(p)
  BY <1>5 DEF Open
<1>8. MediaTypes'
  BY <1>1, <1>2, <1>4, <1>5 DEF MediaTypes, Becomes, TaskFrame
<1>9. WorkIsShaped' /\ NeverBack'
  BY <1>1, <1>2, <1>4, GoingOnIsShaped
<1>10. OneOpen'
  <2>1. \A q \in Producer \ onAir' : Open(q)' = {}
    BY <1>1, <1>2, <1>7 DEF TaskFrame, MediaInv, OneOpen
  <2>2. ASSUME NEW q \in Producer \ (evicted' \cup doubled')
        PROVE  /\ \A e, f \in Open(q)' : e = f
               /\ q \notin watching' \cup opening' => Open(q)' = {}
    <3>1. CASE q = p
      <4>1. Open(p) = {} /\ p \in opening
        BY <1>1, <1>2, <3>1 DEF TaskFrame, MediaInv, OneOpen, Sole
      <4> QED
        BY <1>1, <1>7, <3>1, <4>1
    <3>2. CASE q /= p
      BY <1>1, <1>7, <3>2 DEF TaskFrame, MediaInv, OneOpen
    <3> QED
      BY <3>1, <3>2
  <2>3. ASSUME NEW q \in Producer \ (evicted' \cup doubled'), NEW u \in Task, Brings(u, q)'
        PROVE  /\ (work[u].at = "asks")' => Open(q)' = {}
               /\ (work[u].at \in {"reads", "starts"})' => Open(q)' \subseteq {(work[u].c)'}
    <3>1. CASE q = p
      <4>1. u = t /\ work'[t].at = "reads" /\ work'[t].c = d
        BY <1>4, <1>6, <2>3, <3>1 DEF Becomes
      <4>2. Open(p) = {}
        BY <1>1, <1>2, <3>1 DEF TaskFrame, MediaInv, OneOpen
      <4> QED
        BY <1>7, <3>1, <4>1, <4>2
    <3>2. CASE q /= p
      BY <1>1, <1>4, <1>6, <1>7, <2>3, <3>2 DEF Becomes, TaskFrame, MediaInv, OneOpen
    <3> QED
      BY <3>1, <3>2
  <2>4. ASSUME NEW u \in Task, NEW q \in Producer \ evicted', Brings(u, q)', (work[u].at = "resumes")'
        PROVE  q \in watching' \cup (Producer \ onAir')
    BY <1>1, <1>4, <1>6, <2>4 DEF Becomes, TaskFrame, MediaInv, OneOpen
  <2> QED
    BY <2>1, <2>2, <2>3, <2>4 DEF OneOpen
<1>11. TaskHolds'
  <2>0. /\ \A u \in Task : u /= t => work'[u] = work[u]
        /\ work'[t].c = d /\ work'[t].at = "reads" /\ work[t].c = 0
        /\ \A u \in Task : work[u].c \in 0..MaxMade
        /\ consumers \in [Producer -> 0..MaxMade] /\ made \in Nat /\ onAir \subseteq Producer
    BY <1>2, <1>4, MediaAssumption DEF Becomes, MediaTypes, Work
  <2>1. \A u \in Task : u /= t /\ work[u].c /= 0 => work[u].c < c /\ work[u].c /= d /\ work[u].c <= made'
    BY <1>2, <1>4, <2>0, MediaAssumption DEF MediaInv, TaskHolds
  <2>2. \A q \in Producer : consumers[q] /= 0 =>
          /\ consumers[q] < c /\ consumers[q] /= d /\ consumers[q] <= made'
          /\ consumers[q] \in Consumer /\ of[consumers[q]] = q
    BY <1>2, <1>4, <2>0, MediaAssumption DEF MediaInv, TaskHolds, Consumer
  <2>3. ASSUME NEW u \in Task, work'[u].c /= 0
        PROVE  /\ work'[u].c <= made'
               /\ \A v \in Task : work'[v].c = work'[u].c => v = u
               /\ \A q \in Producer : consumers'[q] /= work'[u].c
    <3>1. CASE u = t
      BY <1>1, <1>4, <2>0, <2>1, <2>2, <2>3, <3>1
    <3>2. CASE u /= t
      BY <1>1, <2>0, <2>1, <2>3, <3>2 DEF MediaInv, TaskHolds
    <3> QED
      BY <3>1, <3>2
  <2>4. \A q \in Producer : consumers'[q] /= 0 => consumers'[q] <= made' /\ of'[consumers'[q]] = q
    BY <1>1, <1>5, <2>2
  <2>5. ASSUME NEW u \in Task, NEW q \in Producer, Brings(u, q)', work'[u].c /= 0
        PROVE  /\ of'[work'[u].c] = q
               /\ work'[u].at \in {"reads", "starts", "resumes"} /\ q \in onAir' => run'[work'[u].c] /= "closed"
    <3>1. CASE q = p
      <4>1. u = t /\ d \in Consumer
        BY <1>4, <1>6, <2>0, <2>5, <3>1
      <4> QED
        BY <1>5, <2>0, <3>1, <4>1
    <3>2. CASE q /= p
      <4>1. Brings(u, q) /\ u /= t /\ work'[u] = work[u]
        BY <1>6, <2>0, <2>5, <3>2
      <4>2. work[u].c \in Consumer /\ work[u].c /= d
        BY <2>0, <2>1, <2>5, <4>1, MediaAssumption DEF Consumer
      <4> QED
        BY <1>1, <1>5, <2>5, <4>1, <4>2 DEF TaskFrame, MediaInv, TaskHolds
    <3> QED
      BY <3>1, <3>2
  <2>6. ASSUME NEW u \in Task, NEW q \in onAir', Brings(u, q)', work'[u].at \in {"reads", "starts", "resumes"}
        PROVE  work'[u].c /= 0
    <3>1. q \in onAir /\ q \in Producer
      BY <1>1, <2>0 DEF TaskFrame
    <3>2. CASE q = p
      BY <1>4, <1>6, <2>0, <2>6, <3>1, <3>2 DEF Consumer
    <3>3. CASE q /= p
      BY <1>6, <2>0, <2>6, <3>1, <3>3 DEF MediaInv, TaskHolds
    <3> QED
      BY <3>2, <3>3
  <2> QED
    BY <2>3, <2>4, <2>5, <2>6 DEF TaskHolds
<1>12. TaskServes'
  <2> SUFFICES ASSUME NEW q \in (watching \cap onAir) \ cut
               PROVE  consumers[q] \in Open(q)' \/ \E u \in Task : Brings(u, q)' /\ work'[u].at = "resumes"
    BY <1>1 DEF TaskServes, TaskFrame
  <2>1. q \in Producer
    BY <1>2 DEF MediaTypes
  <2>2. CASE consumers[q] \in Open(q)
    <3>1. consumers[q] \in Consumer /\ consumers[q] /= d
      <4>1. /\ consumers[q] \in Consumer /\ consumers[q] /= 0 /\ consumers[q] <= made /\ made \in Nat
        BY <1>2, <2>1, <2>2, WorkValues, MediaAssumption DEF MediaTypes, MediaInv, TaskHolds, Open
      <4>2. consumers[q] /= made + 1
        BY <4>1, MediaAssumption DEF Consumer
      <4> QED
        BY <1>2, <1>4, <4>1, <4>2
    <3> QED
      BY <1>5, <2>2, <3>1 DEF Open
  <2>3. CASE \E u \in Task : Brings(u, q) /\ work[u].at = "resumes"
    <3>1. PICK u \in Task : Brings(u, q) /\ work[u].at = "resumes"
      BY <2>3
    <3>2. u /= t /\ work'[u] = work[u]
      BY <1>1, <1>4, <3>1 DEF Becomes
    <3> QED
      BY <3>1, <3>2 DEF Brings
  <2> QED
    BY <2>2, <2>3 DEF MediaInv, TaskServes
<1>13. Reached'
  <2> SUFFICES ASSUME NEW q \in onAir \ evicted, q \notin watching
               PROVE  \/ \E u \in Task : q \in Wants(u)' \/ Brings(u, q)'
                      \/ \E i \in 1..Len(unheard) : unheard[i] = <<"newProducer", q>>
    BY <1>1 DEF Reached, TaskFrame
  <2>1. q \in Producer /\ \A u \in Task \ {t} : Wants(u)' = Wants(u)
    BY <1>2, <1>4, WantsThen DEF MediaTypes
  <2>2. Wants(t)' = Wants(t)
    BY <1>1, <1>4, WantsThen DEF Wants
  <2> QED
    BY <1>6, <2>1, <2>2 DEF MediaInv, Reached
<1> QED
  BY <1>6, <1>8, <1>9, <1>10, <1>11, <1>12, <1>13 DEF MediaInv

(* The consumer was made: undone, if the person closed the screen, or run. *)
LEMMA ReadingOnKeeps ==
  ASSUME MediaInv, NEW t \in Task, NEW p \in Producer, NEW at \in {"closes", "starts", "resumes"},
         Brings(t, p), work[t].c /= 0, TaskFrame,
         Becomes(t, at, work[t].todo, p, work[t].c),
         at \in {"closes", "starts"} => work[t].at = "reads" /\ watching' = watching,
         at = "closes" => p \in closed,
         at = "resumes" => work[t].at = "starts" /\ watching' = watching \cup {p},
         UNCHANGED <<made, of, run, away, opening, consumers, doubled>>
  PROVE  MediaInv'
<1>1. MediaTypes /\ closed \subseteq evicted
  BY DEF MediaInv, NeverBack
<1>2. /\ Sole'
      /\ \A u \in Task : Brings(u, p)' <=> u = t
      /\ \A u \in Task, q \in Producer : q /= p =>
           (Brings(u, q)' <=> Brings(u, q)) /\ (Brings(u, q) => u /= t)
  BY <1>1, BringingIsOne
<1>3. \A q \in Producer : Open(q)' = Open(q)
  BY DEF Open
<1>4. MediaTypes'
  BY <1>1 DEF MediaTypes, Becomes, TaskFrame
<1>5. WorkIsShaped' /\ NeverBack'
  BY <1>1, WorkValues, GoingOnIsShaped
<1>6. OneOpen'
  <2>1. \A q \in Producer \ onAir' : Open(q)' = {}
    BY <1>3 DEF TaskFrame, MediaInv, OneOpen
  <2>2. ASSUME NEW q \in Producer \ (evicted' \cup doubled')
        PROVE  /\ \A c, d \in Open(q)' : c = d
               /\ q \notin watching' \cup opening' => Open(q)' = {}
    BY <1>3 DEF TaskFrame, MediaInv, OneOpen
  <2>3. ASSUME NEW q \in Producer \ (evicted' \cup doubled'), NEW u \in Task, Brings(u, q)'
        PROVE  /\ (work[u].at = "asks")' => Open(q)' = {}
               /\ (work[u].at \in {"reads", "starts"})' => Open(q)' \subseteq {(work[u].c)'}
    <3>1. CASE q = p
      BY <1>2, <1>3, <2>3, <3>1 DEF Becomes, TaskFrame, MediaInv, OneOpen
    <3>2. CASE q /= p
      BY <1>2, <1>3, <2>3, <3>2 DEF Becomes, TaskFrame, MediaInv, OneOpen
    <3> QED
      BY <3>1, <3>2
  <2>4. ASSUME NEW u \in Task, NEW q \in Producer \ evicted', Brings(u, q)', (work[u].at = "resumes")'
        PROVE  q \in watching' \cup (Producer \ onAir')
    BY <1>2, <2>4 DEF Becomes, TaskFrame, MediaInv, OneOpen
  <2> QED
    BY <2>1, <2>2, <2>3, <2>4 DEF OneOpen
<1>7. TaskHolds'
  <2>1. /\ \A u \in Task : work'[u].c = work[u].c
        /\ \A u \in Task : u /= t => work'[u] = work[u]
        /\ \A u \in Task, q \in Producer : Brings(u, q)' => Brings(u, q)
    BY <1>2 DEF Becomes
  <2>2. /\ \A u \in Task : work'[u].c /= 0 =>
             /\ work'[u].c <= made'
             /\ \A v \in Task : work'[v].c = work'[u].c => v = u
             /\ \A q \in Producer : consumers'[q] /= work'[u].c
        /\ \A q \in Producer : consumers'[q] /= 0 => consumers'[q] <= made' /\ of'[consumers'[q]] = q
    BY <2>1 DEF MediaInv, TaskHolds
  <2>3. ASSUME NEW u \in Task, NEW q \in Producer, Brings(u, q)', work'[u].c /= 0
        PROVE  /\ of'[work'[u].c] = q
               /\ work'[u].at \in {"reads", "starts", "resumes"} /\ q \in onAir' => run'[work'[u].c] /= "closed"
    <3>1. CASE u = t
      BY <2>1, <2>3, <3>1 DEF TaskFrame, MediaInv, TaskHolds
    <3>2. CASE u /= t
      BY <2>1, <2>3, <3>2 DEF TaskFrame, MediaInv, TaskHolds
    <3> QED
      BY <3>1, <3>2
  <2>4. \A u \in Task, q \in onAir' : Brings(u, q)' /\ work'[u].at \in {"reads", "starts", "resumes"} => work'[u].c /= 0
    BY <1>1, <2>1 DEF TaskFrame, MediaInv, MediaTypes, TaskHolds
  <2> QED
    BY <2>2, <2>3, <2>4 DEF TaskHolds
<1>8. TaskServes'
  <2> SUFFICES ASSUME NEW q \in (watching' \cap onAir) \ cut
               PROVE  consumers[q] \in Open(q) \/ \E u \in Task : Brings(u, q)' /\ work'[u].at = "resumes"
    BY <1>1, <1>3 DEF TaskServes, TaskFrame, MediaTypes
  <2>1. CASE q = p /\ at = "resumes"
    BY <1>2, <2>1 DEF Becomes
  <2>2. CASE ~(q = p /\ at = "resumes")
    <3>1. q \in (watching \cap onAir) \ cut
      BY <2>2
    <3>2. CASE \E u \in Task : Brings(u, q) /\ work[u].at = "resumes"
      <4>1. PICK u \in Task : Brings(u, q) /\ work[u].at = "resumes"
        BY <3>2
      <4>2. u /= t /\ work'[u] = work[u]
        BY <4>1 DEF Becomes
      <4> QED
        BY <4>1, <4>2 DEF Brings
    <3> QED
      BY <3>1, <3>2 DEF MediaInv, TaskServes
  <2> QED
    BY <2>1, <2>2
<1>9. Reached'
  <2> SUFFICES ASSUME NEW q \in onAir \ evicted, q \notin watching
               PROVE  \/ \E u \in Task : q \in Wants(u)' \/ Brings(u, q)'
                      \/ \E i \in 1..Len(unheard) : unheard[i] = <<"newProducer", q>>
    BY DEF Reached, TaskFrame
  <2>1. q \in Producer /\ \A u \in Task \ {t} : Wants(u)' = Wants(u)
    BY <1>1, WantsThen DEF MediaTypes
  <2>2. Wants(t)' = Wants(t)
    BY WantsThen DEF Brings, Wants
  <2> QED
    BY <1>2, <2>1, <2>2 DEF MediaInv, Reached
<1> QED
  BY <1>2, <1>4, <1>5, <1>6, <1>7, <1>8, <1>9 DEF MediaInv

(* A task that has done with p goes back to the rest of todo. *)
LEMMA OnwardsBecomes ==
  ASSUME MediaInv, NEW t \in Task, Onwards(t)
  PROVE  /\ Becomes(t, "all", work[t].todo, NoScreen, 0)
         /\ opening' = opening \ {work[t].p} /\ doubled' = doubled
<1> DEFINE w == [work[t] EXCEPT !.at = "all", !.p = NoScreen, !.c = 0]
<1>1. MediaTypes /\ work[t] \in Work /\ 0 \in 0..MaxMade
  BY MediaAssumption DEF MediaInv, MediaTypes
<1>2. w \in Work /\ w.at = "all" /\ w.todo = work[t].todo /\ w.p = NoScreen /\ w.c = 0
  BY <1>1 DEF Work
<1>3. Do(t, w) /\ opening' = opening \ {work[t].p} /\ doubled' = doubled
  BY DEF Onwards
<1> HIDE DEF w
<1> QED
  BY <1>1, <1>2, <1>3, DoingBecomes

(* What a task that read its answer holds. *)
LEMMA AnsweredHolds ==
  ASSUME MediaInv, NEW t \in Task, work[t].at \in {"reads", "starts"}
  PROVE  \E p \in Producer :
           /\ p = work[t].p /\ Brings(t, p) /\ MediaTypes
           /\ work[t] \in Work /\ work[t].c \in 0..MaxMade
           /\ work[t].c /= 0 /\ p \in onAir => work[t].c \in Open(p)
           /\ p \in onAir => work[t].c /= 0
<1>1. /\ work[t].p \in Producer /\ Brings(t, work[t].p) /\ MediaTypes
      /\ work[t] \in Work /\ work[t].c \in 0..MaxMade
  BY DEF MediaInv, MediaTypes, WorkIsShaped, Work, Brings
<1> QED
  BY <1>1, MediaAssumption DEF MediaInv, TaskHolds, Open, Consumer

LEMMA ReadsKeeps ==
  ASSUME MediaInv, NEW t \in Task, Reads(t)
  PROVE  MediaInv'
<1>1. work[t].at = "reads" /\ TaskFrame /\ UNCHANGED <<made, of, run, watching, away, consumers>>
  BY DEF Reads, serverVars, shownVars, TaskFrame
<1>2. PICK p \in Producer :
        /\ p = work[t].p /\ Brings(t, p) /\ MediaTypes
        /\ work[t] \in Work /\ (p \in onAir => work[t].c /= 0)
  BY <1>1, AnsweredHolds
<1>3. CASE work[t].c = 0
  <2>1. Onwards(t) /\ p \notin onAir
    BY <1>2, <1>3 DEF Reads
  <2>2. GivesUp(t, p)
    BY <1>1, <1>2, <2>1, OnwardsBecomes DEF GivesUp, MediaTypes
  <2> QED
    BY <1>1, <2>1, <2>2, EndingKeeps
<1>4. CASE work[t].c /= 0
  <2> DEFINE at == IF p \in closed THEN "closes" ELSE "starts"
             w == [work[t] EXCEPT !.at = at]
  <2>1. Do(t, w) /\ UNCHANGED <<opening, doubled>>
    BY <1>2, <1>4 DEF Reads, markVars
  <2>2. w \in Work /\ w.at = at /\ w.todo = work[t].todo /\ w.p = p /\ w.c = work[t].c
    BY <1>2 DEF Work
  <2> HIDE DEF w
  <2>3. Becomes(t, at, work[t].todo, p, work[t].c)
    BY <1>2, <2>1, <2>2, DoingBecomes
  <2>4. at \in {"closes", "starts"} /\ (at = "closes" => p \in closed)
    OBVIOUS
  <2> HIDE DEF at
  <2> QED
    BY <1>1, <1>2, <1>4, <2>1, <2>3, <2>4, ReadingOnKeeps
<1> QED
  BY <1>3, <1>4

LEMMA StartsKeeps ==
  ASSUME MediaInv, NEW t \in Task, Starts(t)
  PROVE  MediaInv'
<1>1. work[t].at = "starts" /\ TaskFrame /\ UNCHANGED <<made, of, run>>
  BY DEF Starts, serverVars, shownVars, TaskFrame
<1>2. PICK p \in Producer :
        /\ p = work[t].p /\ Brings(t, p) /\ MediaTypes
        /\ work[t] \in Work /\ work[t].c \in 0..MaxMade
        /\ work[t].c /= 0 /\ p \in onAir => work[t].c \in Open(p)
  BY <1>1, AnsweredHolds
<1>3. work[t].c /= 0
  BY <1>1 DEF MediaInv, WorkIsShaped
<1>4. /\ watching' = watching \cup {p}
      /\ IF Unseen(p, focus)
         THEN away' = away \cup {p} /\ Notes(t) /\ Onwards(t)
         ELSE Do(t, [work[t] EXCEPT !.at = "resumes"]) /\ UNCHANGED <<away, markVars, consumers>>
  BY <1>2 DEF Starts
<1>5. CASE Unseen(p, focus)
  <2>1. /\ away' = away \cup {p} /\ Onwards(t)
        /\ consumers' = [consumers EXCEPT ![p] = work[t].c]
    BY <1>2, <1>4, <1>5 DEF Notes
  <2>2. GivesUp(t, p)
    BY <1>1, <1>2, <1>3, <1>4, <2>1, OnwardsBecomes DEF GivesUp, MediaTypes
  <2>3. p \in onAir => consumers'[p] \in Open(p)'
    BY <1>1, <1>2, <1>3, <2>1 DEF MediaTypes, Open
  <2> QED
    BY <1>4, <2>2, <2>3, EndingKeeps
<1>6. CASE ~Unseen(p, focus)
  <2> DEFINE w == [work[t] EXCEPT !.at = "resumes"]
  <2>1. Do(t, w) /\ UNCHANGED <<away, opening, doubled, consumers>>
    BY <1>4, <1>6 DEF markVars
  <2>2. w \in Work /\ w.at = "resumes" /\ w.todo = work[t].todo /\ w.p = p /\ w.c = work[t].c
    BY <1>2 DEF Work
  <2> HIDE DEF w
  <2>3. Becomes(t, "resumes", work[t].todo, p, work[t].c)
    BY <1>2, <2>1, <2>2, DoingBecomes
  <2> QED
    BY <1>1, <1>2, <1>3, <1>4, <2>1, <2>3, ReadingOnKeeps
<1> QED
  BY <1>5, <1>6

LEMMA ResumesKeeps ==
  ASSUME MediaInv, NEW t \in Task, Resumes(t)
  PROVE  MediaInv'
<1>1. /\ work[t].at = "resumes" /\ TaskFrame /\ Onwards(t)
      /\ UNCHANGED <<made, of, watching, away>>
  BY DEF Resumes, shownVars, TaskFrame
<1>2. PICK p \in Producer, c \in Consumer :
        /\ p = work[t].p /\ c = work[t].c /\ c /= 0 /\ Brings(t, p) /\ MediaTypes
  <2>1. work[t].c \in 0..MaxMade /\ work[t].c /= 0 /\ work[t].p \in Producer
    BY <1>1 DEF MediaInv, MediaTypes, WorkIsShaped, Work
  <2> QED
    BY <1>1, <2>1, MediaAssumption DEF Brings, Consumer, MediaInv
<1>3. of[c] = p /\ (p \in onAir => run[c] /= "closed") /\ (p \in onAir \ evicted => p \in watching)
  BY <1>1, <1>2 DEF MediaInv, TaskHolds, OneOpen
<1>4. CASE run[c] = "closed"
  <2>1. UNCHANGED <<run, consumers>> /\ p \notin onAir
    BY <1>2, <1>3, <1>4 DEF Resumes
  <2>2. GivesUp(t, p)
    BY <1>1, <1>2, <2>1, OnwardsBecomes DEF GivesUp, MediaTypes
  <2> QED
    BY <2>1, <2>2, EndingKeeps
<1>5. CASE run[c] /= "closed"
  <2>1. run' = [run EXCEPT ![c] = "running"] /\ consumers' = [consumers EXCEPT ![p] = c]
    BY <1>2, <1>5 DEF Resumes, Notes
  <2>2. /\ run' \in [Consumer -> {"closed", "paused", "running"}]
        /\ \A d \in Consumer : run'[d] = "closed" <=> run[d] = "closed"
    BY <1>2, <1>5, <2>1 DEF MediaTypes
  <2>3. GivesUp(t, p)
    BY <1>1, <1>2, <2>1, <2>2, OnwardsBecomes DEF GivesUp, MediaTypes
  <2>4. consumers'[p] \in Open(p)'
    BY <1>1, <1>2, <1>3, <1>5, <2>1, <2>2 DEF MediaTypes, Open
  <2> QED
    BY <1>1, <1>3, <2>3, <2>4, EndingKeeps
<1> QED
  BY <1>4, <1>5

LEMMA ClosesKeeps ==
  ASSUME MediaInv, NEW t \in Task, Closes(t)
  PROVE  MediaInv'
<1>1. /\ work[t].at = "closes" /\ TaskFrame
      /\ UNCHANGED <<made, of, watching, away, consumers>>
      /\ run' = IF work[t].c = 0 THEN run ELSE [run EXCEPT ![work[t].c] = "closed"]
  BY DEF Closes, shownVars, TaskFrame
<1>2. PICK c \in 0..MaxMade : c = work[t].c /\ MediaTypes /\ work[t].p \in Producer \cup {NoScreen}
  BY DEF MediaInv, MediaTypes, Work
<1>3. /\ run' \in [Consumer -> {"closed", "paused", "running"}]
      /\ \A d \in Consumer : run'[d] = "closed" <=> run[d] = "closed" \/ d = c
  <2>1. CASE c = 0
    BY <1>1, <1>2, <2>1, WorkValues DEF MediaTypes
  <2>2. CASE c /= 0
    <3>1. c \in Consumer /\ run' = [run EXCEPT ![c] = "closed"]
      BY <1>1, <1>2, <2>2, MediaAssumption DEF Consumer
    <3> QED
      BY <1>2, <3>1 DEF MediaTypes
  <2> QED
    BY <2>1, <2>2
<1>4. \A q \in Producer : consumers[q] \in Open(q) => consumers[q] \in Open(q)'
  <2>1. ASSUME NEW q \in Producer, consumers[q] \in Open(q)
        PROVE  consumers[q] \in Open(q)'
    <3>1. consumers[q] \in Consumer /\ consumers[q] /= 0 /\ consumers[q] /= c
      BY <1>2, <2>1, WorkValues DEF Open, MediaInv, TaskHolds
    <3> QED
      BY <1>1, <1>3, <2>1, <3>1 DEF Open
  <2> QED
    BY <2>1
<1>5. CASE work[t].p = NoScreen
  <2>1. /\ Do(t, Free) /\ UNCHANGED <<opening, doubled>> /\ Wants(t) = {}
        /\ \A q \in Producer : ~Brings(t, q)
    BY <1>1, <1>5, WorkValues DEF Closes, markVars, MediaInv, WorkIsShaped, Brings, Wants
  <2>2. Becomes(t, "idle", {}, NoScreen, 0)
    <3>1. MediaTypes /\ Do(t, Free)
      BY <1>2, <2>1
    <3>2. Becomes(t, Free.at, Free.todo, Free.p, Free.c)
      BY <3>1, WorkValues, DoingBecomes
    <3> QED
      BY <3>2, WorkValues
  <2>3. TaskIsQuiet(t)
    BY <1>1, <1>2, <2>1, <2>2, BecomesQuiet DEF TaskFrame, MediaTypes
  <2>4. MediaTypes'
    BY <1>1, <1>2, <1>3, <2>1, <2>2 DEF MediaTypes, Becomes, TaskFrame
  <2>5. WorkIsShaped' /\ NeverBack'
    BY <1>1, <2>1, <2>2, GoingOnIsShaped
  <2>6. Sole' /\ OneOpen'
    <3>1. \A q \in Producer : Open(q)' \subseteq Open(q)
      BY <1>1, <1>3 DEF Open
    <3> QED
      BY <1>1, <2>3, <3>1, QuietKeepsSole, QuietKeepsOpen
  <2>7. TaskHolds'
    BY <1>1, <1>2, <1>3, <2>2, <2>3, QuietKeepsHeld DEF Becomes
  <2>8. TaskServes'
    <3>1. \A q \in (watching' \cap onAir) \ cut' :
            /\ consumers'[q] = consumers[q]
            /\ consumers[q] \in Open(q) => consumers[q] \in Open(q)'
      BY <1>1, <1>2, <1>4 DEF MediaTypes
    <3> QED
      BY <1>1, <2>3, <3>1, QuietKeepsServed
  <2>9. Reached'
    <3>1. \A q \in onAir \ evicted' :
            q \in watching \cup Wants(t) => q \in watching' \cup Wants(t)' \cup opening
      BY <1>1, <2>1
    <3>2. unheard' = unheard
      BY <1>1 DEF TaskFrame
    <3> QED
      BY <2>3, <3>1, <3>2, QuietKeepsReached
  <2> QED
    BY <2>4, <2>5, <2>6, <2>7, <2>8, <2>9 DEF MediaInv
<1>6. CASE work[t].p \in Producer
  <2>1. PICK p \in Producer : p = work[t].p /\ Brings(t, p)
    BY <1>1, <1>6 DEF Brings
  <2>2. Onwards(t) /\ p \in evicted
    BY <1>1, <2>1, WorkValues DEF Closes, MediaInv, Sole
  <2>3. GivesUp(t, p)
    BY <1>1, <1>2, <1>3, <2>1, <2>2, OnwardsBecomes DEF GivesUp, MediaTypes
  <2>4. p \in (watching' \cap onAir) \ cut => consumers'[p] \in Open(p)'
    <3> SUFFICES ASSUME p \in (watching \cap onAir) \ cut PROVE consumers[p] \in Open(p)
      BY <1>1, <1>4
    <3>1. \A u \in Task : ~(Brings(u, p) /\ work[u].at = "resumes")
      BY <1>1, <2>1 DEF MediaInv, Sole
    <3> QED
      BY <3>1 DEF MediaInv, TaskServes
  <2> QED
    BY <2>2, <2>3, <2>4, EndingKeeps
<1> QED
  BY <1>2, <1>5, <1>6

(* The invariant of consume, close_watched and apply_view (room.rs): each mark *)
(* and each consumer that is not noted is in the hands of one task.            *)
THEOREM MediaInvariant == MediaSpec => []MediaInv
<1>1. MediaInit => MediaInv
  <2> SUFFICES ASSUME MediaInit PROVE MediaInv
    OBVIOUS
  <2> DEFINE w == [Free EXCEPT !.at = "all", !.todo = onAir]
  <2>0. onAir \subseteq Producer /\ unheard = <<>> /\ Len(unheard) = 0
    BY DEF MediaInit
  <2>1. w \in Work /\ w.at = "all" /\ w.todo = onAir /\ w.p = NoScreen /\ w.c = 0
    BY <2>0, WorkValues DEF Free, Work
  <2>2. work = [t \in Task |-> IF t = 0 THEN w ELSE Free]
    BY DEF MediaInit
  <2> HIDE DEF w
  <2>3. /\ work \in [Task -> Work] /\ work[0] = w
        /\ \A t \in Task : work[t] = w \/ work[t] = Free
        /\ \A t \in Task : t > 0 => work[t] = Free
    BY <2>1, <2>2, WorkValues, MediaAssumption DEF Task
  <2>4. \A t \in Task : work[t].p = NoScreen /\ work[t].c = 0 /\ work[t].at \in {"all", "idle"}
                         /\ work[t].todo \subseteq onAir
    BY <2>1, <2>3, WorkValues
  <2>5. /\ \A p \in Producer : Open(p) = {} /\ \A t \in Task : ~Brings(t, p)
        /\ \A t \in Task : Wants(t) = {p \in Producer : p \in work[t].todo}
    BY <2>4, WorkValues DEF MediaInit, Open, Brings, Wants
  <2>6. MediaTypes
    BY <2>0, <2>3, MediaAssumption DEF MediaInit, MediaTypes
  <2>7. WorkIsShaped /\ NeverBack
    BY <2>0, <2>3, <2>4, <2>5 DEF MediaInit, WorkIsShaped, NeverBack
  <2>8. Sole /\ OneOpen /\ TaskHolds
    BY <2>0, <2>4, <2>5 DEF MediaInit, Sole, OneOpen, TaskHolds
  <2>9. TaskServes /\ Reached
    BY <2>0, <2>1, <2>3, <2>5, WorkValues DEF MediaInit, TaskServes, Reached
  <2> QED
    BY <2>6, <2>7, <2>8, <2>9 DEF MediaInv
<1>2. MediaInv /\ [MediaNext]_mediaVars => MediaInv'
  <2> SUFFICES ASSUME MediaInv, [MediaNext]_mediaVars PROVE MediaInv'
    OBVIOUS
  <2>1. CASE \E p \in Producer : Produces(p) \/ StopsProducing(p)
    BY <2>1, ProducesKeeps, StopsKeeps
  <2>2. CASE Hear
    BY <2>2, HearNewKeeps, HearClosedKeeps DEF Hear
  <2>3. CASE Click
    BY <2>3, ClickKeeps
  <2>4. CASE \E t \in Task :
               \/ Consume(t) \/ Marks(t) \/ Serves(t) \/ Reads(t) \/ Starts(t) \/ Resumes(t)
               \/ Closes(t) \/ View(t)
    BY <2>4, ConsumeKeeps, MarksKeeps, ServesKeeps, ReadsKeeps, StartsKeeps, ResumesKeeps,
       ClosesKeeps, ViewKeeps
  <2>5. CASE UNCHANGED mediaVars
    <3>1. /\ \A t, p : Brings(t, p)' <=> Brings(t, p)
          /\ \A t : Wants(t)' = Wants(t)
          /\ \A p : Open(p)' = Open(p)
      BY <2>5 DEF mediaVars, Brings, Wants, Open
    <3>2. MediaTypes' /\ WorkIsShaped' /\ NeverBack' /\ Sole'
      BY <2>5, <3>1 DEF mediaVars, MediaInv, MediaTypes, WorkIsShaped, NeverBack, Sole
    <3>3. OneOpen' /\ TaskHolds' /\ TaskServes' /\ Reached'
      BY SMTT(40), <2>5, <3>1 DEF mediaVars, MediaInv, OneOpen, TaskHolds, TaskServes, Reached
    <3> QED
      BY <3>2, <3>3 DEF MediaInv
  <2> QED
    BY <2>1, <2>2, <2>3, <2>4, <2>5 DEF MediaNext
<1> QED
  BY <1>1, <1>2, PTL DEF MediaSpec

(* However many tasks consume at once, a screen the person never closed has   *)
(* at most one consumer: the mark in opening (consume, room.rs) is of one task, *)
(* and whoever marks what is not watched finds no consumer.  Not so a screen   *)
(* that another task began to watch between the test and the mark.             *)
THEOREM OneEach == MediaSpec => []OneConsumerEach
<1>1. MediaInv => OneConsumerEach
  <2> SUFFICES ASSUME MediaInv, NEW p \in Producer \ (evicted \cup doubled)
               PROVE  Cardinality(Open(p)) <= 1
    BY DEF OneConsumerEach
  <2>1. \A c, d \in Open(p) : c = d
    BY DEF MediaInv, OneOpen
  <2>2. Open(p) = {} \/ \E c : Open(p) = {c}
    BY <2>1
  <2> QED
    BY SMTT(40), <2>2, FS_EmptySet, FS_Singleton
<1> QED
  BY <1>1, MediaInvariant, PTL

(* When everything has been answered, what is watched and on air has its       *)
(* consumer noted, unless it was closed in full screen (close_watched), and      *)
(* what was never closed is watched: a consumer is held by the one task that    *)
(* brings it until it is noted, and a producer by a todo or an event.           *)
THEOREM Serving == MediaSpec => []WatchedIsServed
<1>1. MediaInv => WatchedIsServed
  <2> SUFFICES ASSUME MediaInv, MediaRest
               PROVE  /\ \A p \in (watching \cap onAir) \ cut : consumers[p] \in Open(p)
                      /\ onAir \ evicted \subseteq watching
    BY DEF WatchedIsServed
  <2>1. MediaTypes /\ unheard = <<>> /\ Len(unheard) = 0
    BY DEF MediaInv, MediaRest
  <2>2. \A t \in Task : Wants(t) = {} /\ \A p \in Producer : ~Brings(t, p)
    BY WorkValues DEF MediaRest, Brings, Wants
  <2> QED
    BY <2>1, <2>2 DEF MediaInv, MediaTypes, TaskServes, Reached
<1> QED
  BY <1>1, MediaInvariant, PTL

(* What was closed in full screen was closed by the person. *)
CutIsEvicted == cut \subseteq evicted

LEMMA CutStaysEvicted == CutIsEvicted /\ [MediaNext]_mediaVars => CutIsEvicted'
<1> SUFFICES ASSUME cut \subseteq evicted, [MediaNext]_mediaVars
             PROVE  cut' \subseteq evicted'
  BY DEF CutIsEvicted
<1>1. CASE Click
  <2>1. ASSUME NEW p \in roster, CloseWatched(p) \/ Watch(p)
        PROVE  cut' \subseteq evicted'
    BY <2>1 DEF CloseWatched, Watch
  <2>2. ASSUME NEW f, SetFocus(f)
        PROVE  cut' \subseteq evicted'
    BY <2>2 DEF SetFocus
  <2> QED  BY <1>1, <2>1, <2>2 DEF Click
<1>2. CASE UNCHANGED <<cut, evicted>>
  BY <1>2
<1>3. CASE \E p \in Producer : Produces(p) \/ StopsProducing(p)
  BY <1>2, <1>3 DEF Produces, StopsProducing
<1>4. CASE Hear
  BY <1>2, <1>4 DEF Hear
<1>5. CASE \E t \in Task :
             \/ Consume(t) \/ Marks(t) \/ Serves(t) \/ Reads(t) \/ Starts(t) \/ Resumes(t)
             \/ Closes(t) \/ View(t)
  BY <1>2, <1>5 DEF Consume, Marks, Serves, Reads, Starts, Resumes, Closes, View, shownVars
<1> QED  BY <1>1, <1>2, <1>3, <1>4, <1>5 DEF MediaNext, mediaVars

(***************************************************************************)
(* room.rs: an event is of a producer, what is being opened has a task that *)
(* opens it, and what was closed in full screen was closed by the person.   *)
(***************************************************************************)
THEOREM MediaTypesHold == MediaSpec => []MediaTypeOK
<1>1. MediaInit => CutIsEvicted
  BY DEF MediaInit, CutIsEvicted
<1>2. MediaInv /\ CutIsEvicted => MediaTypeOK
  BY DEF MediaInv, MediaTypes, Sole, Brings, CutIsEvicted, MediaTypeOK
<1> QED  BY <1>1, <1>2, CutStaysEvicted, MediaInvariant, PTL DEF MediaSpec

-----------------------------------------------------------------------------
(* The calls of the person *)

(* From asking the SFU to holding the call; and from then on. *)
Coming == {"admitted", "greeted", "building"}

Arrived == {"opening", "starting", "holding", "telling", "done"}

VoiceTypes ==
  /\ begun \in 0..MaxJoins /\ call \in 0..MaxJoins /\ room \in 0..MaxJoins
  /\ task \in [Attempt -> Phase] /\ chan \in [Attempt -> Channel \cup {None}]
  /\ DOMAIN said = Attempt /\ listens \subseteq Attempt
  /\ seat \in Channel \cup {None}

(* An attempt is idle until it begins; a room is listened to, left or asked  *)
(* for a microphone once it was held; the call that is held is listened to.  *)
AttemptsInOrder ==
  /\ \A a \in Attempt : a > begun <=> task[a] = "idle"
  /\ \A a \in Attempt : a \in listens \cup hanging \cup retry \cup {call} => task[a] \in Arrived
  /\ call /= 0 => call \in listens /\ call \notin hanging

(* Whoever was let in is still there, or has its last word to hear. *)
HeardOrThere ==
  \A a \in Attempt : task[a] \in Coming \/ a = call => room = a \/ said[a] /= None

(* The seat is the one of the last attempt, which goes on until it is told.  *)
SeatOfTheLast ==
  /\ seat /= None => begun \in Attempt /\ seat = chan[begun]
  /\ status = "connecting" =>
       seat /= None /\ task[begun] \in {"hanging", "entering", "admitted", "refused", "greeted"}
  /\ micOpening => seat /= None /\ begun \notin retry /\ task[begun] /= "done"

(* The call that was reached is the last attempt's, or ends by a last word.  *)
LastIsHeld ==
  /\ seat /= None /\ task[begun] \in Arrived \cup {"building"} => inside
  /\ seat /= None /\ task[begun] \in Arrived =>
       call = begun \/ \E r \in listens : said[r] /= None

VoiceInv == VoiceTypes /\ AttemptsInOrder /\ HeardOrThere /\ SeatOfTheLast /\ LastIsHeld

LEMMA VoiceValues ==
  /\ None \notin Channel \cup {"replaced", "kicked", "moved", "connecting"} /\ MaxJoins \in Nat /\ 0 \notin Attempt
  /\ \A a \in Attempt : a \in 0..MaxJoins
  /\ \A n \in 0..MaxJoins : n \in Nat /\ (n /= 0 => n \in Attempt) /\ (n < MaxJoins => n + 1 \in Attempt)
BY VoiceAssumption DEF Attempt

LEMMA SeatlessSays ==
  ASSUME Seatless
  PROVE  seat' = None /\ status' = None /\ ~micOpening' /\ ~inside'
BY DEF Seatless, VoiceLeft

(* The call is over. *)
LEMMA SeatlessKeeps ==
  ASSUME Seatless
  PROVE  SeatOfTheLast' /\ LastIsHeld'
BY SeatlessSays, VoiceValues DEF SeatOfTheLast, LastIsHeld

(* A new attempt takes the place of the call that was held. *)
LEMMA BeginningKeeps ==
  ASSUME VoiceInv, NEW c \in Channel, NEW r \in 0..MaxJoins, Begins(c, r), Connecting(c),
         room' = room, retry' = retry, DOMAIN said' = Attempt,
         listens' \subseteq listens,
         \A a \in Attempt : a \in listens' \/ task[a] \in Coming => said'[a] = said[a]
  PROVE  VoiceInv'
<1> DEFINE n == begun + 1
<1>1. n \in Attempt /\ begun \in Nat /\ begun' = n /\ n \in 0..MaxJoins
  BY VoiceValues DEF Begins, VoiceInv, VoiceTypes, Attempt
<1>2. /\ call' = 0 /\ hanging' = hanging \cup ({call} \ {0})
      /\ seat' = c /\ seat' /= None /\ inside' = FALSE /\ micOpening' = TRUE
      /\ task' = [task EXCEPT ![n] = "hanging"] /\ chan' = [chan EXCEPT ![n] = c]
  BY VoiceValues DEF Begins, Dropped, Connecting, VoiceLeft
<1>3. task[n] = "idle" /\ n \notin listens \cup hanging \cup retry \cup {call}
  BY <1>1 DEF VoiceInv, AttemptsInOrder, Arrived
<1>4. /\ \A a \in Attempt : a /= n => task'[a] = task[a] /\ chan'[a] = chan[a]
      /\ task'[n] = "hanging" /\ chan'[n] = c
  BY <1>1, <1>2 DEF VoiceInv, VoiceTypes
<1> HIDE DEF n
<1>5. VoiceTypes'
  BY <1>1, <1>2, VoiceValues DEF VoiceInv, VoiceTypes, Phase
<1>6. AttemptsInOrder'
  <2>1. \A a \in Attempt : a > begun' <=> task'[a] = "idle"
    BY <1>1, <1>3, <1>4 DEF VoiceInv, AttemptsInOrder, n, Attempt
  <2>2. \A a \in Attempt : a \in listens' \cup hanging' \cup retry' \cup {call'} => task'[a] \in Arrived
    BY <1>2, <1>3, <1>4, VoiceValues DEF VoiceInv, AttemptsInOrder
  <2> QED
    BY <1>2, <2>1, <2>2 DEF AttemptsInOrder
<1>7. HeardOrThere'
  BY <1>2, <1>4, VoiceValues DEF VoiceInv, HeardOrThere, Coming
<1>8. SeatOfTheLast'
  BY <1>1, <1>2, <1>3, <1>4 DEF SeatOfTheLast
<1>9. LastIsHeld'
  BY <1>1, <1>4 DEF LastIsHeld, Arrived
<1> QED
  BY <1>5, <1>6, <1>7, <1>8, <1>9 DEF VoiceInv


(* What the last attempt reached is still reached. *)
LEMMA LastStaysHeld ==
  ASSUME LastIsHeld, UNCHANGED <<seat, begun, call, listens>>, inside => inside',
         \A r \in listens : said[r] /= None => said'[r] /= None,
         seat /= None /\ task'[begun] \in Arrived \cup {"building"} => task'[begun] = task[begun]
  PROVE  LastIsHeld'
BY DEF LastIsHeld

(* Joining a channel begins an attempt. *)
LEMMA JoinKeeps ==
  ASSUME VoiceInv, NEW c \in Channel, Join(c)
  PROVE  VoiceInv'
<1>1. /\ Begins(c, call) /\ Connecting(c) /\ room' = room /\ retry' = retry
      /\ said' = said /\ listens' = listens
  BY DEF Join
<1>2. call \in 0..MaxJoins /\ DOMAIN said = Attempt
  BY DEF VoiceInv, VoiceTypes
<1> QED
  BY <1>1, <1>2, BeginningKeeps

(* Leaving the call. *)
LEMMA LeaveKeeps ==
  ASSUME VoiceInv, Leave
  PROVE  VoiceInv'
<1> USE VoiceValues DEF VoiceInv, Leave, Dropped, Seatless, VoiceLeft, roomVars, stateVars
<1>1. VoiceTypes'
  BY DEF VoiceTypes, Phase
<1>2. AttemptsInOrder'
  BY DEF AttemptsInOrder, VoiceTypes, Arrived
<1>3. HeardOrThere'
  BY DEF HeardOrThere, VoiceTypes, AttemptsInOrder, Coming, Arrived
<1>4. SeatOfTheLast'
  BY DEF SeatOfTheLast, VoiceTypes, AttemptsInOrder, Arrived
<1>5. LastIsHeld'
  BY DEF LastIsHeld, VoiceTypes, AttemptsInOrder, HeardOrThere, SeatOfTheLast, Coming, Arrived
<1> QED
  BY <1>1, <1>2, <1>3, <1>4, <1>5

(* The microphone is tried again, muted or deafened. *)
LEMMA VoiceClickKeeps ==
  ASSUME VoiceInv, ClickVoice
  PROVE  VoiceInv'
<1> USE VoiceValues DEF VoiceInv, ClickVoice, OpensAgain, Mutes, Deafens, Tell, roomVars, stateVars
<1>1. VoiceTypes'
  BY DEF VoiceTypes, Phase
<1>2. AttemptsInOrder'
  BY DEF AttemptsInOrder, VoiceTypes, Arrived
<1>3. HeardOrThere'
  BY DEF HeardOrThere, VoiceTypes, AttemptsInOrder, Coming, Arrived
<1>4. SeatOfTheLast'
  BY DEF SeatOfTheLast, VoiceTypes, AttemptsInOrder, Arrived
<1>5. LastIsHeld'
  BY DEF LastIsHeld, VoiceTypes, AttemptsInOrder, HeardOrThere, SeatOfTheLast, Coming, Arrived
<1> QED
  BY <1>1, <1>2, <1>3, <1>4, <1>5

(* A room is muted. *)
LEMMA MuteKeeps ==
  ASSUME VoiceInv, NEW m \in mutes, MuteTask(m)
  PROVE  VoiceInv'
<1> USE VoiceValues DEF VoiceInv, MuteTask, roomVars, stateVars
<1>1. VoiceTypes'
  BY DEF VoiceTypes, Phase
<1>2. AttemptsInOrder'
  BY DEF AttemptsInOrder, VoiceTypes, Arrived
<1>3. HeardOrThere'
  BY DEF HeardOrThere, VoiceTypes, AttemptsInOrder, Coming, Arrived
<1>4. SeatOfTheLast'
  BY DEF SeatOfTheLast, VoiceTypes, AttemptsInOrder, Arrived
<1>5. LastIsHeld'
  BY DEF LastIsHeld, VoiceTypes, AttemptsInOrder, HeardOrThere, SeatOfTheLast, Coming, Arrived
<1> QED
  BY <1>1, <1>2, <1>3, <1>4, <1>5

(* A room was left. *)
LEMMA HungUpKeeps ==
  ASSUME VoiceInv, NEW r \in Attempt, HungUp(r)
  PROVE  VoiceInv'
<1> USE VoiceValues DEF VoiceInv, HungUp, roomVars, stateVars
<1>1. VoiceTypes'
  BY DEF VoiceTypes, Phase
<1>2. AttemptsInOrder'
  BY DEF AttemptsInOrder, VoiceTypes, Arrived
<1>3. HeardOrThere'
  BY DEF HeardOrThere, VoiceTypes, AttemptsInOrder, Coming, Arrived
<1>4. SeatOfTheLast'
  BY DEF SeatOfTheLast, VoiceTypes, AttemptsInOrder, Arrived
<1>5. LastIsHeld'
  BY DEF LastIsHeld, VoiceTypes, AttemptsInOrder, HeardOrThere, SeatOfTheLast, Coming, Arrived
<1> QED
  BY <1>1, <1>2, <1>3, <1>4, <1>5

(* The server is asked. *)
LEMMA AsksKeeps ==
  ASSUME VoiceInv, NEW a \in Attempt, Asks(a)
  PROVE  VoiceInv'
<1> USE VoiceValues DEF VoiceInv, Asks, At, roomVars, stateVars
<1>1. VoiceTypes'
  BY DEF VoiceTypes, Phase
<1>2. AttemptsInOrder'
  BY DEF AttemptsInOrder, VoiceTypes, Arrived
<1>3. HeardOrThere'
  BY DEF HeardOrThere, VoiceTypes, AttemptsInOrder, Coming, Arrived
<1>4. SeatOfTheLast'
  BY DEF SeatOfTheLast, VoiceTypes, AttemptsInOrder, Arrived
<1>5. LastIsHeld'
  BY DEF LastIsHeld, VoiceTypes, AttemptsInOrder, HeardOrThere, SeatOfTheLast, Coming, Arrived
<1> QED
  BY <1>1, <1>2, <1>3, <1>4, <1>5

(* The SFU lets the account in, and out of any other room. *)
LEMMA AdmitsKeeps ==
  ASSUME VoiceInv, NEW a \in Attempt, Admits(a)
  PROVE  VoiceInv'
<1> USE VoiceValues DEF VoiceInv, Admits, At, LastWord, roomVars, stateVars
<1>1. VoiceTypes'
  BY DEF VoiceTypes, Phase
<1>2. AttemptsInOrder'
  BY DEF AttemptsInOrder, VoiceTypes, Arrived
<1>3. HeardOrThere'
  BY DEF HeardOrThere, VoiceTypes, AttemptsInOrder, Coming, Arrived
<1>4. SeatOfTheLast'
  BY DEF SeatOfTheLast, VoiceTypes, AttemptsInOrder, Arrived
<1>5. LastIsHeld'
  <2>1. seat /= None /\ task'[begun] \in Arrived \cup {"building"} => task'[begun] = task[begun]
    BY DEF VoiceTypes, SeatOfTheLast, Arrived
  <2>2. \A r \in listens : said[r] /= None => said'[r] /= None
    BY DEF VoiceTypes
  <2>3. UNCHANGED <<seat, begun, call, listens, inside>>
    OBVIOUS
  <2> QED
    BY <2>1, <2>2, <2>3, LastStaysHeld
<1> QED
  BY <1>1, <1>2, <1>3, <1>4, <1>5

(* It does not let it in. *)
LEMMA RefusesKeeps ==
  ASSUME VoiceInv, NEW a \in Attempt, Refuses(a)
  PROVE  VoiceInv'
<1> USE VoiceValues DEF VoiceInv, Refuses, At, roomVars, stateVars
<1>1. VoiceTypes'
  BY DEF VoiceTypes, Phase
<1>2. AttemptsInOrder'
  BY DEF AttemptsInOrder, VoiceTypes, Arrived
<1>3. HeardOrThere'
  BY DEF HeardOrThere, VoiceTypes, AttemptsInOrder, Coming, Arrived
<1>4. SeatOfTheLast'
  BY DEF SeatOfTheLast, VoiceTypes, AttemptsInOrder, Arrived
<1>5. LastIsHeld'
  BY DEF LastIsHeld, VoiceTypes, AttemptsInOrder, HeardOrThere, SeatOfTheLast, Coming, Arrived
<1> QED
  BY <1>1, <1>2, <1>3, <1>4, <1>5

(* The attempt looks whether it was superseded. *)
LEMMA LooksKeeps ==
  ASSUME VoiceInv, NEW a \in Attempt, Looks(a)
  PROVE  VoiceInv'
<1> USE VoiceValues DEF VoiceInv, Looks, Fails, Superseded, Seatless, VoiceLeft, At, roomVars, stateVars
<1>1. VoiceTypes'
  BY DEF VoiceTypes, Phase
<1>2. AttemptsInOrder'
  BY DEF AttemptsInOrder, VoiceTypes, Arrived
<1>3. HeardOrThere'
  BY DEF HeardOrThere, VoiceTypes, AttemptsInOrder, Coming, Arrived
<1>4. SeatOfTheLast'
  BY DEF SeatOfTheLast, VoiceTypes, AttemptsInOrder, Arrived
<1>5. LastIsHeld'
  <2>1. CASE seat' = None
    BY <2>1 DEF LastIsHeld
  <2>2. CASE seat' /= None
    <3>1. task'[begun] \in Arrived \cup {"building"} => task'[begun] = task[begun]
      BY <2>2 DEF VoiceTypes, SeatOfTheLast, Arrived
    <3>2. a \notin listens
      BY DEF AttemptsInOrder, Arrived
    <3>3. \A r \in listens : said[r] /= None => said'[r] /= None
      BY <3>2 DEF VoiceTypes
    <3>4. UNCHANGED <<seat, begun, call, listens>> /\ (inside => inside')
      BY <2>2
    <3> QED
      BY <3>1, <3>3, <3>4, LastStaysHeld
  <2> QED
    BY <2>1, <2>2
<1> QED
  BY <1>1, <1>2, <1>3, <1>4, <1>5

(* The person is in the room. *)
LEMMA InsideKeeps ==
  ASSUME VoiceInv, NEW a \in Attempt, Inside(a)
  PROVE  VoiceInv'
<1> USE VoiceValues DEF VoiceInv, Inside, At, roomVars, stateVars
<1>1. VoiceTypes'
  BY DEF VoiceTypes, Phase
<1>2. AttemptsInOrder'
  BY DEF AttemptsInOrder, VoiceTypes, Arrived
<1>3. HeardOrThere'
  BY DEF HeardOrThere, VoiceTypes, AttemptsInOrder, Coming, Arrived
<1>4. SeatOfTheLast'
  BY DEF SeatOfTheLast, VoiceTypes, AttemptsInOrder, Arrived
<1>5. LastIsHeld'
  BY DEF LastIsHeld, VoiceTypes, AttemptsInOrder, HeardOrThere, SeatOfTheLast, Coming, Arrived
<1> QED
  BY <1>1, <1>2, <1>3, <1>4, <1>5

(* The call is held, in the place of any other. *)
LEMMA HoldsKeeps ==
  ASSUME VoiceInv, NEW a \in Attempt, HoldsCall(a)
  PROVE  VoiceInv'
<1> USE VoiceValues DEF VoiceInv, HoldsCall, At, roomVars, stateVars
<1>1. VoiceTypes'
  BY DEF VoiceTypes, Phase
<1>2. AttemptsInOrder'
  BY DEF AttemptsInOrder, VoiceTypes, Arrived
<1>3. HeardOrThere'
  BY DEF HeardOrThere, VoiceTypes, AttemptsInOrder, Coming, Arrived
<1>4. SeatOfTheLast'
  BY DEF SeatOfTheLast, VoiceTypes, AttemptsInOrder, Arrived
<1>5. LastIsHeld'
  BY DEF LastIsHeld, VoiceTypes, AttemptsInOrder, HeardOrThere, SeatOfTheLast, Coming, Arrived
<1> QED
  BY <1>1, <1>2, <1>3, <1>4, <1>5

(* The microphone of the room opens, or not. *)
LEMMA MicOpensKeeps ==
  ASSUME VoiceInv, NEW a \in Attempt, MicOpens(a)
  PROVE  VoiceInv'
<1> USE VoiceValues DEF VoiceInv, MicOpens, At, roomVars, stateVars
<1>1. VoiceTypes'
  BY DEF VoiceTypes, Phase
<1>2. AttemptsInOrder'
  BY DEF AttemptsInOrder, VoiceTypes, Arrived
<1>3. HeardOrThere'
  BY DEF HeardOrThere, VoiceTypes, AttemptsInOrder, Coming, Arrived
<1>4. SeatOfTheLast'
  BY DEF SeatOfTheLast, VoiceTypes, AttemptsInOrder, Arrived
<1>5. LastIsHeld'
  BY DEF LastIsHeld, VoiceTypes, AttemptsInOrder, HeardOrThere, SeatOfTheLast, Coming, Arrived
<1> QED
  BY <1>1, <1>2, <1>3, <1>4, <1>5

(* The microphone of the system starts, or not. *)
LEMMA MicStartsKeeps ==
  ASSUME VoiceInv, NEW a \in Attempt, MicStarts(a)
  PROVE  VoiceInv'
<1> USE VoiceValues DEF VoiceInv, MicStarts, At, roomVars, stateVars
<1>1. VoiceTypes'
  BY DEF VoiceTypes, Phase
<1>2. AttemptsInOrder'
  BY DEF AttemptsInOrder, VoiceTypes, Arrived
<1>3. HeardOrThere'
  BY DEF HeardOrThere, VoiceTypes, AttemptsInOrder, Coming, Arrived
<1>4. SeatOfTheLast'
  BY DEF SeatOfTheLast, VoiceTypes, AttemptsInOrder, Arrived
<1>5. LastIsHeld'
  BY DEF LastIsHeld, VoiceTypes, AttemptsInOrder, HeardOrThere, SeatOfTheLast, Coming, Arrived
<1> QED
  BY <1>1, <1>2, <1>3, <1>4, <1>5

(* The microphone is given to the call. *)
LEMMA MicHeldKeeps ==
  ASSUME VoiceInv, NEW a \in Attempt, MicHeld(a)
  PROVE  VoiceInv'
<1> USE VoiceValues DEF VoiceInv, MicHeld, At, roomVars, stateVars
<1>1. VoiceTypes'
  BY DEF VoiceTypes, Phase
<1>2. AttemptsInOrder'
  BY DEF AttemptsInOrder, VoiceTypes, Arrived
<1>3. HeardOrThere'
  BY DEF HeardOrThere, VoiceTypes, AttemptsInOrder, Coming, Arrived
<1>4. SeatOfTheLast'
  BY DEF SeatOfTheLast, VoiceTypes, AttemptsInOrder, Arrived
<1>5. LastIsHeld'
  BY DEF LastIsHeld, VoiceTypes, AttemptsInOrder, HeardOrThere, SeatOfTheLast, Coming, Arrived
<1> QED
  BY <1>1, <1>2, <1>3, <1>4, <1>5

(* The attempt is over. *)
LEMMA ToldKeeps ==
  ASSUME VoiceInv, NEW a \in Attempt, Told(a)
  PROVE  VoiceInv'
<1> USE VoiceValues DEF VoiceInv, Told, At, roomVars, stateVars
<1>1. VoiceTypes'
  BY DEF VoiceTypes, Phase
<1>2. AttemptsInOrder'
  BY DEF AttemptsInOrder, VoiceTypes, Arrived
<1>3. HeardOrThere'
  BY DEF HeardOrThere, VoiceTypes, AttemptsInOrder, Coming, Arrived
<1>4. SeatOfTheLast'
  BY DEF SeatOfTheLast, VoiceTypes, AttemptsInOrder, Arrived
<1>5. LastIsHeld'
  BY DEF LastIsHeld, VoiceTypes, AttemptsInOrder, HeardOrThere, SeatOfTheLast, Coming, Arrived
<1> QED
  BY <1>1, <1>2, <1>3, <1>4, <1>5

(* The room ends for this person. *)
LEMMA EndsKeeps ==
  ASSUME VoiceInv, Ends
  PROVE  VoiceInv'
<1> USE VoiceValues DEF VoiceInv, Ends, LastWord, roomVars, stateVars
<1>1. VoiceTypes'
  BY DEF VoiceTypes, Phase
<1>2. AttemptsInOrder'
  BY DEF AttemptsInOrder, VoiceTypes, Arrived
<1>3. HeardOrThere'
  BY DEF HeardOrThere, VoiceTypes, AttemptsInOrder, Coming, Arrived
<1>4. SeatOfTheLast'
  BY DEF SeatOfTheLast, VoiceTypes, AttemptsInOrder, Arrived
<1>5. LastIsHeld'
  <2>1. \A r \in listens : said[r] /= None => said'[r] /= None
    BY DEF VoiceTypes
  <2>2. UNCHANGED <<seat, begun, call, listens, inside, task>>
    OBVIOUS
  <2> QED
    BY <2>1, <2>2, LastStaysHeld
<1> QED
  BY <1>1, <1>2, <1>3, <1>4, <1>5

(* The room says what this person sends. *)
LEMMA HearMineKeeps ==
  ASSUME VoiceInv, NEW r \in Attempt, HearMine(r)
  PROVE  VoiceInv'
<1> USE VoiceValues DEF VoiceInv, HearMine, roomVars, stateVars
<1>1. VoiceTypes'
  BY DEF VoiceTypes, Phase
<1>2. AttemptsInOrder'
  BY DEF AttemptsInOrder, VoiceTypes, Arrived
<1>3. HeardOrThere'
  BY DEF HeardOrThere, VoiceTypes, AttemptsInOrder, Coming, Arrived
<1>4. SeatOfTheLast'
  BY DEF SeatOfTheLast, VoiceTypes, AttemptsInOrder, Arrived
<1>5. LastIsHeld'
  BY DEF LastIsHeld, VoiceTypes, AttemptsInOrder, HeardOrThere, SeatOfTheLast, Coming, Arrived
<1> QED
  BY <1>1, <1>2, <1>3, <1>4, <1>5

(* The last word of a room closes the call, or moves the person on. *)
LEMMA HearEndKeeps ==
  ASSUME VoiceInv, NEW r \in Attempt, HearEnd(r)
  PROVE  VoiceInv'
<1>1. CASE \E c \in Channel : Begins(c, 0) /\ Connecting(c)
  <2>1. /\ room' = room /\ retry' = retry /\ DOMAIN said' = Attempt
        /\ listens' \subseteq listens /\ 0 \in 0..MaxJoins
        /\ \A a \in Attempt : a \in listens' \/ task[a] \in Coming => said'[a] = said[a]
    BY VoiceValues DEF HearEnd, VoiceInv, VoiceTypes, AttemptsInOrder, Arrived, Coming
  <2> QED
    BY <1>1, <2>1, BeginningKeeps
<1>2. CASE /\ Dropped /\ Seatless
           /\ UNCHANGED <<begun, chan, prev, task>>
  <2>1. /\ call' = 0 /\ hanging' = hanging \cup ({call} \ {0}) /\ seat' = None
        /\ room' = room /\ retry' = retry /\ listens' \subseteq listens
        /\ said' = [said EXCEPT ![r] = None] /\ r \in listens
        /\ UNCHANGED <<begun, chan, task>>
    BY <1>2, SeatlessSays DEF HearEnd, Dropped
  <2>2. VoiceTypes'
    BY <2>1, VoiceValues DEF VoiceInv, VoiceTypes
  <2>3. AttemptsInOrder'
    BY <2>1, VoiceValues DEF VoiceInv, AttemptsInOrder, VoiceTypes
  <2>4. HeardOrThere'
    BY <2>1, VoiceValues DEF VoiceInv, HeardOrThere, AttemptsInOrder, VoiceTypes, Coming, Arrived
  <2> QED
    BY <1>2, <2>2, <2>3, <2>4, SeatlessKeeps DEF VoiceInv
<1> QED
  BY <1>1, <1>2 DEF HearEnd

(* The invariant of join, leave and the attempts of voice.rs: seat, call and *)
(* room are those of the last attempt, or a last word is still to be heard.  *)
THEOREM VoiceInvariant == VoiceSpec => []VoiceInv
<1>1. VoiceInit => VoiceInv
  BY VoiceValues DEF VoiceInit, VoiceInv, VoiceTypes, AttemptsInOrder, HeardOrThere, SeatOfTheLast,
    LastIsHeld, Phase, Arrived, Coming, Attempt
<1>2. VoiceInv /\ [VoiceNext]_voiceVars => VoiceInv'
  <2> SUFFICES ASSUME VoiceInv, [VoiceNext]_voiceVars
               PROVE  VoiceInv'
    OBVIOUS
  <2>1. CASE UNCHANGED voiceVars
    BY <2>1 DEF voiceVars, roomVars, stateVars, VoiceInv, VoiceTypes, AttemptsInOrder, HeardOrThere,
      SeatOfTheLast, LastIsHeld
  <2>2. CASE \E c \in Channel : Join(c)
    BY <2>2, JoinKeeps
  <2>3. CASE Leave \/ ClickVoice \/ Ends
    BY <2>3, LeaveKeeps, VoiceClickKeeps, EndsKeeps
  <2>4. CASE \E m \in mutes : MuteTask(m)
    BY <2>4, MuteKeeps
  <2>5. CASE \E a \in Attempt : Steps(a)
    BY <2>5, AsksKeeps, AdmitsKeeps, RefusesKeeps, LooksKeeps, InsideKeeps, HoldsKeeps,
      MicOpensKeeps, MicStartsKeeps, MicHeldKeeps, ToldKeeps DEF Steps
  <2>6. CASE \E a \in Attempt : HungUp(a) \/ HearMine(a) \/ HearEnd(a)
    BY <2>6, HungUpKeeps, HearMineKeeps, HearEndKeeps
  <2> QED
    BY <2>1, <2>2, <2>3, <2>4, <2>5, <2>6 DEF VoiceNext
<1> QED
  BY <1>1, <1>2, PTL DEF VoiceSpec

(***************************************************************************)
(* Whatever the clicks, the kicks and the failures, the bar connects only   *)
(* while the last attempt is on its way to the channel it shows.            *)
(***************************************************************************)
THEOREM ConnectingIsOnItsWay == VoiceSpec => []ConnectingHasATask
<1>1. VoiceInv => ConnectingHasATask
  BY VoiceValues DEF VoiceInv, ConnectingHasATask, SeatOfTheLast, AttemptsInOrder, Running, Attempt
<1> QED
  BY <1>1, VoiceInvariant, PTL

(***************************************************************************)
(* Once everything is answered and heard, a person with a seat is in a room *)
(* of that channel, holds its call, and is in no other.                     *)
(***************************************************************************)
THEOREM SeatedIsThere == VoiceSpec => []SeatedIsConnected
<1>1. VoiceInv => SeatedIsConnected
  <2> SUFFICES ASSUME VoiceInv, Rest, seat /= None
               PROVE  call /= 0 /\ chan[call] = seat /\ inside /\ room = call
    BY DEF SeatedIsConnected
  <2>1. begun \in Attempt /\ seat = chan[begun] /\ task[begun] /= "idle"
    BY VoiceValues DEF VoiceInv, SeatOfTheLast, AttemptsInOrder, Attempt
  <2>2. task[begun] = "done"
    BY <2>1 DEF Rest, Running
  <2>3. inside /\ call = begun
    BY <2>1, <2>2 DEF VoiceInv, LastIsHeld, Rest, Arrived
  <2>4. call \in listens /\ said[call] = None
    BY <2>1, <2>3, VoiceValues DEF VoiceInv, AttemptsInOrder, Rest
  <2> QED
    BY <2>1, <2>3, <2>4, VoiceValues DEF VoiceInv, HeardOrThere
<1> QED
  BY <1>1, VoiceInvariant, PTL

-----------------------------------------------------------------------------
(* The values of the calls *)

(* What is said of each room, and done to it. *)
RoomTypes ==
  /\ prev \in [Attempt -> 0..MaxJoins]
  /\ wants \in [Attempt -> BOOLEAN]
  /\ mic \in [Attempt -> {"none", "open", "muted"}]
  /\ said \in [Attempt -> {None, "replaced", "kicked", "moved"}]
  /\ retry \subseteq Attempt /\ news \subseteq Attempt /\ hanging \subseteq Attempt
  /\ mutes \subseteq Attempt \X BOOLEAN
  /\ room \in 0..MaxJoins

(* What the person is shown. *)
ShownTypes ==
  /\ status \in {None, "connecting", "connected"}
  /\ inside \in BOOLEAN /\ micOpening \in BOOLEAN
  /\ mine \in {"nothing", "silent", "open", "muted"}
  /\ atRest \in BOOLEAN /\ deafened \in BOOLEAN /\ before \in BOOLEAN

(* A microphone speaks to a room only while a call is held. *)
DeviceTypes ==
  /\ happened \in 0..MaxEvents
  /\ device \in 0..MaxJoins /\ (device /= 0 => call /= 0)

CallTypes == RoomTypes /\ ShownTypes /\ DeviceTypes

LEMMA AttemptValues ==
  /\ MaxJoins \in Nat /\ MaxEvents \in Nat /\ 0 \in 0..MaxJoins /\ 0 \in 0..MaxEvents
  /\ \A a \in Attempt : a \in 0..MaxJoins /\ a /= 0
  /\ \A r \in 0..MaxJoins : r /= 0 => r \in Attempt
  /\ \A h \in 0..MaxEvents : h < MaxEvents => h + 1 \in 0..MaxEvents
BY VoiceAssumption DEF Attempt

LEMMA ShownMoves ==
  ASSUME ShownTypes
  PROVE  /\ Seatless => ShownTypes'
         /\ \A c : Connecting(c) => ShownTypes'
<1>1. Seatless => ShownTypes'
  BY DEF ShownTypes, Seatless, VoiceLeft
<1>2. \A c : Connecting(c) => ShownTypes'
  BY DEF ShownTypes, Connecting, VoiceLeft
<1> QED  BY <1>1, <1>2

LEMMA DroppedTypes ==
  ASSUME VoiceTypes, CallTypes, Dropped
  PROVE  hanging' \subseteq Attempt /\ device' \in 0..MaxJoins /\ (device' /= 0 => call' /= 0)
BY AttemptValues DEF VoiceTypes, CallTypes, RoomTypes, Dropped

LEMMA VoiceClickTypes ==
  ASSUME VoiceTypes, CallTypes,
         (\E c \in Channel : Join(c)) \/ Leave \/ ClickVoice
  PROVE  CallTypes'
<1>1. ASSUME NEW c \in Channel, Join(c)
      PROVE  CallTypes'
  <2>1. Begins(c, call) /\ Connecting(c) /\ Dropped
        /\ UNCHANGED <<wants, retry, room, mic, news, said, listens, mutes, happened>>
    BY <1>1 DEF Join, Begins
  <2>2. prev' \in [Attempt -> 0..MaxJoins]
    BY <2>1 DEF Begins, CallTypes, RoomTypes, VoiceTypes
  <2>3. RoomTypes'
    BY <2>1, <2>2, DroppedTypes DEF CallTypes, RoomTypes
  <2> QED  BY <2>1, <2>3, DroppedTypes, ShownMoves DEF CallTypes, DeviceTypes
<1>2. CASE Leave
  <2>1. Dropped /\ Seatless
        /\ UNCHANGED <<prev, wants, retry, room, mic, news, said, mutes, happened>>
    BY <1>2 DEF Leave
  <2>2. RoomTypes'
    BY <2>1, DroppedTypes DEF CallTypes, RoomTypes
  <2> QED  BY <2>1, <2>2, DroppedTypes, ShownMoves DEF CallTypes, DeviceTypes
<1>3. ASSUME ClickVoice, UNCHANGED <<call, device>>, RoomTypes', ShownTypes'
      PROVE  CallTypes'
  BY <1>3, AttemptValues DEF ClickVoice, CallTypes, DeviceTypes
<1>4. ASSUME NEW muted \in BOOLEAN, Tell(muted), call /= 0
      PROVE  mutes' \subseteq Attempt \X BOOLEAN
  BY <1>4, AttemptValues DEF Tell, CallTypes, RoomTypes, VoiceTypes
<1>5. CASE ClickVoice /\ OpensAgain
  <2>1. RoomTypes'
    BY <1>5, AttemptValues DEF OpensAgain, CallTypes, RoomTypes, VoiceTypes, ShownTypes
  <2>2. ShownTypes'
    BY <1>5 DEF OpensAgain, CallTypes, ShownTypes
  <2> QED  BY <1>3, <1>5, <2>1, <2>2 DEF OpensAgain
<1>6. CASE ClickVoice /\ Mutes
  <2>1. mutes' \subseteq Attempt \X BOOLEAN
    BY <1>4, <1>6 DEF Mutes, CallTypes, RoomTypes
  <2>2. RoomTypes'
    BY <1>6, <2>1 DEF Mutes, roomVars, CallTypes, RoomTypes
  <2>3. ShownTypes'
    BY <1>6 DEF Mutes, CallTypes, ShownTypes
  <2> QED  BY <1>3, <1>6, <2>2, <2>3 DEF Mutes
<1>7. CASE ClickVoice /\ Deafens
  <2>1. (deafened' \/ before) \in BOOLEAN
    OBVIOUS
  <2>2. mutes' \subseteq Attempt \X BOOLEAN
    BY <1>4, <1>7, <2>1 DEF Deafens, CallTypes, RoomTypes
  <2>3. RoomTypes'
    BY <1>7, <2>2 DEF Deafens, roomVars, CallTypes, RoomTypes
  <2>4. ShownTypes'
    BY <1>7 DEF Deafens, CallTypes, ShownTypes
  <2> QED  BY <1>3, <1>7, <2>3, <2>4 DEF Deafens
<1> QED  BY <1>1, <1>2, <1>5, <1>6, <1>7 DEF ClickVoice

(* A room says its last word, and its microphone falls silent. *)
LEMMA LastWordTypes ==
  ASSUME RoomTypes, NEW word \in {"replaced", "kicked", "moved"}, LastWord(word)
  PROVE  /\ said' \in [Attempt -> {None, "replaced", "kicked", "moved"}]
         /\ mic' \in [Attempt -> {"none", "open", "muted"}]
BY DEF LastWord, RoomTypes

LEMMA VoiceTaskTypes ==
  ASSUME VoiceTypes, CallTypes, NEW a \in Attempt, Steps(a)
  PROVE  CallTypes'
<1>1. CASE Asks(a)
  BY <1>1, AttemptValues DEF Asks, CallTypes, RoomTypes, ShownTypes, DeviceTypes, stateVars
<1>2. CASE Admits(a)
  <2>1. room' \in 0..MaxJoins
    BY <1>2, AttemptValues DEF Admits
  <2>2. RoomTypes'
    BY <1>2, <2>1, LastWordTypes DEF Admits, CallTypes, RoomTypes
  <2> QED  BY <1>2, <2>2 DEF Admits, CallTypes, ShownTypes, DeviceTypes, stateVars
<1>3. CASE Refuses(a)
  BY <1>3 DEF Refuses, CallTypes, RoomTypes, ShownTypes, DeviceTypes, stateVars, roomVars
<1>4. CASE Looks(a)
  <2>1. hanging' \subseteq Attempt /\ said' \in [Attempt -> {None, "replaced", "kicked", "moved"}]
    BY <1>4 DEF Looks, CallTypes, RoomTypes
  <2>2. RoomTypes'
    BY <1>4, <2>1 DEF Looks, CallTypes, RoomTypes
  <2>3. ShownTypes'
    BY <1>4, ShownMoves DEF Looks, Fails, stateVars, CallTypes, ShownTypes
  <2> QED  BY <1>4, <2>2, <2>3 DEF Looks, CallTypes, DeviceTypes
<1>5. CASE Inside(a)
  BY <1>5 DEF Inside, CallTypes, RoomTypes, ShownTypes, DeviceTypes, roomVars
<1>6. CASE HoldsCall(a)
  <2>1. RoomTypes'
    BY <1>6 DEF HoldsCall, CallTypes, RoomTypes, ShownTypes
  <2>2. DeviceTypes'
    BY <1>6, AttemptValues DEF HoldsCall, CallTypes, DeviceTypes
  <2> QED  BY <1>6, <2>1, <2>2 DEF HoldsCall, CallTypes, ShownTypes, stateVars
<1>7. CASE MicOpens(a)
  BY <1>7 DEF MicOpens, CallTypes, RoomTypes, ShownTypes, DeviceTypes, stateVars
<1>8. CASE MicStarts(a)
  <2>1. mic' \in [Attempt -> {"none", "open", "muted"}]
    BY <1>8 DEF MicStarts, CallTypes, RoomTypes
  <2>2. RoomTypes'
    BY <1>8, <2>1 DEF MicStarts, CallTypes, RoomTypes
  <2> QED  BY <1>8, <2>2 DEF MicStarts, CallTypes, ShownTypes, DeviceTypes, stateVars
<1>9. CASE MicHeld(a)
  <2>1. DeviceTypes'
    BY <1>9, AttemptValues DEF MicHeld, CallTypes, DeviceTypes
  <2> QED  BY <1>9, <2>1 DEF MicHeld, CallTypes, RoomTypes, ShownTypes, stateVars, roomVars
<1>10. CASE Told(a)
  BY <1>10 DEF Told, CallTypes, RoomTypes, ShownTypes, DeviceTypes
<1> QED
  BY <1>1, <1>2, <1>3, <1>4, <1>5, <1>6, <1>7, <1>8, <1>9, <1>10 DEF Steps

LEMMA VoiceRoomTypes ==
  ASSUME VoiceTypes, CallTypes,
         \/ Ends \/ \E m \in mutes : MuteTask(m)
         \/ \E a \in Attempt : HungUp(a) \/ HearMine(a) \/ HearEnd(a)
  PROVE  CallTypes'
<1>1. CASE Ends
  <2>1. happened' \in 0..MaxEvents /\ room' \in 0..MaxJoins
    BY <1>1, AttemptValues DEF Ends, CallTypes, DeviceTypes
  <2>2. RoomTypes'
    BY <1>1, <2>1, LastWordTypes DEF Ends, CallTypes, RoomTypes
  <2> QED  BY <1>1, <2>1, <2>2 DEF Ends, CallTypes, ShownTypes, DeviceTypes, stateVars
<1>2. ASSUME NEW m \in mutes, MuteTask(m)
      PROVE  CallTypes'
  <2>1. m \in Attempt \X BOOLEAN
    BY DEF CallTypes, RoomTypes
  <2>2. RoomTypes'
    BY <1>2, <2>1 DEF MuteTask, CallTypes, RoomTypes
  <2> QED  BY <1>2, <2>2 DEF MuteTask, CallTypes, ShownTypes, DeviceTypes, stateVars
<1>3. ASSUME NEW a \in Attempt, HungUp(a)
      PROVE  CallTypes'
  <2>1. RoomTypes'
    BY <1>3, AttemptValues DEF HungUp, CallTypes, RoomTypes
  <2> QED  BY <1>3, <2>1 DEF HungUp, CallTypes, ShownTypes, DeviceTypes, stateVars
<1>4. ASSUME NEW a \in Attempt, HearMine(a)
      PROVE  CallTypes'
  <2>1. ShownTypes'
    BY <1>4 DEF HearMine, CallTypes, RoomTypes, ShownTypes
  <2> QED  BY <1>4, <2>1 DEF HearMine, CallTypes, RoomTypes, DeviceTypes
<1>5. ASSUME NEW a \in Attempt, HearEnd(a)
      PROVE  CallTypes'
  <2>1. Dropped
    BY <1>5 DEF HearEnd, Begins
  <2>2. /\ said' \in [Attempt -> {None, "replaced", "kicked", "moved"}]
        /\ news' \subseteq Attempt
    BY <1>5 DEF HearEnd, CallTypes, RoomTypes
  <2>3. prev' \in [Attempt -> 0..MaxJoins]
    BY <1>5, AttemptValues DEF HearEnd, Begins, CallTypes, RoomTypes
  <2>4. RoomTypes'
    BY <1>5, <2>1, <2>2, <2>3, DroppedTypes DEF HearEnd, CallTypes, RoomTypes
  <2>5. ShownTypes'
    BY <1>5, ShownMoves DEF HearEnd, CallTypes
  <2>6. happened' = happened
    BY <1>5 DEF HearEnd
  <2> QED  BY <2>1, <2>4, <2>5, <2>6, DroppedTypes DEF CallTypes, DeviceTypes
<1> QED  BY <1>1, <1>2, <1>3, <1>4, <1>5

(***************************************************************************)
(* voice.rs: the tasks of the attempts, the rooms and the clicks leave each *)
(* field a value of its own, and a microphone is held only beside a call.   *)
(***************************************************************************)
THEOREM VoiceTypesHold == VoiceSpec => []VoiceTypeOK
<1>1. VoiceInit => CallTypes
  BY AttemptValues DEF VoiceInit, CallTypes, RoomTypes, ShownTypes, DeviceTypes
<1>2. VoiceInv /\ CallTypes /\ [VoiceNext]_voiceVars => CallTypes'
  <2> SUFFICES ASSUME VoiceInv, CallTypes, [VoiceNext]_voiceVars PROVE CallTypes'
    OBVIOUS
  <2>1. VoiceTypes
    BY DEF VoiceInv
  <2>2. CASE UNCHANGED voiceVars
    BY <2>2 DEF voiceVars, roomVars, stateVars, CallTypes, RoomTypes, ShownTypes, DeviceTypes
  <2> QED  BY <2>1, <2>2, VoiceClickTypes, VoiceTaskTypes, VoiceRoomTypes DEF VoiceNext
<1>3. VoiceInv /\ CallTypes => VoiceTypeOK
  BY DEF VoiceInv, VoiceTypes, CallTypes, RoomTypes, ShownTypes, DeviceTypes, VoiceTypeOK
<1> QED  BY <1>1, <1>2, <1>3, VoiceInvariant, PTL DEF VoiceSpec

-----------------------------------------------------------------------------
(* The session of a device *)

(* What a message, a socket and the seat may be. *)
SessionShapes ==
  /\ dialled \in 0..MaxSockets /\ seated \in Nat
  /\ DOMAIN stage = Device /\ DOMAIN reply = Device /\ DOMAIN resumeKey = Device
  /\ DOMAIN leaving = Device /\ current \in [Device -> 0..MaxSockets]
  /\ leaveOn \in [Device -> 0..MaxSockets] /\ peerOf \in [ClientSocket -> Nat]
  /\ place \in [id: Nat, sock: Nat, orphan: BOOLEAN]
  /\ \A a \in joins : a.dev \in Device /\ a.sock \in ClientSocket
  /\ heard \cup served \subseteq ClientSocket

(* A socket is numbered when it is dialled, for one device; and a session   *)
(* waits for an answer only between asking to join and being in.            *)
SocketsAreOwned ==
  /\ \A s \in ClientSocket : s > dialled => peerOf[s] = 0 /\ s \notin heard \cup served
  /\ \A d \in Device : current[d] <= dialled /\ leaveOn[d] <= dialled
  /\ \A d, e \in Device : d /= e /\ current[d] /= 0 => current[d] \notin {current[e], leaveOn[e]}
  /\ \A d \in Device : reply[d] /= "none" => stage[d] \in {"joining", "resuming", "entering"}

(* A socket of the server that has a peer has the seat, and nobody else is  *)
(* in it; the peer of the seat is the one of its socket.                    *)
SeatIsHeld ==
  /\ \A s \in served : peerOf[s] /= 0 =>
       place.id = peerOf[s] /\ place.sock = s /\ ~place.orphan
  /\ place.id /= 0 => place.sock \in ClientSocket /\ peerOf[place.sock] = place.id

(* Whoever was let in, and did not leave, has a peer, and knows it. *)
EntrantsHavePeers ==
  \A d \in Device : leaving[d] = "no" =>
    /\ reply[d] = "accepted" => current[d] \in ClientSocket /\ peerOf[current[d]] /= 0
    /\ stage[d] = "forward" /\ current[d] \in heard \cap served =>
         peerOf[current[d]] = resumeKey[d] /\ resumeKey[d] /= 0

SessionInv == SessionShapes /\ SocketsAreOwned /\ SeatIsHeld /\ EntrantsHavePeers

LEMMA SessionValues ==
  /\ MaxSockets \in Nat /\ 0 \notin ClientSocket /\ \A s \in ClientSocket : s \in 0..MaxSockets /\ s \in Nat
  /\ \A n \in 0..MaxSockets : n \in Nat /\ (n /= 0 => n \in ClientSocket)
  /\ \A n \in 0..MaxSockets : n < MaxSockets => n + 1 \in ClientSocket /\ n + 1 \in 0..MaxSockets
  /\ \A n \in 0..MaxSockets : ~(n + 1 <= n)
BY SessionAssumption DEF ClientSocket

(* A socket is dialled. *)
LEMMA DialsKeeps ==
  ASSUME SessionInv, NEW d \in Device, Dials(d)
  PROVE  SessionInv'
<1> USE SessionValues DEF SessionInv, Dials, Moves, clientVars, leaveVars, seatVars, sockVars
<1>1. SessionShapes'
  BY DEF SessionShapes
<1>2. SocketsAreOwned'
  BY DEF SocketsAreOwned, SessionShapes
<1>3. SeatIsHeld'
  BY DEF SeatIsHeld, SessionShapes, SocketsAreOwned
<1>4. EntrantsHavePeers'
  BY DEF EntrantsHavePeers, SessionShapes, SocketsAreOwned, SeatIsHeld
<1> QED
  BY <1>1, <1>2, <1>3, <1>4

(* The server is asked to join. *)
LEMMA SendsJoinKeeps ==
  ASSUME SessionInv, NEW d \in Device, SendsJoin(d)
  PROVE  SessionInv'
<1> USE SessionValues DEF SessionInv, SendsJoin, clientVars, leaveVars, seatVars, sockVars
<1>1. SessionShapes'
  BY DEF SessionShapes
<1>2. SocketsAreOwned'
  BY DEF SocketsAreOwned, SessionShapes
<1>3. SeatIsHeld'
  BY DEF SeatIsHeld, SessionShapes, SocketsAreOwned
<1>4. EntrantsHavePeers'
  BY DEF EntrantsHavePeers, SessionShapes, SocketsAreOwned, SeatIsHeld
<1> QED
  BY <1>1, <1>2, <1>3, <1>4

(* The server let the device in. *)
LEMMA HearsJoinKeeps ==
  ASSUME SessionInv, NEW d \in Device, HearsJoin(d)
  PROVE  SessionInv'
<1> USE SessionValues DEF SessionInv, HearsJoin, Moves, clientVars, leaveVars, seatVars, sockVars
<1>1. SessionShapes'
  BY DEF SessionShapes
<1>2. SocketsAreOwned'
  BY DEF SocketsAreOwned, SessionShapes
<1>3. SeatIsHeld'
  BY DEF SeatIsHeld, SessionShapes, SocketsAreOwned
<1>4. EntrantsHavePeers'
  BY DEF EntrantsHavePeers, SessionShapes, SocketsAreOwned, SeatIsHeld
<1> QED
  BY <1>1, <1>2, <1>3, <1>4

(* The server did not, or not in time. *)
LEMMA JoinFailsKeeps ==
  ASSUME SessionInv, NEW d \in Device, JoinFails(d)
  PROVE  SessionInv'
<1> USE SessionValues DEF SessionInv, JoinFails, Moves, AfterRefusal, Trouble, clientVars, leaveVars, seatVars, sockVars
<1>1. SessionShapes'
  BY DEF SessionShapes
<1>2. SocketsAreOwned'
  BY DEF SocketsAreOwned, SessionShapes
<1>3. SeatIsHeld'
  BY DEF SeatIsHeld, SessionShapes, SocketsAreOwned
<1>4. EntrantsHavePeers'
  BY DEF EntrantsHavePeers, SessionShapes, SocketsAreOwned, SeatIsHeld
<1> QED
  BY <1>1, <1>2, <1>3, <1>4

(* The device hears that it was dismissed. *)
LEMMA DismissalKeeps ==
  ASSUME SessionInv, NEW d \in Device, HearsDismissal(d)
  PROVE  SessionInv'
<1> USE SessionValues DEF SessionInv, HearsDismissal, clientVars, leaveVars, seatVars, sockVars
<1>1. SessionShapes'
  BY DEF SessionShapes
<1>2. SocketsAreOwned'
  BY DEF SocketsAreOwned, SessionShapes
<1>3. SeatIsHeld'
  BY DEF SeatIsHeld, SessionShapes, SocketsAreOwned
<1>4. EntrantsHavePeers'
  BY DEF EntrantsHavePeers, SessionShapes, SocketsAreOwned, SeatIsHeld
<1> QED
  BY <1>1, <1>2, <1>3, <1>4

(* The session stops forwarding, or wakes. *)
LEMMA ForwardKeeps ==
  ASSUME SessionInv, NEW d \in Device, LosesSocket(d) \/ Beats(d) \/ Wakes(d)
  PROVE  SessionInv'
<1> USE SessionValues DEF SessionInv, LosesSocket, Beats, Wakes, Moves, Trouble, clientVars, leaveVars, seatVars, sockVars
<1>1. SessionShapes'
  BY DEF SessionShapes
<1>2. SocketsAreOwned'
  BY DEF SocketsAreOwned, SessionShapes
<1>3. SeatIsHeld'
  BY DEF SeatIsHeld, SessionShapes, SocketsAreOwned
<1>4. EntrantsHavePeers'
  BY DEF EntrantsHavePeers, SessionShapes, SocketsAreOwned, SeatIsHeld
<1> QED
  BY <1>1, <1>2, <1>3, <1>4

(* The person leaves. *)
LEMMA BeginsLeaveKeeps ==
  ASSUME SessionInv, NEW d \in Device, BeginsLeave(d)
  PROVE  SessionInv'
<1> USE SessionValues DEF SessionInv, BeginsLeave, Trouble, clientVars, leaveVars, seatVars, sockVars
<1>1. SessionShapes'
  BY DEF SessionShapes
<1>2. SocketsAreOwned'
  BY DEF SocketsAreOwned, SessionShapes
<1>3. SeatIsHeld'
  BY DEF SeatIsHeld, SessionShapes, SocketsAreOwned
<1>4. EntrantsHavePeers'
  BY DEF EntrantsHavePeers, SessionShapes, SocketsAreOwned, SeatIsHeld
<1> QED
  BY <1>1, <1>2, <1>3, <1>4

(* The server takes the peer out. *)
LEMMA ServerLeavesKeeps ==
  ASSUME SessionInv, NEW d \in Device, ServerLeaves(d)
  PROVE  SessionInv'
<1> USE SessionValues DEF SessionInv, ServerLeaves, NoSeat, clientVars, leaveVars, seatVars, sockVars
<1>1. SessionShapes'
  BY DEF SessionShapes
<1>2. SocketsAreOwned'
  BY DEF SocketsAreOwned, SessionShapes
<1>3. SeatIsHeld'
  BY DEF SeatIsHeld, SessionShapes, SocketsAreOwned
<1>4. EntrantsHavePeers'
  BY DEF EntrantsHavePeers, SessionShapes, SocketsAreOwned, SeatIsHeld
<1> QED
  BY <1>1, <1>2, <1>3, <1>4

(* The socket is closed. *)
LEMMA EndsLeaveKeeps ==
  ASSUME SessionInv, NEW d \in Device, EndsLeave(d)
  PROVE  SessionInv'
<1> USE SessionValues DEF SessionInv, EndsLeave, clientVars, leaveVars, seatVars, sockVars
<1>1. SessionShapes'
  BY DEF SessionShapes
<1>2. SocketsAreOwned'
  BY DEF SocketsAreOwned, SessionShapes
<1>3. SeatIsHeld'
  BY DEF SeatIsHeld, SessionShapes, SocketsAreOwned
<1>4. EntrantsHavePeers'
  BY DEF EntrantsHavePeers, SessionShapes, SocketsAreOwned, SeatIsHeld
<1> QED
  BY <1>1, <1>2, <1>3, <1>4

(* Either end loses the socket. *)
LEMMA LosesKeeps ==
  ASSUME SessionInv, NEW s \in ClientSocket, ClientLoses(s) \/ ServerLoses(s)
  PROVE  SessionInv'
<1> USE SessionValues DEF SessionInv, ClientLoses, ServerLoses, Trouble, clientVars, leaveVars, seatVars, sockVars
<1>1. SessionShapes'
  BY DEF SessionShapes
<1>2. SocketsAreOwned'
  BY DEF SocketsAreOwned, SessionShapes
<1>3. SeatIsHeld'
  BY DEF SeatIsHeld, SessionShapes, SocketsAreOwned
<1>4. EntrantsHavePeers'
  BY DEF EntrantsHavePeers, SessionShapes, SocketsAreOwned, SeatIsHeld
<1> QED
  BY <1>1, <1>2, <1>3, <1>4

(* The seat is taken away. *)
LEMMA SeatGoesKeeps ==
  ASSUME SessionInv, GraceExpires \/ KicksOut
  PROVE  SessionInv'
<1> USE SessionValues DEF SessionInv, GraceExpires, KicksOut, NoSeat, Trouble, clientVars, leaveVars, seatVars, sockVars
<1>1. SessionShapes'
  <2>0. NoSeat \in [id: Nat, sock: Nat, orphan: BOOLEAN]
    BY DEF NoSeat
  <2>1. place' = NoSeat /\ served' \subseteq served
    OBVIOUS
  <2>2. UNCHANGED <<dialled, seated, clientVars, leaveVars, reply, joins, heard, peerOf>>
    OBVIOUS
  <2> QED
    BY <2>0, <2>1, <2>2 DEF SessionShapes
<1>2. SocketsAreOwned'
  BY DEF SocketsAreOwned, SessionShapes
<1>3. SeatIsHeld'
  BY DEF SeatIsHeld, SessionShapes, SocketsAreOwned
<1>4. EntrantsHavePeers'
  BY DEF EntrantsHavePeers, SessionShapes, SocketsAreOwned, SeatIsHeld
<1> QED
  BY <1>1, <1>2, <1>3, <1>4

(* A join reaches no one, or is refused. *)
LEMMA JoinRefusedKeeps ==
  ASSUME SessionInv, NEW a \in joins, joins' = joins \ {a}, reply' = reply \/ Replies(a, "refused"),
         UNCHANGED <<clientVars, leaveVars, heard, dialled, served, seatVars>>
  PROVE  SessionInv'
<1> USE SessionValues DEF SessionInv, Replies, clientVars, leaveVars, seatVars, sockVars
<1>1. SessionShapes'
  BY DEF SessionShapes
<1>2. SocketsAreOwned'
  BY DEF SocketsAreOwned, SessionShapes
<1>3. SeatIsHeld'
  BY DEF SeatIsHeld, SessionShapes, SocketsAreOwned
<1>4. EntrantsHavePeers'
  BY DEF EntrantsHavePeers, SessionShapes, SocketsAreOwned, SeatIsHeld
<1> QED
  BY <1>1, <1>2, <1>3, <1>4

(* A join is let in, in the place of whoever had the seat. *)
LEMMA JoinAcceptedKeeps ==
  ASSUME SessionInv, NEW a \in joins, joins' = joins \ {a}, a.sock \in served, peerOf[a.sock] = 0,
         Resumed(a) \/ Entered(a), Replies(a, "accepted"),
         UNCHANGED <<clientVars, leaveVars, heard, dialled>>
  PROVE  SessionInv'
<1> USE SessionValues DEF SessionInv, clientVars, leaveVars
<1> DEFINE Seats == [id: Nat, sock: Nat, orphan: BOOLEAN]
<1>1. a.sock \in ClientSocket /\ a.sock \in Nat /\ a.dev \in Device
  BY DEF SessionShapes
<1>2. /\ seated' \in Nat /\ place' \in Seats /\ served' \subseteq served
      /\ place'.id \in Nat \ {0} /\ place'.sock = a.sock /\ place'.orphan = FALSE
      /\ peerOf' = [peerOf EXCEPT ![a.sock] = place'.id]
  <2>1. CASE Resumed(a)
    <3>1. place' = [id |-> place.id, sock |-> a.sock, orphan |-> FALSE]
      BY <2>1 DEF Resumed, SessionShapes
    <3> QED
      BY <1>1, <2>1, <3>1 DEF Resumed, SessionShapes
  <2>2. CASE Entered(a)
    BY <1>1, <2>2 DEF Entered, SessionShapes
  <2> QED
    BY <2>1, <2>2
<1>3. \A s \in served' : s /= a.sock => peerOf[s] = 0
  BY DEF SeatIsHeld, Resumed, Entered
<1>4. DOMAIN reply' = Device /\ \A d \in Device :
        reply'[d] /= reply[d] => /\ reply'[d] = "accepted" /\ reply[d] = "awaited"
                                 /\ current[d] = a.sock
  BY <1>1 DEF Replies, SessionShapes
<1> HIDE DEF Seats
<1>5. SessionShapes'
  BY <1>1, <1>2, <1>4 DEF SessionShapes, Seats
<1>6. SocketsAreOwned'
  BY <1>1, <1>2, <1>4 DEF SocketsAreOwned, SessionShapes
<1>7. SeatIsHeld'
  BY <1>1, <1>2, <1>3 DEF SeatIsHeld, SessionShapes
<1>8. EntrantsHavePeers'
  BY <1>1, <1>2, <1>4 DEF EntrantsHavePeers, SessionShapes
<1> QED
  BY <1>5, <1>6, <1>7, <1>8

(* The invariant of session.rs and of the seat in Room.ts: a socket that has a *)
(* peer has the seat, and whoever was let in has that peer.                    *)
THEOREM SessionInvariant == SessionSpec => []SessionInv
<1>1. SessionInit => SessionInv
  BY SessionValues DEF SessionInit, SessionInv, SessionShapes, SocketsAreOwned, SeatIsHeld,
    EntrantsHavePeers, NoSeat
<1>2. SessionInv /\ [SessionNext]_sessionVars => SessionInv'
  <2> SUFFICES ASSUME SessionInv, [SessionNext]_sessionVars
               PROVE  SessionInv'
    OBVIOUS
  <2>1. CASE UNCHANGED sessionVars
    BY <2>1 DEF sessionVars, SessionInv, SessionShapes, SocketsAreOwned, SeatIsHeld,
      EntrantsHavePeers
  <2>2. CASE \E d \in Device :
               Dials(d) \/ SendsJoin(d) \/ HearsJoin(d) \/ JoinFails(d) \/ HearsDismissal(d)
    BY <2>2, DialsKeeps, SendsJoinKeeps, HearsJoinKeeps, JoinFailsKeeps, DismissalKeeps
  <2>3. CASE \E d \in Device :
               \/ LosesSocket(d) \/ Beats(d) \/ Wakes(d)
               \/ BeginsLeave(d) \/ ServerLeaves(d) \/ EndsLeave(d)
    BY <2>3, ForwardKeeps, BeginsLeaveKeeps, ServerLeavesKeeps, EndsLeaveKeeps
  <2>4. CASE \E a \in joins : ServerJoins(a)
    <3>1. PICK a \in joins : ServerJoins(a)
      BY <2>4
    <3> QED
      BY <3>1, JoinRefusedKeeps, JoinAcceptedKeeps DEF ServerJoins
  <2>5. CASE (\E s \in ClientSocket : ClientLoses(s) \/ ServerLoses(s)) \/ GraceExpires \/ KicksOut
    BY <2>5, LosesKeeps, SeatGoesKeeps
  <2> QED
    BY <2>1, <2>2, <2>3, <2>4, <2>5 DEF SessionNext
<1> QED
  BY <1>1, <1>2, PTL DEF SessionSpec

(***************************************************************************)
(* Through lost sockets, late answers, a second device and joins that were  *)
(* given up: a session that believes itself in, on a socket both ends hold, *)
(* has the seat of the account, on that socket.                             *)
(***************************************************************************)
THEOREM SessionSitsWhereItBelieves == SessionSpec => []SessionIsSeated
<1>1. SessionInv => SessionIsSeated
  BY DEF SessionInv, SessionIsSeated, EntrantsHavePeers, SeatIsHeld
<1> QED
  BY <1>1, SessionInvariant, PTL

-----------------------------------------------------------------------------
(* The values of the session *)

(* What is answered to a session, asked and read is of sockets and peers     *)
(* that there were.                                                         *)
NumbersTypes ==
  /\ stage \in [Device -> Stages]
  /\ \A d \in Device : stage[d] /= "out" => current[d] /= 0
  /\ hasLeft \in [Device -> BOOLEAN]
  /\ \A d \in Device : resumeKey[d] \in 0..seated
  /\ \A s \in ClientSocket : peerOf[s] \in 0..seated
  /\ \A a \in joins : a \in JoinAsk /\ a.key <= seated
  /\ dismissed \subseteq 1..dialled
  /\ place.id \in 0..seated

(* Who was refused as often as it may be gave up. *)
Tries ==
  /\ attempts \in [Device -> 0..MaxAttempts]
  /\ \A d \in Device : attempts[d] = MaxAttempts => stage[d] = "ended"

SessionNumbers == NumbersTypes /\ Tries

LEMMA NumberValues ==
  /\ MaxSockets \in Nat /\ MaxAttempts \in Nat /\ MaxAttempts > 0
  /\ \A s \in ClientSocket : s \in Nat /\ s >= 1
  /\ "ended" \in Stages /\ "asleep" \in Stages /\ "forward" \in Stages /\ "dialling" \in Stages
  /\ "joining" \in Stages /\ "resuming" \in Stages /\ "entering" \in Stages /\ "failed" \in Stages
BY SessionAssumption DEF ClientSocket, Stages

(* Nothing is numbered; some sessions go on, none of them past its end. *)
LEMMA SessionGoesOn ==
  ASSUME SessionInv, SessionNumbers, NEW d \in Device,
         \A e \in Device \ {d} : stage'[e] = stage[e] /\ attempts'[e] = attempts[e],
         stage' \in [Device -> Stages], attempts'[d] \in {0, attempts[d]}, DOMAIN attempts' = DOMAIN attempts,
         attempts' = [e \in DOMAIN attempts' |-> attempts'[e]],
         stage[d] = "ended" => stage'[d] = "ended",
         \/ stage[d] /= "out" /\ current' = current
         \/ stage' = stage /\ current' = current
         \/ current' = [current EXCEPT ![d] = dialled + 1],
         hasLeft' \in [Device -> BOOLEAN],
         seated' = seated, dialled' \in {dialled, dialled + 1},
         \A e \in Device : resumeKey'[e] \in 0..seated,
         \A s \in ClientSocket : peerOf'[s] \in 0..seated,
         joins' \subseteq joins, dismissed' \subseteq dismissed, place'.id \in {0, place.id}
  PROVE  SessionNumbers'
<1>1. seated \in Nat /\ dialled \in Nat /\ DOMAIN current = Device /\ dialled + 1 /= 0
  BY SessionValues DEF SessionInv, SessionShapes
<1>2. stage' \in [Device -> Stages] /\ \A e \in Device : stage'[e] /= "out" => current'[e] /= 0
  BY <1>1 DEF SessionNumbers, NumbersTypes
<1>4. NumbersTypes'
  BY <1>1, <1>2 DEF SessionNumbers, NumbersTypes
<1>3. Tries'
  BY NumberValues DEF SessionNumbers, Tries
<1> QED  BY <1>3, <1>4 DEF SessionNumbers

LEMMA SessionStepsNumbered ==
  ASSUME SessionInv, SessionNumbers, NEW d \in Device,
         \/ Dials(d) \/ HearsJoin(d) \/ HearsDismissal(d) \/ LosesSocket(d) \/ Beats(d)
         \/ Wakes(d) \/ BeginsLeave(d) \/ ServerLeaves(d) \/ EndsLeave(d)
  PROVE  SessionNumbers'
<1> USE DEF clientVars, leaveVars, seatVars, sockVars, Moves
<1>0. /\ DOMAIN stage = Device /\ DOMAIN resumeKey = Device
      /\ attempts \in [Device -> 0..MaxAttempts]
      /\ seated \in Nat /\ stage \in [Device -> Stages]
      /\ \A e \in Device : resumeKey[e] \in 0..seated
      /\ \A s \in ClientSocket : peerOf[s] \in 0..seated
      /\ peerOf \in [ClientSocket -> Nat] /\ hasLeft \in [Device -> BOOLEAN]
  BY DEF SessionInv, SessionShapes, SessionNumbers, NumbersTypes, Tries
<1>1. CASE Dials(d)
  <2>1. stage[d] /= "ended" /\ stage' \in [Device -> Stages]
        /\ \A e \in Device \ {d} : stage'[e] = stage[e]
    BY <1>0, <1>1, NumberValues DEF Dials
  <2>2. UNCHANGED <<hasLeft, resumeKey, attempts, joins, peerOf, dismissed, place, seated>>
        /\ dialled' = dialled + 1 /\ current' = [current EXCEPT ![d] = dialled + 1]
    BY <1>1 DEF Dials
  <2> QED  BY <1>0, <2>1, <2>2, SessionGoesOn
<1>2. CASE HearsJoin(d)
  <2>1. current[d] \in ClientSocket /\ stage[d] \notin {"ended", "out"}
    BY <1>2, SessionValues
       DEF HearsJoin, SessionInv, SessionShapes, SocketsAreOwned, SessionNumbers, NumbersTypes
  <2>2. stage' \in [Device -> Stages] /\ stage'[d] = "forward" /\ \A e \in Device \ {d} : stage'[e] = stage[e]
    BY <1>0, <1>2, NumberValues DEF HearsJoin
  <2>3. \A e \in Device : resumeKey'[e] \in 0..seated
    BY <1>0, <1>2, <2>1 DEF HearsJoin
  <2>4. UNCHANGED <<hasLeft, current, attempts, joins, peerOf, dismissed, place, seated, dialled>>
    BY <1>2 DEF HearsJoin
  <2> QED  BY <1>0, <2>1, <2>2, <2>3, <2>4, NumberValues, SessionGoesOn
<1>3. CASE HearsDismissal(d)
  BY <1>0, <1>3, SessionGoesOn DEF HearsDismissal
<1>4. CASE LosesSocket(d)
  <2>1. stage[d] \notin {"ended", "out"} /\ stage' \in [Device -> Stages]
        /\ \A e \in Device \ {d} : stage'[e] = stage[e]
    BY <1>0, <1>4, NumberValues DEF LosesSocket
  <2>2. attempts' = [attempts EXCEPT ![d] = 0]
        /\ UNCHANGED <<hasLeft, current, resumeKey, joins, peerOf, dismissed, place, seated, dialled>>
    BY <1>4 DEF LosesSocket
  <2> QED  BY <1>0, <2>1, <2>2, SessionGoesOn
<1>5. CASE Beats(d) \/ Wakes(d)
  <2>1. stage[d] \notin {"ended", "out"} /\ stage' \in [Device -> Stages]
        /\ \A e \in Device \ {d} : stage'[e] = stage[e]
    BY <1>0, <1>5, NumberValues DEF Beats, Wakes
  <2>2. UNCHANGED <<hasLeft, current, resumeKey, attempts, joins, peerOf, dismissed, place, seated,
                    dialled>>
    BY <1>5 DEF Beats, Wakes
  <2> QED  BY <1>0, <2>1, <2>2, SessionGoesOn
<1>6. CASE BeginsLeave(d)
  BY <1>0, <1>6, SessionGoesOn DEF BeginsLeave
<1>7. CASE ServerLeaves(d)
  <2>1. \A s \in ClientSocket : peerOf'[s] \in 0..seated
    BY <1>0, <1>7 DEF ServerLeaves
  <2>2. place'.id \in {0, place.id}
    BY <1>7 DEF ServerLeaves, NoSeat
  <2> QED  BY <1>0, <1>7, <2>1, <2>2, SessionGoesOn DEF ServerLeaves
<1>8. CASE EndsLeave(d)
  BY <1>0, <1>8, SessionGoesOn DEF EndsLeave
<1> QED  BY <1>1, <1>2, <1>3, <1>4, <1>5, <1>6, <1>7, <1>8

(* A session asks with the key it has. *)
LEMMA SendsJoinNumbered ==
  ASSUME SessionInv, SessionNumbers, NEW d \in Device, SendsJoin(d)
  PROVE  SessionNumbers'
<1>1. UNCHANGED <<stage, hasLeft, current, resumeKey, attempts, peerOf, dismissed, place, seated, dialled>>
  BY DEF SendsJoin, clientVars, leaveVars, sockVars, seatVars
<1>2. \A a \in joins' : a \in JoinAsk /\ a.key <= seated
  <2>1. CASE current[d] \notin heard
    BY <2>1 DEF SendsJoin, SessionNumbers, NumbersTypes
  <2>2. CASE current[d] \in heard
    <3> DEFINE a == [dev |-> d, sock |-> current[d], resume |-> stage[d] = "resuming", key |-> resumeKey[d]]
    <3>1. current[d] \in ClientSocket /\ resumeKey[d] \in Nat /\ resumeKey[d] <= seated
      BY <2>2 DEF SessionInv, SessionShapes, SessionNumbers, NumbersTypes
    <3>2. a \in JoinAsk /\ a.key <= seated
      BY <3>1 DEF JoinAsk
    <3>3. joins' = joins \cup {a}
      BY <2>2 DEF SendsJoin
    <3> QED  BY <3>2, <3>3 DEF SessionNumbers, NumbersTypes
  <2> QED  BY <2>1, <2>2
<1> QED  BY <1>1, <1>2 DEF SessionNumbers, NumbersTypes, Tries

(* One refusal more: the last one ends the session. *)
LEMMA JoinFailsNumbered ==
  ASSUME SessionInv, SessionNumbers, NEW d \in Device, JoinFails(d)
  PROVE  SessionNumbers'
<1>1. UNCHANGED <<hasLeft, current, resumeKey, joins, peerOf, dismissed, place, seated, dialled>>
  BY DEF JoinFails, leaveVars, sockVars, seatVars
<1>2. stage[d] \in {"joining", "resuming", "entering"} /\ stage \in [Device -> Stages]
  BY DEF JoinFails, SessionInv, SocketsAreOwned, SessionShapes, SessionNumbers, NumbersTypes
<1>3. stage' = [stage EXCEPT ![d] = AfterRefusal(d)]
      /\ attempts' = [attempts EXCEPT ![d] = IF stage[d] = "entering" THEN @ + 1 ELSE @]
  BY DEF JoinFails, Moves
<1>4. attempts[d] \in 0..MaxAttempts /\ attempts[d] /= MaxAttempts
  BY <1>2 DEF SessionNumbers, Tries
<1>5. AfterRefusal(d) \in Stages
      /\ (stage[d] = "entering" /\ attempts[d] + 1 = MaxAttempts => AfterRefusal(d) = "ended")
  BY <1>2, <1>4, NumberValues DEF AfterRefusal
<1>6. stage' \in [Device -> Stages] /\ \A e \in Device : stage'[e] /= "out" => current'[e] /= 0
  BY <1>1, <1>2, <1>3, <1>5 DEF SessionNumbers, NumbersTypes
<1>7. Tries'
  BY <1>2, <1>3, <1>4, <1>5, NumberValues DEF SessionNumbers, Tries
<1> QED  BY <1>1, <1>6, <1>7 DEF SessionNumbers, NumbersTypes

(* Whoever is let in has the number of the seat, which may be a new one. *)
LEMMA ServerJoinsNumbered ==
  ASSUME SessionInv, SessionNumbers, NEW a \in joins, ServerJoins(a)
  PROVE  SessionNumbers'
<1>0. UNCHANGED <<stage, hasLeft, current, resumeKey, attempts, heard, dialled>> /\ joins' = joins \ {a}
  BY DEF ServerJoins, clientVars, leaveVars
<1>1. a.sock \in ClientSocket /\ seated \in Nat /\ peerOf \in [ClientSocket -> Nat]
  BY DEF SessionInv, SessionShapes
<1>2. CASE UNCHANGED seatVars
  BY <1>0, <1>2 DEF seatVars, SessionNumbers, NumbersTypes, Tries
<1>3. CASE Resumed(a)
  <2>1. peerOf' = [peerOf EXCEPT ![a.sock] = place.id] /\ UNCHANGED <<dismissed, seated>>
    BY <1>3 DEF Resumed
  <2>2. place'.id = place.id
    BY <1>3 DEF Resumed, SessionInv, SessionShapes
  <2> QED  BY <1>0, <1>1, <2>1, <2>2 DEF SessionNumbers, NumbersTypes, Tries
<1>4. CASE Entered(a)
  <2>1. /\ seated' = seated + 1 /\ place'.id = seated'
        /\ peerOf' = [peerOf EXCEPT ![a.sock] = seated']
    BY <1>4 DEF Entered
  <2>2. dismissed' \subseteq 1..dialled
    <3>1. dismissed \subseteq 1..dialled
      BY DEF SessionNumbers, NumbersTypes
    <3>2. \A s \in heard : s \in 1..dialled
      BY SessionValues DEF SessionInv, SessionShapes, SocketsAreOwned, ClientSocket
    <3> QED  BY <1>4, <3>1, <3>2 DEF Entered, Dismisses
  <2>3. \A d \in Device : resumeKey[d] \in 0..seated'
    BY <1>1, <2>1 DEF SessionNumbers, NumbersTypes
  <2>4. \A s \in ClientSocket : peerOf'[s] \in 0..seated'
    BY <1>1, <2>1 DEF SessionNumbers, NumbersTypes
  <2>5. \A b \in joins : b \in JoinAsk /\ b.key <= seated'
    BY <1>1, <2>1 DEF SessionNumbers, NumbersTypes, JoinAsk
  <2> QED  BY <1>0, <1>1, <2>1, <2>2, <2>3, <2>4, <2>5 DEF SessionNumbers, NumbersTypes, Tries
<1> QED  BY <1>2, <1>3, <1>4 DEF ServerJoins

LEMMA SeatGoesNumbered ==
  ASSUME SessionInv, SessionNumbers,
         \/ GraceExpires \/ KicksOut
         \/ \E s \in ClientSocket : ClientLoses(s) \/ ServerLoses(s)
  PROVE  SessionNumbers'
<1> USE DEF clientVars, leaveVars
<1>1. UNCHANGED <<stage, hasLeft, current, resumeKey, attempts, joins, peerOf, seated, dialled>>
  BY DEF GraceExpires, KicksOut, ClientLoses, ServerLoses
<1>2. dismissed' \subseteq 1..dialled
  <2>1. dismissed \subseteq 1..dialled
    BY DEF SessionNumbers, NumbersTypes
  <2>2. \A s \in heard : s \in 1..dialled
    BY SessionValues DEF SessionInv, SessionShapes, SocketsAreOwned, ClientSocket
  <2> QED  BY <2>1, <2>2 DEF GraceExpires, KicksOut, ClientLoses, ServerLoses, Dismisses
<1>3. place'.id \in {0, place.id}
  BY DEF GraceExpires, KicksOut, ClientLoses, ServerLoses, NoSeat, SessionInv, SessionShapes
<1>4. place'.id \in 0..seated
  BY <1>3 DEF SessionNumbers, NumbersTypes, SessionInv, SessionShapes
<1> QED  BY <1>1, <1>2, <1>4 DEF SessionNumbers, NumbersTypes, Tries

(***************************************************************************)
(* session.rs and Room.ts: a session is at one of its stages, knows sockets *)
(* that were dialled and peers that were seated, gives up at the last of    *)
(* its refusals and not before, and the seat is of the peer of its socket.  *)
(***************************************************************************)
THEOREM SessionTypesHold == SessionSpec => []SessionTypeOK
<1>1. SessionInit => SessionNumbers
  <2> SUFFICES ASSUME SessionInit PROVE SessionNumbers
    OBVIOUS
  <2>1. "out" \in Stages /\ 0 \in 0..MaxAttempts /\ MaxAttempts /= 0
    BY NumberValues DEF Stages
  <2> QED  BY <2>1 DEF SessionInit, NoSeat, SessionNumbers, NumbersTypes, Tries
<1>2. SessionInv /\ SessionNumbers /\ [SessionNext]_sessionVars => SessionNumbers'
  <2> SUFFICES ASSUME SessionInv, SessionNumbers, [SessionNext]_sessionVars PROVE SessionNumbers'
    OBVIOUS
  <2>1. CASE UNCHANGED sessionVars
    BY <2>1 DEF sessionVars, SessionNumbers, NumbersTypes, Tries
  <2> QED
    BY <2>1, SessionStepsNumbered, SendsJoinNumbered, JoinFailsNumbered, ServerJoinsNumbered,
       SeatGoesNumbered DEF SessionNext
<1>3. SessionInv /\ SessionNumbers => SessionTypeOK
  <2> SUFFICES ASSUME SessionInv, SessionNumbers PROVE SessionTypeOK
    OBVIOUS
  <2>1. \A s \in heard \cup served : s \in 1..dialled
    BY SessionValues DEF SessionInv, SessionShapes, SocketsAreOwned, ClientSocket
  <2>2. \A d \in Device : current[d] \in 0..dialled
    BY SessionValues DEF SessionInv, SessionShapes, SocketsAreOwned
  <2>3. stage \in [Device -> Stages]
    BY DEF SessionNumbers, NumbersTypes
  <2> QED
    BY <2>1, <2>2, <2>3
       DEF SessionInv, SeatIsHeld, SessionNumbers, NumbersTypes, Tries, SessionTypeOK
<1> QED  BY <1>1, <1>2, <1>3, SessionInvariant, PTL DEF SessionSpec
=============================================================================
