----------------------------- MODULE ClientMedia -----------------------------
(***************************************************************************)
(* What a client of a room watches (native/shared/core/src/room.rs): the    *)
(* consumers it asks the SFU for, the screens the person closes and watches *)
(* again, and the full screen that hides the others.                        *)
(*                                                                         *)
(* The room's loop hears the SFU's events one at a time; every click is a   *)
(* task of its own, and each of them may wait for the SFU while the others  *)
(* go on.  In consume the others come also between the test, the mark, the  *)
(* look at what was closed and the start, each under a lock of its own;     *)
(* elsewhere what a task does between two waits is one step.  A request is  *)
(* served when it is answered, except consumePlain, whose consumer exists   *)
(* before the answer is read.                                              *)
(*                                                                         *)
(* Producers are other people's screens, within screens_at_once, whose keys *)
(* are known.  Not modelled: pause_watched and set_away, which the app does *)
(* not call, lost sessions (Session), and a request without an answer.      *)
(***************************************************************************)
EXTENDS Naturals, Sequences, FiniteSets

CONSTANTS
  Producer,  \* the screens
  NoScreen,
  MaxClicks, \* bound: clicks of the person, each with its task
  MaxMade    \* bound: consumers the SFU makes

ASSUME MediaAssumption == NoScreen \notin Producer /\ MaxClicks \in Nat /\ MaxMade \in Nat

VARIABLES
  fresh,     \* the producers not yet made: an id is never used again
  onAir,      \* the producers the SFU has
  unheard,   \* the events the loop has not heard
  roster,    \* the producers of session.peers
  watching, closed, away, opening, focus, \* the fields of the room
  consumers, \* consumers[p]: the consumer of p, or 0
  made,      \* how many consumers the SFU has made
  of,        \* of[c]: the producer of consumer c
  run,       \* run[c]: what the SFU does with consumer c
  work,      \* work[t]: what task t does and where it waits
  clicks,    \* clicks so far
  evicted,   \* history: the producers the person ever closed
  cut,       \* history: those of them it closed in full screen
  doubled    \* history: the producers marked when another task had begun to watch them

mediaVars == <<fresh, onAir, unheard, roster, watching, closed, away, opening, focus, consumers,
               made, of, run, work, clicks, evicted, cut, doubled>>

serverVars == <<fresh, onAir, made, of, run>>
shownVars  == <<roster, closed, focus, evicted, cut>>
markVars   == <<opening, doubled>>

Consumer == 1..MaxMade

(* Task 0 is the loop of the room, task n the one of the n-th click. *)
Task == 0..MaxClicks

(* A change apply_view has still to ask for: producer, away, consumer. *)
Change == Producer \X BOOLEAN \X (0..MaxMade)

(* at: "all" goes over todo, "view" over moves; "marks" found p unwatched;  *)
(* "asks" and "reads" wait for the consumer c of p, "starts" is about to     *)
(* watch it, "resumes" waits for it to run, "closes" for it to end.         *)
Work == [at: {"idle", "all", "marks", "asks", "reads", "starts", "resumes", "closes", "view"},
         todo: SUBSET Producer, moves: SUBSET Change, p: Producer \cup {NoScreen}, c: 0..MaxMade]

Free == [at |-> "idle", todo |-> {}, moves |-> {}, p |-> NoScreen, c |-> 0]

MediaInit ==
  /\ onAir \in SUBSET Producer
  /\ roster = onAir /\ fresh = Producer \ onAir
  /\ unheard = <<>>
  /\ watching = {} /\ closed = {} /\ away = {} /\ opening = {}
  /\ evicted = {} /\ cut = {} /\ doubled = {}
  /\ focus = NoScreen
  /\ consumers = [p \in Producer |-> 0]
  /\ made = 0 /\ clicks = 0
  /\ of = [c \in Consumer |-> NoScreen]
  /\ run = [c \in Consumer |-> "closed"]
  /\ work = [t \in Task |-> IF t = 0 THEN [Free EXCEPT !.at = "all", !.todo = onAir] ELSE Free]

Do(t, w) == work' = [work EXCEPT ![t] = w]

ConsumeAll(gone) == [Free EXCEPT !.at = "all", !.todo = roster \ gone]

(* Whether p is out of sight while f is in full screen. *)
Unseen(p, f) == f /= NoScreen /\ f /= p

(* apply_view: what changed, as it is now; a producer to be closed after it. *)
ApplyView(f, r, p) ==
  [Free EXCEPT !.at = "view", !.p = p, !.moves =
     {m \in Change : /\ m[3] = consumers[m[1]]
                     /\ IF m[2] THEN m[1] \in r \ away /\ Unseen(m[1], f)
                        ELSE m[1] \in away /\ ~(m[1] \in r /\ Unseen(m[1], f))}]

-----------------------------------------------------------------------------
(* The SFU *)

Produces(p) ==
  /\ p \in fresh
  /\ fresh' = fresh \ {p}
  /\ onAir' = onAir \cup {p}
  /\ unheard' = Append(unheard, <<"newProducer", p>>)
  /\ UNCHANGED <<made, of, run, roster, watching, closed, away, opening, focus, consumers, work,
                 clicks, evicted, cut, doubled>>

(* Its consumers go with a producer. *)
StopsProducing(p) ==
  /\ p \in onAir
  /\ onAir' = onAir \ {p}
  /\ run' = [c \in Consumer |-> IF of[c] = p THEN "closed" ELSE run[c]]
  /\ unheard' = Append(unheard, <<"producerClosed", p>>)
  /\ UNCHANGED <<fresh, made, of, roster, watching, closed, away, opening, focus, consumers, work,
                 clicks, evicted, cut, doubled>>

-----------------------------------------------------------------------------
(* The loop *)

HearNew ==
  /\ Head(unheard)[1] = "newProducer"
  /\ roster' = roster \cup {Head(unheard)[2]}
  /\ Do(0, [Free EXCEPT !.at = "all", !.todo = roster' \ closed])
  /\ UNCHANGED <<watching, closed, away, focus, consumers>>

(* A full screen that ended gives the others back. *)
HearClosed ==
  LET p == Head(unheard)[2]
  IN /\ Head(unheard)[1] = "producerClosed"
     /\ roster' = roster \ {p}
     /\ watching' = watching \ {p}
     /\ closed' = closed \ {p}
     /\ away' = away \ {p}
     /\ consumers' = [consumers EXCEPT ![p] = 0]
     /\ focus' = IF focus = p THEN NoScreen ELSE focus
     /\ IF focus = p
        THEN Do(0, [Free EXCEPT !.at = "view", !.moves =
                      {m \in Change : m[1] \in away \ {p} /\ ~m[2] /\ m[3] = consumers[m[1]]}])
        ELSE UNCHANGED work

Hear ==
  /\ work[0] = Free /\ unheard /= <<>>
  /\ unheard' = Tail(unheard)
  /\ HearNew \/ HearClosed
  /\ UNCHANGED <<serverVars, markVars, clicks, evicted, cut>>

-----------------------------------------------------------------------------
(* Clicks *)

(* close_watched: out of full screen first, if it is there. *)
CloseWatched(p) ==
  /\ watching' = watching \ {p}
  /\ closed' = closed \cup {p}
  /\ evicted' = evicted \cup {p}
  /\ cut' = IF focus = p THEN cut \cup {p} ELSE cut
  /\ IF focus = p
     THEN focus' = NoScreen /\ Do(clicks + 1, ApplyView(NoScreen, roster, p)) /\ UNCHANGED consumers
     ELSE /\ consumers' = [consumers EXCEPT ![p] = 0]
          /\ Do(clicks + 1, [Free EXCEPT !.at = "closes", !.c = consumers[p]])
          /\ UNCHANGED focus

(* watch, by the card of the screen. *)
Watch(p) ==
  /\ closed' = closed \ {p}
  /\ Do(clicks + 1, ConsumeAll(closed \ {p}))
  /\ UNCHANGED <<watching, focus, consumers, evicted, cut>>

SetFocus(f) ==
  /\ f /= focus
  /\ focus' = f
  /\ Do(clicks + 1, ApplyView(f, roster, NoScreen))
  /\ UNCHANGED <<watching, closed, consumers, evicted, cut>>

Click ==
  /\ clicks < MaxClicks
  /\ clicks' = clicks + 1
  /\ \/ \E p \in roster : CloseWatched(p) \/ Watch(p) \/ SetFocus(p)
     \/ SetFocus(NoScreen)
  /\ UNCHANGED <<serverVars, markVars, unheard, roster, away>>

-----------------------------------------------------------------------------
(* Consuming *)

(* The next of todo; what is watched is passed over. *)
Consume(t) ==
  /\ work[t].at = "all"
  /\ \/ work[t].todo = {} /\ Do(t, Free)
     \/ \E p \in work[t].todo :
          Do(t, IF p \in watching THEN [work[t] EXCEPT !.todo = @ \ {p}]
                ELSE [work[t] EXCEPT !.todo = @ \ {p}, !.at = "marks", !.p = p])
  /\ UNCHANGED <<serverVars, shownVars, markVars, unheard, watching, away, consumers, clicks>>

(* Mutant of Marked: the set of marks is not looked at. *)
MarkedNever(p) == FALSE

(* Being opened by another task: the second consumer would be an orphan. *)
Marked(p) == p \in opening

(* The mark is taken after the test, whose answer may be old by then. *)
Marks(t) ==
  LET p == work[t].p
  IN /\ work[t].at = "marks"
     /\ IF Marked(p)
        THEN Do(t, [work[t] EXCEPT !.at = "all", !.p = NoScreen]) /\ UNCHANGED markVars
        ELSE /\ opening' = opening \cup {p}
             /\ doubled' = doubled \cup ({p} \cap watching)
             /\ Do(t, [work[t] EXCEPT !.at = "asks"])
     /\ UNCHANGED <<serverVars, shownVars, unheard, watching, away, consumers, clicks>>

(* The SFU makes a paused consumer, unless the producer is gone. *)
Serves(t) ==
  /\ work[t].at = "asks"
  /\ IF work[t].p \in onAir
     THEN /\ made < MaxMade
          /\ made' = made + 1
          /\ of' = [of EXCEPT ![made + 1] = work[t].p]
          /\ run' = [run EXCEPT ![made + 1] = "paused"]
          /\ Do(t, [work[t] EXCEPT !.at = "reads", !.c = made + 1])
     ELSE Do(t, [work[t] EXCEPT !.at = "reads", !.c = 0]) /\ UNCHANGED <<made, of, run>>
  /\ UNCHANGED <<fresh, onAir, shownVars, markVars, unheard, watching, away, consumers, clicks>>

(* Mutant of Onwards: the mark is kept by a task that goes on. *)
OnwardsMarked(t) ==
  /\ UNCHANGED markVars
  /\ Do(t, [work[t] EXCEPT !.at = "all", !.p = NoScreen, !.c = 0])

(* Back to the rest of todo; the mark falls. *)
Onwards(t) ==
  /\ opening' = opening \ {work[t].p} /\ UNCHANGED doubled
  /\ Do(t, [work[t] EXCEPT !.at = "all", !.p = NoScreen, !.c = 0])

(* Mutant of Notes: the consumer that waits for the window is not noted. *)
NotesSeen(t) == consumers' = consumers

Notes(t) == consumers' = [consumers EXCEPT ![work[t].p] = work[t].c]

(* Closed meanwhile: undone. *)
Reads(t) ==
  /\ work[t].at = "reads"
  /\ \/ work[t].c = 0 /\ Onwards(t)
     \/ /\ work[t].c /= 0
        /\ Do(t, [work[t] EXCEPT !.at = IF work[t].p \in closed THEN "closes" ELSE "starts"])
        /\ UNCHANGED markVars
  /\ UNCHANGED <<serverVars, shownVars, unheard, watching, away, consumers, clicks>>

(* It is watched; out of sight it stays paused. *)
Starts(t) ==
  LET p == work[t].p
  IN /\ work[t].at = "starts"
     /\ watching' = watching \cup {p}
     /\ IF Unseen(p, focus)
        THEN away' = away \cup {p} /\ Notes(t) /\ Onwards(t)
        ELSE /\ Do(t, [work[t] EXCEPT !.at = "resumes"])
             /\ UNCHANGED <<away, markVars, consumers>>
     /\ UNCHANGED <<serverVars, shownVars, unheard, clicks>>

(* resumeConsumer, refused if the consumer is gone; only then it is noted. *)
Resumes(t) ==
  LET c == work[t].c
  IN /\ work[t].at = "resumes"
     /\ IF run[c] = "closed" THEN UNCHANGED <<run, consumers>>
        ELSE run' = [run EXCEPT ![c] = "running"] /\ Notes(t)
     /\ Onwards(t)
     /\ UNCHANGED <<fresh, onAir, made, of, shownVars, unheard, watching, away, clicks>>

(* closeConsumer, of a consumer that was noted or of one undone. *)
Closes(t) ==
  LET c == work[t].c
  IN /\ work[t].at = "closes"
     /\ run' = IF c = 0 THEN run ELSE [run EXCEPT ![c] = "closed"]
     /\ IF work[t].p /= NoScreen THEN Onwards(t) ELSE Do(t, Free) /\ UNCHANGED markVars
     /\ UNCHANGED <<fresh, onAir, made, of, shownVars, unheard, watching, away, consumers, clicks>>

(* The next change of apply_view; without a consumer it is only noted. *)
View(t) ==
  /\ work[t].at = "view"
  /\ \/ \E m \in work[t].moves :
          LET done == m[3] = 0 \/ run[m[3]] /= "closed"
          IN /\ Do(t, [work[t] EXCEPT !.moves = @ \ {m}])
             /\ run' = IF m[3] /= 0 /\ done
                       THEN [run EXCEPT ![m[3]] = IF m[2] THEN "paused" ELSE "running"] ELSE run
             /\ away' = IF ~done THEN away ELSE IF m[2] THEN away \cup {m[1]} ELSE away \ {m[1]}
             /\ UNCHANGED consumers
     \/ /\ work[t].moves = {}
        /\ IF work[t].p = NoScreen THEN Do(t, Free) /\ UNCHANGED consumers
           ELSE /\ consumers' = [consumers EXCEPT ![work[t].p] = 0]
                /\ Do(t, [Free EXCEPT !.at = "closes", !.c = consumers[work[t].p]])
        /\ UNCHANGED <<run, away>>
  /\ UNCHANGED <<fresh, onAir, made, of, shownVars, markVars, unheard, watching, clicks>>

MediaNext ==
  \/ \E p \in Producer : Produces(p) \/ StopsProducing(p)
  \/ Hear \/ Click
  \/ \E t \in Task :
       \/ Consume(t) \/ Marks(t) \/ Serves(t) \/ Reads(t) \/ Starts(t) \/ Resumes(t)
       \/ Closes(t) \/ View(t)

MediaSpec == MediaInit /\ [][MediaNext]_mediaVars

-----------------------------------------------------------------------------
(* Properties *)

MediaTypeOK ==
  /\ fresh \subseteq Producer /\ onAir \subseteq Producer /\ roster \subseteq Producer
  /\ watching \subseteq Producer /\ closed \subseteq Producer /\ away \subseteq Producer
  /\ opening \subseteq Producer /\ doubled \subseteq Producer
  /\ cut \subseteq evicted /\ evicted \subseteq Producer
  /\ unheard \in Seq({"newProducer", "producerClosed"} \X Producer)
  /\ focus \in Producer \cup {NoScreen}
  /\ consumers \in [Producer -> 0..MaxMade]
  /\ made \in 0..MaxMade /\ clicks \in 0..MaxClicks
  /\ of \in [Consumer -> Producer \cup {NoScreen}]
  /\ run \in [Consumer -> {"closed", "paused", "running"}]
  /\ work \in [Task -> Work]
  /\ \A p \in opening : \E t \in Task : work[t].p = p

MediaRest == unheard = <<>> /\ \A t \in Task : work[t] = Free

Open(p) == {c \in Consumer : of[c] = p /\ run[c] /= "closed"}

(***************************************************************************)
(* However many tasks consume at once, a screen the person never closed has *)
(* one consumer: a second would be an orphan that runs forever.  The mark   *)
(* keeps it so against every task that asks, not against one that has begun *)
(* to watch and dropped its own mark since the test.                        *)
(***************************************************************************)
OneConsumerEach == \A p \in Producer \ (evicted \cup doubled) : Cardinality(Open(p)) <= 1

(***************************************************************************)
(* When everything has been answered, a screen that is watched and on air   *)
(* has its consumer noted, so that closing and hiding reach it; and one     *)
(* that was never closed is watched.  Not so one that was closed in full    *)
(* screen: close_watched gives the others back first, and by then the       *)
(* person may watch it again.                                               *)
(***************************************************************************)
WatchedIsServed ==
  MediaRest =>
    /\ \A p \in (watching \cap onAir) \ cut : consumers[p] \in Open(p)
    /\ onAir \ evicted \subseteq watching

-----------------------------------------------------------------------------
(* What the documents say and the model refutes: no run checks it *)

(* "Outra tarefa já está abrindo este: o segundo consumer ficaria órfão": the *)
(* mark leaves no second one.                                              *)
NoOrphan == \A p \in Producer \ evicted : Cardinality(Open(p)) <= 1

(* What the person closed is no longer sent: "Para de receber uma transmissão". *)
ClosedIsNotSent == MediaRest => \A p \in closed : Open(p) = {}

(* What is in sight runs. *)
SeenRuns ==
  MediaRest => \A p \in watching \cap onAir :
    consumers[p] \in Open(p) => (run[consumers[p]] = "running" <=> ~Unseen(p, focus))
=============================================================================
