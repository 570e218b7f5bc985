---------------------------- MODULE SfuMediaProofs ----------------------------
(***************************************************************************)
(* What the SFU keeps of the media and of who is where.  What the media     *)
(* worker sends on is in the maps of its peer, and a peer that left has     *)
(* nothing open, whatever closes while a request waits.  A room that grows  *)
(* over the media workers has one router at most on each of them, and       *)
(* nobody stays in it on a router that died with its worker.  A socket that *)
(* is gone holds nothing of a channel, and who listens was told who is in.  *)
(***************************************************************************)
EXTENDS SfuProducers, SfuRouters, Presence, FiniteSetTheorems, WellFoundedInduction,
        TLAPS

-----------------------------------------------------------------------------
(* The producers of a peer *)

(* What the properties need of the types. *)
ProducersTypes ==
  /\ step \in [Request -> Step]
  /\ via \in [Request -> Request \cup {NoTransport}]
  /\ plain \subseteq Request
  /\ live \subseteq Request

(* The worker and the map have the same transports; one who left has none. *)
SameTransports == open = plain /\ (left => plain = {})

(* A producer is there only when the worker made it for its request. *)
LiveWasMade == \A p \in live : step[p] \in {"pausing", "done"}

ProducersInv == ProducersTypes /\ SameTransports /\ LiveWasMade /\ LiveIsListed

LEMMA ProducersInvInit == ProducersInit => ProducersInv
BY ProducersAssumption
   DEF ProducersInit, ProducersInv, ProducersTypes, SameTransports, LiveWasMade, LiveIsListed, Step

(* The handlers of other requests move on, none of them of a live producer. *)
MovesOn ==
  /\ step' \in [Request -> Step]
  /\ via' \in [Request -> Request \cup {NoTransport}]
  /\ left' = left
  /\ \A p \in live : step'[p] \in {"pausing", "done"} /\ via'[p] = via[p]

(* With the worker and the maps as they are, or less of each. *)
Stays == UNCHANGED <<plain, producers, open, live>>

LEMMA StayingKeeps ==
  ASSUME ProducersInv, MovesOn, Stays
  PROVE  ProducersInv'
BY DEF ProducersInv, ProducersTypes, SameTransports, LiveWasMade, LiveIsListed, MovesOn, Stays

(* A transport closes with every producer on it: no live one loses its own. *)
LEMMA ClosingKeeps ==
  ASSUME ProducersInv, MovesOn, NEW dead, NEW T, Closed(dead, T)
  PROVE  ProducersInv'
<1>1. /\ open' = open \ T /\ plain' = plain \ T
      /\ live' = live \ (dead \cup {p \in live : via[p] \in T})
      /\ producers \ (dead \cup {p \in live : via[p] \in T}) \subseteq producers'
  BY DEF Closed, ProducersInv, LiveIsListed
<1>2. ProducersTypes' /\ SameTransports' /\ LiveWasMade'
  BY <1>1 DEF ProducersInv, ProducersTypes, SameTransports, LiveWasMade, MovesOn
<1>3. LiveIsListed'
  BY <1>1 DEF ProducersInv, LiveIsListed, MovesOn
<1> QED  BY <1>2, <1>3 DEF ProducersInv

LEMMA CloseProducersKeeps ==
  ASSUME ProducersInv, MovesOn, NEW dead, CloseProducers(dead)
  PROVE  ProducersInv'
BY StayingKeeps, ClosingKeeps DEF CloseProducers, Stays

(* A step that leaves the handlers where they are. *)
LEMMA SameHandlersMoveOn ==
  ASSUME ProducersInv, UNCHANGED <<step, via, left>>
  PROVE  MovesOn
BY DEF ProducersInv, ProducersTypes, LiveWasMade, MovesOn

LEMMA ProduceKeeps ==
  ASSUME ProducersInv, NEW r \in Request, Produce(r)
  PROVE  ProducersInv'
<1>1. step[r] = "idle" /\ r \notin live
  BY DEF Produce, ProducersInv, LiveWasMade
<1>2. CASE /\ step' = [step EXCEPT ![r] = "creating"]
           /\ via' = via
  <2>1. MovesOn
    BY <1>1, <1>2 DEF Produce, ProducersInv, ProducersTypes, LiveWasMade, MovesOn, Step
  <2> QED  BY <1>2, <2>1, StayingKeeps, ClosingKeeps DEF Produce, Stays
<1>3. CASE \E t \in plain :
             /\ step' = [step EXCEPT ![r] = "producing"]
             /\ via' = [via EXCEPT ![r] = t]
             /\ UNCHANGED <<plain, producers, open, live>>
  <2>1. MovesOn
    BY <1>1, <1>3 DEF Produce, ProducersInv, ProducersTypes, LiveWasMade, MovesOn, Step
  <2> QED  BY <1>3, <2>1, StayingKeeps DEF Stays
<1> QED  BY <1>2, <1>3 DEF Produce

(* A transport that comes after its peer left is closed at once. *)
LEMMA TransportCreatedKeeps ==
  ASSUME ProducersInv, NEW r \in Request, TransportCreated(r)
  PROVE  ProducersInv'
<1>1. r \notin live /\ live' = live /\ producers' = producers /\ left' = left
  BY DEF TransportCreated, ProducersInv, LiveWasMade
<1>2. MovesOn
  BY <1>1 DEF TransportCreated, ProducersInv, ProducersTypes, LiveWasMade, MovesOn, Step
<1>3. \/ Stays
      \/ ~left /\ plain' = plain \cup {r} /\ open' = open \cup {r}
  BY <1>1 DEF TransportCreated, Admitted, Stays
<1>4. CASE ~left /\ plain' = plain \cup {r} /\ open' = open \cup {r}
  BY <1>1, <1>2, <1>4
     DEF ProducersInv, ProducersTypes, SameTransports, LiveWasMade, LiveIsListed, MovesOn
<1> QED  BY <1>2, <1>3, <1>4, StayingKeeps

(* A producer that comes after its transport closed is dead already. *)
LEMMA ProducedKeeps ==
  ASSUME ProducersInv, NEW r \in Request, Produced(r)
  PROVE  ProducersInv'
<1>1. /\ producers' = producers \cup {r}
      /\ live' = IF via[r] \in open THEN live \cup {r} ELSE live
      /\ UNCHANGED <<via, plain, open, left>>
  BY DEF Produced
<1>2. step' \in [Request -> Step] /\ step'[r] \in {"pausing", "done"}
  BY DEF Produced, ProducersInv, ProducersTypes, Step
<1>3. \A p \in live : step'[p] \in {"pausing", "done"}
  BY <1>2 DEF Produced, ProducersInv, ProducersTypes, LiveWasMade
<1>4. ProducersTypes' /\ SameTransports' /\ LiveWasMade'
  BY <1>1, <1>2, <1>3 DEF ProducersInv, ProducersTypes, SameTransports, LiveWasMade
<1>5. LiveIsListed'
  BY <1>1 DEF ProducersInv, SameTransports, LiveIsListed
<1> QED  BY <1>4, <1>5 DEF ProducersInv

LEMMA AnsweredKeeps ==
  ASSUME ProducersInv, Answered
  PROVE  ProducersInv'
<1>1. Stays /\ UNCHANGED <<via, left>>
  BY DEF Answered, Stays
<1>2. step' = step \/ \E p : step' = [step EXCEPT ![p] = "done"]
  BY DEF Answered
<1>3. MovesOn
  BY <1>1, <1>2 DEF ProducersInv, ProducersTypes, LiveWasMade, MovesOn, Step
<1> QED  BY <1>1, <1>3, StayingKeeps

(* The peer leaves with its transports, and so with all it sends. *)
LEMMA PeerLeavesKeeps ==
  ASSUME ProducersInv, PeerLeaves
  PROVE  ProducersInv'
<1>1. open' = {} /\ plain' = {} /\ live' = {} /\ UNCHANGED <<step, via>>
  BY DEF PeerLeaves, ProducersInv, SameTransports, LiveIsListed
<1> QED  BY <1>1 DEF ProducersInv, ProducersTypes, SameTransports, LiveWasMade, LiveIsListed

LEMMA ProducersInvKept == ProducersInv /\ [ProducersNext]_producersVars => ProducersInv'
<1> SUFFICES ASSUME ProducersInv, [ProducersNext]_producersVars
             PROVE  ProducersInv'
  OBVIOUS
<1>1. ASSUME NEW r \in Request, Produce(r) \/ TransportCreated(r) \/ Produced(r)
      PROVE  ProducersInv'
  BY <1>1, ProduceKeeps, TransportCreatedKeeps, ProducedKeeps
<1>2. ASSUME NEW r \in Request, Receives(r) \/ Idle(r)
      PROVE  ProducersInv'
  BY <1>2, SameHandlersMoveOn, StayingKeeps, ClosingKeeps DEF Receives, Idle, IdleEnds, Stays
<1>3. CASE ServerMute \/ OwnPause
  BY <1>3, SameHandlersMoveOn, StayingKeeps DEF ServerMute, OwnPause, Stays
<1>4. CASE Answered
  BY <1>4, AnsweredKeeps
<1>5. CASE Destroy
  BY <1>5, SameHandlersMoveOn, CloseProducersKeeps DEF Destroy
<1>6. CASE Resume
  BY <1>6, SameHandlersMoveOn, CloseProducersKeeps DEF Resume
<1>7. CASE PeerLeaves
  BY <1>7, PeerLeavesKeeps
<1>8. CASE UNCHANGED producersVars
  BY <1>8, SameHandlersMoveOn, StayingKeeps DEF producersVars, Stays
<1> QED  BY <1>1, <1>2, <1>3, <1>4, <1>5, <1>6, <1>7, <1>8 DEF ProducersNext

(* The invariant of ProducerController and Peer: maps and worker agree. *)
THEOREM ProducersInvHolds == ProducersSpec => []ProducersInv
BY ProducersInvInit, ProducersInvKept, PTL DEF ProducersSpec

(***************************************************************************)
(* Room.ts: what the worker sends on is in the map of its peer and on one   *)
(* of the transports there, however many requests, closings, mutes and      *)
(* revocations of that peer run into each other.                            *)
(***************************************************************************)
THEOREM LiveListed == ProducersSpec => []LiveIsListed
<1>1. ProducersInv => LiveIsListed
  BY DEF ProducersInv
<1> QED  BY <1>1, ProducersInvHolds, PTL

(***************************************************************************)
(* Room.ts, admit: a peer that left has no transport and no producer, also  *)
(* when the one or the other was being made while it left.                  *)
(***************************************************************************)
THEOREM LeaverEmpty == ProducersSpec => []LeaverHoldsNothing
<1>1. ProducersInv => LeaverHoldsNothing
  BY DEF ProducersInv, SameTransports, LiveIsListed, LeaverHoldsNothing
<1> QED  BY <1>1, ProducersInvHolds, PTL

-----------------------------------------------------------------------------
(* The order in which the worker serves *)

(* Command m resumes p. *)
ResumesMic(m, p) == m.of = p /\ ~m.pause

(***************************************************************************)
(* Once the worker has served the commands of queue, p is paused: it is     *)
(* now, or one of them pauses it, and none resumes it afterwards.           *)
(***************************************************************************)
Silent(queue, stopped, p) ==
  \/ p \in stopped /\ \A i \in DOMAIN queue : ~ResumesMic(queue[i], p)
  \/ \E i \in DOMAIN queue :
       /\ queue[i].of = p /\ queue[i].pause /\ queue[i].served
       /\ \A j \in DOMAIN queue : j > i => ~ResumesMic(queue[j], p)

(* The next command is no resume of p. *)
LEMMA AppendKeepsSilence ==
  ASSUME NEW queue \in Seq(Command), NEW stopped, NEW p, NEW m \in Command,
         Silent(queue, stopped, p), ~ResumesMic(m, p)
  PROVE  Silent(Append(queue, m), stopped, p)
<1> HIDE DEF Command
<1>1. /\ Len(queue) \in Nat /\ DOMAIN queue = 1..Len(queue)
      /\ DOMAIN Append(queue, m) = 1..(Len(queue) + 1)
      /\ \A i \in 1..Len(queue) : Append(queue, m)[i] = queue[i]
      /\ Append(queue, m)[Len(queue) + 1] = m
  OBVIOUS
<1>2. \A j \in DOMAIN Append(queue, m) : j \in DOMAIN queue \/ j = Len(queue) + 1
  BY <1>1
<1> QED  BY <1>1, <1>2 DEF Silent

(* The next command is a pause of p. *)
LEMMA AppendSilences ==
  ASSUME NEW queue \in Seq(Command), NEW stopped, NEW p, NEW m \in Command,
         m.of = p, m.pause, m.served
  PROVE  Silent(Append(queue, m), stopped, p)
<1> HIDE DEF Command
<1>1. /\ Len(queue) \in Nat
      /\ DOMAIN Append(queue, m) = 1..(Len(queue) + 1)
      /\ Append(queue, m)[Len(queue) + 1] = m
  OBVIOUS
<1>2. Len(queue) + 1 \in DOMAIN Append(queue, m)
      /\ \A j \in DOMAIN Append(queue, m) : ~(j > Len(queue) + 1)
  BY <1>1
<1> QED  BY <1>1, <1>2 DEF Silent

(* What the answer to command m leaves paused. *)
Served(m, stopped) ==
  IF m.pause /\ m.of \in live /\ m.served THEN stopped \cup {m.of} ELSE stopped \ {m.of}

(* The worker serves the oldest command, and a live p with it. *)
LEMMA ServedKeepsSilence ==
  ASSUME NEW queue \in Seq(Command), NEW stopped, NEW p \in live, queue /= <<>>,
         ~Head(queue).served => Head(queue).of \notin live,
         Silent(queue, stopped, p)
  PROVE  Silent(Tail(queue), Served(Head(queue), stopped), p)
<1> HIDE DEF Command
<1> DEFINE m == Head(queue)
<1>1. /\ Len(queue) \in Nat /\ DOMAIN queue = 1..Len(queue) /\ m = queue[1] /\ 1 \in DOMAIN queue
      /\ DOMAIN Tail(queue) = 1..(Len(queue) - 1)
      /\ \A i \in 1..(Len(queue) - 1) : Tail(queue)[i] = queue[i + 1]
  OBVIOUS
<1>2. \A i \in DOMAIN Tail(queue) : i + 1 \in DOMAIN queue
  BY <1>1
<1>3. CASE p \in stopped /\ \A i \in DOMAIN queue : ~ResumesMic(queue[i], p)
  <2>1. p \in Served(m, stopped)
    BY <1>1, <1>3 DEF Served, ResumesMic
  <2>2. \A i \in DOMAIN Tail(queue) : ~ResumesMic(Tail(queue)[i], p)
    BY <1>1, <1>2, <1>3
  <2> QED  BY <2>1, <2>2 DEF Silent
<1>4. ASSUME NEW i \in DOMAIN queue,
             queue[i].of = p, queue[i].pause, queue[i].served,
             \A j \in DOMAIN queue : j > i => ~ResumesMic(queue[j], p)
      PROVE  Silent(Tail(queue), Served(m, stopped), p)
  <2>1. CASE i = 1
    <3>1. p \in Served(m, stopped)
      BY <1>1, <1>4, <2>1 DEF Served
    <3>2. \A j \in DOMAIN Tail(queue) : ~ResumesMic(Tail(queue)[j], p)
      BY <1>1, <1>2, <1>4, <2>1
    <3> QED  BY <3>1, <3>2 DEF Silent
  <2>2. CASE i /= 1
    <3>1. i - 1 \in DOMAIN Tail(queue) /\ Tail(queue)[i - 1] = queue[i]
      BY <1>1, <2>2
    <3>2. \A j \in DOMAIN Tail(queue) : j > i - 1 => ~ResumesMic(Tail(queue)[j], p)
      BY <1>1, <1>2, <1>4
    <3> QED  BY <1>4, <3>1, <3>2 DEF Silent
  <2> QED  BY <2>1, <2>2
<1> QED  BY <1>3, <1>4 DEF Silent

-----------------------------------------------------------------------------
(* The mark and the runs of applyServerMute *)

(* The producers the worker has made, or is about to lose. *)
Settled == {p \in Request : step[p] \in {"pausing", "done"}}

(* Commands are of such producers, served unless theirs is dead, and a run *)
(* that waits for one has begun.                                           *)
QueueOf(queue, runs) ==
  /\ queue \in Seq(Command) /\ runs \in Seq(Call)
  /\ \A i \in DOMAIN queue :
       /\ queue[i].of \in Settled
       /\ ~queue[i].served => queue[i].of \notin live
       /\ queue[i].by = "mute" => queue[i].run \in DOMAIN runs

CommandsInv == producers \subseteq Settled /\ QueueOf(pending, calls)

(***************************************************************************)
(* The last of the runs is a mute, and the microphones in mics it has seen, *)
(* or all of them when it ended well, will be paused once queue is served.  *)
(***************************************************************************)
Silences(runs, queue, stopped, mics) ==
  /\ runs /= <<>> => runs[Len(runs)].muted
  /\ \A p \in mics :
       runs = <<>> \/ runs[Len(runs)].state = "ok" \/ p \in runs[Len(runs)].seen
         => Silent(queue, stopped, p)

MuteInv == serverMuted => Silences(calls, pending, paused, LiveMics)

(* What a visit may do, and to which run. *)
Visited(c, runs, mics, muted, queue) ==
  /\ calls' \in Seq(Call) /\ Len(calls') = Len(runs)
  /\ \A d \in DOMAIN runs :
       calls'[d].muted = runs[d].muted /\ (d /= c => calls'[d] = runs[d])
  /\ \/ /\ pending' = queue /\ calls'[c].seen = {}
        /\ \/ calls'[c].state = "ok" /\ mics \subseteq runs[c].seen
           \/ calls'[c].state = "failed" /\ ~runs[c].muted /\ muted
     \/ \E p \in mics, m \in Command :
          /\ m.by = "mute" /\ m.run = c /\ m.of = p
          /\ (m.pause <=> runs[c].muted) /\ (m.served <=> p \in live)
          /\ pending' = Append(queue, m)
          /\ runs[c].muted \/ ~muted
          /\ calls'[c].seen = runs[c].seen \cup {p}
          /\ calls'[c].state = runs[c].state

LEMMA VisitCases ==
  ASSUME NEW runs \in Seq(Call), NEW c \in DOMAIN runs, NEW mics \in SUBSET Request,
         NEW muted, NEW queue, Visit(c, runs, mics, muted, queue)
  PROVE  Visited(c, runs, mics, muted, queue)
<1>1. runs[c] \in Call /\ DOMAIN runs = 1..Len(runs) /\ Len(runs) \in Nat
  OBVIOUS
<1>2. ASSUME NEW state \in {"ok", "failed"},
             calls' = [runs EXCEPT ![c] = [@ EXCEPT !.state = state, !.seen = {}]]
      PROVE  /\ calls' \in Seq(Call) /\ Len(calls') = Len(runs)
             /\ calls'[c].muted = runs[c].muted
             /\ calls'[c].seen = {} /\ calls'[c].state = state
             /\ \A d \in DOMAIN runs : d /= c => calls'[d] = runs[d]
  <2> DEFINE over == [runs[c] EXCEPT !.state = state, !.seen = {}]
  <2>1. over \in Call /\ over.muted = runs[c].muted /\ over.seen = {} /\ over.state = state
    BY <1>1 DEF Call
  <2>2. calls' = [runs EXCEPT ![c] = over]
    BY <1>2
  <2> HIDE DEF over, Call
  <2> QED  BY <1>1, <2>1, <2>2
<1>3. ASSUME NEW p \in mics, calls' = [runs EXCEPT ![c].seen = @ \cup {p}]
      PROVE  /\ calls' \in Seq(Call) /\ Len(calls') = Len(runs)
             /\ calls'[c].muted = runs[c].muted
             /\ calls'[c].seen = runs[c].seen \cup {p} /\ calls'[c].state = runs[c].state
             /\ \A d \in DOMAIN runs : d /= c => calls'[d] = runs[d]
  <2> DEFINE on == [runs[c] EXCEPT !.seen = @ \cup {p}]
  <2>1. on \in Call /\ on.muted = runs[c].muted /\ on.seen = runs[c].seen \cup {p}
        /\ on.state = runs[c].state
    BY <1>1 DEF Call
  <2>2. calls' = [runs EXCEPT ![c] = on]
    BY <1>3
  <2> HIDE DEF on, Call
  <2> QED  BY <1>1, <2>1, <2>2
<1>4. \/ \E state \in {"ok", "failed"} :
           /\ calls' = [runs EXCEPT ![c] = [@ EXCEPT !.state = state, !.seen = {}]]
           /\ pending' = queue
           /\ \/ state = "ok" /\ mics \subseteq runs[c].seen
              \/ state = "failed" /\ ~runs[c].muted /\ muted
      \/ \E p \in mics :
           /\ calls' = [runs EXCEPT ![c].seen = @ \cup {p}]
           /\ pending' = Append(queue, Order("mute", c, p, runs[c].muted, p \in live))
           /\ runs[c].muted \/ ~muted
  BY DEF Visit
<1>5. ASSUME NEW p \in mics
      PROVE  \E m \in Command :
               /\ m = Order("mute", c, p, runs[c].muted, p \in live)
               /\ m.by = "mute" /\ m.run = c /\ m.of = p
               /\ (m.pause <=> runs[c].muted) /\ (m.served <=> p \in live)
  <2> DEFINE m == Order("mute", c, p, runs[c].muted, p \in live)
  <2>1. c \in Nat /\ p \in Request /\ runs[c].muted \in BOOLEAN
    BY <1>1 DEF Call
  <2>2. m \in Command
    BY <2>1 DEF Order, Command
  <2>3. /\ m.by = "mute" /\ m.run = c /\ m.of = p
        /\ (m.pause <=> runs[c].muted) /\ (m.served <=> p \in live)
    BY <2>1 DEF Order
  <2> QED  BY <2>2, <2>3
<1> QED  BY <1>2, <1>3, <1>4, <1>5 DEF Visited

(* One more command at the end of the queue. *)
LEMMA QueueGrows ==
  ASSUME NEW queue, NEW runs, QueueOf(queue, runs), NEW m \in Command,
         m.of \in Settled, ~m.served => m.of \notin live, m.by = "mute" => m.run \in DOMAIN runs
  PROVE  QueueOf(Append(queue, m), runs)
<1> HIDE DEF Command
<1>1. /\ queue \in Seq(Command) /\ Len(queue) \in Nat /\ DOMAIN queue = 1..Len(queue)
      /\ Append(queue, m) \in Seq(Command)
      /\ DOMAIN Append(queue, m) = 1..(Len(queue) + 1)
      /\ \A i \in 1..Len(queue) : Append(queue, m)[i] = queue[i]
      /\ Append(queue, m)[Len(queue) + 1] = m
  BY DEF QueueOf
<1>2. \A j \in DOMAIN Append(queue, m) : j \in DOMAIN queue \/ j = Len(queue) + 1
  BY <1>1
<1> QED  BY <1>1, <1>2 DEF QueueOf

LEMMA QueueShrinks ==
  ASSUME NEW queue, NEW runs, QueueOf(queue, runs), queue /= <<>>
  PROVE  QueueOf(Tail(queue), runs)
<1> HIDE DEF Command
<1>1. /\ queue \in Seq(Command) /\ Len(queue) \in Nat /\ DOMAIN queue = 1..Len(queue)
      /\ Tail(queue) \in Seq(Command)
      /\ DOMAIN Tail(queue) = 1..(Len(queue) - 1)
      /\ \A i \in 1..(Len(queue) - 1) : Tail(queue)[i] = queue[i + 1]
  BY DEF QueueOf
<1>2. \A i \in DOMAIN Tail(queue) : i + 1 \in DOMAIN queue
  BY <1>1
<1> QED  BY <1>1, <1>2 DEF QueueOf

LEMMA QueueOfOtherRuns ==
  ASSUME NEW queue, NEW runs, NEW others \in Seq(Call), QueueOf(queue, runs),
         DOMAIN runs \subseteq DOMAIN others
  PROVE  QueueOf(queue, others)
BY DEF QueueOf

LEMMA VisitQueue ==
  ASSUME NEW runs, NEW c \in DOMAIN runs, NEW mics \in SUBSET Settled, NEW muted, NEW queue,
         QueueOf(queue, runs), Visit(c, runs, mics, muted, queue)
  PROVE  QueueOf(pending', calls')
<1>1. runs \in Seq(Call) /\ mics \subseteq Request
  BY DEF QueueOf, Settled
<1>2. Visited(c, runs, mics, muted, queue)
  BY <1>1, VisitCases
<1>3. calls' \in Seq(Call) /\ DOMAIN runs = DOMAIN calls'
  BY <1>1, <1>2 DEF Visited
<1>4. QueueOf(queue, calls')
  BY <1>3, QueueOfOtherRuns
<1>5. CASE pending' = queue
  BY <1>4, <1>5
<1>6. ASSUME NEW p \in mics, NEW m \in Command,
             m.by = "mute", m.run = c, m.of = p, m.served <=> p \in live,
             pending' = Append(queue, m)
      PROVE  QueueOf(pending', calls')
  BY <1>3, <1>4, <1>6, QueueGrows
<1> QED  BY <1>2, <1>5, <1>6 DEF Visited

(* While the person is muted a visit only pauses, and sees what it pauses. *)
LEMMA VisitSilences ==
  ASSUME NEW runs \in Seq(Call), NEW c \in DOMAIN runs, NEW mics \in SUBSET Request,
         NEW queue \in Seq(Command), NEW stopped, NEW L \in SUBSET (mics \cap live),
         Silences(runs, queue, stopped, L), Visit(c, runs, mics, TRUE, queue)
  PROVE  Silences(calls', pending', stopped, L)
<1> DEFINE last == Len(runs)
<1>1. /\ runs /= <<>> /\ last \in DOMAIN runs
      /\ runs[last].muted
  BY DEF Silences
<1>2. Visited(c, runs, mics, TRUE, queue)
  BY VisitCases
<1>3. /\ Len(calls') = last /\ calls' /= <<>> /\ calls'[last].muted
      /\ c /= last => calls'[last] = runs[last]
  <2>1. calls' \in Seq(Call) /\ Len(calls') = last
    BY <1>2 DEF Visited
  <2>2. calls'[last].muted = runs[last].muted /\ (c /= last => calls'[last] = runs[last])
    BY <1>1, <1>2 DEF Visited
  <2> QED  BY <1>1, <2>1, <2>2
<1>4. CASE /\ pending' = queue /\ calls'[c].seen = {}
           /\ \/ calls'[c].state = "ok" /\ mics \subseteq runs[c].seen
              \/ calls'[c].state = "failed" /\ ~runs[c].muted
  BY <1>1, <1>3, <1>4 DEF Silences
<1>5. ASSUME NEW p \in mics, NEW m \in Command,
             m.of = p, m.pause <=> runs[c].muted, m.served <=> p \in live,
             pending' = Append(queue, m), runs[c].muted,
             calls'[c].seen = runs[c].seen \cup {p}, calls'[c].state = runs[c].state
      PROVE  Silences(calls', pending', stopped, L)
  <2>1. \A q \in L : Silent(queue, stopped, q) => Silent(pending', stopped, q)
    BY <1>5, AppendKeepsSilence DEF ResumesMic
  <2>2. p \in L => Silent(pending', stopped, p)
    BY <1>5, AppendSilences
  <2> QED  BY <1>1, <1>3, <1>5, <2>1, <2>2 DEF Silences
<1> QED  BY <1>2, <1>4, <1>5 DEF Visited

(* Of fewer microphones, none of which was taken out of the paused ones. *)
LEMMA SilencesFewer ==
  ASSUME NEW runs, NEW queue, NEW stopped, NEW mics, NEW S, NEW L \in SUBSET mics,
         Silences(runs, queue, stopped, mics), \A p \in L : p \in stopped => p \in S
  PROVE  Silences(runs, queue, S, L)
BY DEF Silences, Silent

(* One more command, which resumes none of them. *)
LEMMA SilencesLonger ==
  ASSUME NEW runs, NEW queue \in Seq(Command), NEW stopped, NEW mics, NEW m \in Command,
         Silences(runs, queue, stopped, mics), \A p \in mics : ~ResumesMic(m, p)
  PROVE  Silences(runs, Append(queue, m), stopped, mics)
BY AppendKeepsSilence DEF Silences

MuteSteps ==
  /\ QueueOf(pending', calls')
  /\ serverMuted' => Silences(calls', pending', paused, LiveMics')

(* A run that begins has seen nothing, and visits all there is. *)
LEMMA StartMuteSilences ==
  ASSUME QueueOf(pending, calls), NEW muted \in BOOLEAN, NEW mics \in SUBSET Settled,
         StartMute(muted, mics), LiveMics' \subseteq mics \cap live
  PROVE  MuteSteps
<1> DEFINE new == [muted |-> muted, seen |-> {}, state |-> "running"]
           runs == Append(calls, new)
<1>1. new \in Call /\ new.muted = muted /\ new.seen = {} /\ new.state = "running"
  BY DEF Call
<1> HIDE DEF new
<1>2. /\ calls \in Seq(Call) /\ Len(calls) \in Nat /\ mics \subseteq Request
      /\ pending \in Seq(Command)
  BY DEF QueueOf, Settled
<1>3. /\ runs \in Seq(Call) /\ Len(runs) = Len(calls) + 1 /\ runs /= <<>>
      /\ Len(calls) + 1 \in DOMAIN runs /\ DOMAIN calls \subseteq DOMAIN runs
      /\ runs[Len(runs)] = new
  BY <1>1, <1>2
<1>4. Visit(Len(calls) + 1, runs, mics, muted, pending) /\ serverMuted' = muted
  BY DEF StartMute, new
<1> HIDE DEF runs
<1>5. QueueOf(pending, runs)
  BY <1>3, QueueOfOtherRuns
<1>6. QueueOf(pending', calls')
  BY <1>3, <1>4, <1>5, VisitQueue
<1>7. ASSUME muted = TRUE
      PROVE  Silences(calls', pending', paused, LiveMics')
  <2>1. Silences(runs, pending, paused, LiveMics')
    BY <1>1, <1>3, <1>7 DEF Silences
  <2>2. Visit(Len(calls) + 1, runs, mics, TRUE, pending)
    BY <1>4, <1>7
  <2> QED  BY <1>2, <1>3, <2>1, <2>2, VisitSilences
<1> QED  BY <1>4, <1>6, <1>7 DEF MuteSteps

MutedInv == CommandsInv /\ MuteInv

(***************************************************************************)
(* What is left of a step when nothing is sent to the worker: no live       *)
(* microphone comes, and the paused ones that stay live stay paused.        *)
(***************************************************************************)
NothingNew ==
  /\ live' \subseteq live
  /\ \A p \in live' : p \in paused => p \in paused'
  /\ producers' \subseteq Settled'
  /\ Settled \subseteq Settled'

LEMMA NothingNewKeeps ==
  ASSUME MutedInv, NothingNew, UNCHANGED <<pending, calls, serverMuted>>
  PROVE  MutedInv'
<1>1. CommandsInv'
  BY DEF MutedInv, CommandsInv, QueueOf, NothingNew
<1>2. serverMuted => Silences(calls, pending, paused', LiveMics')
  BY SilencesFewer DEF MutedInv, MuteInv, NothingNew, LiveMics
<1>3. MuteInv'
  BY <1>2 DEF MuteInv
<1> QED  BY <1>1, <1>3 DEF MutedInv

LEMMA MuteStepsKeep ==
  ASSUME MutedInv, NothingNew, MuteSteps
  PROVE  MutedInv'
<1>1. CommandsInv'
  BY DEF MuteSteps, CommandsInv, QueueOf, NothingNew
<1>2. serverMuted' => Silences(calls', pending', paused', LiveMics')
  BY SilencesFewer DEF MuteSteps, NothingNew, LiveMics
<1>3. MuteInv'
  BY <1>2 DEF MuteInv
<1> QED  BY <1>1, <1>3 DEF MutedInv

LEMMA ClosedNothingNew ==
  ASSUME MutedInv, Settled \subseteq Settled', NEW dead, NEW T, Closed(dead, T)
  PROVE  NothingNew /\ producers' \subseteq producers \ dead
BY DEF Closed, MutedInv, CommandsInv, NothingNew

LEMMA CloseProducersNothingNew ==
  ASSUME MutedInv, Settled \subseteq Settled', NEW dead, CloseProducers(dead)
  PROVE  NothingNew /\ producers' \subseteq producers \ dead
<1>1. CASE dead \cap producers = {}
  BY <1>1 DEF CloseProducers, MutedInv, CommandsInv, NothingNew
<1>2. CASE dead \cap producers /= {}
  BY <1>2, ClosedNothingNew DEF CloseProducers
<1> QED  BY <1>1, <1>2

(* A request that goes on was of no producer yet, or had been announced. *)
LEMMA SettledStay ==
  ASSUME ProducersInv, NEW r, NEW next \in Step, step' = [step EXCEPT ![r] = next],
         r \in Settled => next = "done"
  PROVE  Settled \subseteq Settled'
BY DEF Settled, ProducersInv, ProducersTypes

LEMMA ProduceMuted ==
  ASSUME ProducersInv, MutedInv, NEW r \in Request, Produce(r)
  PROVE  MutedInv'
<1>1. step[r] = "idle" /\ UNCHANGED <<pending, calls, serverMuted>>
  BY DEF Produce
<1>2. \E next \in Step : step' = [step EXCEPT ![r] = next]
  BY DEF Produce, Step
<1>3. Settled \subseteq Settled'
  BY <1>1, <1>2, SettledStay DEF Settled
<1>4. NothingNew
  <2>1. CASE UNCHANGED <<producers, live, paused>>
    BY <1>3, <2>1 DEF NothingNew, MutedInv, CommandsInv
  <2>2. CASE \E t \in plain : Closed({}, {t})
    BY <1>3, <2>2, ClosedNothingNew
  <2> QED  BY <2>1, <2>2 DEF Produce
<1> QED  BY <1>1, <1>4, NothingNewKeeps

LEMMA TransportCreatedMuted ==
  ASSUME ProducersInv, MutedInv, NEW r \in Request, TransportCreated(r)
  PROVE  MutedInv'
<1>1. step[r] = "creating" /\ UNCHANGED <<producers, live, paused, pending, calls, serverMuted>>
  BY DEF TransportCreated
<1>2. \E next \in Step : step' = [step EXCEPT ![r] = next]
  BY DEF TransportCreated, Step
<1>3. Settled \subseteq Settled'
  BY <1>1, <1>2, SettledStay DEF Settled
<1> QED  BY <1>1, <1>3, NothingNewKeeps DEF NothingNew, MutedInv, CommandsInv

(* A new microphone of a muted person comes with a pause of its own. *)
LEMMA ProducedMuted ==
  ASSUME ProducersInv, MutedInv, NEW r \in Request, Produced(r)
  PROVE  MutedInv'
<1>1. /\ step[r] = "producing" /\ r \notin live
      /\ producers' = producers \cup {r}
      /\ live' = IF via[r] \in open THEN live \cup {r} ELSE live
      /\ UNCHANGED <<via, open, serverMuted, paused, calls>>
  BY DEF Produced, ProducersInv, LiveWasMade
<1>2. \E next \in {"pausing", "done"} : step' = [step EXCEPT ![r] = next]
  BY DEF Produced
<1>3. Settled' = Settled \cup {r} /\ r \notin Settled
  BY <1>1, <1>2 DEF Settled, ProducersInv, ProducersTypes
<1>4. QueueOf(pending, calls)' <=>
        /\ pending' \in Seq(Command) /\ calls \in Seq(Call)
        /\ \A i \in DOMAIN pending' :
             /\ pending'[i].of \in Settled'
             /\ ~pending'[i].served => pending'[i].of \notin live'
             /\ pending'[i].by = "mute" => pending'[i].run \in DOMAIN calls
  BY <1>1 DEF QueueOf
<1>5. CASE ~BornSilent(r)
  <2>1. pending' = pending
    BY <1>5 DEF Produced
  <2>2. CommandsInv'
    BY <1>1, <1>3, <1>4, <2>1 DEF MutedInv, CommandsInv, QueueOf
  <2>3. serverMuted => LiveMics' = LiveMics
    BY <1>1, <1>5 DEF BornSilent, LiveMics
  <2>4. MuteInv'
    BY <1>1, <2>1, <2>3 DEF MutedInv, MuteInv
  <2> QED  BY <2>2, <2>4 DEF MutedInv
<1>6. CASE BornSilent(r)
  <2> DEFINE m == Order("announce", 0, r, TRUE, via[r] \in open)
  <2>1. m \in Command
    BY DEF Order, Command
  <2>2. m.by = "announce" /\ m.of = r /\ m.pause /\ (m.served <=> via[r] \in open)
    BY DEF Order
  <2>3. pending' = Append(pending, m)
    BY <1>6 DEF Produced
  <2> HIDE DEF m, Command
  <2>4. pending \in Seq(Command) /\ Len(pending) \in Nat /\ DOMAIN pending = 1..Len(pending)
    BY DEF MutedInv, CommandsInv, QueueOf
  <2>5. /\ pending' \in Seq(Command) /\ DOMAIN pending' = 1..(Len(pending) + 1)
        /\ \A i \in DOMAIN pending : pending'[i] = pending[i]
        /\ pending'[Len(pending) + 1] = m
    BY <2>1, <2>3, <2>4
  <2>6. \A i \in DOMAIN pending' : i \in DOMAIN pending \/ i = Len(pending) + 1
    BY <2>4, <2>5
  <2>7. \A i \in DOMAIN pending : pending[i].of /= r
    BY <1>3 DEF MutedInv, CommandsInv, QueueOf
  <2>8. CommandsInv'
    BY <1>1, <1>3, <1>4, <2>2, <2>5, <2>6, <2>7 DEF MutedInv, CommandsInv, QueueOf
  <2>9. MuteInv'
    <3>1. serverMuted => Silences(calls, pending', paused, LiveMics)
      BY <2>1, <2>2, <2>3, <2>4, SilencesLonger DEF MutedInv, MuteInv, ResumesMic
    <3>2. r \in live' => Silent(pending', paused, r)
      BY <1>1, <2>1, <2>2, <2>3, <2>4, AppendSilences
    <3>3. serverMuted => Silences(calls, pending', paused, LiveMics')
      BY <1>1, <3>1, <3>2 DEF Silences, LiveMics
    <3> QED  BY <1>1, <3>3 DEF MuteInv
  <2> QED  BY <2>8, <2>9 DEF MutedInv
<1> QED  BY <1>5, <1>6

(* Whom the server mutes gives back no microphone. *)
LEMMA OwnPauseMuted ==
  ASSUME ProducersInv, MutedInv, OwnPause
  PROVE  MutedInv'
<1>1. UNCHANGED <<step, producers, live, paused, serverMuted, calls>>
  BY DEF OwnPause
<1>2. PICK p \in producers, pause \in BOOLEAN :
        /\ ~Refused(p, pause)
        /\ pending' = Append(pending, Order("owner", 0, p, pause, p \in live))
  BY DEF OwnPause
<1> DEFINE m == Order("owner", 0, p, pause, p \in live)
<1>3. p \in Settled /\ p \in Request
  BY DEF MutedInv, CommandsInv, Settled
<1>4. m \in Command
  BY <1>3 DEF Order, Command
<1>5. m.by = "owner" /\ m.of = p /\ (m.pause <=> pause) /\ (m.served <=> p \in live)
  BY DEF Order
<1>6. pending' = Append(pending, m)
  BY <1>2
<1> HIDE DEF m, Command
<1>7. QueueOf(pending', calls)
  BY <1>3, <1>4, <1>5, <1>6, QueueGrows DEF MutedInv, CommandsInv
<1>8. serverMuted => \A q \in LiveMics : ~ResumesMic(m, q)
  BY <1>2, <1>5 DEF ResumesMic, Refused, LiveMics
<1>9. serverMuted => Silences(calls, pending', paused, LiveMics)
  <2>1. pending \in Seq(Command)
    BY DEF MutedInv, CommandsInv, QueueOf
  <2> QED  BY <1>4, <1>6, <1>8, <2>1, SilencesLonger DEF MutedInv, MuteInv
<1>10. Settled' = Settled /\ LiveMics' = LiveMics
  BY <1>1 DEF Settled, LiveMics
<1>11. MuteSteps
  BY <1>1, <1>7, <1>9, <1>10 DEF MuteSteps
<1>12. NothingNew
  BY <1>1, <1>10 DEF NothingNew, MutedInv, CommandsInv
<1> QED  BY <1>11, <1>12, MuteStepsKeep

LEMMA ServerMuteMuted ==
  ASSUME ProducersInv, MutedInv, ServerMute
  PROVE  MutedInv'
<1>1. UNCHANGED <<step, producers, live, paused>>
  BY DEF ServerMute
<1>2. PICK muted \in BOOLEAN : StartMute(muted, producers \cap Mics)
  BY DEF ServerMute
<1>3. Settled' = Settled /\ LiveMics' = LiveMics
  BY <1>1 DEF Settled, LiveMics
<1>4. LiveMics \subseteq (producers \cap Mics) \cap live
  BY DEF LiveMics, ProducersInv, LiveIsListed
<1>5. MuteSteps
  BY <1>2, <1>3, <1>4, StartMuteSilences DEF MutedInv, CommandsInv
<1>6. NothingNew
  BY <1>1, <1>3 DEF NothingNew, MutedInv, CommandsInv
<1> QED  BY <1>5, <1>6, MuteStepsKeep

(* A resume revokes first, and mutes what is left. *)
LEMMA ResumeMuted ==
  ASSUME ProducersInv, ProducersInv', MutedInv, Resume
  PROVE  MutedInv'
<1>1. PICK allowed \in SUBSET Source, muted \in BOOLEAN :
        LET revoked == {p \in producers : SourceOf[p] \notin allowed}
        IN /\ CloseProducers(revoked)
           /\ IF muted = serverMuted THEN UNCHANGED <<serverMuted, pending, calls>>
              ELSE StartMute(muted, (producers \ revoked) \cap Mics)
  BY DEF Resume
<1> DEFINE revoked == {p \in producers : SourceOf[p] \notin allowed}
<1>2. Settled' = Settled
  BY DEF Resume, Settled
<1>3. NothingNew /\ producers' \subseteq producers \ revoked
  BY <1>1, <1>2, CloseProducersNothingNew
<1>4. CASE UNCHANGED <<serverMuted, pending, calls>>
  BY <1>3, <1>4, NothingNewKeeps
<1>5. CASE StartMute(muted, (producers \ revoked) \cap Mics)
  <2>1. LiveMics' \subseteq ((producers \ revoked) \cap Mics) \cap live
    BY <1>3 DEF NothingNew, LiveMics, ProducersInv, LiveIsListed
  <2>2. (producers \ revoked) \cap Mics \subseteq Settled
    BY DEF MutedInv, CommandsInv
  <2>3. MuteSteps
    BY <1>5, <2>1, <2>2, StartMuteSilences DEF MutedInv, CommandsInv
  <2> QED  BY <1>3, <2>3, MuteStepsKeep
<1> QED  BY <1>1, <1>4, <1>5

(* A run whose command found its producer dead sees nothing any more. *)
LEMMA FailedRun ==
  ASSUME NEW queue, QueueOf(queue, calls), NEW c \in DOMAIN calls, NEW stopped, NEW mics,
         calls' = [calls EXCEPT ![c] = [@ EXCEPT !.state = "failed", !.seen = {}]],
         pending' = queue
  PROVE  /\ QueueOf(pending', calls')
         /\ Silences(calls, queue, stopped, mics) => Silences(calls', pending', stopped, mics)
<1> DEFINE over == [calls[c] EXCEPT !.state = "failed", !.seen = {}]
<1>1. calls \in Seq(Call) /\ calls[c] \in Call
  BY DEF QueueOf
<1>2. over \in Call /\ over.muted = calls[c].muted /\ over.seen = {} /\ over.state = "failed"
  BY <1>1 DEF Call
<1>3. calls' = [calls EXCEPT ![c] = over]
  OBVIOUS
<1> HIDE DEF over, Call
<1>4. /\ calls' \in Seq(Call) /\ Len(calls') = Len(calls) /\ DOMAIN calls' = DOMAIN calls
      /\ calls /= <<>> /\ calls' /= <<>> /\ Len(calls) \in DOMAIN calls
      /\ \A d \in DOMAIN calls : calls'[d] = IF d = c THEN over ELSE calls[d]
  BY <1>1, <1>2, <1>3
<1>5. QueueOf(pending', calls')
  BY <1>4, QueueOfOtherRuns
<1>6. ASSUME Silences(calls, queue, stopped, mics)
      PROVE  Silences(calls', pending', stopped, mics)
  BY <1>2, <1>4, <1>6 DEF Silences
<1> QED  BY <1>5, <1>6

(* The answer to a command of a run takes that run to its next microphone. *)
LEMMA AnsweredMuted ==
  ASSUME ProducersInv, MutedInv, Answered
  PROVE  MutedInv'
<1> DEFINE m == Head(pending)
           queue == Tail(pending)
<1>1. /\ pending \in Seq(Command) /\ calls \in Seq(Call) /\ pending /= <<>>
      /\ UNCHANGED <<producers, live, serverMuted>>
  BY DEF Answered, MutedInv, CommandsInv, QueueOf
<1>2. /\ m.of \in Settled /\ (~m.served => m.of \notin live)
      /\ (m.by = "mute" => m.run \in DOMAIN calls)
  <2>1. m = pending[1] /\ 1 \in DOMAIN pending
    BY <1>1
  <2> QED  BY <2>1 DEF MutedInv, CommandsInv, QueueOf
<1>3. QueueOf(queue, calls)
  BY <1>1, QueueShrinks DEF MutedInv, CommandsInv
<1>4. paused' = Served(m, paused)
  BY DEF Answered, Served
<1>5. Settled \subseteq Settled' /\ LiveMics' = LiveMics
  <2>1. step' = step \/ step' = [step EXCEPT ![m.of] = "done"]
    BY DEF Answered
  <2> QED  BY <1>1, <2>1 DEF Settled, LiveMics, ProducersInv, ProducersTypes
<1>6. serverMuted => Silences(calls, queue, paused', LiveMics)
  <2>1. \A p \in LiveMics : Silent(pending, paused, p) => Silent(queue, paused', p)
    BY <1>1, <1>2, <1>4, ServedKeepsSilence DEF LiveMics
  <2> QED  BY <2>1 DEF MutedInv, MuteInv, Silences
<1>7. /\ QueueOf(pending', calls')
      /\ serverMuted => Silences(calls', pending', paused', LiveMics)
  <2>1. CASE UNCHANGED calls /\ pending' = queue
    BY <1>3, <1>6, <2>1
  <2>2. CASE /\ m.by = "mute"
             /\ Visit(m.run, calls, producers \cap Mics, serverMuted, queue)
    <3>1. producers \cap Mics \subseteq Settled /\ producers \cap Mics \subseteq Request
      BY DEF MutedInv, CommandsInv, Settled
    <3>2. QueueOf(pending', calls')
      BY <1>2, <1>3, <2>2, <3>1, VisitQueue
    <3>3. ASSUME serverMuted = TRUE
          PROVE  Silences(calls', pending', paused', LiveMics)
      <4>1. LiveMics \subseteq (producers \cap Mics) \cap live
        BY DEF LiveMics, ProducersInv, LiveIsListed
      <4>2. Visit(m.run, calls, producers \cap Mics, TRUE, queue)
        BY <2>2, <3>3
      <4>3. queue \in Seq(Command)
        BY <1>3 DEF QueueOf
      <4> HIDE DEF queue, m
      <4> QED  BY <1>1, <1>2, <1>6, <2>2, <3>1, <3>3, <4>1, <4>2, <4>3, VisitSilences
    <3> QED  BY <3>2, <3>3
  <2>3. CASE /\ m.by = "mute"
             /\ calls' = [calls EXCEPT ![m.run] = [@ EXCEPT !.state = "failed", !.seen = {}]]
             /\ pending' = queue
    BY <1>2, <1>3, <1>6, <2>3, FailedRun
  <2> QED  BY <2>1, <2>2, <2>3 DEF Answered
<1>8. CommandsInv'
  BY <1>1, <1>5, <1>7 DEF MutedInv, CommandsInv, QueueOf
<1>9. MuteInv'
  BY <1>1, <1>5, <1>7 DEF MuteInv
<1> QED  BY <1>8, <1>9 DEF MutedInv

LEMMA MutedInvInit == ProducersInit => MutedInv
BY DEF ProducersInit, MutedInv, CommandsInv, QueueOf, MuteInv, Silences, LiveMics

LEMMA MutedInvKept ==
  ProducersInv /\ ProducersInv' /\ MutedInv /\ [ProducersNext]_producersVars => MutedInv'
<1> SUFFICES ASSUME ProducersInv, ProducersInv', MutedInv, [ProducersNext]_producersVars
             PROVE  MutedInv'
  OBVIOUS
<1>1. ASSUME NEW r \in Request, Produce(r) \/ TransportCreated(r) \/ Produced(r)
      PROVE  MutedInv'
  BY <1>1, ProduceMuted, TransportCreatedMuted, ProducedMuted
<1>2. ASSUME Settled' = Settled, UNCHANGED <<pending, calls, serverMuted>>,
             \/ UNCHANGED <<producers, live, paused>>
             \/ \E dead, T : Closed(dead, T)
             \/ \E dead : CloseProducers(dead)
      PROVE  MutedInv'
  <2>1. NothingNew
    BY <1>2, ClosedNothingNew, CloseProducersNothingNew DEF NothingNew, MutedInv, CommandsInv
  <2> QED  BY <1>2, <2>1, NothingNewKeeps
<1>3. ASSUME NEW r \in Request, Receives(r) \/ Idle(r)
      PROVE  MutedInv'
  <2>1. Settled' = Settled /\ UNCHANGED <<pending, calls, serverMuted>>
    BY <1>3 DEF Receives, Idle, Settled
  <2> QED  BY <1>2, <1>3, <2>1 DEF Receives, Idle, IdleEnds
<1>4. CASE ServerMute
  BY <1>4, ServerMuteMuted
<1>5. CASE OwnPause
  BY <1>5, OwnPauseMuted
<1>6. CASE Answered
  BY <1>6, AnsweredMuted
<1>7. CASE Destroy
  <2>1. Settled' = Settled /\ UNCHANGED <<pending, calls, serverMuted>>
    BY <1>7 DEF Destroy, Settled
  <2> QED  BY <1>2, <1>7, <2>1 DEF Destroy
<1>8. CASE Resume
  BY <1>8, ResumeMuted
<1>9. CASE PeerLeaves
  <2>1. NothingNew /\ UNCHANGED <<pending, calls, serverMuted>>
    BY <1>9 DEF PeerLeaves, NothingNew, Settled, MutedInv, CommandsInv
  <2> QED  BY <2>1, NothingNewKeeps
<1>10. CASE UNCHANGED producersVars
  <2>1. Settled' = Settled /\ UNCHANGED <<producers, live, paused, pending, calls, serverMuted>>
    BY <1>10 DEF producersVars, Settled
  <2> QED  BY <1>2, <2>1
<1> QED  BY <1>1, <1>3, <1>4, <1>5, <1>6, <1>7, <1>8, <1>9, <1>10 DEF ProducersNext

(***************************************************************************)
(* applyServerMute: once the last mute was answered without an error and    *)
(* the worker has nothing left to answer, no microphone of the muted person *)
(* is open: not one that was being produced when the mute came, nor one     *)
(* that its owner or an earlier run was giving back.                        *)
(***************************************************************************)
THEOREM MuteHolds == ProducersSpec => []AnsweredMuteHolds
<1>1. MutedInv => AnsweredMuteHolds
  BY DEF MutedInv, MuteInv, Silences, Silent, Quiet, AnsweredMuteHolds
<1>2. ProducersSpec => []MutedInv
  BY MutedInvInit, MutedInvKept, ProducersInvHolds, PTL DEF ProducersSpec
<1> QED  BY <1>1, <1>2, PTL

-----------------------------------------------------------------------------
(* The values of the producers *)

(* What the room hears, and the producers it heard of whose 30 s are counted. *)
HearingTypes ==
  /\ paused \subseteq live
  /\ timers \subseteq Request
  /\ hears \in [Request -> {"nothing", "open", "paused", "closed"}]
  /\ \A p \in timers : hears[p] /= "nothing"

LEMMA ClosedHearing ==
  ASSUME HearingTypes, NEW dead, NEW T,
         \/ Closed(dead, T)
         \/ UNCHANGED <<open, plain, live, paused, producers, timers, hears>>
  PROVE  HearingTypes'
BY DEF HearingTypes, Closed

LEMMA CloseProducersHearing ==
  ASSUME HearingTypes, NEW dead, CloseProducers(dead)
  PROVE  HearingTypes'
<1>1. CASE dead \cap producers = {}
  BY <1>1, ClosedHearing DEF CloseProducers
<1>2. CASE dead \cap producers /= {}
  BY <1>2, ClosedHearing DEF CloseProducers
<1> QED  BY <1>1, <1>2

(* The room hears of a producer it did not know. *)
LEMMA AnnouncedHearing ==
  ASSUME HearingTypes, NEW r \in Request, Announced(r), paused' \subseteq live'
  PROVE  HearingTypes'
BY DEF HearingTypes, Announced

(* The room hears of a pause or a resume, or of nothing. *)
LEMMA HeardHearing ==
  ASSUME HearingTypes, NEW p, NEW pause \in BOOLEAN, hears' = Heard(p, pause) \/ hears' = hears,
         timers' = timers, paused' \subseteq live'
  PROVE  HearingTypes'
BY DEF HearingTypes, Heard

LEMMA AnsweredHearing ==
  ASSUME HearingTypes, MutedInv, Answered
  PROVE  HearingTypes'
<1> DEFINE m == Head(pending)
<1>1. pending \in Seq(Command) /\ pending /= <<>>
  BY DEF Answered, MutedInv, CommandsInv, QueueOf
<1>2. m \in Command
  <2> HIDE DEF Command
  <2> QED  BY <1>1
<1>3. m.of \in Request /\ m.pause \in BOOLEAN
  BY <1>2 DEF Command
<1> HIDE DEF m
<1>4. paused' \subseteq live'
  BY DEF Answered, HearingTypes, m
<1>5. CASE m.by = "announce"
  BY <1>3, <1>4, <1>5, AnnouncedHearing, HeardHearing DEF Answered, m
<1>6. CASE m.by = "owner"
  BY <1>3, <1>4, <1>6, HeardHearing DEF Answered, m
<1>7. CASE m.by = "mute" /\ m.served
  BY <1>3, <1>4, <1>7, HeardHearing DEF Answered, m
<1>8. CASE m.by = "mute" /\ ~m.served
  BY <1>3, <1>4, <1>8, HeardHearing DEF Answered, m
<1> QED  BY <1>5, <1>6, <1>7, <1>8 DEF Answered, m

LEMMA HearingTypesKept ==
  ASSUME HearingTypes, ProducersInv, MutedInv, [ProducersNext]_producersVars
  PROVE  HearingTypes'
<1>1. ASSUME NEW r \in Request, Produce(r)
      PROVE  HearingTypes'
  BY <1>1, ClosedHearing DEF Produce
<1>2. ASSUME NEW r \in Request, TransportCreated(r)
      PROVE  HearingTypes'
  BY <1>2 DEF TransportCreated, HearingTypes
<1>3. ASSUME NEW r \in Request, Produced(r)
      PROVE  HearingTypes'
  <2>1. paused' \subseteq live'
    BY <1>3 DEF Produced, HearingTypes
  <2>2. CASE BornSilent(r)
    BY <1>3, <2>1, <2>2 DEF Produced, HearingTypes
  <2>3. CASE ~BornSilent(r)
    BY <1>3, <2>1, <2>3, AnnouncedHearing DEF Produced
  <2> QED  BY <2>2, <2>3
<1>4. ASSUME NEW r \in Request, Receives(r)
      PROVE  HearingTypes'
  BY <1>4 DEF Receives, HearingTypes
<1>5. ASSUME NEW r \in Request, Idle(r)
      PROVE  HearingTypes'
  <2>1. CASE r \in producers
    BY <1>5, <2>1, ClosedHearing DEF Idle, IdleEnds
  <2>2. CASE r \notin producers
    BY <1>5, <2>2 DEF Idle, IdleEnds, HearingTypes
  <2> QED  BY <2>1, <2>2
<1>6. CASE ServerMute \/ OwnPause
  BY <1>6 DEF ServerMute, OwnPause, HearingTypes
<1>7. CASE Destroy \/ Resume
  BY <1>7, CloseProducersHearing DEF Destroy, Resume
<1>8. CASE PeerLeaves
  BY <1>8 DEF PeerLeaves, HearingTypes
<1>9. CASE UNCHANGED producersVars
  BY <1>9 DEF producersVars, HearingTypes
<1> QED
  BY <1>1, <1>2, <1>3, <1>4, <1>5, <1>6, <1>7, <1>8, <1>9, AnsweredHearing DEF ProducersNext

(* The mark, the token's can and whether the peer left. *)
MarkTypes == can \subseteq Source /\ serverMuted \in BOOLEAN /\ left \in BOOLEAN

LEMMA MarkTypesKept == MarkTypes /\ [ProducersNext]_producersVars => MarkTypes'
<1> SUFFICES ASSUME MarkTypes, [ProducersNext]_producersVars PROVE MarkTypes'
  OBVIOUS
<1>1. CASE UNCHANGED <<can, serverMuted, left>>
  BY <1>1 DEF MarkTypes
<1>2. CASE ServerMute
  BY <1>2 DEF ServerMute, StartMute, MarkTypes
<1>3. CASE Resume
  BY <1>3 DEF Resume, StartMute, MarkTypes
<1>4. CASE PeerLeaves
  BY <1>4 DEF PeerLeaves, MarkTypes
<1> QED
  BY <1>1, <1>2, <1>3, <1>4
     DEF ProducersNext, producersVars, Produce, TransportCreated, Produced, Receives, Idle,
         OwnPause, Answered, Destroy

(***************************************************************************)
(* Room.ts, Peer.ts: every command is of a producer of the peer, the worker *)
(* keeps no mark of one it has closed, and the 30 s are only counted of a   *)
(* producer the room heard of.                                              *)
(***************************************************************************)
THEOREM ProducersTypesHold == ProducersSpec => []ProducersTypeOK
<1>1. ProducersInit => HearingTypes /\ MarkTypes
  BY DEF ProducersInit, HearingTypes, MarkTypes
<1>2. HearingTypes /\ ProducersInv /\ MutedInv /\ [ProducersNext]_producersVars => HearingTypes'
  BY HearingTypesKept
<1>3. ProducersInv /\ MutedInv /\ HearingTypes /\ MarkTypes => ProducersTypeOK
  BY DEF ProducersInv, ProducersTypes, SameTransports, MutedInv, CommandsInv, QueueOf, Settled,
         HearingTypes, MarkTypes, ProducersTypeOK
<1>4. ProducersSpec => []MutedInv
  BY MutedInvInit, MutedInvKept, ProducersInvHolds, PTL DEF ProducersSpec
<1> QED  BY <1>1, <1>2, <1>3, <1>4, MarkTypesKept, ProducersInvHolds, PTL DEF ProducersSpec

-----------------------------------------------------------------------------
(* The routers of a room *)

LEMMA SomeSmallest ==
  ASSUME NEW T \in SUBSET Nat, T /= {}
  PROVE  \E m \in T : \A k \in T : m <= k
<1>1. PICK m \in T : \A k \in T : ~(<<k, m>> \in OpToRel(<, Nat))
  BY NatLessThanWellFounded, WFMin
<1>2. \A k \in T : <<k, m>> \in OpToRel(<, Nat) <=> k < m
  BY DEF OpToRel
<1>3. \A k \in T : ~(k < m)
  BY <1>1, <1>2, Zenon
<1> QED  BY <1>3

(* One router is being created at most, on a worker that has none yet. *)
OneExpansion ==
  /\ \A r, s \in expanding : r = s
  /\ \A r \in expanding : r.worker \notin Busy

(* A room is released when the last leaves, and nobody comes back to it. *)
ReleasedIsEmpty == ~roomOpen => inRoom = {}

RoutersInv ==
  /\ RoutersTypeOK
  /\ expansions \in 0..MaxExpansions
  /\ IsFiniteSet(inRoom)
  /\ ReleasedIsEmpty
  /\ OneExpansion
  /\ OneRouterPerWorker
  /\ NobodyIsStranded

LEMMA RoutersInvInit == RoutersInit => RoutersInv
<1> SUFFICES ASSUME RoutersInit
             PROVE  RoutersInv
  OBVIOUS
<1>1. PICK w \in AtFirst : routers = {[worker |-> w, n |-> 0]}
  BY DEF RoutersInit
<1>2. PICK p \in Person : inRoom = {p}
  BY DEF RoutersInit
<1>3. RoutersTypeOK
  BY <1>1, <1>2, RoutersAssumption DEF RoutersInit, RoutersTypeOK, Router
<1>4. IsFiniteSet(inRoom)
  BY <1>2, FS_Singleton
<1>5. ReleasedIsEmpty /\ OneExpansion /\ OneRouterPerWorker /\ NobodyIsStranded
  BY <1>1, <1>2
     DEF RoutersInit, ReleasedIsEmpty, OneExpansion, OneRouterPerWorker, NobodyIsStranded
<1> QED  BY <1>3, <1>4, <1>5, RoutersAssumption DEF RoutersInit, RoutersInv

(* find and reduce give a router of the room. *)
LEMMA FirstIsOne ==
  ASSUME RoutersTypeOK, NEW good \in SUBSET routers, good /= {}
  PROVE  FirstOfRouters(good) \in good
<1> DEFINE N == {r.n : r \in good}
<1>1. \A r \in good : r.n \in Nat
  BY RoutersAssumption DEF RoutersTypeOK, Router
<1>2. PICK m \in N : \A k \in N : m <= k
  BY ZenonT(40), <1>1, SomeSmallest
<1>3. \E r \in good : \A s \in good : r.n <= s.n
  BY <1>2
<1> QED  BY <1>3 DEF FirstOfRouters

LEMMA SomeIsSmallest ==
  ASSUME RoutersInv, routers /= {}
  PROVE  Smallest /= {}
<1> DEFINE N == {Load(r) : r \in routers}
<1>1. \A r : Load(r) \in Nat
  BY FS_Subset, FS_CardinalityType DEF RoutersInv, Load
<1>2. PICK m \in N : \A k \in N : m <= k
  BY <1>1, SomeSmallest
<1> QED  BY <1>2 DEF Smallest

LEMMA EnterRoomKeeps ==
  ASSUME RoutersInv, NEW p \in Person, EnterRoom(p)
  PROVE  RoutersInv'
<1>1. RoutersTypeOK'
  BY DEF EnterRoom, RoutersInv, RoutersTypeOK
<1>2. IsFiniteSet(inRoom')
  BY FS_AddElement DEF EnterRoom, RoutersInv
<1>3. OneExpansion' /\ OneRouterPerWorker'
  BY DEF EnterRoom, RoutersInv, OneExpansion, OneRouterPerWorker, Busy
<1>4. NobodyIsStranded' /\ ReleasedIsEmpty'
  BY DEF EnterRoom, RoutersInv, RoutersTypeOK, NobodyIsStranded, ReleasedIsEmpty
<1> QED  BY <1>1, <1>2, <1>3, <1>4 DEF EnterRoom, RoutersInv

(* Whoever asks has a router of the room, or waits for the one that comes. *)
LEMMA AsksRouterCases ==
  ASSUME RoutersInv, NEW p \in Person, AsksRouter(p)
  PROVE  \/ /\ \E r \in routers : media' = [media EXCEPT ![p] = r]
            /\ UNCHANGED <<routing, expanding, expansions>>
         \/ /\ expanding = {} /\ expansions < MaxExpansions /\ expansions' = expansions + 1
            /\ UNCHANGED media
            /\ \E w \in Worker \ Busy :
                 LET r == [worker |-> w, n |-> expansions']
                 IN  expanding' = {r} /\ routing' = [routing EXCEPT ![p] = r]
         \/ /\ \E r \in expanding : routing' = [routing EXCEPT ![p] = r]
            /\ UNCHANGED <<media, expanding, expansions>>
<1>1. routers /= {}
  BY DEF AsksRouter, RoutersInv, ReleasedIsEmpty, NobodyIsStranded
<1> QED  BY <1>1, FirstIsOne, SomeIsSmallest
         DEF AsksRouter, Settles, Expands, WaitsFor, WithRoom, Smallest, Up, RoutersInv

LEMMA AsksRouterKeeps ==
  ASSUME RoutersInv, NEW p \in Person, AsksRouter(p)
  PROVE  RoutersInv'
<1>1. p \in inRoom /\ UNCHANGED <<workers, roomOpen, routers, running, inRoom>>
  BY DEF AsksRouter
<1>2. CASE /\ \E r \in routers : media' = [media EXCEPT ![p] = r]
           /\ UNCHANGED <<routing, expanding, expansions>>
  BY <1>1, <1>2 DEF RoutersInv, RoutersTypeOK, OneExpansion, OneRouterPerWorker, NobodyIsStranded,
                    ReleasedIsEmpty, Busy
<1>3. ASSUME NEW w \in Worker \ Busy,
             expanding = {}, expansions < MaxExpansions, expansions' = expansions + 1,
             UNCHANGED media,
             expanding' = {[worker |-> w, n |-> expansions']},
             routing' = [routing EXCEPT ![p] = [worker |-> w, n |-> expansions']]
      PROVE  RoutersInv'
  <2> DEFINE r == [worker |-> w, n |-> expansions']
  <2>1. expansions' \in 0..MaxExpansions
    BY <1>3, RoutersAssumption DEF RoutersInv
  <2>2. r \in Router /\ r.worker = w
    BY <2>1 DEF Router
  <2> HIDE DEF r
  <2>3. expanding' = {r} /\ routing' = [routing EXCEPT ![p] = r]
    BY <1>3 DEF r
  <2>4. RoutersTypeOK'
    BY <1>1, <1>3, <2>2, <2>3 DEF RoutersInv, RoutersTypeOK
  <2>5. OneExpansion' /\ OneRouterPerWorker' /\ ReleasedIsEmpty'
    BY <1>1, <2>2, <2>3 DEF RoutersInv, OneExpansion, OneRouterPerWorker, ReleasedIsEmpty, Busy
  <2>6. NobodyIsStranded'
    BY <1>1, <1>3, <2>3 DEF RoutersInv, RoutersTypeOK, NobodyIsStranded
  <2> QED  BY <1>1, <2>1, <2>4, <2>5, <2>6 DEF RoutersInv
<1>4. CASE /\ \E r \in expanding : routing' = [routing EXCEPT ![p] = r]
           /\ UNCHANGED <<media, expanding, expansions>>
  BY <1>1, <1>4 DEF RoutersInv, RoutersTypeOK, OneExpansion, OneRouterPerWorker, NobodyIsStranded,
                    ReleasedIsEmpty, Busy
<1> QED  BY <1>2, <1>3, <1>4, AsksRouterCases

LEMMA RouterBornKeeps ==
  ASSUME RoutersInv, NEW r \in expanding, RouterBorn(r)
  PROVE  RoutersInv'
<1>1. /\ routers' = routers \cup {r} /\ running' = running \cup {r} /\ expanding' = expanding \ {r}
      /\ media' = [p \in Person |-> IF routing[p] = r THEN r ELSE media[p]]
      /\ routing' = [p \in Person |-> IF routing[p] = r THEN Nowhere ELSE routing[p]]
      /\ UNCHANGED <<workers, roomOpen, inRoom, expansions>>
  BY DEF RouterBorn
<1>2. r \in Router /\ r /= Nowhere
  BY RoutersAssumption DEF RoutersInv, RoutersTypeOK, Router
<1>3. RoutersTypeOK'
  BY <1>1, <1>2 DEF RoutersInv, RoutersTypeOK
<1>4. OneExpansion' /\ OneRouterPerWorker'
  BY <1>1 DEF RoutersInv, OneExpansion, OneRouterPerWorker, Busy
<1>5. NobodyIsStranded' /\ ReleasedIsEmpty'
  BY <1>1 DEF RoutersInv, RoutersTypeOK, NobodyIsStranded, ReleasedIsEmpty
<1> QED  BY <1>1, <1>3, <1>4, <1>5 DEF RoutersInv

LEMMA RouterRefusedKeeps ==
  ASSUME RoutersInv, NEW r \in expanding, RouterRefused(r)
  PROVE  RoutersInv'
<1>1. RoutersTypeOK'
  BY DEF RouterRefused, RoutersInv, RoutersTypeOK
<1>2. OneExpansion' /\ OneRouterPerWorker'
  BY DEF RouterRefused, RoutersInv, OneExpansion, OneRouterPerWorker, Busy
<1>3. NobodyIsStranded' /\ ReleasedIsEmpty'
  BY DEF RouterRefused, RoutersInv, RoutersTypeOK, NobodyIsStranded, ReleasedIsEmpty
<1> QED  BY <1>1, <1>2, <1>3 DEF RouterRefused, RoutersInv

(* Whoever goes takes along the router it had or waited for. *)
LEMMA GoneKeepsTypes ==
  ASSUME RoutersInv, NEW some, NEW kept \in SUBSET running, Gone(some, kept),
         workers' \in [Worker -> {"unborn", "up", "down"}], routers' \subseteq routers,
         expanding' \subseteq expanding, expansions' = expansions
  PROVE  /\ RoutersTypeOK' /\ expansions' \in 0..MaxExpansions /\ IsFiniteSet(inRoom')
         /\ OneExpansion' /\ OneRouterPerWorker' /\ ReleasedIsEmpty'
<1>1. RoutersTypeOK'
  BY DEF Gone, RoutersInv, RoutersTypeOK
<1>2. IsFiniteSet(inRoom')
  <2>1. inRoom' \subseteq inRoom
    BY DEF Gone
  <2> QED  BY <2>1, FS_Subset DEF RoutersInv
<1>3. OneExpansion' /\ OneRouterPerWorker'
  BY DEF RoutersInv, OneExpansion, OneRouterPerWorker, Busy
<1>4. ReleasedIsEmpty'
  BY DEF Gone, RoutersInv, ReleasedIsEmpty
<1> QED  BY <1>1, <1>2, <1>3, <1>4 DEF RoutersInv

LEMMA LeavesRoomKeeps ==
  ASSUME RoutersInv, NEW p \in Person, LeavesRoom(p)
  PROVE  RoutersInv'
<1>1. expanding' = expanding /\ Gone({p}, running) /\ UNCHANGED <<workers, routers, expansions>>
  BY DEF LeavesRoom
<1>2. /\ RoutersTypeOK' /\ expansions' \in 0..MaxExpansions /\ IsFiniteSet(inRoom')
      /\ OneExpansion' /\ OneRouterPerWorker' /\ ReleasedIsEmpty'
  BY <1>1, GoneKeepsTypes DEF RoutersInv, RoutersTypeOK
<1>3. NobodyIsStranded'
  BY <1>1 DEF Gone, RoutersInv, RoutersTypeOK, NobodyIsStranded
<1> QED  BY <1>2, <1>3 DEF RoutersInv

(* evacuate takes out everyone whose router died; another one is left. *)
LEMMA WorkerDownKeeps ==
  ASSUME RoutersInv, NEW w \in Worker, WorkerDown(w)
  PROVE  RoutersInv'
<1> DEFINE out == IF w \in Busy THEN Evacuated(w) ELSE {}
           kept == {r \in running : r.worker /= w}
<1>1. /\ Gone(out, kept) /\ expansions' = expansions
      /\ workers' \in [Worker -> {"unborn", "up", "down"}]
      /\ expanding' = {r \in expanding : r.worker /= w}
      /\ routers' = {r \in routers : r.worker /= w}
  BY DEF WorkerDown, RoutersInv, RoutersTypeOK
<1>2. /\ RoutersTypeOK' /\ expansions' \in 0..MaxExpansions /\ IsFiniteSet(inRoom')
      /\ OneExpansion' /\ OneRouterPerWorker' /\ ReleasedIsEmpty'
  BY <1>1, GoneKeepsTypes
<1>3. ASSUME roomOpen'
      PROVE  /\ inRoom' /= {} /\ routers' /= {} /\ routers' \subseteq running'
             /\ \A p \in inRoom' : /\ media'[p] \in routers' \cup {Nowhere}
                                   /\ routing'[p] \in expanding' \cup {Nowhere}
  <2>1. /\ roomOpen /\ inRoom' = inRoom \ out /\ inRoom' /= {} /\ running' = kept
        /\ \A p \in Person : p \notin out => media'[p] = media[p]
        /\ \A p \in Person : routing'[p] \in expanding' \cup {Nowhere}
    BY <1>1, <1>3 DEF Gone, RoutersInv, RoutersTypeOK, NobodyIsStranded
  <2>2. Busy /= {w}
    BY <2>1 DEF Evacuated
  <2>3. /\ routers /= {} /\ routers \subseteq running /\ inRoom \subseteq Person
        /\ \A p \in inRoom : media[p] \in routers \cup {Nowhere}
    BY <2>1 DEF RoutersInv, RoutersTypeOK, NobodyIsStranded
  <2>4. routers' /= {} /\ routers' \subseteq running'
    BY <1>1, <2>1, <2>2, <2>3 DEF Busy
  <2>5. ASSUME NEW p \in inRoom', media[p] \in routers
        PROVE  media[p].worker /= w
    BY <2>1, <2>2, <2>5 DEF Evacuated, MediaOn, Busy
  <2> QED  BY <1>1, <2>1, <2>3, <2>4, <2>5
<1> QED  BY <1>2, <1>3 DEF RoutersInv, NobodyIsStranded

LEMMA RoutersInvKept == RoutersInv /\ [RoutersNext]_routersVars => RoutersInv'
<1> SUFFICES ASSUME RoutersInv, [RoutersNext]_routersVars
             PROVE  RoutersInv'
  OBVIOUS
<1>1. ASSUME NEW p \in Person, EnterRoom(p) \/ AsksRouter(p) \/ LeavesRoom(p)
      PROVE  RoutersInv'
  BY <1>1, EnterRoomKeeps, AsksRouterKeeps, LeavesRoomKeeps
<1>2. ASSUME NEW r \in expanding, RouterBorn(r) \/ RouterRefused(r)
      PROVE  RoutersInv'
  BY <1>2, RouterBornKeeps, RouterRefusedKeeps
<1>3. ASSUME NEW w \in Worker, WorkerDown(w)
      PROVE  RoutersInv'
  BY <1>3, WorkerDownKeeps
<1>4. ASSUME NEW w \in Worker, WorkerBorn(w)
      PROVE  RoutersInv'
  BY <1>4 DEF WorkerBorn, RoutersInv, RoutersTypeOK, OneExpansion, OneRouterPerWorker,
              NobodyIsStranded, ReleasedIsEmpty, Busy
<1>5. CASE UNCHANGED routersVars
  BY <1>5 DEF routersVars, RoutersInv, RoutersTypeOK, OneExpansion, OneRouterPerWorker,
              NobodyIsStranded, ReleasedIsEmpty, Busy
<1> QED  BY <1>1, <1>2, <1>3, <1>4, <1>5 DEF RoutersNext

(* The invariant of Room.pickRouter and expand: one router is made at a time. *)
THEOREM RoutersInvHolds == RoutersSpec => []RoutersInv
BY RoutersInvInit, RoutersInvKept, PTL DEF RoutersSpec

(***************************************************************************)
(* Room.ts, expand: a room has one router at most on a worker, however many *)
(* find it full at once and whatever dies while a router is being created.  *)
(***************************************************************************)
THEOREM OneOnEach == RoutersSpec => []OneRouterPerWorker
<1>1. RoutersInv => OneRouterPerWorker
  BY DEF RoutersInv
<1> QED  BY <1>1, RoutersInvHolds, PTL

(***************************************************************************)
(* Room.ts, evacuate: whoever stays in a room whose worker died has a       *)
(* router that lives, waits for one that is coming, or has asked for none.  *)
(***************************************************************************)
THEOREM NoneStranded == RoutersSpec => []NobodyIsStranded
<1>1. RoutersInv => NobodyIsStranded
  BY DEF RoutersInv
<1> QED  BY <1>1, RoutersInvHolds, PTL

-----------------------------------------------------------------------------
(* The presence in a channel *)

(* What the properties need of the types. *)
PresenceTypes ==
  /\ conn \in [Socket -> {"open", "closing", "gone"}]
  /\ subscribed \subseteq Socket
  /\ promised \in [Socket -> SUBSET Account]

PresenceInv == PresenceTypes /\ GoneHoldsNothing /\ ListenersAreTold

LEMMA PresenceInvInit == PresenceInit => PresenceInv
BY DEF PresenceInit, PresenceInv, PresenceTypes, GoneHoldsNothing, ListenersAreTold

(* countFor: what one and none of an account mean. *)
LEMMA CountsMean ==
  ASSUME NEW members \in SUBSET Socket, NEW s \in Socket
  PROVE  /\ LastOf(members, s) <=> AccountOf[s] \notin PresenceIn(members)
         /\ s \in members /\ ~FirstOf(members, s)
              => AccountOf[s] \in PresenceIn(members \ {s})
<1> DEFINE same == {t \in members : AccountOf[t] = AccountOf[s]}
<1>1. IsFiniteSet(same)
  BY PresenceAssumption, FS_Subset
<1>2. CountFor(members, AccountOf[s]) = Cardinality(same)
  BY DEF CountFor
<1>3. LastOf(members, s) <=> same = {}
  BY <1>1, <1>2, FS_EmptySet DEF LastOf
<1>4. ASSUME s \in members, \A t \in members \ {s} : AccountOf[t] /= AccountOf[s]
      PROVE  FirstOf(members, s)
  <2>1. same = {s}
    BY <1>4
  <2> QED  BY <1>1, <1>2, <2>1, FS_Singleton DEF FirstOf
<1> QED  BY <1>3, <1>4 DEF PresenceIn

(* What a socket was promised once one more message is sent to it. *)
LEMMA SendPromises ==
  ASSUME NEW messages, Send(messages), NEW s \in Socket
  PROVE  /\ messages[s] = <<>> => promised'[s] = promised[s]
         /\ \A m : messages[s] = <<m>> => promised'[s] = Applied(promised[s], m)
<1>1. \A m : <<m>> /= <<>> /\ Head(<<m>>) = m
  OBVIOUS
<1> QED  BY <1>1 DEF Send

LEMMA SubscribeKeeps ==
  ASSUME PresenceInv, NEW s \in Socket, Subscribe(s)
  PROVE  PresenceInv'
<1> DEFINE members == subscribed \cup {s}
           a == AccountOf[s]
           first == s \notin subscribed /\ FirstOf(members, s)
           told == IF first THEN Broadcast(members, s, "joining", a) ELSE Nothing
           here == <<"here", PresenceIn(members)>>
           messages == [told EXCEPT ![s] = <<here>>]
<1>1. CASE UNCHANGED <<conn, subscribed, promised>>
  BY <1>1 DEF PresenceInv, PresenceTypes, GoneHoldsNothing, ListenersAreTold, Ready
<1>2. CASE conn[s] = "open" /\ subscribed' = members /\ Send(messages) /\ UNCHANGED conn
  <2> DEFINE listeners(t) == first /\ t \in members /\ t \in Ready
  <2>0. /\ messages[s] = <<here>>
        /\ \A t \in Socket \ {s} :
             messages[t] = IF listeners(t) THEN << <<"joining", {a}>> >> ELSE <<>>
    BY DEF Broadcast, Nothing
  <2> HIDE DEF messages
  <2>1. a \in Account /\ PresenceIn(members) \in SUBSET Account /\ members \subseteq Socket
    BY DEF Account, PresenceIn, PresenceInv, PresenceTypes
  <2>2. PresenceIn(members) = PresenceIn(subscribed) \cup {a}
    BY DEF PresenceIn
  <2>3. promised'[s] = PresenceIn(members)
    <3>1. promised'[s] = Applied(promised[s], here)
      BY <1>2, <2>0, SendPromises
    <3> QED  BY <3>1 DEF Applied
  <2>4. ASSUME NEW t \in Socket, t /= s
        PROVE  promised'[t] = IF listeners(t) THEN promised[t] \cup {a} ELSE promised[t]
    <3>1. CASE listeners(t)
      <4>1. messages[t] = << <<"joining", {a}>> >>
        BY <2>0, <2>4, <3>1
      <4>2. promised'[t] = Applied(promised[t], <<"joining", {a}>>)
        BY <1>2, <4>1, SendPromises
      <4> QED  BY <3>1, <4>2 DEF Applied
    <3>2. CASE ~listeners(t)
      <4>1. messages[t] = <<>>
        BY <2>0, <2>4, <3>2
      <4> QED  BY <1>2, <3>2, <4>1, SendPromises
    <3> QED  BY <3>1, <3>2
  <2>5. promised' \in [Socket -> SUBSET Account]
    <3>1. promised' = [t \in Socket |-> promised'[t]]
      BY <1>2 DEF Send
    <3>2. \A t \in Socket : promised'[t] \in SUBSET Account
      BY <2>1, <2>3, <2>4 DEF PresenceInv, PresenceTypes
    <3> QED  BY <3>1, <3>2
  <2>6. ~first => PresenceIn(members) = PresenceIn(subscribed)
    <3>1. CASE s \in subscribed
      BY <3>1 DEF PresenceIn
    <3>2. CASE s \notin subscribed /\ ~FirstOf(members, s)
      <4>1. members \ {s} = subscribed
        BY <3>2
      <4>2. a \in PresenceIn(subscribed)
        BY <2>1, <3>2, <4>1, CountsMean
      <4> QED  BY <2>2, <4>2
    <3> QED  BY <3>1, <3>2
  <2>7. ListenersAreTold'
    <3> SUFFICES ASSUME NEW t \in members, conn[t] = "open"
                 PROVE  promised'[t] = PresenceIn(members)
      BY <1>2 DEF ListenersAreTold, Ready, PresenceIn
    <3>1. CASE t = s
      BY <2>3, <3>1
    <3>2. CASE t /= s
      <4>1. t \in subscribed /\ t \in Socket /\ t \in Ready
        BY <2>1, <3>2 DEF Ready
      <4>2. promised[t] = PresenceIn(subscribed)
        BY <4>1 DEF PresenceInv, ListenersAreTold
      <4> QED  BY <2>2, <2>4, <2>6, <3>2, <4>1, <4>2
    <3> QED  BY <3>1, <3>2
  <2> QED  BY <1>2, <2>1, <2>5, <2>7
           DEF PresenceInv, PresenceTypes, GoneHoldsNothing
<1> QED  BY <1>1, <1>2 DEF Subscribe, StillThere

(* The last socket of an account takes it off the lists of all who listen. *)
LEMMA UnsubscribedKeeps ==
  ASSUME PresenceInv, NEW s \in Socket, Unsubscribed(s), conn' \in [Socket -> {"open", "closing", "gone"}],
         \A t \in Socket \ {s} : conn'[t] = conn[t]
  PROVE  PresenceInv'
<1> DEFINE members == subscribed \ {s}
           a == AccountOf[s]
           last == LastOf(members, s)
           messages == IF last THEN Broadcast(members, s, "leaving", a) ELSE Nothing
<1>1. subscribed' = members /\ Send(messages) /\ members \subseteq Socket
  BY DEF Unsubscribed, PresenceInv, PresenceTypes
<1>2. last <=> a \notin PresenceIn(members)
  BY <1>1, CountsMean
<1>3. PresenceIn(members) = IF last THEN PresenceIn(subscribed) \ {a} ELSE PresenceIn(subscribed)
  BY <1>2 DEF PresenceIn
<1> DEFINE listeners(t) == last /\ t \in members /\ t \in Ready
<1>0. \A t \in Socket : messages[t] = IF listeners(t) THEN << <<"leaving", {a}>> >> ELSE <<>>
  BY DEF Broadcast, Nothing
<1> HIDE DEF messages
<1>4. ASSUME NEW t \in Socket
      PROVE  promised'[t] = IF listeners(t) THEN promised[t] \ {a} ELSE promised[t]
  <2>1. CASE listeners(t)
    <3>1. messages[t] = << <<"leaving", {a}>> >>
      BY <1>0, <2>1
    <3>2. promised'[t] = Applied(promised[t], <<"leaving", {a}>>)
      BY <1>1, <3>1, SendPromises
    <3> QED  BY <2>1, <3>2 DEF Applied
  <2>2. CASE ~listeners(t)
    <3>1. messages[t] = <<>>
      BY <1>0, <2>2
    <3> QED  BY <1>1, <2>2, <3>1, SendPromises
  <2> QED  BY <2>1, <2>2
<1>5. promised' \in [Socket -> SUBSET Account]
  <2>1. promised' = [t \in Socket |-> promised'[t]]
    BY <1>1 DEF Send
  <2>2. \A t \in Socket : promised'[t] \in SUBSET Account
    BY <1>4 DEF PresenceInv, PresenceTypes
  <2> QED  BY <2>1, <2>2
<1>6. ListenersAreTold'
  <2> SUFFICES ASSUME NEW t \in members, conn[t] = "open"
               PROVE  promised'[t] = PresenceIn(members)
    BY <1>1 DEF ListenersAreTold, Ready, PresenceIn
  <2>1. t \in Socket /\ t \in Ready /\ promised[t] = PresenceIn(subscribed)
    BY <1>1 DEF Ready, PresenceInv, ListenersAreTold
  <2> QED  BY <1>3, <1>4, <2>1
<1> QED  BY <1>1, <1>5, <1>6 DEF PresenceInv, PresenceTypes, GoneHoldsNothing

LEMMA PresenceInvKept == PresenceInv /\ [PresenceNext]_presenceVars => PresenceInv'
<1> SUFFICES ASSUME PresenceInv, [PresenceNext]_presenceVars
             PROVE  PresenceInv'
  OBVIOUS
<1>1. ASSUME UNCHANGED <<conn, subscribed, promised>>
      PROVE  PresenceInv'
  BY <1>1 DEF PresenceInv, PresenceTypes, GoneHoldsNothing, ListenersAreTold, Ready
<1>2. ASSUME NEW s \in Socket, Subscribe(s)
      PROVE  PresenceInv'
  BY <1>2, SubscribeKeeps
<1>3. ASSUME NEW s \in Socket, Unsubscribe(s)
      PROVE  PresenceInv'
  BY <1>3, UnsubscribedKeeps DEF Unsubscribe, PresenceInv, PresenceTypes
<1>4. ASSUME NEW s \in Socket, Falls(s)
      PROVE  PresenceInv'
  BY <1>4 DEF Falls, PresenceInv, PresenceTypes, GoneHoldsNothing, ListenersAreTold, Ready
<1>5. ASSUME NEW s \in Socket, Release(s)
      PROVE  PresenceInv'
  <2>1. /\ conn' \in [Socket -> {"open", "closing", "gone"}]
        /\ \A t \in Socket \ {s} : conn'[t] = conn[t]
    BY <1>5 DEF Release, PresenceInv, PresenceTypes
  <2>2. CASE s \in subscribed
    BY <1>5, <2>1, <2>2, UnsubscribedKeeps DEF Release
  <2>3. CASE s \notin subscribed
    BY <1>5, <2>1, <2>3
       DEF Release, PresenceInv, PresenceTypes, GoneHoldsNothing, ListenersAreTold, Ready
  <2> QED  BY <2>2, <2>3
<1>6. ASSUME NEW s \in Socket, Ask(s) \/ TellHere(s) \/ Relay(s)
      PROVE  PresenceInv'
  BY <1>1, <1>6 DEF Ask, TellHere, Relay, Tells
<1>7. CASE UNCHANGED presenceVars
  BY <1>1, <1>7 DEF presenceVars
<1> QED  BY <1>2, <1>3, <1>4, <1>5, <1>6, <1>7 DEF PresenceNext

(* The invariant of Subscriptions: who is counted is who was announced. *)
THEOREM PresenceInvHolds == PresenceSpec => []PresenceInv
BY PresenceInvInit, PresenceInvKept, PTL DEF PresenceSpec

(***************************************************************************)
(* SubscriptionController.ts, after the wait for Laravel: a socket whose    *)
(* close was handled is in no channel, however late the answer comes.       *)
(***************************************************************************)
THEOREM GoneIsForgotten == PresenceSpec => []GoneHoldsNothing
<1>1. PresenceInv => GoneHoldsNothing
  BY DEF PresenceInv
<1> QED  BY <1>1, PresenceInvHolds, PTL

(***************************************************************************)
(* Subscriptions.ts, countFor: one announcement when the first socket of a  *)
(* person comes and one when the last goes are enough for every listener to *)
(* have been sent exactly who is present.                                   *)
(***************************************************************************)
THEOREM ListenersKnow == PresenceSpec => []ListenersAreTold
<1>1. PresenceInv => ListenersAreTold
  BY DEF PresenceInv
<1> QED  BY <1>1, PresenceInvHolds, PTL

-----------------------------------------------------------------------------
(* The values of the presence *)

Message == {"here", "joining", "leaving"} \X SUBSET Account

(* At most one message to each socket goes on the end of what it was sent. *)
LEMMA SendTypesKept ==
  ASSUME PresenceTypeOK, NEW messages, Send(messages),
         \A s \in Socket : messages[s] = <<>> \/ \E m \in Message : messages[s] = <<m>>
  PROVE  wire' \in [Socket -> Seq(Message)]
<1>1. wire' = [s \in Socket |-> wire[s] \o messages[s]]
  BY DEF Send
<1>2. ASSUME NEW s \in Socket
      PROVE  wire[s] \o messages[s] \in Seq(Message)
  <2>1. wire[s] \in Seq(Message)
    BY DEF PresenceTypeOK, Message
  <2>2. <<>> \in Seq(Message) /\ \A m \in Message : <<m>> \in Seq(Message)
    <3> HIDE DEF Message
    <3> QED  OBVIOUS
  <2>3. messages[s] \in Seq(Message)
    BY <2>2
  <2> HIDE DEF Message
  <2> QED  BY <2>1, <2>3
<1> QED  BY <1>1, <1>2

(* Nobody hears an announcement but those who are ready. *)
LEMMA BroadcastTypes ==
  ASSUME NEW members \in SUBSET Socket, NEW s \in Socket, NEW event \in {"joining", "leaving"},
         NEW t \in Socket
  PROVE  /\ \/ Broadcast(members, s, event, AccountOf[s])[t] = <<>>
            \/ \E m \in Message : Broadcast(members, s, event, AccountOf[s])[t] = <<m>>
         /\ t \notin Ready => Broadcast(members, s, event, AccountOf[s])[t] = <<>>
         /\ Nothing[t] = <<>>
<1>1. <<event, {AccountOf[s]}>> \in Message
  BY DEF Message, Account
<1> QED  BY <1>1 DEF Broadcast, Nothing

(* What is sent to the ready alone leaves nothing for those who fell. *)
LEMMA SendSpares ==
  ASSUME PresenceTypeOK, NEW messages, Send(messages), NEW s \in Socket \ Ready,
         messages[s] = <<>>
  PROVE  wire'[s] = <<>>
<1>1. wire[s] = <<>> /\ wire'[s] = wire[s] \o messages[s]
  BY DEF PresenceTypeOK, Send
<1>2. <<>> \o <<>> = <<>>
  OBVIOUS
<1> QED  BY <1>1, <1>2

LEMMA UnsubscribedTypes ==
  ASSUME PresenceTypeOK, NEW s \in Socket, Unsubscribed(s)
  PROVE  /\ wire' \in [Socket -> Seq(Message)]
         /\ \A t \in Socket \ Ready : wire'[t] = <<>>
<1> DEFINE members == subscribed \ {s}
           messages == IF LastOf(members, s) THEN Broadcast(members, s, "leaving", AccountOf[s])
                       ELSE Nothing
<1>1. members \in SUBSET Socket /\ Send(messages)
  BY DEF PresenceTypeOK, Unsubscribed
<1>2. ASSUME NEW t \in Socket
      PROVE  /\ messages[t] = <<>> \/ \E m \in Message : messages[t] = <<m>>
             /\ t \notin Ready => messages[t] = <<>>
  BY <1>1, BroadcastTypes
<1> HIDE DEF messages
<1> QED  BY <1>1, <1>2, SendTypesKept, SendSpares

LEMMA SubscribeTypes ==
  ASSUME PresenceTypeOK, NEW s \in Socket, Subscribe(s)
  PROVE  /\ wire' \in [Socket -> Seq(Message)]
         /\ \A t \in Socket \ Ready : wire'[t] = <<>>
<1> DEFINE members == subscribed \cup {s}
           told == IF s \notin subscribed /\ FirstOf(members, s)
                   THEN Broadcast(members, s, "joining", AccountOf[s]) ELSE Nothing
           here == <<"here", PresenceIn(members)>>
           messages == [told EXCEPT ![s] = <<here>>]
<1>1. CASE UNCHANGED <<subscribed, wire, promised>>
  BY <1>1 DEF PresenceTypeOK, Message
<1>2. CASE conn[s] = "open" /\ Send(messages)
  <2>1. members \in SUBSET Socket /\ s \in Ready
    BY <1>2 DEF PresenceTypeOK, Ready
  <2>2. here \in Message
    BY <2>1 DEF Message, PresenceIn, Account
  <2>3. ASSUME NEW t \in Socket
        PROVE  /\ told[t] = <<>> \/ \E m \in Message : told[t] = <<m>>
               /\ t \notin Ready => told[t] = <<>>
    BY <2>1, BroadcastTypes
  <2>4. DOMAIN told = Socket
    BY DEF Broadcast, Nothing
  <2> HIDE DEF told, here
  <2>5. \A t \in Socket : messages[t] = IF t = s THEN <<here>> ELSE told[t]
    BY <2>4
  <2> HIDE DEF messages
  <2>6. ASSUME NEW t \in Socket
        PROVE  /\ messages[t] = <<>> \/ \E m \in Message : messages[t] = <<m>>
               /\ t \notin Ready => messages[t] = <<>>
    BY <2>1, <2>2, <2>3, <2>5
  <2> QED  BY <1>2, <2>6, SendTypesKept, SendSpares
<1> QED  BY <1>1, <1>2 DEF Subscribe, StillThere

(* The app tells one message: the others stay, and the list is of accounts. *)
LEMMA TellsTypes ==
  ASSUME PresenceTypeOK, NEW s \in Socket, NEW i \in DOMAIN wire[s], Tells(s, i)
  PROVE  PresenceTypeOK'
<1>1. wire[s] \in Seq(Message) /\ i \in 1..Len(wire[s]) /\ Len(wire[s]) \in Nat
  <2>1. wire[s] \in Seq(Message)
    BY DEF PresenceTypeOK, Message
  <2> HIDE DEF Message
  <2> QED  BY <2>1
<1>2. wire[s][i] \in Message
  BY <1>1 DEF Message
<1>3. Applied(online[s], wire[s][i]) \in SUBSET Account
  BY <1>2 DEF PresenceTypeOK, Message, Applied
<1>4. RemoveAt(wire[s], i) \in Seq(Message)
  <2> HIDE DEF Message
  <2>1. SubSeq(wire[s], 1, i - 1) \in Seq(Message) /\ SubSeq(wire[s], i + 1, Len(wire[s])) \in Seq(Message)
    BY <1>1
  <2> QED  BY <2>1 DEF RemoveAt
<1>5. wire[s] /= <<>>
  BY <1>1
<1>6. s \in Ready
  BY <1>5 DEF PresenceTypeOK
<1>7. Ready' = Ready /\ wire' = [wire EXCEPT ![s] = RemoveAt(@, i)]
  BY DEF Tells, Ready
<1>8. wire' \in [Socket -> Seq(Message)]
  BY <1>4, <1>7 DEF PresenceTypeOK, Message
<1>9. \A t \in Socket \ Ready' : wire'[t] = <<>>
  BY <1>6, <1>7 DEF PresenceTypeOK
<1>10. online' \in [Socket -> SUBSET Account]
  BY <1>3 DEF Tells, PresenceTypeOK
<1> QED  BY <1>8, <1>9, <1>10 DEF Tells, PresenceTypeOK, Message

LEMMA PresenceTypesKept ==
  ASSUME PresenceInv', PresenceTypeOK, [PresenceNext]_presenceVars
  PROVE  PresenceTypeOK'
<1>0. /\ conn' \in [Socket -> {"open", "closing", "gone"}]
      /\ subscribed' \subseteq Socket /\ promised' \in [Socket -> SUBSET Account]
  BY DEF PresenceInv, PresenceTypes
<1>1. MaxRequests \in Nat
  BY PresenceAssumption
<1>2. ASSUME NEW s \in Socket, Ask(s)
      PROVE  PresenceTypeOK'
  BY <1>0, <1>1, <1>2 DEF Ask, PresenceTypeOK, Ready
<1>3. ASSUME NEW s \in Socket, Subscribe(s)
      PROVE  PresenceTypeOK'
  <2>1. UNCHANGED <<conn, asked, online>> /\ asking' \subseteq asking /\ Ready' = Ready
    BY <1>3 DEF Subscribe, Ready
  <2> QED  BY <1>0, <1>3, <2>1, SubscribeTypes DEF PresenceTypeOK, Message
<1>4. ASSUME NEW s \in Socket, Unsubscribe(s)
      PROVE  PresenceTypeOK'
  <2>1. /\ UNCHANGED <<conn, asking, online>> /\ Ready' = Ready /\ Unsubscribed(s)
        /\ asked' \in [Socket -> 0..MaxRequests]
    BY <1>1, <1>4 DEF Unsubscribe, Ready, PresenceTypeOK
  <2> QED  BY <1>0, <2>1, UnsubscribedTypes DEF PresenceTypeOK, Message
<1>5. ASSUME NEW s \in Socket, Falls(s)
      PROVE  PresenceTypeOK'
  <2>1. Ready' = Ready \ {s} /\ UNCHANGED <<asked, asking, subscribed, online, promised>>
    BY <1>5 DEF Falls, Ready, PresenceTypeOK
  <2>2. <<>> \in Seq(Message)
    OBVIOUS
  <2>3. wire' = [wire EXCEPT ![s] = <<>>]
    BY <1>5 DEF Falls
  <2>4. wire' \in [Socket -> Seq(Message)]
    BY <2>2, <2>3 DEF PresenceTypeOK, Message
  <2> QED  BY <1>0, <2>1, <2>3, <2>4 DEF PresenceTypeOK, Message
<1>6. ASSUME NEW s \in Socket, Release(s)
      PROVE  PresenceTypeOK'
  <2>1. Ready' = Ready /\ UNCHANGED <<asked, asking, online>>
    BY <1>6 DEF Release, Ready, PresenceTypeOK
  <2>2. /\ wire' \in [Socket -> Seq(Message)]
        /\ \A t \in Socket \ Ready : wire'[t] = <<>>
    BY <1>6, UnsubscribedTypes DEF Release, PresenceTypeOK, Message
  <2> QED  BY <1>0, <2>1, <2>2 DEF PresenceTypeOK, Message
<1>7. ASSUME NEW s \in Socket, TellHere(s) \/ Relay(s)
      PROVE  PresenceTypeOK'
  BY <1>7, TellsTypes DEF TellHere, Relay
<1>8. CASE UNCHANGED presenceVars
  BY <1>8 DEF presenceVars, PresenceTypeOK, Ready
<1> QED
  BY <1>2, <1>3, <1>4, <1>5, <1>6, <1>7, <1>8 DEF PresenceNext

(***************************************************************************)
(* Subscriptions.ts and presence.rs: what is sent to a socket is a message  *)
(* of the channel, what the app lists are accounts of it, and nothing waits *)
(* to be told on a socket that fell.                                        *)
(***************************************************************************)
THEOREM PresenceTypesHold == PresenceSpec => []PresenceTypeOK
<1>1. PresenceInit => PresenceTypeOK
  <2>1. <<>> \in Seq(Message)
    OBVIOUS
  <2>2. 0 \in 0..MaxRequests
    BY PresenceAssumption
  <2> QED  BY <2>1, <2>2 DEF PresenceInit, PresenceTypeOK, Message
<1>2. PresenceInv' /\ PresenceTypeOK /\ [PresenceNext]_presenceVars => PresenceTypeOK'
  BY PresenceTypesKept
<1> QED  BY <1>1, <1>2, PresenceInvHolds, PTL DEF PresenceSpec

(* Workers.ts, Router.ts and Room.ts: the media of a person are on a router *)
(* of the room or nowhere, and whoever is not in the room has none.          *)
THEOREM RoutersTypesHold == RoutersSpec => []RoutersTypeOK
<1>1. RoutersInv => RoutersTypeOK
  BY DEF RoutersInv
<1> QED  BY <1>1, RoutersInvHolds, PTL
=============================================================================
