---------------------------- MODULE SfuProducers ----------------------------
(***************************************************************************)
(* What one peer of a room sends to the SFU (sfu/src): its plain transport, *)
(* the producers on it, who may pause them, and what the room hears.        *)
(*                                                                         *)
(* A handler runs until it awaits the media worker; then any other handler  *)
(* may run.  The worker serves requests in the order in which they were     *)
(* sent, so pauses and resumes are one queue.  A producer, and a transport, *)
(* carry the name of the producePlain request that makes them.              *)
(*                                                                         *)
(* Peers share nothing here, so there is one.  The Maps of the peer are     *)
(* sets: an iteration takes the entries it has not seen in any order.       *)
(* Browsers' produce, on a transport of its own, differs only in the        *)
(* transport and is not modelled.  The key of a request is one the worker   *)
(* takes, as the app's are: with another, connect fails (Room.ts,           *)
(* plainTransport) after the transport was created, which then stays open   *)
(* in nobody's map.                                                         *)
(***************************************************************************)
EXTENDS Naturals, Sequences, FiniteSets

CONSTANTS
  Request,   \* the producePlain requests ever sent
  SourceOf,  \* the source each request names
  KeyOf,     \* the SRTP key each request brings
  NoTransport,
  MaxAsked,  \* bound: no more requests than this are sent
  MaxMutes,  \* bound: how many times the person is muted or given back the voice
  MaxQueue   \* bound: no own pause while the worker has this many to answer

Source == {"mic", "screen"}

ASSUME ProducersAssumption ==
  /\ SourceOf \in [Request -> Source]
  /\ NoTransport \notin Request
  /\ MaxAsked \in Nat
  /\ MaxMutes \in Nat
  /\ MaxQueue \in Nat

VARIABLES
  step,        \* step[r]: where the handler of request r waits
  via,         \* via[r]: the transport request r produces on
  plain,       \* peer.plainTransports (those that send)
  producers,   \* peer.producers
  can,         \* peer.can, by the source it allows
  serverMuted, \* peer.serverMuted
  left,        \* peer.closed
  open,        \* the transports the worker has
  live,        \* the producers the worker has
  paused,      \* of those, the ones that are paused
  pending,     \* the pauses and resumes the worker has not answered
  calls,       \* the runs of applyServerMute, in the order they began
  timers,      \* the producers whose 30 s without a packet are counted
  hears        \* hears[r]: what the rest of the room was told of r

producersVars == <<step, via, plain, producers, can, serverMuted, left, open, live,
                   paused, pending, calls, timers, hears>>

Mics == {r \in Request : SourceOf[r] = "mic"}

Step == {"idle", "creating", "producing", "pausing", "done"}

(* Who waits for the answer: run is the number of a run of applyServerMute. *)
Command == [by: {"announce", "owner", "mute"}, run: Nat,
            of: Request, pause: BOOLEAN, served: BOOLEAN]

Call == [muted: BOOLEAN, seen: SUBSET Request, state: {"running", "ok", "failed"}]

ProducersInit ==
  /\ step = [r \in Request |-> "idle"]
  /\ via = [r \in Request |-> NoTransport]
  /\ plain = {} /\ producers = {} /\ open = {} /\ live = {} /\ paused = {} /\ timers = {}
  /\ can = Source
  /\ serverMuted \in BOOLEAN
  /\ left = FALSE
  /\ pending = <<>> /\ calls = <<>>
  /\ hears = [r \in Request |-> "nothing"]

-----------------------------------------------------------------------------
(* Closing *)

(***************************************************************************)
(* The producers in dead are closed by name and the transports in T close,  *)
(* with every producer on them.  Only a producer whose announcement is done *)
(* has the handlers that strike it off and tell the room.                   *)
(***************************************************************************)
Closed(dead, T) ==
  LET fallen == {p \in live : via[p] \in T}
      known  == {p \in dead \cup fallen : step[p] = "done"}
  IN /\ open' = open \ T
     /\ plain' = plain \ T
     /\ live' = live \ (dead \cup fallen)
     /\ paused' = paused \ (dead \cup fallen)
     /\ producers' = producers \ (dead \cup known)
     /\ timers' = timers \ known
     /\ hears' = [p \in Request |-> IF p \in dead \cup known THEN "closed" ELSE hears[p]]

(* The last producer takes the sending transport with it. *)
Unused(dead) == IF producers \subseteq dead THEN plain ELSE {}

(* Mutant of CloseProducers: the producer is only struck off the map. *)
ForgetProducers(dead) ==
  /\ producers' = producers \ dead
  /\ hears' = [p \in Request |-> IF p \in dead THEN "closed" ELSE hears[p]]
  /\ UNCHANGED <<open, plain, live, paused, timers>>

CloseProducers(dead) ==
  IF dead \cap producers = {}
  THEN UNCHANGED <<open, plain, live, paused, producers, timers, hears>>
  ELSE Closed(dead \cap producers, Unused(dead))

-----------------------------------------------------------------------------
(* Muting *)

(* The worker serves a command if the producer is open when it is sent. *)
Order(by, c, p, pause, alive) ==
  [by |-> by, run |-> c, of |-> p, pause |-> pause, served |-> alive]

(***************************************************************************)
(* Run c of applyServerMute goes on to a microphone it has not seen.  To    *)
(* give back the voice is refused if the person was muted again meanwhile.  *)
(***************************************************************************)
Visit(c, runs, mics, muted, queue) ==
  LET next == mics \ runs[c].seen
      ended(state) == calls' = [runs EXCEPT ![c] = [@ EXCEPT !.state = state, !.seen = {}]]
                      /\ pending' = queue
  IN \/ next = {} /\ ended("ok")
     \/ next /= {} /\ ~runs[c].muted /\ muted /\ ended("failed")
     \/ /\ runs[c].muted \/ ~muted
        /\ \E p \in next :
             /\ calls' = [runs EXCEPT ![c].seen = @ \cup {p}]
             /\ pending' = Append(queue, Order("mute", c, p, runs[c].muted, p \in live))

(* A run begins: the mark first, then every microphone in turn. *)
StartMute(muted, mics) ==
  /\ Len(calls) < MaxMutes
  /\ serverMuted' = muted
  /\ Visit(Len(calls) + 1,
           Append(calls, [muted |-> muted, seen |-> {}, state |-> "running"]),
           mics, muted, pending)

(* Laravel's /mute. *)
ServerMute ==
  /\ \E muted \in BOOLEAN : StartMute(muted, producers \cap Mics)
  /\ UNCHANGED <<step, via, plain, producers, can, left, open, live, paused, timers, hears>>

(* The person pauses or resumes a producer of theirs. *)
Refused(p, pause) == ~pause /\ serverMuted /\ p \in Mics

OwnPause ==
  /\ Len(pending) < MaxQueue
  /\ \E p \in producers, pause \in BOOLEAN :
       /\ ~Refused(p, pause)
       /\ pending' = Append(pending, Order("owner", 0, p, pause, p \in live))
  /\ UNCHANGED <<step, via, plain, producers, can, serverMuted, left, open, live, paused,
                 calls, timers, hears>>

-----------------------------------------------------------------------------
(* Producing *)

(* The room learns of r, whose 30 s begin. *)
Announced(r) ==
  /\ hears' = [hears EXCEPT ![r] = "open"]
  /\ timers' = timers \cup {r}

(***************************************************************************)
(* producePlain: the permission, then the transport.  One with the same key *)
(* is used again; one with another key is closed for a new one.             *)
(***************************************************************************)
Produce(r) ==
  /\ step[r] = "idle"
  /\ Cardinality({q \in Request : step[q] /= "idle"}) < MaxAsked
  /\ SourceOf[r] \in can
  /\ \/ \E t \in plain :
          /\ KeyOf[t] = KeyOf[r]
          /\ step' = [step EXCEPT ![r] = "producing"]
          /\ via' = [via EXCEPT ![r] = t]
          /\ UNCHANGED <<plain, producers, open, live, paused, timers, hears>>
     \/ \E t \in plain :
          /\ KeyOf[t] /= KeyOf[r]
          /\ step' = [step EXCEPT ![r] = "creating"]
          /\ Closed({}, {t})
          /\ UNCHANGED via
     \/ /\ plain = {}
        /\ step' = [step EXCEPT ![r] = "creating"]
        /\ UNCHANGED <<via, plain, producers, open, live, paused, timers, hears>>
  /\ UNCHANGED <<can, serverMuted, left, pending, calls>>

(* Mutant of Admitted: the transport is kept although the peer has left. *)
AdmittedAnyway(r) == plain' = plain \cup {r} /\ open' = open \cup {r}

(* admit: a peer that left in the meantime keeps no transport. *)
Admitted(r) ==
  IF left THEN UNCHANGED <<plain, open>>
  ELSE plain' = plain \cup {r} /\ open' = open \cup {r}

(* The transport is there, or the ports have run out. *)
TransportCreated(r) ==
  /\ step[r] = "creating"
  /\ \/ /\ Admitted(r)
        /\ via' = [via EXCEPT ![r] = r]
        /\ step' = [step EXCEPT ![r] = IF left THEN "done" ELSE "producing"]
     \/ step' = [step EXCEPT ![r] = "done"] /\ UNCHANGED <<via, plain, open>>
  /\ UNCHANGED <<producers, can, serverMuted, left, live, paused, pending, calls, timers, hears>>

(* Mutant of BornSilent: nobody looks at the mark when the microphone comes. *)
BornOpen(r) == FALSE

BornSilent(r) == serverMuted /\ r \in Mics

(***************************************************************************)
(* The worker has the producer; it is dead already if its transport closed  *)
(* on the way.  Muted by the server, a microphone is paused before the room *)
(* hears of it.                                                             *)
(***************************************************************************)
Produced(r) ==
  /\ step[r] = "producing"
  /\ producers' = producers \cup {r}
  /\ live' = IF via[r] \in open THEN live \cup {r} ELSE live
  /\ IF BornSilent(r)
     THEN /\ step' = [step EXCEPT ![r] = "pausing"]
          /\ pending' = Append(pending, Order("announce", 0, r, TRUE, via[r] \in open))
          /\ UNCHANGED <<timers, hears>>
     ELSE /\ step' = [step EXCEPT ![r] = "done"]
          /\ Announced(r)
          /\ UNCHANGED pending
  /\ UNCHANGED <<via, plain, can, serverMuted, left, open, paused, calls>>

(* The room is told of a pause or a resume. *)
Heard(p, pause) == [hears EXCEPT ![p] = IF @ = "open" /\ pause THEN "paused"
                                        ELSE IF @ = "paused" /\ ~pause THEN "open" ELSE @]

(* The worker answers the oldest command; who sent it goes on. *)
Answered ==
  /\ pending /= <<>>
  /\ LET m == Head(pending)
     IN /\ paused' = IF m.pause /\ m.of \in live /\ m.served THEN paused \cup {m.of} ELSE paused \ {m.of}
        /\ \/ /\ m.by = "announce"
              /\ step' = [step EXCEPT ![m.of] = "done"]
              /\ IF m.served THEN Announced(m.of) ELSE UNCHANGED <<timers, hears>>
              /\ pending' = Tail(pending) /\ UNCHANGED calls
           \/ /\ m.by = "owner"
              /\ hears' = IF m.served THEN Heard(m.of, m.pause) ELSE hears
              /\ pending' = Tail(pending) /\ UNCHANGED <<step, calls, timers>>
           \/ /\ m.by = "mute" /\ m.served
              /\ hears' = Heard(m.of, m.pause)
              /\ Visit(m.run, calls, producers \cap Mics, serverMuted, Tail(pending))
              /\ UNCHANGED <<step, timers>>
           \/ /\ m.by = "mute" /\ ~m.served
              /\ calls' = [calls EXCEPT ![m.run] = [@ EXCEPT !.state = "failed", !.seen = {}]]
              /\ pending' = Tail(pending) /\ UNCHANGED <<step, timers, hears>>
  /\ UNCHANGED <<via, plain, producers, can, serverMuted, left, open, live>>

-----------------------------------------------------------------------------
(* What ends a producer *)

(* closeProducer, asked by the person. *)
Destroy ==
  /\ \E p \in producers : CloseProducers({p})
  /\ UNCHANGED <<step, via, can, serverMuted, left, pending, calls>>

(* A packet arrives: the 30 s are no longer counted. *)
Receives(p) ==
  /\ p \in timers \cap live
  /\ timers' = timers \ {p}
  /\ UNCHANGED <<step, via, plain, producers, can, serverMuted, left, open, live, paused,
                 pending, calls, hears>>

IdleEnds(p) ==
  /\ p \in timers
  /\ IF p \in producers
     THEN /\ Closed({p}, Unused({p}))
     ELSE timers' = timers \ {p} /\ UNCHANGED <<open, plain, live, paused, producers, hears>>

(* 30 s without a packet. *)
Idle(p) ==
  /\ IdleEnds(p)
  /\ UNCHANGED <<step, via, can, serverMuted, left, pending, calls>>

(* A resume: the new token's can, then its mark if that differs. *)
Resume ==
  /\ ~left
  /\ \E allowed \in SUBSET Source, muted \in BOOLEAN :
       LET revoked == {p \in producers : SourceOf[p] \notin allowed}
       IN /\ can' = allowed
          /\ CloseProducers(revoked)
          /\ IF muted = serverMuted THEN UNCHANGED <<serverMuted, pending, calls>>
             ELSE StartMute(muted, (producers \ revoked) \cap Mics)
  /\ UNCHANGED <<step, via, left>>

(* The peer is taken out of the room, which hears peerLeft. *)
PeerLeaves ==
  /\ ~left
  /\ left' = TRUE
  /\ open' = open \ plain
  /\ live' = {p \in live : via[p] \notin plain}
  /\ paused' = {p \in paused : via[p] \notin plain}
  /\ timers' = timers \ {p \in live : via[p] \in plain /\ step[p] = "done"}
  /\ plain' = {} /\ producers' = {}
  /\ hears' = [p \in Request |-> IF hears[p] = "nothing" THEN "nothing" ELSE "closed"]
  /\ UNCHANGED <<step, via, can, serverMuted, pending, calls>>

ProducersNext ==
  \/ \E r \in Request : Produce(r) \/ TransportCreated(r) \/ Produced(r)
                        \/ Receives(r) \/ Idle(r)
  \/ ServerMute \/ OwnPause \/ Answered \/ Destroy \/ Resume \/ PeerLeaves

ProducersSpec == ProducersInit /\ [][ProducersNext]_producersVars

-----------------------------------------------------------------------------
(* Properties *)

ProducersTypeOK ==
  /\ step \in [Request -> Step]
  /\ via \in [Request -> Request \cup {NoTransport}]
  /\ plain \subseteq Request /\ producers \subseteq Request /\ can \subseteq Source
  /\ serverMuted \in BOOLEAN /\ left \in BOOLEAN
  /\ open \subseteq Request /\ live \subseteq Request /\ paused \subseteq Request
  /\ pending \in Seq(Command) /\ calls \in Seq(Call)
  /\ timers \subseteq Request
  /\ hears \in [Request -> {"nothing", "open", "paused", "closed"}]
  /\ paused \subseteq live
  /\ \A p \in timers : hears[p] /= "nothing"

Quiet == pending = <<>>

LiveMics == live \cap Mics

(***************************************************************************)
(* What the worker sends on is in the peer's map, on one of its transports: *)
(* a mute, a revocation or the end of the peer reaches it.                  *)
(***************************************************************************)
LiveIsListed == \A p \in live : p \in producers /\ via[p] \in plain

(* A peer that left the room leaves no transport and no producer open.      *)
LeaverHoldsNothing == left => open = {} /\ live = {}

(***************************************************************************)
(* When the last mute was answered without an error, and the worker has     *)
(* nothing left to answer, no microphone of the muted person is open,       *)
(* whatever was being produced, resumed or unmuted at the same time.        *)
(***************************************************************************)
AnsweredMuteHolds ==
  Quiet /\ serverMuted /\ (calls /= <<>> => calls[Len(calls)].state = "ok")
    => LiveMics \subseteq paused

-----------------------------------------------------------------------------
(* What the documents say and the model refutes: no run checks it *)

(* The mark means silence: announced as "pausado enquanto durar". *)
MutedIsSilent == Quiet /\ serverMuted => LiveMics \subseteq paused

(* A producer outlives no permission: "fecha o producer que o token novo não cobre". *)
NothingUnpermitted == \A p \in live : SourceOf[p] \in can
=============================================================================
