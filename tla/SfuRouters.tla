----------------------------- MODULE SfuRouters -----------------------------
(***************************************************************************)
(* One room of the SFU spread over several media workers                    *)
(* (sfu/src/Services/Room.ts, RoomRegistry.ts): a router for whoever opens  *)
(* a first transport, a new one on another worker when all are full, and    *)
(* what is left when a worker dies or the room ends.                        *)
(*                                                                         *)
(* The SFU is one event loop.  What a handler does between two waits for a  *)
(* worker is a step, with the microtasks it leaves behind: a promise that   *)
(* is resolved already, and the continuations of everyone who waited for    *)
(* one router.                                                             *)
(*                                                                         *)
(* A worker that is born again is another Worker.  Which of the free ones   *)
(* has the fewest routers depends on the other rooms: any may be taken.     *)
(***************************************************************************)
EXTENDS Naturals, FiniteSets

CONSTANTS
  Person,         \* peers that may come to the room
  Worker,         \* the media workers, those born again included
  AtFirst,        \* the workers the SFU starts with
  PeersPerRouter, \* SFU_PEERS_PER_ROUTER
  Nowhere,        \* no router
  MaxEntries,     \* bound: entries into the room
  MaxExpansions   \* bound: expansions asked for

ASSUME RoutersAssumption ==
  /\ AtFirst \subseteq Worker
  /\ PeersPerRouter \in Nat \ {0}
  /\ MaxEntries \in Nat /\ MaxExpansions \in Nat
  /\ Nowhere \notin [worker: Worker, n: 0..MaxExpansions]

VARIABLES
  workers,   \* workers[w]: "unborn", "up" or "down"
  roomOpen,  \* the room is in the registry
  routers,   \* Room.routers
  running,   \* the routers of the room that a worker has open
  inRoom,    \* Room.peers
  media,     \* media[p]: the router of the peer, or Nowhere
  routing,   \* routing[p]: the router being created that the peer waits for
  expanding, \* the routers being created
  entered, expansions

routersVars == <<workers, roomOpen, routers, running, inRoom, media, routing, expanding,
                 entered, expansions>>

(* n: the routers come one at a time, and the array has them in that order. *)
Router == [worker: Worker, n: 0..MaxExpansions]

Busy == {r.worker : r \in routers}

Up == {w \in Worker : workers[w] = "up"}

(* The first to come founded the room, with a router on one of the workers. *)
RoutersInit ==
  /\ workers = [w \in Worker |-> IF w \in AtFirst THEN "up" ELSE "unborn"]
  /\ roomOpen = TRUE
  /\ \E w \in AtFirst : routers = {[worker |-> w, n |-> 0]}
  /\ running = routers
  /\ \E p \in Person : inRoom = {p}
  /\ media = [p \in Person |-> Nowhere] /\ routing = [p \in Person |-> Nowhere]
  /\ expanding = {}
  /\ entered = 1 /\ expansions = 0

-----------------------------------------------------------------------------
(* Coming, and the first transport *)

EnterRoom(p) ==
  /\ roomOpen /\ p \notin inRoom /\ entered < MaxEntries
  /\ inRoom' = inRoom \cup {p}
  /\ entered' = entered + 1
  /\ UNCHANGED <<workers, roomOpen, routers, running, media, routing, expanding, expansions>>

Load(r) == Cardinality({p \in inRoom : media[p] = r})

(* find, and reduce: of those that are as good, the first of the array. *)
FirstOfRouters(good) == CHOOSE r \in good : \A s \in good : r.n <= s.n

WithRoom == {r \in routers : Load(r) < PeersPerRouter}

Smallest == {r \in routers : \A s \in routers : Load(r) <= Load(s)}

Settles(p, r) ==
  /\ media' = [media EXCEPT ![p] = r]
  /\ UNCHANGED <<routing, expanding, expansions>>

WaitsFor(p, r) ==
  /\ routing' = [routing EXCEPT ![p] = r]
  /\ UNCHANGED media

(* Mutant of Expands: an expansion for each who asks. *)
ExpandsEach(p) ==
  /\ expansions < MaxExpansions
  /\ expansions' = expansions + 1
  /\ \E w \in Up \ Busy :
       LET r == [worker |-> w, n |-> expansions']
       IN  expanding' = expanding \cup {r} /\ WaitsFor(p, r)

(* All are full: one expansion at a time, that whoever asks meanwhile shares. *)
Expands(p) ==
  \/ /\ expanding = {} /\ expansions < MaxExpansions
     /\ expansions' = expansions + 1
     /\ \E w \in Up \ Busy :
          LET r == [worker |-> w, n |-> expansions']
          IN  expanding' = {r} /\ WaitsFor(p, r)
  \/ /\ \E r \in expanding : WaitsFor(p, r)
     /\ UNCHANGED <<expanding, expansions>>

(* routerOf: no worker is free, and the room stays where it is. *)
AsksRouter(p) ==
  /\ p \in inRoom /\ media[p] = Nowhere /\ routing[p] = Nowhere
  /\ \/ WithRoom /= {} /\ Settles(p, FirstOfRouters(WithRoom))
     \/ WithRoom = {} /\ Expands(p)
     \/ WithRoom = {} /\ expanding = {} /\ Up \subseteq Busy /\ Settles(p, FirstOfRouters(Smallest))
  /\ UNCHANGED <<workers, roomOpen, routers, running, inRoom, entered>>

(* The router joins the array, also that of a room closed meanwhile, and    *)
(* everyone who waited moves in, however many they are.                    *)
RouterBorn(r) ==
  /\ r \in expanding
  /\ routers' = routers \cup {r}
  /\ running' = running \cup {r}
  /\ media' = [p \in Person |-> IF routing[p] = r THEN r ELSE media[p]]
  /\ routing' = [p \in Person |-> IF routing[p] = r THEN Nowhere ELSE routing[p]]
  /\ expanding' = expanding \ {r}
  /\ UNCHANGED <<workers, roomOpen, inRoom, entered, expansions>>

(* Everyone who waited is told that it failed, and may ask again. *)
RouterRefused(r) ==
  /\ r \in expanding
  /\ routing' = [p \in Person |-> IF routing[p] = r THEN Nowhere ELSE routing[p]]
  /\ expanding' = expanding \ {r}
  /\ UNCHANGED <<workers, roomOpen, routers, running, inRoom, media, entered, expansions>>

-----------------------------------------------------------------------------
(* Ways out *)

(* Some leave; a room they leave empty is released, with the routers it has. *)
Gone(some, kept) ==
  /\ inRoom' = inRoom \ some
  /\ media' = [p \in Person |-> IF p \in some THEN Nowhere ELSE media[p]]
  /\ routing' = [p \in Person |-> IF p \in some \/ routing[p] \notin expanding' THEN Nowhere
                                  ELSE routing[p]]
  /\ roomOpen' = (roomOpen /\ inRoom' /= {})
  /\ running' = IF roomOpen /\ ~roomOpen' THEN kept \ routers ELSE kept

LeavesRoom(p) ==
  /\ p \in inRoom
  /\ expanding' = expanding
  /\ Gone({p}, running)
  /\ UNCHANGED <<workers, routers, entered, expansions>>

MediaOn(w) == {p \in inRoom : media[p] \in routers /\ media[p].worker = w}

(* Mutant of Evacuated: who has no transport yet stays. *)
EvacuatedMedia(w) == MediaOn(w)

(* evacuate: whose media was there, or everybody if that was the last router. *)
Evacuated(w) == IF Busy = {w} THEN inRoom ELSE MediaOn(w)

(* The routers of the worker go with it, and the one being created there;   *)
(* a room that used it is evacuated, and released if nobody is left.        *)
WorkerDown(w) ==
  /\ workers[w] = "up"
  /\ workers' = [workers EXCEPT ![w] = "down"]
  /\ expanding' = {r \in expanding : r.worker /= w}
  /\ routers' = {r \in routers : r.worker /= w}
  /\ Gone(IF w \in Busy THEN Evacuated(w) ELSE {}, {r \in running : r.worker /= w})
  /\ UNCHANGED <<entered, expansions>>

(* revive: a new process in the place of the one that died. *)
WorkerBorn(w) ==
  /\ workers[w] = "unborn" /\ Cardinality(Up) < Cardinality(AtFirst)
  /\ workers' = [workers EXCEPT ![w] = "up"]
  /\ UNCHANGED <<roomOpen, routers, running, inRoom, media, routing, expanding, entered, expansions>>

RoutersNext ==
  \/ \E p \in Person : EnterRoom(p) \/ AsksRouter(p) \/ LeavesRoom(p)
  \/ \E r \in expanding : RouterBorn(r) \/ RouterRefused(r)
  \/ \E w \in Worker : WorkerDown(w) \/ WorkerBorn(w)

RoutersSpec == RoutersInit /\ [][RoutersNext]_routersVars

-----------------------------------------------------------------------------
(* Properties *)

RoutersTypeOK ==
  /\ workers \in [Worker -> {"unborn", "up", "down"}]
  /\ roomOpen \in BOOLEAN
  /\ routers \subseteq Router /\ running \subseteq Router /\ expanding \subseteq Router
  /\ inRoom \subseteq Person
  /\ media \in [Person -> Router \cup {Nowhere}]
  /\ routing \in [Person -> Router \cup {Nowhere}]
  /\ \A p \in Person \ inRoom : media[p] = Nowhere /\ routing[p] = Nowhere

(***************************************************************************)
(* evacuate takes out of the room everyone a dead worker leaves without     *)
(* media, whatever was being created meanwhile: whoever stays has a router  *)
(* of a worker that lives, or waits for one that is coming, or finds one.   *)
(***************************************************************************)
NobodyIsStranded ==
  roomOpen =>
    /\ inRoom /= {} /\ routers /= {} /\ routers \subseteq running
    /\ \A p \in inRoom : /\ media[p] \in routers \cup {Nowhere}
                         /\ routing[p] \in expanding \cup {Nowhere}

(***************************************************************************)
(* "dois routers da mesma sala no mesmo worker dividiriam o mesmo núcleo":  *)
(* a room has one router at most on a worker, however many people find it   *)
(* full at the same time.                                                  *)
(***************************************************************************)
OneRouterPerWorker ==
  \A r, s \in routers : r.worker = s.worker => r = s

-----------------------------------------------------------------------------
(* What the documents say and the model refutes: no run checks it *)

(* A closed room has no router open: that of an expansion which ends after  *)
(* the close stays in its worker until that dies.                          *)
ClosedRoomHasNoRouter == ~roomOpen /\ expanding = {} => running = {}
=============================================================================
