------------------------------- MODULE SfuRoom -------------------------------
(***************************************************************************)
(* Who is in which room of the SFU: the registry of live rooms             *)
(* (sfu/src/Services/RoomRegistry.ts), the peers of each room and their    *)
(* reconnect grace (Room.ts), and the WebSocket sessions that bring them   *)
(* in and out (app.ts, JoinController.ts).                                 *)
(*                                                                         *)
(* The SFU is one event loop: a handler runs to its end, or to its next    *)
(* await.  The one await on this path is that of JoinController on         *)
(* findOrCreate: a join that found its room goes on in a microtask, before *)
(* any other event; the joins of a room whose first router is being        *)
(* created wait, and go on one after the other when it is there.  ready is *)
(* that microtask queue.                                                   *)
(*                                                                         *)
(* A Join is one join request a client will send; it names the peer it     *)
(* creates (peer ids are random) and the Room object it founds (there is   *)
(* no other name for one: two objects may have the same code).             *)
(* Left out: media (which workers a room uses is a choice of WorkerDies),  *)
(* the E2EE session (E2eeRelay), and the connection rate of app.tooMany.   *)
(***************************************************************************)
EXTENDS Naturals, Sequences, FiniteSets

CONSTANTS
  Join,       \* the join requests the clients will send
  Socket,     \* the WebSockets they will open
  SocketOf,   \* the socket each request is sent on
  DeviceOf,   \* the installation behind each socket: it holds the resume keys
  Code,       \* room ids
  User,       \* subjects of the join tokens
  Guest,      \* the subjects that start with "guest:", which are no account
  Impatient,  \* may a client send a join while its last one is unanswered?
  None

Request == [code: Code, user: User, key: Join \cup {None}, resume: BOOLEAN]

ASSUME SfuAssumption ==
  /\ SocketOf \in [Join -> Socket]
  /\ Guest \subseteq User
  /\ Impatient \in BOOLEAN
  /\ None \notin Join \cup Socket \cup Request

VARIABLES
  conn,      \* conn[s]: readyState of the socket, as the server sees it
  session,   \* session[s]: session.peer, None when null
  req,       \* req[r]: what request r asked for, None before it arrives
  registry,  \* RoomRegistry.rooms: the Room object behind a code, or None
  creating,  \* RoomRegistry.creating: the requests that wait for the room
  ready,     \* the joins whose room is there, in the order they go on
  where,     \* where[p]: the Room peer p was put in
  inside,    \* the peers that are in the peers map of their room
  sock,      \* sock[p]: Peer.socket
  orphans,   \* the peers whose orphanedAt is not null
  timers,    \* the peers that evictions holds a timer for
  told       \* who is in which code, by the webhooks sent so far

vars == <<conn, session, req, registry, creating, ready,
          where, inside, sock, orphans, timers, told>>

sockets == <<conn, session>>

rooms == <<registry, creating, ready>>

Conn == {"new", "open", "closing", "closed"}

Continuation == [join: Join, room: Join]

CodeOf(room) == req[room].code

UserOf(p) == req[p].user

Registered == {registry[c] : c \in Code} \ {None}

Members(room) == {p \in inside : where[p] = room}

Waiting(r) ==
  \/ \E c \in Code : \E k \in DOMAIN creating[c] : creating[c][k] = r
  \/ \E k \in DOMAIN ready : ready[k].join = r

Init ==
  /\ conn = [s \in Socket |-> "new"]
  /\ session = [s \in Socket |-> None]
  /\ req = [r \in Join |-> None]
  /\ registry = [c \in Code |-> None]
  /\ creating = [c \in Code |-> <<>>]
  /\ ready = <<>>
  /\ where = [p \in Join |-> None]
  /\ inside = {}
  /\ sock = [p \in Join |-> None]
  /\ orphans = {}
  /\ timers = {}
  /\ told = {}

-----------------------------------------------------------------------------
(* What leaving a room does *)

(* The sockets of these peers after close() or terminate(): the close event *)
(* comes later, and a socket that is gone stays gone.                       *)
Hung(gone) ==
  [s \in Socket |-> IF conn[s] = "open" /\ \E p \in gone : sock[p] = s
                    THEN "closing" ELSE conn[s]]

(* Mutant of SaidGone: the leaver itself is still counted. *)
SaidGoneBeforeLeaving(gone, left, at) ==
  {<<CodeOf(at[p]), UserOf(p)>> :
     p \in {q \in gone : \A other \in left \cup gone :
                           at[other] = at[q] => UserOf(other) # UserOf(q)}}

(***************************************************************************)
(* The "left" webhooks when gone leave and left are those who stay: one    *)
(* when nobody of the same subject is left in that room.                   *)
(***************************************************************************)
SaidGone(gone, left, at) ==
  {<<CodeOf(at[p]), UserOf(p)>> :
     p \in {q \in gone : \A other \in left :
                           at[other] = at[q] => UserOf(other) # UserOf(q)}}

(* Mutant of Emptied: a room is kept while someone else left it. *)
EmptiedButLast(gone, left, at) ==
  {at[p] : p \in {q \in gone : \A other \in left \cup (gone \ {q}) : at[other] # at[q]}}

(* The rooms that gone leave with nobody in them. *)
Emptied(gone, left, at) ==
  {at[p] : p \in {q \in gone : \A other \in left : at[other] # at[q]}}

(* registry after release(room) of rooms that are empty. *)
Released(empty) == [c \in Code |-> IF registry[c] \in empty THEN None ELSE registry[c]]

(***************************************************************************)
(* removePeer of every peer in gone; left is who is inside afterwards.     *)
(* Each removal tells Laravel and, through onEvicted, releases a room that *)
(* is empty; a room that closes clears its timers.  cancelled are the      *)
(* timers cleared besides, added the webhooks sent after.                  *)
(***************************************************************************)
Removed(gone, left, at, cancelled, added) ==
  LET closed == Emptied(gone, left, at) \cap Registered
  IN /\ inside' = left
     /\ registry' = Released(closed)
     /\ timers' = {p \in timers \ cancelled : at[p] \notin closed}
     /\ told' = (told \ SaidGone(gone, left, at)) \cup added

-----------------------------------------------------------------------------
(* Joining *)

Connect(s) ==
  /\ conn[s] = "new"
  /\ conn' = [conn EXCEPT ![s] = "open"]
  /\ UNCHANGED <<session, req, rooms, where, inside, sock, orphans, timers, told>>

(* The resume keys the device behind socket s may hold for this code: a    *)
(* client keeps its key for the room it was given in.                      *)
Keys(s, code) ==
  {p \in Join : /\ where[p] # None
                /\ DeviceOf[SocketOf[p]] = DeviceOf[s]
                /\ CodeOf(p) = code}

(***************************************************************************)
(* A join request arrives.  A socket that has a peer is refused.  A room   *)
(* that is there is used; one that is being created is waited for; else    *)
(* this request has it created.                                            *)
(***************************************************************************)
Ask(r) ==
  LET s == SocketOf[r]
  IN /\ req[r] = None
     /\ conn[s] = "open"
     /\ session[s] = None
     /\ Impatient \/ \A q \in Join : SocketOf[q] = s => ~Waiting(q)
     /\ \E code \in Code, user \in User :
        \E key \in Keys(s, code) \cup {None} :
        \E resume \in BOOLEAN :
           /\ key = None => ~resume
           /\ req' = [req EXCEPT ![r] = [code |-> code, user |-> user,
                                         key |-> key, resume |-> resume]]
           /\ \/ /\ registry[code] # None
                 /\ ready' = <<[join |-> r, room |-> registry[code]]>>
                 /\ UNCHANGED creating
              \/ /\ registry[code] = None
                 /\ creating' = [creating EXCEPT ![code] = Append(@, r)]
                 /\ UNCHANGED ready
     /\ UNCHANGED <<sockets, registry, where, inside, sock, orphans, timers, told>>

(* Mutant of Forgotten: the promise stays in creating when it is kept. *)
Kept(c) == creating

(* creating after the promise of code c is settled, one way or the other. *)
Forgotten(c) == [creating EXCEPT ![c] = <<>>]

(* The room's first router is there: the room is registered and everyone   *)
(* who waited goes on.  The first of them founded it.                      *)
RouterReady(c) ==
  /\ creating[c] # <<>>
  /\ registry' = [registry EXCEPT ![c] = Head(creating[c])]
  /\ ready' = [k \in DOMAIN creating[c] |->
                 [join |-> creating[c][k], room |-> Head(creating[c])]]
  /\ creating' = Forgotten(c)
  /\ UNCHANGED <<sockets, req, where, inside, sock, orphans, timers, told>>

(* No worker is alive, or the one chosen died: all who wait get the error. *)
RouterFails(c) ==
  /\ creating[c] # <<>>
  /\ creating' = Forgotten(c)
  /\ UNCHANGED <<sockets, req, registry, ready, where, inside, sock, orphans, timers, told>>

(* findByResumeKey: the peer of this room whose key request r presents. *)
Previous(r, room) == {p \in Members(room) : p = req[r].key}

(***************************************************************************)
(* The peer r comes back to: it asks to resume, and its token names the    *)
(* account of the peer.  Without a token the key alone is enough.          *)
(***************************************************************************)
Resumed(r, room) ==
  {p \in Previous(r, room) : req[r].resume /\ (UserOf(r) \in Guest \/ UserOf(p) = UserOf(r))}

(* Mutant of SameAccount: only the devices in rooms of the code entered. *)
SameAccountHere(r) ==
  {p \in inside : /\ UserOf(r) \notin Guest
                  /\ CodeOf(where[p]) = CodeOf(r)
                  /\ UserOf(p) = UserOf(r)}

(* replaceAccount: the peers the account of r has in any registered room. *)
SameAccount(r) ==
  {p \in inside : /\ UserOf(r) \notin Guest
                  /\ where[p] \in Registered
                  /\ UserOf(p) = UserOf(r)}

(* The socket fell while the room was being created: nobody enters, and a  *)
(* room that is still empty is closed.                                     *)
Refuse(r, room) ==
  /\ conn[SocketOf[r]] # "open"
  /\ registry' = Released({room} \ {where[p] : p \in inside})
  /\ UNCHANGED <<sockets, where, inside, sock, orphans, timers, told>>

(* The same peer on another socket; a socket it still had is terminated. *)
Resume(r, room) ==
  LET s == SocketOf[r]
  IN \E p \in Resumed(r, room) :
       /\ session' = [session EXCEPT ![s] = p]
       /\ conn' = Hung({p} \ orphans)
       /\ sock' = [sock EXCEPT ![p] = s]
       /\ orphans' = orphans \ {p}
       /\ timers' = timers \ {p}
       /\ UNCHANGED <<registry, where, inside, told>>

(* A new peer, which takes the place of whoever had its key in this room    *)
(* and of every other session of its account.                               *)
Enter(r, room) ==
  LET s == SocketOf[r]
      at == [where EXCEPT ![r] = room]
      gone == Previous(r, room) \cup SameAccount(r)
  IN /\ Resumed(r, room) = {}
     /\ session' = [session EXCEPT ![s] = r]
     /\ conn' = Hung(gone)
     /\ sock' = [sock EXCEPT ![r] = s]
     /\ where' = at
     /\ Removed(gone, (inside \ gone) \cup {r}, at, gone, {<<CodeOf(room), UserOf(r)>>})
     /\ UNCHANGED orphans

(* Mutant of MayEnter: readyState is not looked at after the await. *)
MayEnterAnyway(r) == TRUE

MayEnter(r) == conn[SocketOf[r]] = "open"

(* The join at the head of the queue goes on after its await. *)
Continue ==
  /\ ready # <<>>
  /\ ready' = Tail(ready)
  /\ LET r == Head(ready).join
         room == Head(ready).room
     IN \/ ~MayEnter(r) /\ Refuse(r, room)
        \/ MayEnter(r) /\ (Resume(r, room) \/ Enter(r, room))
  /\ UNCHANGED <<req, creating>>

-----------------------------------------------------------------------------
(* Leaving *)

(* The client closes its socket, or the heartbeat terminates it. *)
SocketCloses(s) ==
  /\ conn[s] = "open"
  /\ conn' = [conn EXCEPT ![s] = "closing"]
  /\ UNCHANGED <<session, req, rooms, where, inside, sock, orphans, timers, told>>

(* Mutant of Timed: no timer is set for a peer whose socket is gone. *)
Untimed(dropped) == timers

Timed(dropped) == timers \cup dropped

(***************************************************************************)
(* The close event: a peer that still has this socket, and is still in its *)
(* room, starts its grace period.                                          *)
(***************************************************************************)
SocketClosed(s) ==
  LET dropped == {p \in inside : p = session[s] /\ sock[p] = s}
  IN /\ conn[s] \in {"open", "closing"}
     /\ conn' = [conn EXCEPT ![s] = "closed"]
     /\ orphans' = orphans \cup dropped
     /\ timers' = Timed(dropped)
     /\ UNCHANGED <<session, req, rooms, where, inside, sock, told>>

(* The grace period of p is over.  The timer of a peer that was taken out   *)
(* meanwhile finds nobody to remove.                                        *)
GraceEnds(p) ==
  /\ p \in timers
  /\ LET gone == {p} \cap inside \cap orphans
     IN Removed(gone, inside \ gone, where, {p}, {})
  /\ UNCHANGED <<sockets, req, creating, ready, where, sock, orphans>>

(* The client leaves; also one that was removed and does not know it yet. *)
Leave(s) ==
  LET p == session[s]
      gone == {p} \cap inside
  IN /\ p # None
     /\ conn[s] \in {"open", "closing"}
     /\ sock[p] = s
     /\ session' = [session EXCEPT ![s] = None]
     /\ Removed(gone, inside \ gone, where, {}, {})
     /\ UNCHANGED <<conn, req, creating, ready, where, sock, orphans>>

(* A participant asks for one in its grace period to be taken out. *)
RemoveOrphan(s, p) ==
  /\ session[s] # None
  /\ conn[s] \in {"open", "closing"}
  /\ p \in inside \cap orphans
  /\ where[p] = where[session[s]]
  /\ Removed({p}, inside \ {p}, where, {}, {})
  /\ UNCHANGED <<sockets, req, creating, ready, where, sock, orphans>>

(* Laravel kicks or moves a user out of these rooms. *)
KickUser(codes, user) ==
  LET gone == {p \in inside : /\ where[p] \in {registry[c] : c \in codes}
                              /\ UserOf(p) = user}
  IN /\ gone # {}
     /\ conn' = Hung(gone)
     /\ Removed(gone, inside \ gone, where, {}, {})
     /\ UNCHANGED <<session, req, creating, ready, where, sock, orphans>>

(* A media worker dies.  It may carry any of the people of any rooms. *)
WorkerDies(lost) ==
  /\ lost # {}
  /\ lost \subseteq {p \in inside : where[p] \in Registered}
  /\ conn' = Hung(lost)
  /\ Removed(lost, inside \ lost, where, {}, {})
  /\ UNCHANGED <<session, req, creating, ready, where, sock, orphans>>

-----------------------------------------------------------------------------
(* Events are taken one at a time, and none while a join is ready to go on. *)
Next ==
  \/ Continue
  \/ /\ ready = <<>>
     /\ \/ \E s \in Socket : \/ Connect(s) \/ SocketCloses(s) \/ SocketClosed(s) \/ Leave(s)
                             \/ \E p \in Join : RemoveOrphan(s, p)
        \/ \E r \in Join : Ask(r) \/ GraceEnds(r)
        \/ \E c \in Code : RouterReady(c) \/ RouterFails(c)
        \/ \E codes \in SUBSET Code, user \in User : KickUser(codes, user)
        \/ \E lost \in SUBSET Join : WorkerDies(lost)

Spec == Init /\ [][Next]_vars

(***************************************************************************)
(* The event loop takes what is due: microtasks, the router (or its        *)
(* failure), timers, and the close event of a socket that is closing (ws   *)
(* destroys it after 30 s).  Clients need not do anything.                 *)
(***************************************************************************)
Fairness ==
  /\ WF_vars(Continue)
  /\ \A c \in Code : WF_vars(ready = <<>> /\ (RouterReady(c) \/ RouterFails(c)))
  /\ \A p \in Join : WF_vars(ready = <<>> /\ GraceEnds(p))
  /\ \A s \in Socket : WF_vars(ready = <<>> /\ conn[s] = "closing" /\ SocketClosed(s))

FairSpec == Spec /\ Fairness

-----------------------------------------------------------------------------
(* Properties *)

(* The variables have their types; a code is not created while it is there. *)
TypeOK ==
  /\ conn \in [Socket -> Conn]
  /\ session \in [Socket -> Join \cup {None}]
  /\ req \in [Join -> Request \cup {None}]
  /\ registry \in [Code -> Join \cup {None}]
  /\ creating \in [Code -> Seq(Join)]
  /\ ready \in Seq(Continuation)
  /\ where \in [Join -> Join \cup {None}]
  /\ inside \subseteq Join
  /\ sock \in [Join -> Socket \cup {None}]
  /\ orphans \subseteq Join
  /\ timers \subseteq Join
  /\ told \subseteq Code \X User
  /\ \A c \in Code : creating[c] # <<>> => registry[c] = None

(***************************************************************************)
(* Nobody stays in a room for ever: whoever is in one and is not in its    *)
(* grace period has a socket that is not closed, whose session names it    *)
(* (so that its close starts the grace period); whoever is in its grace    *)
(* period has a timer.  A join goes on after an await during which the     *)
(* socket may close, and a resume moves the peer between sockets.          *)
(***************************************************************************)
EveryPeerCanLeave ==
  \A p \in inside :
    IF p \in orphans THEN p \in timers
    ELSE /\ sock[p] # None
         /\ conn[sock[p]] \in {"open", "closing"}
         /\ session[sock[p]] = p

(***************************************************************************)
(* An account is in the registered rooms once, whatever the interleaving   *)
(* of its devices' joins, resumes and drops.                               *)
(***************************************************************************)
OneSessionPerAccount ==
  \A p, q \in inside :
    /\ where[p] \in Registered
    /\ where[q] \in Registered
    /\ UserOf(p) = UserOf(q)
    /\ UserOf(p) \notin Guest
    => p = q

(***************************************************************************)
(* Between events a registered room has someone in it: every way out of a  *)
(* room, and a join that is refused after its await, closes a room it      *)
(* leaves empty.                                                           *)
(***************************************************************************)
EmptyRoomIsClosed ==
  ready = <<>> => \A c \in Code : registry[c] # None => Members(registry[c]) # {}

(***************************************************************************)
(* Laravel is told of every way out: whom it believes to be in a room is   *)
(* there.  (The webhooks are taken in the order they are sent; the network *)
(* does not promise that.)                                                 *)
(***************************************************************************)
NoStaleOccupant ==
  told \subseteq {<<CodeOf(where[p]), UserOf(p)>> : p \in inside}

(* Once every socket is closed no room is left, and none is being created. *)
RoomsEnd ==
  (\A s \in Socket : conn[s] = "closed")
    ~> (\A c \in Code : registry[c] = None /\ creating[c] = <<>>)

(***************************************************************************)
(* Two people with one code are in one room: RoomRegistry.ts:141-145.      *)
(* Violated: two joins wait for the room, the socket of the first closes,  *)
(* the first continuation closes the empty room, and the second enters it. *)
(***************************************************************************)
OneRoomPerCode ==
  \A p, q \in inside : CodeOf(where[p]) = CodeOf(where[q]) => where[p] = where[q]
=============================================================================
