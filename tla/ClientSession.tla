---------------------------- MODULE ClientSession ----------------------------
(***************************************************************************)
(* The session of each device of one account in one room                    *)
(* (native/shared/core/src/session.rs, client.rs, reconnect.rs): entering,  *)
(* the socket that falls and comes back, requests that are answered late or *)
(* never, and leaving; with the seat the SFU gives the account and the      *)
(* sockets that hold it (JoinController.ts, Room.ts, app.ts).               *)
(*                                                                         *)
(* The session's tasks are supervise, which forwards and reconnects, and    *)
(* whoever called join or leave.  Each wait (for the socket, the token, an  *)
(* answer, the backoff) lets everything else go on.                         *)
(*                                                                         *)
(* The two ends of a socket learn of its end each at its own time.  A       *)
(* socket nobody uses any more stays open: its reader goes on reading.      *)
(***************************************************************************)
EXTENDS Naturals, FiniteSets

CONSTANTS
  Device,
  MaxAttempts,  \* refusals after which the session gives up; 8 in the code
  MaxSockets,   \* bound: sockets dialled
  MaxTroubles   \* bound: lost sockets, silences, refusals, kicks and departures

ASSUME SessionAssumption ==
  MaxAttempts \in Nat \ {0} /\ MaxSockets \in Nat /\ MaxTroubles \in Nat

VARIABLES
  stage,     \* stage[d]: where the session of the device is
  hasLeft,   \* hasLeft[d]: Session.left
  current,   \* current[d]: the socket of Session.client
  resumeKey, \* resumeKey[d]: the peer it was answered last, or 0
  attempts,  \* attempts[d]: refusals since the socket was lost
  reply,     \* reply[d]: what the server answered to the last join
  leaving,   \* leaving[d]: how far leave() is; leaveOn[d]: its socket
  leaveOn,
  joins,     \* the joins on their way
  heard,     \* sockets whose client end is open
  served,    \* sockets whose server end is open
  peerOf,    \* peerOf[s]: session.peer of the socket at the server
  dismissed, \* sockets with a "replaced" or "kicked" not read yet
  place,     \* the peer the account has in the room, and its socket
  dialled, seated, troubles

sessionVars == <<stage, hasLeft, current, resumeKey, attempts, reply, leaving, leaveOn, joins,
                 heard, served, peerOf, dismissed, place, dialled, seated, troubles>>

clientVars == <<stage, hasLeft, current, resumeKey, attempts>>

leaveVars == <<leaving, leaveOn>>

seatVars == <<peerOf, dismissed, place, seated>>

sockVars == <<heard, served, dialled>>

ClientSocket == 1..MaxSockets

(* No one is seated: peers are numbered from 1. *)
NoSeat == [id |-> 0, sock |-> 0, orphan |-> FALSE]

JoinAsk == [dev: Device, sock: ClientSocket, resume: BOOLEAN, key: Nat]

SessionInit ==
  /\ stage = [d \in Device |-> "out"] /\ hasLeft = [d \in Device |-> FALSE]
  /\ current = [d \in Device |-> 0] /\ resumeKey = [d \in Device |-> 0]
  /\ attempts = [d \in Device |-> 0] /\ reply = [d \in Device |-> "none"]
  /\ leaving = [d \in Device |-> "no"] /\ leaveOn = [d \in Device |-> 0]
  /\ joins = {} /\ heard = {} /\ served = {}
  /\ peerOf = [s \in ClientSocket |-> 0] /\ dismissed = {}
  /\ place = NoSeat
  /\ dialled = 0 /\ seated = 0 /\ troubles = 0

Trouble == troubles < MaxTroubles /\ troubles' = troubles + 1

Moves(d, to) == stage' = [stage EXCEPT ![d] = to]

-----------------------------------------------------------------------------
(* Dialling and asking to join *)

(* connect: a socket, and in reconnect the client is exchanged at once. *)
Dials(d) ==
  /\ stage[d] \in {"out", "dialling"} /\ dialled < MaxSockets
  /\ dialled' = dialled + 1
  /\ current' = [current EXCEPT ![d] = dialled']
  /\ heard' = heard \cup {dialled'} /\ served' = served \cup {dialled'}
  /\ Moves(d, IF stage[d] = "out" THEN "joining" ELSE "resuming")
  /\ UNCHANGED <<hasLeft, resumeKey, attempts, reply, leaveVars, joins, seatVars, troubles>>

(* request_join, once its token is there; a socket that was closed from     *)
(* here, or whose writer found it closed, takes nothing any more.           *)
SendsJoin(d) ==
  /\ stage[d] \in {"joining", "resuming", "entering"} /\ reply[d] = "none"
  /\ reply' = [reply EXCEPT ![d] = "awaited"]
  /\ joins' = IF current[d] \notin heard THEN joins
              ELSE joins \cup {[dev |-> d, sock |-> current[d],
                                resume |-> stage[d] = "resuming", key |-> resumeKey[d]]}
  /\ UNCHANGED <<clientVars, leaveVars, sockVars, seatVars, troubles>>

(* The answer finds who waits for it, and not who asked again meanwhile. *)
Replies(a, answer) ==
  reply' = IF /\ current[a.dev] = a.sock /\ a.sock \in heard /\ reply[a.dev] = "awaited"
              /\ a.resume <=> stage[a.dev] = "resuming"
           THEN [reply EXCEPT ![a.dev] = answer] ELSE reply

(* A last word to whoever had the seat. *)
Dismisses ==
  dismissed' = IF place.id /= 0 /\ ~place.orphan /\ place.sock \in heard
               THEN dismissed \cup {place.sock} ELSE dismissed

(* addPeer, and replaceAccount: the peer of the key goes on, on this socket *)
(* and no other; or a new one takes its place, and the old one is told.     *)
Resumed(a) ==
  /\ a.resume /\ a.key /= 0 /\ a.key = place.id
  /\ place' = [place EXCEPT !.sock = a.sock, !.orphan = FALSE]
  /\ peerOf' = [peerOf EXCEPT ![a.sock] = place.id]
  /\ served' = IF place.orphan THEN served ELSE served \ {place.sock}
  /\ UNCHANGED <<dismissed, seated>>

Entered(a) ==
  /\ ~(a.resume /\ a.key /= 0 /\ a.key = place.id)
  /\ seated' = seated + 1
  /\ place' = [id |-> seated', sock |-> a.sock, orphan |-> FALSE]
  /\ peerOf' = [peerOf EXCEPT ![a.sock] = seated']
  /\ Dismisses
  /\ served' = served \ {place.sock}

(* JoinController.handle: once per socket, and if the room admits it. *)
ServerJoins(a) ==
  /\ a \in joins
  /\ joins' = joins \ {a}
  /\ \/ /\ a.sock \notin served
        /\ UNCHANGED <<reply, served, seatVars, troubles>>
     \/ /\ a.sock \in served /\ peerOf[a.sock] /= 0
        /\ Replies(a, "refused")
        /\ UNCHANGED <<served, seatVars, troubles>>
     \/ /\ a.sock \in served /\ peerOf[a.sock] = 0 /\ Trouble
        /\ Replies(a, "refused")
        /\ UNCHANGED <<served, seatVars>>
     \/ /\ a.sock \in served /\ peerOf[a.sock] = 0
        /\ Resumed(a) \/ Entered(a)
        /\ Replies(a, "accepted")
        /\ UNCHANGED troubles
  /\ UNCHANGED <<clientVars, leaveVars, heard, dialled>>

(* The answer.  (The key of a peer that left meanwhile matters no more:     *)
(* its session does not come back.)                                        *)
HearsJoin(d) ==
  /\ reply[d] = "accepted"
  /\ reply' = [reply EXCEPT ![d] = "none"]
  /\ resumeKey' = [resumeKey EXCEPT ![d] = peerOf[current[d]]]
  /\ Moves(d, "forward")
  /\ UNCHANGED <<hasLeft, current, attempts, leaveVars, joins, sockVars, seatVars,
                 troubles>>

(* Mutant of AfterRefusal: the last refusal counts as an answer. *)
AfterRefusalForward(d) ==
  IF stage[d] = "resuming" THEN "entering" ELSE "forward"

(* After a refusal: join is over; reconnect asks anew on the same socket,   *)
(* and after another waits to dial again, or gives up.                      *)
AfterRefusal(d) ==
  CASE stage[d] = "joining" -> "failed"
    [] stage[d] = "resuming" -> "entering"
    [] stage[d] = "entering" -> IF attempts[d] + 1 < MaxAttempts THEN "asleep" ELSE "ended"

(* The server refused, the socket fell, or no answer came in time. *)
JoinFails(d) ==
  /\ reply[d] /= "none"
  /\ IF reply[d] = "refused" \/ current[d] \notin heard THEN UNCHANGED troubles ELSE Trouble
  /\ reply' = [reply EXCEPT ![d] = "none"]
  /\ Moves(d, AfterRefusal(d))
  /\ attempts' = [attempts EXCEPT ![d] = IF stage[d] = "entering" THEN @ + 1 ELSE @]
  /\ UNCHANGED <<hasLeft, current, resumeKey, leaveVars, joins, sockVars, seatVars>>

-----------------------------------------------------------------------------
(* Forwarding and coming back *)

(* forward: replaced, kicked or moved, the session does not come back. *)
HearsDismissal(d) ==
  /\ stage[d] = "forward" /\ current[d] \in dismissed
  /\ dismissed' = dismissed \ {current[d]}
  /\ hasLeft' = [hasLeft EXCEPT ![d] = TRUE]
  /\ UNCHANGED <<stage, current, resumeKey, attempts, reply, leaveVars, joins, heard, served,
                 peerOf, place, seated, dialled, troubles>>

(* The queue of the socket is over, or no answer to a ping came in time. *)
LosesSocket(d) ==
  /\ stage[d] = "forward"
  /\ \/ current[d] \notin heard \cup dismissed /\ UNCHANGED troubles
     \/ Trouble
  /\ Moves(d, IF hasLeft[d] THEN "ended" ELSE "asleep")
  /\ attempts' = [attempts EXCEPT ![d] = 0]
  /\ UNCHANGED <<hasLeft, current, resumeKey, reply, leaveVars, joins, sockVars, seatVars>>

Beats(d) ==
  /\ stage[d] = "forward" /\ hasLeft[d]
  /\ Moves(d, "ended")
  /\ UNCHANGED <<hasLeft, current, resumeKey, attempts, reply, leaveVars, joins, sockVars, seatVars,
                 troubles>>

(* reconnect, after the backoff. *)
Wakes(d) ==
  /\ stage[d] = "asleep"
  /\ Moves(d, IF hasLeft[d] THEN "ended" ELSE "dialling")
  /\ UNCHANGED <<hasLeft, current, resumeKey, attempts, reply, leaveVars, joins, sockVars, seatVars,
                 troubles>>

-----------------------------------------------------------------------------
(* Leaving *)

BeginsLeave(d) ==
  /\ stage[d] \notin {"out", "joining", "failed"} /\ leaving[d] = "no" /\ Trouble
  /\ hasLeft' = [hasLeft EXCEPT ![d] = TRUE]
  /\ leaving' = [leaving EXCEPT ![d] = "asks"]
  /\ leaveOn' = [leaveOn EXCEPT ![d] = IF current[d] \in heard THEN current[d] ELSE 0]
  /\ UNCHANGED <<stage, current, resumeKey, attempts, reply, joins, sockVars, seatVars>>

(* LeaveController.handle. *)
ServerLeaves(d) ==
  /\ leaving[d] = "asks" /\ leaveOn[d] \in served
  /\ leaving' = [leaving EXCEPT ![d] = "answered"]
  /\ place' = IF place.id = peerOf[leaveOn[d]] THEN NoSeat ELSE place
  /\ peerOf' = [peerOf EXCEPT ![leaveOn[d]] = 0]
  /\ UNCHANGED <<clientVars, reply, leaveOn, joins, heard, served, dismissed, seated, dialled,
                 troubles>>

(* Answered, refused or given up, the socket of the moment is closed. *)
EndsLeave(d) ==
  /\ leaving[d] \in {"asks", "answered"}
  /\ leaving' = [leaving EXCEPT ![d] = "done"]
  /\ heard' = heard \ {current[d]}
  /\ UNCHANGED <<clientVars, reply, leaveOn, joins, served, seatVars, dialled, troubles>>

-----------------------------------------------------------------------------
(* The network and the server *)

(* Either end finds the socket dead, and in the end the other one too;      *)
(* closed by the server, it is read to its end first.                      *)
ClientLoses(s) ==
  /\ s \in heard
  /\ heard' = heard \ {s}
  /\ \/ s \notin served /\ UNCHANGED <<dismissed, troubles>>
     \/ Trouble /\ dismissed' = dismissed \ {s}
  /\ UNCHANGED <<clientVars, reply, leaveVars, joins, served, peerOf, place, seated, dialled>>

(* release and orphanPeer: if the peer is still on that socket. *)
ServerLoses(s) ==
  /\ s \in served
  /\ IF s \in heard THEN Trouble ELSE UNCHANGED troubles
  /\ served' = served \ {s}
  /\ place' = IF place.id /= 0 /\ place.sock = s THEN [place EXCEPT !.orphan = TRUE] ELSE place
  /\ UNCHANGED <<clientVars, reply, leaveVars, joins, heard, peerOf, dismissed, seated, dialled>>

GraceExpires ==
  /\ place.orphan
  /\ place' = NoSeat
  /\ UNCHANGED <<clientVars, reply, leaveVars, joins, heard, served, peerOf, dismissed, seated,
                 dialled, troubles>>

KicksOut ==
  /\ place.id /= 0 /\ ~place.orphan /\ Trouble
  /\ Dismisses
  /\ served' = served \ {place.sock}
  /\ place' = NoSeat
  /\ UNCHANGED <<clientVars, reply, leaveVars, joins, heard, peerOf, seated, dialled>>

SessionNext ==
  \/ \E d \in Device :
       \/ Dials(d) \/ SendsJoin(d) \/ HearsJoin(d) \/ JoinFails(d) \/ HearsDismissal(d)
       \/ LosesSocket(d) \/ Beats(d) \/ Wakes(d)
       \/ BeginsLeave(d) \/ ServerLeaves(d) \/ EndsLeave(d)
  \/ \E a \in joins : ServerJoins(a)
  \/ \E s \in ClientSocket : ClientLoses(s) \/ ServerLoses(s)
  \/ GraceExpires \/ KicksOut

SessionSpec == SessionInit /\ [][SessionNext]_sessionVars

-----------------------------------------------------------------------------
(* Properties *)

Stages == {"out", "joining", "forward", "asleep", "dialling", "resuming", "entering", "ended",
           "failed"}

SessionTypeOK ==
  /\ stage \in [Device -> Stages] /\ hasLeft \in [Device -> BOOLEAN]
  /\ \A d \in Device : current[d] \in 0..dialled /\ resumeKey[d] \in 0..seated
  /\ \A d \in Device : attempts[d] \in 0..MaxAttempts
  /\ \A a \in joins : a \in JoinAsk /\ a.key <= seated
  /\ heard \cup served \cup dismissed \subseteq 1..dialled
  /\ place.id \in 0..seated /\ (place.id /= 0 => peerOf[place.sock] = place.id)

(***************************************************************************)
(* A session that believes itself in the room, on a socket that both ends   *)
(* hold and with nothing still to be read on it, has the seat of the        *)
(* account, on that socket: through lost sockets, answers that came too     *)
(* late, a second device, and joins that arrive after they were given up.   *)
(***************************************************************************)
SessionIsSeated ==
  \A d \in Device :
    stage[d] = "forward" /\ leaving[d] = "no" /\ current[d] \in (heard \cap served) \ dismissed
      => place.id = resumeKey[d] /\ place.sock = current[d] /\ ~place.orphan

SessionOver(d) ==
  /\ stage[d] = "ended" /\ leaving[d] = "done" /\ ~place.orphan
  /\ current[d] \in heard <=> current[d] \in served
  /\ \A a \in joins : a.dev /= d

(***************************************************************************)
(* "Quem saiu de propósito não volta" (session.rs:204): once leave and all  *)
(* it set off are over, the account's seat is not on a socket of that       *)
(* session.  Violated: left is read before the dialling and not after it.   *)
(***************************************************************************)
LeftStaysLeft ==
  \A d \in Device : SessionOver(d) /\ place.id /= 0 => place.sock /= current[d]
=============================================================================
