------------------------------- MODULE E2eeCall -------------------------------
(***************************************************************************)
(* The clients' side of end-to-end encryption around the relay of          *)
(* E2eeRelay: the roster each app keeps (session.rs), the MLS group it     *)
(* believes in (e2ee_call.rs, e2ee_group.rs) and the event loop that binds *)
(* them (room.rs, run and handle_e2ee_event).                              *)
(*                                                                         *)
(* The loop handles one event at a time and waits, inside the handler, for *)
(* the answer of each request it makes: task[p] is the request p waits     *)
(* for, and p takes no event off its queue meanwhile.                      *)
(*                                                                         *)
(* MLS itself is external (the openmls crate): a group state is the list   *)
(* of the Commits that led to it, each with the ratchet tree it made, and  *)
(* a Commit applies exactly to the state it was made in.                   *)
(*                                                                         *)
(* A client whose session was not resumed starts again from nothing: here  *)
(* it is another peer.                                                     *)
(***************************************************************************)
EXTENDS E2eeRelay

CONSTANTS
  MaxDrops,   \* bound: sockets the network loses
  MaxFails,   \* bound: requests that fail on a socket that lives
  MaxExits,   \* bound: people who leave
  MaxKicks,   \* bound: people who are kicked
  MaxStarts   \* bound: groups one app starts or asks to enter

ASSUME CallAssumption ==
  /\ Told = TellableNames
  /\ 1..MaxSession \subseteq Group /\ Group \subseteq Nat
  /\ MaxDrops \in Nat /\ MaxFails \in Nat /\ MaxExits \in Nat /\ MaxKicks \in Nat
  /\ MaxStarts \in Nat \ {0}

VARIABLES
  sid,      \* sid[p]: the E2EE session id p was given when it joined last
  seen,     \* seen[p]: the peers in p's roster, p among them
  away,     \* away[p]: those of them p's roster shows reconnecting
  call,     \* call[p]: p's E2eeCall
  task,     \* task[p]: the request p's event loop waits for
  starts,   \* starts[p]: E2eeCall::start runs; each makes a new MLS identity
  drops,    \* sockets lost so far
  fails,    \* requests that failed so far although their socket lived
  exits,    \* people who left so far
  kicks     \* people kicked so far

callVars == <<sid, seen, away, call, task, starts, drops, fails, exits, kicks>>

vars == <<relayVars, callVars>>

-----------------------------------------------------------------------------
(* MLS *)

(* A MemberId: the identity p's app made the nth time it started a call. *)
Member == Peer \X (1..MaxStarts)

Blank == <<>>

Entry == [by: Member, tree: Seq(Member \cup {Blank})]

(* The group state after the Commits of log; <<>> is a client with no group. *)
Tree(log) == log[Len(log)].tree

Epoch(log) == Len(log) - 1

Members(log) == {Tree(log)[i] : i \in DOMAIN Tree(log)} \ {Blank}

LeafOf(log, m) == CHOOSE i \in DOMAIN Tree(log) : Tree(log)[i] = m

Created(m) == <<[by |-> m, tree |-> <<m>>]>>

(* The newcomer takes the leftmost blank leaf, or a new one. *)
Planted(tree, m) ==
  LET blanks == {i \in DOMAIN tree : tree[i] = Blank}
  IN  IF blanks = {} THEN Append(tree, m)
      ELSE [tree EXCEPT ![CHOOSE i \in blanks : \A j \in blanks : i <= j] = m]

CommitAdding(log, by, m) == Append(log, [by |-> by, tree |-> Planted(Tree(log), m)])

CommitRemoving(log, by, out) ==
  Append(log, [by |-> by,
               tree |-> [i \in DOMAIN Tree(log) |->
                           IF Tree(log)[i] \in out THEN Blank ELSE Tree(log)[i]]])

(* next was made by a Commit in the very state log. *)
Continues(log, next) == Len(next) = Len(log) + 1 /\ SubSeq(next, 1, Len(log)) = log

-----------------------------------------------------------------------------
(* One client *)

(* The MLS identity of p's current call. *)
Own(p) == <<p, starts[p]>>

Awaiting(c) == c.log = <<>>

(* A client that has applied its own removal has no active group any more. *)
HasTree(p) == ~ Awaiting(call[p]) /\ Own(p) \in Members(call[p].log)

Named(c, m) == {q \in Peer : c.names[q] = {m}}

(* Mutant of Presence: a leaf known only by its account never goes away. *)
PresenceOfNamedOnly(c, who, off, m) ==
  IF Named(c, m) = {} THEN "here"
  ELSE IF Named(c, m) \cap who = {} THEN "gone"
  ELSE IF Named(c, m) \cap off # {} THEN "reconnecting" ELSE "here"

(***************************************************************************)
(* presence: where the device of leaf m is, in a call c and a roster of    *)
(* the peers who, of whom off are reconnecting.  A leaf that a KeyPackage  *)
(* named follows its peer; of the others only the account is known, and    *)
(* the account's devices in the roster that no KeyPackage named count.     *)
(***************************************************************************)
Presence(c, who, off, m) ==
  LET account == AccountOf[m[1]]
      devices == {q \in who : c.names[q] = {} /\ AccountOf[q] = account}
      leaves == {n \in Members(c.log) : Named(c, n) = {} /\ AccountOf[n[1]] = account}
  IN  IF Named(c, m) # {}
      THEN IF Named(c, m) \cap who = {} THEN "gone"
           ELSE IF Named(c, m) \cap off # {} THEN "reconnecting" ELSE "here"
      ELSE IF devices = {} THEN "gone"
           ELSE IF Cardinality(devices \ off) >= Cardinality(leaves) THEN "here"
           ELSE "reconnecting"

(* Mutant of IsCommitter: smaller than itself too. *)
IsCommitterStrict(c, who, off, m) ==
  /\ Presence(c, who, off, m) = "here"
  /\ \A n \in Members(c.log) :
       Presence(c, who, off, n) = "here" => LeafOf(c.log, m) < LeafOf(c.log, n)

(* is_committer: the leaf of m is the smallest of those here. *)
IsCommitter(c, who, off, m) ==
  /\ Presence(c, who, off, m) = "here"
  /\ \A n \in Members(c.log) :
       Presence(c, who, off, n) = "here" => LeafOf(c.log, m) <= LeafOf(c.log, n)

Ghosts(c, who, off) == {m \in Members(c.log) : Presence(c, who, off, m) = "gone"}

Idle == [step |-> "idle"]

(* A Commit waiting for the relay's answer: the state it makes, whom its *)
(* Welcome is for, and the peer whose KeyPackage is still to be handled  *)
(* once it is answered.                                                  *)
Submit(log, welcome, next) ==
  [step |-> "commit", log |-> log, welcome |-> welcome, next |-> next]

(* stage_add of the peer q, whose KeyPackage c names, if p decides. *)
StageAdd(p, c, who, off, q) ==
  IF IsCommitter(c, who, off, Own(p))
  THEN Submit(CommitAdding(c.log, Own(p), CHOOSE m \in c.names[q] : TRUE), {q}, {})
  ELSE Idle

(* stage_remove_ghosts, with next to go on with. *)
StageRemoveGhosts(p, c, who, off, next) ==
  Submit(CommitRemoving(c.log, Own(p), Ghosts(c, who, off)), {}, next)

Cleans(p, c, who, off) ==
  IsCommitter(c, who, off, Own(p)) /\ Ghosts(c, who, off) # {}

(***************************************************************************)
(* E2eeCall::start number n of p, in session s: alone it creates the group *)
(* and is done, otherwise it has no tree and asks to be added.             *)
(***************************************************************************)
Started(p, n, s, alone) ==
  [group |-> s,
   log   |-> IF alone THEN Created(<<p, n>>) ELSE <<>>,
   names |-> [q \in Peer |-> IF q = p THEN {<<p, n>>} ELSE {}],
   early |-> {},
   state |-> IF alone THEN "encrypted" ELSE "establishing"]

NoCall == [group |-> 0, log |-> <<>>, names |-> [q \in Peer |-> {}], early |-> {},
           state |-> "out"]

CallInit ==
  /\ Init
  /\ sid = [p \in Peer |-> 0]
  /\ seen = [p \in Peer |-> {}]
  /\ away = [p \in Peer |-> {}]
  /\ call = [p \in Peer |-> NoCall]
  /\ task = [p \in Peer |-> Idle]
  /\ starts = [p \in Peer |-> 0]
  /\ drops = 0
  /\ fails = 0
  /\ exits = 0
  /\ kicks = 0

Failed(c) == [c EXCEPT !.state = "failed"]

InCall(p) == call[p].state # "out"

(* The Welcome for q to the epoch p's Commit has just made. *)
WelcomeFor(p, q) ==
  [group |-> call[p].group, epoch |-> Epoch(call[p].log) - 1, target |-> q]

-----------------------------------------------------------------------------
(* Coming and going *)

(* Room::enter: join, start the call, and ask for a place in the group. *)
Enter(p) ==
  LET others == {q \in Peer : status'[q] = "here"} \ {p}
  IN  /\ Join(p, {})
      /\ sid' = [sid EXCEPT ![p] = session']
      /\ seen' = [seen EXCEPT ![p] = others \cup {p}]
      /\ starts' = [starts EXCEPT ![p] = 1]
      /\ call' = [q \in Peer |-> IF q = p THEN Started(p, 1, session', others = {})
                                ELSE IF status'[q] = "gone" THEN NoCall ELSE call[q]]
      /\ task' = [q \in Peer |-> IF q = p /\ others # {} THEN [step |-> "enter"]
                                ELSE IF status'[q] = "gone" THEN Idle ELSE task[q]]
      /\ UNCHANGED <<away, drops, fails, exits, kicks>>

Drop(p) ==
  /\ drops < MaxDrops
  /\ status[p] = "here"
  /\ \E k \in 0..Len(inbox[p]) : SocketLost(p, k)
  /\ drops' = drops + 1
  /\ UNCHANGED <<sid, seen, away, call, task, starts, fails, exits, kicks>>

(* Mutant of FailsE2ee: the pending Commit is confirmed and not discarded. *)
FailsE2eeConfirming(p) ==
  /\ call' = [call EXCEPT ![p] =
       IF task[p].step = "enter" THEN NoCall
       ELSE IF task[p].step = "commit" THEN [Failed(@) EXCEPT !.log = task[p].log]
       ELSE Failed(@)]
  /\ task' = [task EXCEPT ![p] = Idle]

(***************************************************************************)
(* The request p waits for has failed: a Commit is discarded, whatever the *)
(* relay has done with it, and E2EE is failed.  A room that was not        *)
(* entered yet is given up, and its socket stays open.                     *)
(***************************************************************************)
FailsE2ee(p) ==
  /\ call' = [call EXCEPT ![p] = IF task[p].step = "enter" THEN NoCall ELSE Failed(@)]
  /\ task' = [task EXCEPT ![p] = Idle]

(* It fails with p's socket. *)
RequestFails(p) ==
  /\ p \notin wire
  /\ task[p] # Idle
  /\ FailsE2ee(p)
  /\ UNCHANGED <<relayVars, sid, seen, away, starts, drops, fails, exits, kicks>>

(***************************************************************************)
(* Or the socket lives, and the SFU refuses the request (admitE2ee, too    *)
(* many of them) or 10 s pass without an answer, whether it handled the    *)
(* request or not; of a Commit it handled, SendCommit is the handling.  A  *)
(* request handled only after p gave it up is not told apart: p's next one *)
(* travels behind it, so the SFU sees nothing of what p does meanwhile.    *)
(***************************************************************************)
AnswerFails(p) ==
  /\ p \in wire
  /\ task[p] # Idle
  /\ fails < MaxFails
  /\ fails' = fails + 1
  /\ \/ UNCHANGED relayVars
     \/ /\ task[p].step \in {"enter", "join"}
        /\ RelayE2eeJoin(p, call[p].group, Own(p))
     \/ /\ task[p].step = "welcome"
        /\ \E q \in task[p].welcome : RelayE2eeWelcome(p, WelcomeFor(p, q))
  /\ FailsE2ee(p)
  /\ UNCHANGED <<sid, seen, away, starts, drops, exits, kicks>>

(* request_join(true) is answered: the roster is the room's, orphans too. *)
Reconnect(p) ==
  /\ InCall(p)
  /\ task[p] = Idle
  /\ Resume(p)
  /\ sid' = [sid EXCEPT ![p] = session]
  /\ seen' = [seen EXCEPT ![p] = InRoom]
  /\ away' = [away EXCEPT ![p] = InRoom \ (Active \cup {p})]
  /\ UNCHANGED <<call, task, starts, drops, fails, exits, kicks>>

(* The app leaves: Room::leave stops everything and closes the socket. *)
Exit(p) ==
  /\ exits < MaxExits
  /\ InCall(p)
  /\ Leave(p)
  /\ exits' = exits + 1
  /\ call' = [call EXCEPT ![p] = NoCall]
  /\ task' = [task EXCEPT ![p] = Idle]
  /\ UNCHANGED <<sid, seen, away, starts, drops, fails, kicks>>

(* A moderator takes p out of the room. *)
Expel(p) ==
  /\ kicks < MaxKicks
  /\ Kick(p)
  /\ kicks' = kicks + 1
  /\ call' = [call EXCEPT ![p] = IF status'[p] = "gone" THEN NoCall ELSE @]
  /\ task' = [task EXCEPT ![p] = IF status'[p] = "gone" THEN Idle ELSE @]
  /\ UNCHANGED <<sid, seen, away, starts, drops, fails, exits>>

(* The grace period of a peer that dropped ends at the SFU. *)
Expire(p) ==
  /\ Evict(p)
  /\ call' = [call EXCEPT ![p] = NoCall]
  /\ task' = [task EXCEPT ![p] = Idle]
  /\ UNCHANGED <<sid, seen, away, starts, drops, fails, exits, kicks>>

(* The app hears that it was replaced or kicked, and stops. *)
Stop(p) ==
  /\ status[p] = "closing"
  /\ SocketLost(p, 0)
  /\ call' = [call EXCEPT ![p] = NoCall]
  /\ task' = [task EXCEPT ![p] = Idle]
  /\ UNCHANGED <<sid, seen, away, starts, drops, fails, exits, kicks>>

(* The SFU notices p's dead socket. *)
Notice(p) == OrphanPeer(p) /\ UNCHANGED callVars

-----------------------------------------------------------------------------
(* The event loop *)

(* Mutant of SeenAfter: whoever comes in later is not noticed. *)
SeenAfterButNewcomers(p, e) ==
  IF e.name \in {"peerLeft", "peerKicked"} THEN seen[p] \ {e.peer} ELSE seen[p]

(* The roster after event e (Roster::apply). *)
SeenAfter(p, e) ==
  IF e.name = "peerJoined" THEN seen[p] \cup {e.peer}
  ELSE IF e.name \in {"peerLeft", "peerKicked"} THEN seen[p] \ {e.peer} ELSE seen[p]

AwayAfter(p, e) ==
  IF e.name = "peerConnectionLost" THEN away[p] \cup ({e.peer} \cap seen[p])
  ELSE IF e.name \in {"peerReconnected", "peerLeft", "peerKicked"} THEN away[p] \ {e.peer} ELSE away[p]

(* Take the first event off the queue; it changes the roster at once. *)
Take(p, e) ==
  /\ InCall(p)
  /\ task[p] = Idle
  /\ inbox[p] # <<>> /\ e = Head(inbox[p])
  /\ Receive(p)
  /\ seen' = [seen EXCEPT ![p] = SeenAfter(p, e)]
  /\ away' = [away EXCEPT ![p] = AwayAfter(p, e)]
  /\ UNCHANGED <<sid, drops, fails, exits, kicks>>

Calls(p, c, t) ==
  /\ call' = [call EXCEPT ![p] = c]
  /\ task' = [task EXCEPT ![p] = t]
  /\ UNCHANGED starts

(* restart_e2ee: a new identity in the session p knows of. *)
Restart(p) ==
  LET alone == seen[p] = {p}
  IN  /\ starts[p] < MaxStarts
      /\ starts' = [starts EXCEPT ![p] = @ + 1]
      /\ call' = [call EXCEPT ![p] = Started(p, starts[p] + 1, sid[p], alone)]
      /\ task' = [task EXCEPT ![p] = IF alone THEN Idle ELSE [step |-> "join"]]

(* peerJoined, peerConnectionLost, peerReconnected: the roster and no more. *)
HandleRoster(p, e) ==
  /\ e.name \in {"peerJoined", "peerConnectionLost", "peerReconnected"}
  /\ Take(p, e)
  /\ Calls(p, call[p], Idle)

(***************************************************************************)
(* peerLeft, peerKicked: whoever decides takes every leaf out whose device *)
(* is gone.  Nothing to do while awaiting; without an active group, an     *)
(* error.                                                                  *)
(***************************************************************************)
HandlePeerLeft(p, e) ==
  LET c == call[p]
      who == SeenAfter(p, e)
      off == AwayAfter(p, e)
  IN  /\ e.name \in {"peerLeft", "peerKicked"}
      /\ Take(p, e)
      /\ IF Awaiting(c) THEN Calls(p, c, Idle)
         ELSE IF ~ HasTree(p) THEN Calls(p, Failed(c), Idle)
         ELSE IF Cleans(p, c, who, off)
         THEN Calls(p, c, StageRemoveGhosts(p, c, who, off, {}))
         ELSE Calls(p, c, Idle)

(* e2eeJoinRequested: note whose KeyPackage it is, and add it if p decides. *)
HandleKeyPackage(p, e) ==
  LET noted == [call[p] EXCEPT !.names[e.peer] = {e.payload}]
  IN  /\ e.name = "e2eeJoinRequested"
      /\ Take(p, e)
      /\ IF e.group # call[p].group THEN Calls(p, Failed(call[p]), Idle)
         ELSE IF Awaiting(call[p]) THEN Calls(p, noted, Idle)
         ELSE IF ~ HasTree(p) THEN Calls(p, Failed(noted), Idle)
         ELSE IF e.payload \in Members(noted.log) THEN Calls(p, noted, Idle)
         ELSE IF Cleans(p, noted, seen[p], away[p])
         THEN Calls(p, noted, StageRemoveGhosts(p, noted, seen[p], away[p], {e.peer}))
         ELSE Calls(p, noted, StageAdd(p, noted, seen[p], away[p], e.peer))

(* A group state p now takes part in; sender_set fails when p is not in it. *)
Joined(p, c, log) ==
  [c EXCEPT !.log = log,
            !.state = IF Own(p) \in Members(log) THEN "encrypted" ELSE "failed"]

(* Mutant of HandleCommit: the Commit of p's own epoch counts as stale. *)
HandleCommitOffByOne(p, e) ==
  LET c == call[p]
  IN  /\ e.name = "e2eeCommit"
      /\ Take(p, e)
      /\ IF e.group # c.group THEN Calls(p, Failed(c), Idle)
         ELSE IF Awaiting(c) THEN Calls(p, [c EXCEPT !.early = @ \cup {e.epoch}], Idle)
         ELSE IF ~ HasTree(p) THEN Calls(p, Failed(c), Idle)
         ELSE IF e.epoch <= Epoch(c.log) THEN Calls(p, c, Idle)
         ELSE Restart(p)

(* e2eeCommit: buffered while awaiting, stale, applied, or start again. *)
HandleCommit(p, e) ==
  LET c == call[p]
  IN  /\ e.name = "e2eeCommit"
      /\ Take(p, e)
      /\ IF e.group # c.group THEN Calls(p, Failed(c), Idle)
         ELSE IF Awaiting(c) THEN Calls(p, [c EXCEPT !.early = @ \cup {e.epoch}], Idle)
         ELSE IF ~ HasTree(p) THEN Calls(p, Failed(c), Idle)
         ELSE IF e.epoch < Epoch(c.log) THEN Calls(p, c, Idle)
         ELSE IF Continues(c.log, e.payload)
         THEN Calls(p, Joined(p, c, e.payload), Idle)
         ELSE Restart(p)

(* The state a Welcome carries: that of the Commit it came with. *)
Welcomed(e) ==
  (CHOOSE a \in accepted : a.life = e.life /\ a.group = e.group /\ a.epoch = e.epoch).payload

(* Mutant of HandleWelcome: the buffer is read and not emptied. *)
HandleWelcomeKeepingEarly(p, e) ==
  LET c == call[p]
  IN  /\ e.name = "e2eeWelcome"
      /\ Take(p, e)
      /\ IF e.group # c.group \/ ~ Awaiting(c) \/ Own(p) \notin Members(Welcomed(e))
         THEN Calls(p, Failed(c), Idle)
         ELSE Calls(p, Joined(p, c, Welcomed(e)), Idle)

(***************************************************************************)
(* e2eeWelcome.  The buffered Commits newer than the Welcome would be      *)
(* applied next; EarlyCommitsAreStale says that there are none.            *)
(***************************************************************************)
HandleWelcome(p, e) ==
  LET c == call[p]
  IN  /\ e.name = "e2eeWelcome"
      /\ Take(p, e)
      /\ IF e.group # c.group \/ ~ Awaiting(c) \/ Own(p) \notin Members(Welcomed(e))
         THEN Calls(p, Failed(c), Idle)
         ELSE Calls(p, [Joined(p, c, Welcomed(e)) EXCEPT !.early = {}], Idle)

(* sessionRejoined: start again when the room has another session by now. *)
HandleRejoined(p, e) ==
  /\ e.name = "sessionRejoined"
  /\ Take(p, e)
  /\ IF call[p].group # sid[p] THEN Restart(p) ELSE Calls(p, call[p], Idle)

Handle(p, e) ==
  \/ HandleRoster(p, e)
  \/ HandlePeerLeft(p, e)
  \/ HandleKeyPackage(p, e)
  \/ HandleCommit(p, e)
  \/ HandleWelcome(p, e)
  \/ HandleRejoined(p, e)

-----------------------------------------------------------------------------
(* Requests and answers *)

Asks(p, t) ==
  /\ task' = [task EXCEPT ![p] = t]
  /\ UNCHANGED <<sid, seen, away, starts, drops, fails, exits, kicks>>

(* e2eeJoin is relayed: the room hears p's KeyPackage. *)
AskToJoin(p) ==
  /\ task[p].step \in {"enter", "join"}
  /\ RelayE2eeJoin(p, call[p].group, Own(p))
  /\ Asks(p, Idle)
  /\ UNCHANGED call

(* submit_e2ee_commit, up to the relay's answer. *)
SendCommit(p) ==
  LET c == [group |-> call[p].group, epoch |-> Epoch(call[p].log), payload |-> task[p].log]
  IN  /\ task[p].step = "commit"
      /\ RelayE2eeCommit(p, c)
      /\ Asks(p, [task[p] EXCEPT !.step =
                    IF CommitAnswer(p, c) \in {"accepted", "accepted_before"}
                    THEN "accepted" ELSE "refused"])
      /\ UNCHANGED call

(* What p does after its Commit, in the call c it has by then. *)
After(p, c, t) ==
  IF t.step = "accepted" /\ t.welcome # {} THEN [t EXCEPT !.step = "welcome"]
  ELSE IF t.next = {} THEN Idle
  ELSE StageAdd(p, c, seen[p], away[p], CHOOSE q \in t.next : TRUE)

(* A mutant of HearAnswer: confirm whatever the answer is. *)
HearAnswerConfirming(p) ==
  LET t == task[p]
      c == Joined(p, call[p], t.log)
  IN  /\ t.step \in {"accepted", "refused"}
      /\ call' = [call EXCEPT ![p] = c]
      /\ Asks(p, After(p, c, t))
      /\ UNCHANGED relayVars

(* The answer: confirm_pending, or discard_pending and go on all the same. *)
HearAnswer(p) ==
  LET t == task[p]
      c == IF t.step = "accepted" THEN Joined(p, call[p], t.log) ELSE call[p]
  IN  /\ t.step \in {"accepted", "refused"}
      /\ call' = [call EXCEPT ![p] = c]
      /\ Asks(p, After(p, c, t))
      /\ UNCHANGED relayVars

(* send_e2ee_welcome: an error answer fails the sender's encryption. *)
SendWelcome(p) ==
  /\ task[p].step = "welcome"
  /\ \E q \in task[p].welcome :
       \/ RelayE2eeWelcome(p, WelcomeFor(p, q)) /\ UNCHANGED call
       \/ /\ Speaks(p) /\ ~ WelcomeAllowed(p, WelcomeFor(p, q))
          /\ call' = [call EXCEPT ![p] = Failed(@)]
          /\ UNCHANGED relayVars
  /\ Asks(p, Idle)

-----------------------------------------------------------------------------
(* What the program does by itself, and what people and the network do. *)
Runs(p) ==
  \/ inbox[p] # <<>> /\ Handle(p, Head(inbox[p]))
  \/ AskToJoin(p)
  \/ SendCommit(p)
  \/ HearAnswer(p)
  \/ SendWelcome(p)
  \/ RequestFails(p)
  \/ Stop(p)
  \/ Notice(p)

Befalls(p) ==
  \/ Enter(p)
  \/ Drop(p)
  \/ AnswerFails(p)
  \/ Reconnect(p)
  \/ Exit(p)
  \/ Expel(p)
  \/ Expire(p)

CallNext == \E p \in Peer : Runs(p) \/ Befalls(p)

CallSpec == CallInit /\ [][CallNext]_vars

(***************************************************************************)
(* Every event loop, every request and the SFU keep going; people come     *)
(* when they want to, and sockets come back if they do.                    *)
(***************************************************************************)
FairCallSpec == CallSpec /\ \A p \in Peer : WF_vars(Runs(p))

-----------------------------------------------------------------------------
(* Properties *)

Task ==
  [step: {"idle", "enter", "join"}]
    \cup [step: {"commit", "accepted", "refused", "welcome"}, log: Seq(Entry),
          welcome: SUBSET Peer, next: SUBSET Peer]

CallTypeOK ==
  /\ TypeOK
  /\ sid \in [Peer -> Nat]
  /\ seen \in [Peer -> SUBSET Peer]
  /\ \A p \in Peer : away[p] \subseteq seen[p] \ {p}
  /\ call \in [Peer -> [group: Nat, log: Seq(Entry), names: [Peer -> SUBSET Member],
                        early: SUBSET Nat,
                        state: {"out", "establishing", "encrypted", "failed"}]]
  /\ \A p \in Peer : ~ Awaiting(call[p]) => call[p].early = {}
  /\ task \in [Peer -> Task]
  /\ starts \in [Peer -> 0..MaxStarts]
  /\ drops \in 0..MaxDrops
  /\ fails \in 0..MaxFails
  /\ exits \in 0..MaxExits
  /\ kicks \in 0..MaxKicks

(* Who is in the room, or may still come back to it, with a place in a group. *)
Seated == {p \in InRoom : InCall(p) /\ HasTree(p)}

(***************************************************************************)
(* What the relay's order is for (E2EE.md, "confirm or discard the pending *)
(* Commit without splitting the group"): two people in the room who are    *)
(* in the same group and in the same epoch hold the same group, so they    *)
(* derive the same media keys.  Once a socket was lost this is said of the *)
(* room's own session from the first Commit on: the second device of an    *)
(* account may found the group again while its founder is reconnecting.    *)
(***************************************************************************)
Agreement ==
  \A p, q \in Seated :
    /\ call[p].group = call[q].group
    /\ Len(call[p].log) = Len(call[q].log)
    /\ drops = 0 \/ (call[p].group = session /\ Len(call[p].log) > 1)
    => call[p].log = call[q].log

(***************************************************************************)
(* room.rs, submit_e2ee_commit: a client applies its own Commit only when  *)
(* the relay accepted it, so in the session of the room nobody's group is  *)
(* ahead of the relay.                                                     *)
(***************************************************************************)
NobodyAhead ==
  \A p \in Seated :
    call[p].group = session => Epoch(call[p].log) <= groups[session].currentEpoch

(***************************************************************************)
(* e2ee_call.rs, Presence: a device in the room or in its grace period is  *)
(* "kept in the group".  A Commit the relay accepts never takes out the    *)
(* current leaf of someone in the room who is in that group.               *)
(***************************************************************************)
TakenOut(a) == Members(SubSeq(a.payload, 1, Len(a.payload) - 1)) \ Members(a.payload)

TakesNobodyOut ==
  \A a \in accepted' \ accepted : \A p \in Seated :
    call[p].group = a.group => Own(p) \notin TakenOut(a)

NoLiveMemberRemoved == [][TakesNobodyOut]_vars

(* So it is until a socket is lost: nobody who stayed is ever taken out. *)
NobodyWhoStayedRemoved == [][drops' = 0 => TakesNobodyOut]_vars

(***************************************************************************)
(* receive_welcome keeps the buffered Commits newer than the Welcome to    *)
(* replay them.  In the room's session there is never one: the relay sends *)
(* the Welcome to an epoch before the next Commit, however many Commits    *)
(* raced ahead of it.                                                      *)
(***************************************************************************)
EarlyCommitsAreStale ==
  \A p \in Peer : \A i \in DOMAIN inbox[p] :
    LET w == inbox[p][i]
        ahead == call[p].early \cup
                   {inbox[p][j].epoch : j \in {k \in 1..(i - 1) :
                      inbox[p][k].name = "e2eeCommit" /\ inbox[p][k].group = w.group}}
    IN  /\ InCall(p)
        /\ w.name = "e2eeWelcome"
        /\ w.group = call[p].group /\ w.group = session
        => \A x \in ahead : x <= w.epoch

(* Nothing is on its way, nobody waits for an answer and no socket is down. *)
Quiet ==
  \A p \in Peer :
    /\ task[p] = Idle
    /\ status[p] \in {"unborn", "here", "gone"}
    /\ status[p] = "here" => p \in wire /\ inbox[p] = <<>> /\ InCall(p)

(***************************************************************************)
(* No socket was lost and no request failed: whoever does not hear the     *)
(* answer to its Commit is left behind in the epoch it was in.             *)
(***************************************************************************)
Unbroken == drops = 0 /\ fails = 0

Calm == Quiet /\ Unbroken

(***************************************************************************)
(* What the relay's order is for, again ("without splitting the group"):   *)
(* once the dust settles, everyone in the room who is in a group is in the *)
(* same state of the same group, whoever left or was kicked meanwhile.     *)
(***************************************************************************)
OneGroupInTheRoom ==
  Calm => \A p, q \in Active :
    ~ Awaiting(call[p]) /\ ~ Awaiting(call[q]) => call[p].log = call[q].log

NoGhostIn(log) == Members(log) \subseteq {Own(q) : q \in Active}

(***************************************************************************)
(* room.rs, remove_e2ee_ghosts, "takes out of the group every leaf whose   *)
(* device is no longer in the room": once the dust settles no leaf is left *)
(* of anyone who went away.  A kick is another matter: what the kicked     *)
(* client had sent before is still relayed, and may give it a leaf after   *)
(* it is gone.                                                             *)
(***************************************************************************)
GroupIsTheRoom ==
  Calm /\ kicks = 0 => \A p \in Active : ~ Awaiting(call[p]) => NoGhostIn(call[p].log)

(* The Commit number k of log put the leaf of m in the tree. *)
PutsIn(log, k, m) ==
  /\ m \in Members(SubSeq(log, 1, k))
  /\ k > 1 => m \notin Members(SubSeq(log, 1, k - 1))

(* The leaf of p is the smallest of those whose people are in the room. *)
LeadsGroup(p) ==
  /\ HasTree(p)
  /\ \A q \in Active : Own(q) \in Members(call[p].log) =>
       LeafOf(call[p].log, Own(p)) <= LeafOf(call[p].log, Own(q))

(***************************************************************************)
(* So it is when whoever has the smallest leaf founded the group, or was   *)
(* put in by someone who has left since: it had its Welcome before it      *)
(* heard of the last person who left, and takes every ghost out then.      *)
(***************************************************************************)
HeirTakesGhostsOut ==
  Calm /\ kicks = 0 => \A p \in Active : \A k \in DOMAIN call[p].log :
    /\ LeadsGroup(p)
    /\ PutsIn(call[p].log, k, Own(p))
    /\ call[p].log[k].by[1] \notin Active \ {p}
    => NoGhostIn(call[p].log)

(***************************************************************************)
(* Room.ts, addPeer: a client that sees nobody creates a group "from       *)
(* scratch", and with an old epoch kept at the relay "the Commits of the   *)
(* new one were refused as stale and nobody else came in".  Once the dust  *)
(* settles, whoever has a tree is in the epoch the relay waits for, so its *)
(* next Commit is not refused for its epoch.                               *)
(***************************************************************************)
InStepWithRelay ==
  Calm => \A p \in Active :
    HasTree(p) /\ call[p].group = session => Epoch(call[p].log) = groups[session].currentEpoch

(***************************************************************************)
(* Room.ts, acceptE2eeCommit, "retaining a digest makes a lost reply       *)
(* idempotent": the author of an accepted Commit ends up applying it.      *)
(***************************************************************************)
AuthorApplies ==
  Calm => \A p \in Active : \A a \in accepted :
    HasTree(p) /\ a.sender = p /\ a.group = call[p].group => a.epoch < Epoch(call[p].log)

(***************************************************************************)
(* CONTRATO.md, "the active member of smallest leaf adds whoever comes in, *)
(* and when the committer leaves the next active member takes over": once  *)
(* the dust settles nobody still waits for a Welcome beside a member.      *)
(***************************************************************************)
NextMemberTakesOver ==
  Quiet /\ (\E p \in Active : HasTree(p)) => \A q \in Active : ~ Awaiting(call[q])

InOneGroup ==
  /\ Active = Peer
  /\ \A p, q \in Peer : call[p].state = "encrypted" /\ call[p].log = call[q].log
  /\ \A p \in Peer : Members(call[p].log) = {Own(q) : q \in Peer}

EveryoneEntered == \A p \in Peer : InCall(p)

(***************************************************************************)
(* CONTRATO.md, "the first peer creates the group; the others send a       *)
(* KeyPackage": when everybody has come and nobody goes, everybody ends up *)
(* encrypted in one group of them all, in whatever order they came, asked  *)
(* and were heard.                                                         *)
(***************************************************************************)
EveryoneGetsKeys == EveryoneEntered ~> InOneGroup
=============================================================================
