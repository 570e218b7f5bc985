------------------------------ MODULE E2eeRelay ------------------------------
(***************************************************************************)
(* The SFU's side of end-to-end encryption in one live room               *)
(* (sfu/src/Services/Room.ts): who is in the room, the E2EE session id it  *)
(* hands to whoever joins, and the relay that puts the opaque MLS messages *)
(* of the clients in one order.                                            *)
(*                                                                         *)
(* The clients are not modelled here: any peer may send any Commit or      *)
(* Welcome at any time.  What holds in this module holds whatever the      *)
(* clients do.  E2eeCall puts the real clients around it.                  *)
(*                                                                         *)
(* A peer is one entry of room.peers; its id is random and never reused,   *)
(* so an entry lives once: a client that joins again is another peer.      *)
(* A handler runs to completion (no await in it), so it is one action.     *)
(* Not modelled here: the rate limit of admitE2ee, which answers an error  *)
(* and changes no state of the relay.                                      *)
(***************************************************************************)
EXTENDS Naturals, Sequences, FiniteSets

CONSTANTS
  Peer,       \* the peers that will ever be in the room
  AccountOf,  \* the account each peer's token names
  Group,      \* MLS group ids clients may put in an envelope
  Payload,    \* opaque MLS bytes; two payloads are equal iff their digests are
  MaxGroups,  \* E2EE_MAX_GROUPS_PER_ROOM
  Told,       \* the events besides Commit and Welcome that the inboxes keep
  MaxSession, \* bound: no Join mints more sessions than this
  MaxEpoch,   \* bound: no Commit beyond this epoch is sent
  MaxInbox    \* bound: nothing is relayed while a client is this far behind

(* sessionRejoined is the mark a client puts in its own queue when it is back. *)
RosterNames == {"peerJoined", "peerLeft", "peerKicked", "peerConnectionLost",
                "peerReconnected", "sessionRejoined"}

TellableNames == RosterNames \cup {"e2eeJoinRequested"}

ASSUME RelayAssumption ==
  /\ IsFiniteSet(Peer)
  /\ Told \subseteq TellableNames
  /\ MaxGroups \in Nat
  /\ MaxSession \in Nat
  /\ MaxEpoch \in Nat
  /\ MaxInbox \in Nat

VARIABLES
  status,     \* status[p]: where p is, seen from room.peers
  wire,       \* the peers whose socket still carries messages
  session,    \* how many E2EE session ids the room has minted so far
  opened,     \* the keys of e2eeGroups
  groups,     \* e2eeGroups: the epoch and the last accepted Commit of each
  inbox,      \* inbox[p]: events on their way to p's client, in order
  accepted    \* history: every Commit the relay ever accepted

relayVars == <<status, wire, session, opened, groups, inbox, accepted>>

(***************************************************************************)
(* "here" is a peer with a socket, "orphan" one in its reconnect grace     *)
(* period, "closing" one that was taken out of the room while its socket   *)
(* is still closing: its session still names it, so its requests are still *)
(* handled.                                                                *)
(***************************************************************************)
Status == {"unborn", "here", "orphan", "closing", "gone"}

Accepted == [epoch: Nat, sender: Peer, payload: Payload]

\* lastAccepted is null ({}) or one Commit ({a}).
GroupState == [currentEpoch: Nat, lastAccepted: SUBSET Accepted]

Fresh == [currentEpoch |-> 0, lastAccepted |-> {}]

RosterEvent == [name: RosterNames, peer: Peer]

(* life is a ghost: the session of the room when the relay sent the event. *)
KeyPackageEvent == [name: {"e2eeJoinRequested"}, peer: Peer, group: Group, payload: Payload]

CommitEvent == [name: {"e2eeCommit"}, peer: Peer, life: Nat,
                group: Group, epoch: Nat, payload: Payload]

WelcomeEvent == [name: {"e2eeWelcome"}, peer: Peer, life: Nat, group: Group, epoch: Nat]

Event == RosterEvent \cup KeyPackageEvent \cup CommitEvent \cup WelcomeEvent

InRoom == {p \in Peer : status[p] \in {"here", "orphan"}}

Active == {p \in Peer : status[p] = "here"}

Hears(p) == p \in wire /\ status[p] = "here"

(* The inboxes after events[q] is sent to every peer q in to. *)
Sent(to, events) ==
  [q \in Peer |-> IF q \in to /\ Hears(q) THEN inbox[q] \o events ELSE inbox[q]]

(* What the room says of the peers who, in that order, if inboxes keep it. *)
About(name, who) ==
  IF name \in Told THEN [i \in DOMAIN who |-> [name |-> name, peer |-> who[i]]] ELSE <<>>

Init ==
  /\ status = [p \in Peer |-> "unborn"]
  /\ wire = {}
  /\ session = 0
  /\ opened = {}
  /\ groups = [g \in Group |-> Fresh]
  /\ inbox = [p \in Peer |-> <<>>]
  /\ accepted = {}

-----------------------------------------------------------------------------
(* Membership *)

(* Mutant of Mint: the new session starts with the epochs of the old one. *)
MintKeepingGroups(previous) ==
  IF Active \ previous = {}
  THEN session < MaxSession /\ session' = session + 1 /\ UNCHANGED <<opened, groups>>
  ELSE UNCHANGED <<session, opened, groups>>

(***************************************************************************)
(* A new session id, and no group state, when nobody active is left but    *)
(* the peer whose resume key the newcomer presents.                        *)
(***************************************************************************)
Mint(previous) ==
  IF Active \ previous = {}
  THEN /\ session < MaxSession
       /\ session' = session + 1
       /\ opened' = {}
       /\ groups' = [g \in Group |-> Fresh]
  ELSE UNCHANGED <<session, opened, groups>>

(* The other entries of p's account: replaceAccount takes them out. *)
Others(p) == {q \in InRoom \ {p} : AccountOf[q] = AccountOf[p]}

(* Where q goes when the room takes it out: its socket may still be open. *)
Dismissed(q) == IF Hears(q) THEN "closing" ELSE "gone"

(***************************************************************************)
(* A fresh join.  previous is the entry the resume key names, if any; it   *)
(* is replaced, and so is every other entry of the account.  The newcomer  *)
(* is already in the room when they leave, so it too hears of them.        *)
(***************************************************************************)
Join(p, previous) ==
  LET out == previous \cup Others(p)
  IN  /\ status[p] = "unborn"
      /\ previous \subseteq InRoom
      /\ Cardinality(previous) <= 1
      /\ Mint(previous)
      /\ status' = [q \in Peer |-> IF q = p THEN "here"
                                   ELSE IF q \in out THEN Dismissed(q) ELSE status[q]]
      /\ wire' = wire \cup {p}
      /\ \E left \in [1..Cardinality(out) -> out] :
           /\ \A q \in out : \E i \in DOMAIN left : left[i] = q
           /\ LET news == About("peerLeft", left)
              IN  inbox' = [q \in Peer |->
                              IF q = p THEN news
                              ELSE IF Hears(q) /\ q \notin out
                              THEN inbox[q] \o news \o About("peerJoined", <<p>>)
                              ELSE inbox[q]]
      /\ UNCHANGED accepted

(* p's client opens another socket and presents its resume key. *)
Resume(p) ==
  /\ p \in InRoom \ wire
  /\ status' = [status EXCEPT ![p] = "here"]
  /\ wire' = wire \cup {p}
  /\ inbox' = [q \in Peer |->
       IF q = p THEN inbox[q] \o About("sessionRejoined", <<p>>)
       ELSE IF status[p] = "orphan" /\ Hears(q)
       THEN inbox[q] \o About("peerReconnected", <<p>>)
       ELSE inbox[q]]
  /\ UNCHANGED <<session, opened, groups, accepted>>

(* The network drops p: what was on its way past the first k events is lost. *)
SocketLost(p, k) ==
  /\ p \in wire
  /\ k \in 0..Len(inbox[p])
  /\ wire' = wire \ {p}
  /\ inbox' = [inbox EXCEPT ![p] = SubSeq(@, 1, k)]
  /\ status' = [status EXCEPT ![p] = IF @ = "closing" THEN "gone" ELSE @]
  /\ UNCHANGED <<session, opened, groups, accepted>>

(* The SFU notices the closed socket and starts the grace period. *)
OrphanPeer(p) ==
  /\ status[p] = "here"
  /\ p \notin wire
  /\ status' = [status EXCEPT ![p] = "orphan"]
  /\ inbox' = Sent(Peer \ {p}, About("peerConnectionLost", <<p>>))
  /\ UNCHANGED <<wire, session, opened, groups, accepted>>

(* The grace period ends, or someone takes the orphan out of the list. *)
Evict(p) ==
  /\ status[p] = "orphan"
  /\ status' = [status EXCEPT ![p] = "gone"]
  /\ inbox' = Sent(Peer \ {p}, About("peerLeft", <<p>>))
  /\ UNCHANGED <<wire, session, opened, groups, accepted>>

(* leave clears the session too: nothing of p's is handled after it. *)
Leave(p) ==
  /\ Hears(p)
  /\ status' = [status EXCEPT ![p] = "gone"]
  /\ wire' = wire \ {p}
  /\ inbox' = Sent(Peer \ {p}, About("peerLeft", <<p>>))
  /\ UNCHANGED <<session, opened, groups, accepted>>

(* A moderator takes p out, with its socket or without.  Moving p to another *)
(* room is the same, but nobody is told of a kick.                           *)
Kick(p) ==
  /\ p \in InRoom
  /\ status' = [status EXCEPT ![p] = Dismissed(p)]
  /\ \E kicked \in {<<>>, About("peerKicked", <<p>>)} :
       inbox' = Sent(Peer \ {p}, kicked \o About("peerLeft", <<p>>))
  /\ UNCHANGED <<wire, session, opened, groups, accepted>>

-----------------------------------------------------------------------------
(* The relay *)

(* A request of p is handled while its session names it. *)
Speaks(p) == p \in wire /\ status[p] \in {"here", "closing"}

RelayE2eeJoin(p, g, payload) ==
  /\ Speaks(p)
  /\ inbox' = IF "e2eeJoinRequested" \in Told
              THEN Sent(Peer \ {p}, <<[name |-> "e2eeJoinRequested", peer |-> p,
                                       group |-> g, payload |-> payload]>>)
              ELSE inbox
  /\ UNCHANGED <<status, wire, session, opened, groups, accepted>>

(* Mutants of CommitAnswer: a late Commit wins again; any Commit of the     *)
(* last epoch counts as the one that won.                                  *)
AnswerLateToo(p, c) ==
  IF c.epoch <= groups[c.group].currentEpoch THEN "accepted" ELSE "future_epoch"

AnswerAnyAuthor(p, c) ==
  IF c.epoch = groups[c.group].currentEpoch THEN "accepted"
  ELSE IF c.epoch > groups[c.group].currentEpoch THEN "future_epoch"
  ELSE IF \E a \in groups[c.group].lastAccepted : a.epoch = c.epoch
  THEN "accepted_before" ELSE "stale_epoch"

(* What acceptE2eeCommit answers to commit c of p. *)
CommitAnswer(p, c) ==
  LET state == groups[c.group]
      same  == {a \in state.lastAccepted : a.epoch = c.epoch}
  IN  IF c.epoch = state.currentEpoch THEN "accepted"
      ELSE IF c.epoch > state.currentEpoch THEN "future_epoch"
      ELSE IF [epoch |-> c.epoch, sender |-> p, payload |-> c.payload] \in same
      THEN "accepted_before"
      ELSE IF same # {} THEN "different_commit_already_accepted"
      ELSE "stale_epoch"

(* The state of a group after commit c of p wins. *)
Advance(state, p, c) ==
  [currentEpoch |-> state.currentEpoch + 1,
   lastAccepted |-> {[epoch |-> c.epoch, sender |-> p, payload |-> c.payload]}]

(* A group the room does not know yet takes one of its MaxGroups places. *)
OpenGroup(g) ==
  /\ g \in opened \/ Cardinality(opened) < MaxGroups
  /\ opened' = opened \cup {g}

RelayE2eeCommit(p, c) ==
  /\ Speaks(p)
  /\ OpenGroup(c.group)
  /\ IF CommitAnswer(p, c) = "accepted"
     THEN /\ groups' = [groups EXCEPT ![c.group] = Advance(@, p, c)]
          /\ accepted' = accepted \cup
               {[life |-> session, group |-> c.group, epoch |-> c.epoch,
                 sender |-> p, payload |-> c.payload]}
          /\ inbox' = Sent(Peer \ {p},
               <<[name |-> "e2eeCommit", peer |-> p, life |-> session, group |-> c.group,
                  epoch |-> c.epoch, payload |-> c.payload]>>)
     ELSE UNCHANGED <<groups, accepted, inbox>>
  /\ UNCHANGED <<status, wire, session>>

(* Mutants of WelcomeAllowed: the epoch is checked and not the author; the *)
(* author and not the epoch; neither.                                      *)
WelcomeOfAnyAuthor(p, w) ==
  /\ \E a \in groups[w.group].lastAccepted : a.epoch = w.epoch
  /\ status[w.target] = "here"

WelcomeOfAnyEpoch(p, w) ==
  /\ \E a \in groups[w.group].lastAccepted : a.sender = p
  /\ status[w.target] = "here"

WelcomeOfAnything(p, w) == status[w.target] = "here"

(* The Welcome passes only for the author of the Commit accepted last. *)
WelcomeAllowed(p, w) ==
  /\ \E a \in groups[w.group].lastAccepted : a.epoch = w.epoch /\ a.sender = p
  /\ groups[w.group].currentEpoch = w.epoch + 1
  /\ status[w.target] = "here"

RelayE2eeWelcome(p, w) ==
  /\ Speaks(p)
  /\ WelcomeAllowed(p, w)
  /\ inbox' = Sent({w.target},
       <<[name |-> "e2eeWelcome", peer |-> p, life |-> session, group |-> w.group,
          epoch |-> w.epoch]>>)
  /\ UNCHANGED <<status, wire, session, opened, groups, accepted>>

(* p's client takes the next event off its socket. *)
Receive(p) ==
  /\ inbox[p] # <<>>
  /\ inbox' = [inbox EXCEPT ![p] = Tail(@)]
  /\ UNCHANGED <<status, wire, session, opened, groups, accepted>>

-----------------------------------------------------------------------------
Commit == [group: Group, epoch: 0..MaxEpoch, payload: Payload]

Welcome == [group: Group, epoch: 0..MaxEpoch, target: Peer]

Next ==
  \E p \in Peer :
    \/ \E previous \in SUBSET Peer : Join(p, previous)
    \/ Resume(p)
    \/ \E k \in 0..Len(inbox[p]) : SocketLost(p, k)
    \/ OrphanPeer(p)
    \/ Evict(p)
    \/ Leave(p)
    \/ Kick(p)
    \/ Receive(p)
    \/ /\ \A q \in Peer : Len(inbox[q]) < MaxInbox
       /\ \/ \E g \in Group, payload \in Payload : RelayE2eeJoin(p, g, payload)
          \/ \E c \in Commit : RelayE2eeCommit(p, c)
          \/ \E w \in Welcome : RelayE2eeWelcome(p, w)

Spec == Init /\ [][Next]_relayVars

-----------------------------------------------------------------------------
(* Properties *)

TypeOK ==
  /\ status \in [Peer -> Status]
  /\ wire \subseteq Peer
  /\ session \in Nat
  /\ opened \subseteq Group
  /\ groups \in [Group -> GroupState]
  /\ \A g \in Group : \A a, b \in groups[g].lastAccepted : a = b
  /\ inbox \in [Peer -> Seq(Event)]
  /\ accepted \subseteq [life: Nat, group: Group, epoch: Nat, sender: Peer, payload: Payload]

(***************************************************************************)
(* acceptE2eeCommit, "competing Commits get an explicit rejection and      *)
(* cannot split the group": within one E2EE session of the room, an epoch  *)
(* of a group is closed by at most one Commit, whoever sent it and         *)
(* however often it was sent again.                                        *)
(***************************************************************************)
OneCommitPerEpoch ==
  \A a, b \in accepted :
    a.life = b.life /\ a.group = b.group /\ a.epoch = b.epoch => a = b

(* The accepted Commits of a group are an unbroken chain from epoch 0. *)
NoEpochSkipped ==
  \A a \in accepted : a.epoch > 0 =>
    \E b \in accepted : b.life = a.life /\ b.group = a.group /\ b.epoch + 1 = a.epoch

(***************************************************************************)
(* acceptE2eeCommit, "retaining a digest makes a lost reply idempotent":   *)
(* the author of the Commit that closed the last epoch is told so when it  *)
(* asks again, and nobody is told so of a Commit that did not win.         *)
(***************************************************************************)
LostReplyIsIdempotent ==
  \A p \in Peer : \A c \in Commit :
    CommitAnswer(p, c) = "accepted_before" <=>
      /\ groups[c.group].currentEpoch = c.epoch + 1
      /\ [life |-> session, group |-> c.group, epoch |-> c.epoch,
          sender |-> p, payload |-> c.payload] \in accepted

(***************************************************************************)
(* relayE2eeWelcome: a client that receives a Welcome receives it from the *)
(* author of the one Commit the relay accepted for that epoch, also when   *)
(* the message is delivered long after and the room went on.               *)
(***************************************************************************)
WelcomeFollowsCommit ==
  \A p \in Peer : \A i \in DOMAIN inbox[p] :
    LET e == inbox[p][i]
    IN  e.name = "e2eeWelcome" =>
          \E a \in accepted :
            a.life = e.life /\ a.group = e.group /\ a.epoch = e.epoch /\ a.sender = e.peer

IsMls(e) == e.name \in {"e2eeCommit", "e2eeWelcome"}

(* On one socket, the Commits of a group come in epoch order, none twice, and *)
(* the Welcome to epoch e after Commit e and before Commit e+1.               *)
Ordered(s) ==
  \A i, j \in DOMAIN s :
    /\ i < j
    /\ IsMls(s[i]) /\ IsMls(s[j])
    /\ s[i].life = s[j].life
    /\ s[i].group = s[j].group
    => IF s[j].name = "e2eeCommit" THEN s[i].epoch < s[j].epoch ELSE s[i].epoch <= s[j].epoch

(***************************************************************************)
(* What the joining client's buffer of early Commits counts on             *)
(* (e2ee_call.rs, receive_welcome): whatever was lost with a socket before,*)
(* what a client has still to receive is in the relay's order.             *)
(***************************************************************************)
MlsInOrder == \A p \in Peer : Ordered(inbox[p])

(***************************************************************************)
(* The history, the relay's epochs and what is on its way agree: the       *)
(* Commits of the current session are exactly the epochs the relay has     *)
(* closed, the last of them is the one it remembers, and no message on its *)
(* way is ahead of the relay.                                              *)
(***************************************************************************)
HistoryAgrees ==
  /\ \A a \in accepted :
       /\ a.life <= session
       /\ a.life = session => a.epoch < groups[a.group].currentEpoch
  /\ \A g \in Group : \A e \in 0..(groups[g].currentEpoch - 1) :
       \E a \in accepted : a.life = session /\ a.group = g /\ a.epoch = e

LastIsRemembered ==
  \A g \in Group :
    /\ groups[g].currentEpoch > 0 => groups[g].lastAccepted # {}
    /\ \A a \in groups[g].lastAccepted :
         /\ a.epoch + 1 = groups[g].currentEpoch
         /\ [life |-> session, group |-> g, epoch |-> a.epoch,
             sender |-> a.sender, payload |-> a.payload] \in accepted

Settled(e) ==
  IsMls(e) => /\ e.life <= session
              /\ e.life = session => e.epoch < groups[e.group].currentEpoch

InboxSettled == \A p \in Peer : \A i \in DOMAIN inbox[p] : Settled(inbox[p][i])

RelayInv == HistoryAgrees /\ LastIsRemembered /\ InboxSettled

(***************************************************************************)
(* The relay implements CommitOrder whatever the clients send and whoever  *)
(* comes and goes: replaced, kicked and orphaned peers included.           *)
(***************************************************************************)
Order == INSTANCE CommitOrder WITH decided <- accepted

DecidesInOrder == Order!Spec
=============================================================================
