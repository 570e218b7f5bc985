-------------------------- MODULE E2eeSettledProofs --------------------------
(***************************************************************************)
(* What holds among the clients of E2eeCall as long as no socket is lost,   *)
(* no request fails and each account has one device.  Nobody then misses a  *)
(* Commit: the one that continues what a client holds, and every later one, *)
(* is in its inbox or is the one it is told to confirm.  So once nothing is *)
(* on its way all have come to the same.  And nobody is taken out of the    *)
(* group who is in the room: a client knows only those it was told had come *)
(* in.                                                                      *)
(***************************************************************************)
EXTENDS E2eeCallProofs, WellFoundedInduction

(* No other device takes the place of one that is in the room. *)
OneDevice == \A p, q \in Peer : AccountOf[p] = AccountOf[q] => p = q

(* Accepted in the room's session, for its group. *)
Ours(a) == a.life = session /\ a.group = session

InSession(p) == InCall(p) /\ call[p].group = session

(* p waits for the answer to a Commit of its own. *)
Pending(p) == task[p].step \in {"commit", "accepted", "refused"}

IsOurs(e) == e.name = "e2eeCommit" /\ e.group = session

(* The Commit of epoch n is on its way to p. *)
OnItsWay(p, n) == \E e \in Mail(p) : IsOurs(e) /\ e.epoch = n

(* Once out of the room p is sent nothing more. *)
Due(p, n) == status[p] = "here" \/ \E e \in Mail(p) : IsOurs(e) /\ n <= e.epoch

(* p was told that its own Commit is the one. *)
Confirmed(p, a) == task[p].step = "accepted" /\ task[p].log = a.payload

(* What p waits for was made from what it holds. *)
Staged(p) == Pending(p) => Continues(call[p].log, task[p].log)

(* The Commits of the room's session were made one from the other. *)
Chained ==
  \A a, b \in accepted :
    Ours(a) /\ Ours(b) /\ b.epoch = a.epoch + 1 => Continues(a.payload, b.payload)

(* One person at most founded the group, and the first Commit was made from *)
(* what that one still holds.                                               *)
OneFounder ==
  \A p \in Peer : InSession(p) /\ Len(call[p].log) = 1 =>
    /\ \A q \in Peer : InSession(q) /\ Len(call[q].log) = 1 => q = p
    /\ \A a \in accepted : Ours(a) /\ a.epoch = 0 => Continues(call[p].log, a.payload)

(* No Commit that p has to apply is missed. *)
KeptUp(p) ==
  InSession(p) => \A a \in accepted : Ours(a) /\ Due(p, a.epoch) =>
    /\ (HasTree(p) \/ Pending(p)) /\ Epoch(call[p].log) <= a.epoch =>
         Confirmed(p, a) \/ OnItsWay(p, a.epoch)
    /\ Awaiting(call[p]) => \A w \in Mail(p) :
         w.name = "e2eeWelcome" /\ w.group = session /\ w.epoch < a.epoch => OnItsWay(p, a.epoch)

(* A call is of the session its client was given. *)
OwnSession(p) == InCall(p) => call[p].group = sid[p]

SettledInv ==
  /\ \A p \in Peer : Staged(p)
  /\ Chained
  /\ Unbroken => OneFounder /\ \A p \in Peer : KeptUp(p) /\ OwnSession(p)

-----------------------------------------------------------------------------
(* What is staged was made from what is held *)

LEMMA AppendContinues ==
  ASSUME NEW log \in Seq(Entry), NEW e \in Entry
  PROVE  Continues(log, Append(log, e))
<1> DEFINE next == Append(log, e)
           n == Len(log)
<1>1. /\ next \in Seq(Entry) /\ Len(next) = n + 1 /\ n \in Nat
      /\ \A i \in 1..n : next[i] = log[i]
  BY AppendProperties, LenProperties
<1> HIDE DEF next
<1>2. \A i \in 1..n : next[i] \in Entry
  BY <1>1, ElementOfSeq
<1>3. /\ SubSeq(next, 1, n) \in Seq(Entry)
      /\ Len(SubSeq(next, 1, n)) = n
      /\ \A i \in 1..n : SubSeq(next, 1, n)[i] = next[i]
  <2>1. /\ SubSeq(next, 1, n) \in Seq(Entry)
        /\ Len(SubSeq(next, 1, n)) = IF 1 <= n THEN n - 1 + 1 ELSE 0
        /\ \A i \in 1..(n - 1 + 1) : SubSeq(next, 1, n)[i] = next[1 + i - 1]
    BY <1>1, <1>2, SubSeqProperties
  <2> QED
    BY <1>1, <2>1
<1>4. SubSeq(next, 1, n) = log
  BY <1>1, <1>3, SeqEqual
<1> QED
  BY <1>1, <1>4 DEF Continues, next

(* A task of a client in call c: not a Commit, or one made from what c holds. *)
MadeFrom(c, t) == t.step \in {"commit", "accepted", "refused"} => Continues(c.log, t.log)

(* t is what p may stage in call c and the roster of who. *)
StagedBy(p, c, who, off, t) ==
  \/ t.step \notin {"commit", "accepted", "refused"}
  \/ \E q \in Peer : c.names[q] # {} /\ t = StageAdd(p, c, who, off, q)
  \/ Cleans(p, c, who, off) /\ \E next : t = StageRemoveGhosts(p, c, who, off, next)

LEMMA IdleMade ==
  ASSUME NEW c
  PROVE  MadeFrom(c, Idle) /\ \A p, who, off : StagedBy(p, c, who, off, Idle)
BY DEF MadeFrom, StagedBy, Idle

LEMMA AddMade ==
  ASSUME NEW p \in Peer, Own(p) \in Member, NEW c, c.log \in Seq(Entry), Len(c.log) >= 1,
         c.names \in [Peer -> SUBSET Member], NEW who, NEW off, NEW q \in Peer, c.names[q] # {}
  PROVE  MadeFrom(c, StageAdd(p, c, who, off, q))
<1> DEFINE m == CHOOSE m \in c.names[q] : TRUE
           e == [by |-> Own(p), tree |-> Planted(Tree(c.log), m)]
<1>1. m \in Member
  OBVIOUS
<1> HIDE DEF m
<1>2. e \in Entry
  BY <1>1, TreeType, PlantedType DEF Entry
<1> HIDE DEF e
<1>3. Continues(c.log, Append(c.log, e))
  BY <1>2, AppendContinues
<1>4. Continues(c.log, CommitAdding(c.log, Own(p), m))
  BY <1>3 DEF CommitAdding, e
<1>5. MadeFrom(c, Submit(CommitAdding(c.log, Own(p), m), {q}, {}))
  BY <1>4 DEF MadeFrom, Submit
<1> QED
  BY <1>5, IdleMade DEF StageAdd, m

LEMMA RemoveMade ==
  ASSUME NEW p \in Peer, Own(p) \in Member, NEW c, c.log \in Seq(Entry), Len(c.log) >= 1,
         NEW who, NEW off, NEW next
  PROVE  MadeFrom(c, StageRemoveGhosts(p, c, who, off, next))
<1> DEFINE out == Ghosts(c, who, off)
           tree == [i \in DOMAIN Tree(c.log) |->
                     IF Tree(c.log)[i] \in out THEN Blank ELSE Tree(c.log)[i]]
           e == [by |-> Own(p), tree |-> tree]
<1> HIDE DEF out
<1>1. e \in Entry
  <2> DEFINE S == Member \cup {Blank}
  <2>1. /\ Len(Tree(c.log)) \in Nat
        /\ DOMAIN Tree(c.log) = 1..Len(Tree(c.log))
        /\ \A i \in 1..Len(Tree(c.log)) : Tree(c.log)[i] \in S
    BY TreeType, LenProperties, ElementOfSeq
  <2>2. Blank \in S
    OBVIOUS
  <2> HIDE DEF S
  <2>3. tree \in [1..Len(Tree(c.log)) -> S]
    BY <2>1, <2>2
  <2>4. tree \in Seq(S)
    BY <2>1, <2>3, FunctionIsSeq
  <2> QED
    BY <2>4 DEF Entry, S
<1> HIDE DEF e
<1>2. Continues(c.log, Append(c.log, e))
  BY <1>1, AppendContinues
<1>3. Continues(c.log, CommitRemoving(c.log, Own(p), out))
  BY <1>2 DEF CommitRemoving, e
<1> QED
  BY <1>3 DEF MadeFrom, StageRemoveGhosts, Submit, out

-----------------------------------------------------------------------------
(* What an event does to the one who hears it *)

SameLog(c, d) == d.log = c.log /\ d.group = c.group

(* At most a KeyPackage is noted. *)
Notes(c, d, e) ==
  \/ d.names = c.names
  \/ e.name = "e2eeJoinRequested" /\ e.group = c.group
     /\ d.names = [c.names EXCEPT ![e.peer] = {e.payload}]

(* The next Commit of the group p is in. *)
NextCommit(p, e) ==
  /\ e.name = "e2eeCommit" /\ e.group = call[p].group
  /\ HasTree(p) /\ Epoch(call[p].log) <= e.epoch

StaysPut(p, e) ==
  /\ SameLog(call[p], call'[p]) /\ Notes(call[p], call'[p], e) /\ starts'[p] = starts[p]
  /\ Pending(p)' => HasTree(p)
  /\ ~ NextCommit(p, e)

Applies(p, e) ==
  /\ NextCommit(p, e) /\ Continues(call[p].log, e.payload)
  /\ call'[p].log = e.payload /\ call'[p].group = call[p].group /\ task'[p] = Idle
  /\ call'[p].names = call[p].names /\ starts'[p] = starts[p]

TakesWelcome(p, e) ==
  /\ e.name = "e2eeWelcome" /\ e.group = call[p].group /\ Awaiting(call[p])
  /\ call'[p].log = Welcomed(e) /\ call'[p].group = call[p].group /\ task'[p] = Idle
  /\ call'[p].names = call[p].names /\ starts'[p] = starts[p]

StartsAgain(p, e) ==
  /\ \/ NextCommit(p, e) /\ ~ Continues(call[p].log, e.payload)
     \/ call[p].group # sid[p]
  /\ Restart(p) /\ call'[p].group = sid[p] /\ ~ Pending(p)'

(* The others are as they were. *)
OthersAsTheyWere(p) ==
  \A q \in Peer \ {p} : call'[q] = call[q] /\ task'[q] = task[q] /\ starts'[q] = starts[q]

LEMMA SameLogs ==
  ASSUME NEW c \in ClientRecord, NEW q, NEW m, NEW n
  PROVE  LET noted == [c EXCEPT !.names[q] = {m}]
         IN  /\ SameLog(c, c) /\ SameLog(c, Failed(c))
             /\ SameLog(c, noted) /\ SameLog(c, Failed(noted))
             /\ SameLog(c, [c EXCEPT !.early = @ \cup {n}])
BY DEF SameLog, Failed, ClientRecord

LEMMA SameNames ==
  ASSUME NEW c \in ClientRecord, NEW q, NEW m, NEW n
  PROVE  LET noted == [c EXCEPT !.names[q] = {m}]
         IN  /\ Failed(c).names = c.names
             /\ [c EXCEPT !.early = @ \cup {n}].names = c.names
             /\ noted.names = [c.names EXCEPT ![q] = {m}]
             /\ Failed(noted).names = [c.names EXCEPT ![q] = {m}]
BY DEF Failed, ClientRecord

LEMMA JoinedLog ==
  ASSUME NEW c \in ClientRecord, NEW p, NEW log
  PROVE  /\ Joined(p, c, log).log = log /\ Joined(p, c, log).group = c.group
         /\ Joined(p, c, log).names = c.names
         /\ [Joined(p, c, log) EXCEPT !.early = {}].names = c.names
         /\ [Joined(p, c, log) EXCEPT !.early = {}].log = log
         /\ [Joined(p, c, log) EXCEPT !.early = {}].group = c.group
BY DEF Joined, ClientRecord

(* One call and one task change. *)
LEMMA CallsMove ==
  ASSUME CallInv, NEW p \in Peer, NEW d, NEW t, Calls(p, d, t)
  PROVE  /\ call'[p] = d /\ task'[p] = t /\ starts' = starts /\ OthersAsTheyWere(p)
BY DEF Calls, CallInv, CallShape, OthersAsTheyWere

LEMMA RestartMoves ==
  ASSUME CallInv, NEW p \in Peer, Restart(p)
  PROVE  /\ call'[p].group = sid[p] /\ ~ Pending(p)' /\ MadeFrom(call'[p], task'[p])
         /\ StagedBy(p, call'[p], seen'[p], away'[p], task'[p])
         /\ OthersAsTheyWere(p)
<1>1. /\ call'[p] = Started(p, starts[p] + 1, sid[p], seen[p] = {p})
      /\ task'[p] = Idle \/ task'[p] = [step |-> "join"]
      /\ OthersAsTheyWere(p)
  BY DEF Restart, CallInv, CallShape, OthersAsTheyWere
<1>2. call'[p].group = sid[p]
  BY <1>1 DEF Started
<1>3. task'[p].step \notin {"commit", "accepted", "refused"}
  BY <1>1 DEF Idle
<1> QED
  BY <1>1, <1>2, <1>3 DEF Pending, MadeFrom, StagedBy

HandlerMoves(p, e) ==
  /\ MadeFrom(call'[p], task'[p]) /\ OthersAsTheyWere(p)
  /\ StagedBy(p, call'[p], seen'[p], away'[p], task'[p])
  /\ StaysPut(p, e) \/ Applies(p, e) \/ TakesWelcome(p, e) \/ StartsAgain(p, e)

(* A handler that leaves the log alone may stage a Commit. *)
LEMMA PutMoves ==
  ASSUME CallInv, NEW p \in Peer, NEW e, NEW d, NEW t, Calls(p, d, t), SameLog(call[p], d),
         Notes(call[p], d, e), MadeFrom(d, t), StagedBy(p, d, seen'[p], away'[p], t),
         t = Idle \/ HasTree(p), ~ NextCommit(p, e)
  PROVE  HandlerMoves(p, e)
<1>1. call'[p] = d /\ task'[p] = t /\ starts' = starts /\ OthersAsTheyWere(p)
  BY CallsMove
<1>2. Pending(p)' => HasTree(p)
  BY <1>1 DEF Pending, Idle
<1> QED
  BY <1>1, <1>2 DEF HandlerMoves, StaysPut

LEMMA HandleMoves ==
  ASSUME CallInv, NEW p \in Peer, inbox[p] # <<>>, NEW e, e = Head(inbox[p]), Handle(p, e)
  PROVE  Take(p, e) /\ InCall(p) /\ task[p] = Idle /\ HandlerMoves(p, e)
<1>1. PICK c : c = call[p]
  OBVIOUS
<1>2. Take(p, e) /\ InCall(p) /\ task[p] = Idle
  <2>1. Take(p, e)
    BY DEF Handle, HandleRoster, HandlePeerLeft, HandleKeyPackage, HandleCommit, HandleWelcome,
           HandleRejoined
  <2> QED
    BY <2>1 DEF Take
<1>3. /\ c \in ClientRecord /\ Own(p) \in Member
      /\ Len(c.log) \in Nat /\ (Awaiting(c) <=> Len(c.log) = 0)
      /\ e \in Event /\ FitEvent(p, e)
      /\ c.log \in Seq(Entry) /\ c.names \in [Peer -> SUBSET Member]
  BY <1>1, <1>2, Handling, HeadIsMail DEF CallInv, CallShape, ClientRecord
<1>4. HasTree(p) => Len(c.log) >= 1
  BY <1>1, <1>3 DEF HasTree
<1>5. PICK noted : noted = [c EXCEPT !.names[e.peer] = {e.payload}]
  OBVIOUS
<1>6. PICK early : early = [c EXCEPT !.early = @ \cup {e.epoch}]
  OBVIOUS
<1>7. /\ SameLog(c, c) /\ SameLog(c, Failed(c)) /\ SameLog(c, noted)
      /\ SameLog(c, Failed(noted)) /\ SameLog(c, early)
      /\ Notes(c, c, e) /\ Notes(c, Failed(c), e) /\ Notes(c, early, e)
      /\ e.name = "e2eeJoinRequested" /\ e.group = c.group
           => Notes(c, noted, e) /\ Notes(c, Failed(noted), e)
  <2>1. /\ SameLog(c, c) /\ SameLog(c, Failed(c)) /\ SameLog(c, noted)
        /\ SameLog(c, Failed(noted)) /\ SameLog(c, early)
    BY <1>3, <1>5, <1>6, SameLogs
  <2>2. /\ Failed(c).names = c.names /\ early.names = c.names
        /\ noted.names = [c.names EXCEPT ![e.peer] = {e.payload}]
        /\ Failed(noted).names = [c.names EXCEPT ![e.peer] = {e.payload}]
    BY <1>3, <1>5, <1>6 DEF Failed, ClientRecord
  <2> QED
    BY <2>1, <2>2 DEF Notes
<1>8. \A d : MadeFrom(d, Idle) /\ StagedBy(p, d, seen'[p], away'[p], Idle)
  BY IdleMade
<1>9. CASE HandleRoster(p, e)
  <2>1. Calls(p, c, Idle) /\ ~ NextCommit(p, e)
    BY <1>1, <1>9 DEF HandleRoster, NextCommit
  <2> QED
    BY <1>1, <1>2, <1>7, <1>8, <2>1, PutMoves
<1>10. CASE HandlePeerLeft(p, e)
  <2>1. PICK who, off : /\ who = SeenAfter(p, e) /\ off = AwayAfter(p, e)
                        /\ \/ Calls(p, c, Idle) \/ Calls(p, Failed(c), Idle)
                           \/ HasTree(p) /\ Calls(p, c, StageRemoveGhosts(p, c, who, off, {}))
                              /\ Cleans(p, c, who, off)
    BY <1>1, <1>10 DEF HandlePeerLeft
  <2>2. ~ NextCommit(p, e)
    BY <1>10 DEF HandlePeerLeft, NextCommit
  <2>3. HasTree(p) => MadeFrom(c, StageRemoveGhosts(p, c, who, off, {}))
    BY <1>3, <1>4, RemoveMade
  <2>4. seen'[p] = who /\ away'[p] = off
    BY <1>2, <2>1 DEF Take, CallInv, CallShape
  <2>5. Cleans(p, c, who, off) =>
          StagedBy(p, c, seen'[p], away'[p], StageRemoveGhosts(p, c, who, off, {}))
    BY <2>4 DEF StagedBy
  <2> QED
    BY <1>1, <1>2, <1>7, <1>8, <2>1, <2>2, <2>3, <2>5, PutMoves
<1>11. CASE HandleKeyPackage(p, e)
  <2>1. PICK clean, add : /\ clean = StageRemoveGhosts(p, noted, seen[p], away[p], {e.peer})
                          /\ add = StageAdd(p, noted, seen[p], away[p], e.peer)
    OBVIOUS
  <2>2. \/ Calls(p, Failed(c), Idle)
        \/ /\ e.name = "e2eeJoinRequested" /\ e.group = c.group
           /\ \/ Calls(p, noted, Idle) \/ Calls(p, Failed(noted), Idle)
              \/ HasTree(p) /\ Calls(p, noted, clean) /\ Cleans(p, noted, seen[p], away[p])
              \/ HasTree(p) /\ Calls(p, noted, add)
    BY <1>1, <1>5, <1>11, <2>1 DEF HandleKeyPackage
  <2>3. ~ NextCommit(p, e)
    BY <1>11 DEF HandleKeyPackage, NextCommit
  <2>4. /\ noted.log = c.log /\ noted.names \in [Peer -> SUBSET Member]
        /\ noted.names[e.peer] # {} /\ e.peer \in Peer
    BY <1>3, <1>5, <1>11 DEF FitEvent, HandleKeyPackage, ClientRecord
  <2>5. HasTree(p) => MadeFrom(noted, clean) /\ MadeFrom(noted, add)
    BY <1>3, <1>4, <2>1, <2>4, RemoveMade, AddMade
  <2>6. /\ Cleans(p, noted, seen[p], away[p]) => StagedBy(p, noted, seen'[p], away'[p], clean)
        /\ StagedBy(p, noted, seen'[p], away'[p], add)
    <3>1. seen'[p] = seen[p] /\ away'[p] = away[p]
      BY <1>2, <1>11 DEF HandleKeyPackage, Take, SeenAfter, AwayAfter, CallInv, CallShape
    <3> QED
      BY <2>1, <2>4, <3>1 DEF StagedBy
  <2>7. CASE Calls(p, Failed(c), Idle) \/ Calls(p, noted, Idle) \/ Calls(p, Failed(noted), Idle)
    BY <1>1, <1>2, <1>7, <1>8, <1>11, <2>2, <2>3, <2>7, PutMoves
  <2>8. CASE /\ HasTree(p) /\ e.name = "e2eeJoinRequested" /\ e.group = c.group
             /\ \/ Calls(p, noted, clean) /\ Cleans(p, noted, seen[p], away[p])
                \/ Calls(p, noted, add)
    BY <1>1, <1>2, <1>7, <2>3, <2>5, <2>6, <2>8, PutMoves
  <2> QED
    BY <2>2, <2>7, <2>8
<1>12. CASE HandleCommit(p, e)
  <2>1. e.name = "e2eeCommit" /\ e.epoch \in Nat
    BY <1>3, <1>12 DEF HandleCommit, Event, RosterEvent, RosterNames, KeyPackageEvent, CommitEvent,
                       WelcomeEvent
  <2>2. \/ /\ Calls(p, Failed(c), Idle) \/ Calls(p, early, Idle) \/ Calls(p, c, Idle)
           /\ ~ NextCommit(p, e)
        \/ /\ NextCommit(p, e) /\ Continues(c.log, e.payload)
           /\ Calls(p, Joined(p, c, e.payload), Idle)
        \/ NextCommit(p, e) /\ ~ Continues(c.log, e.payload) /\ Restart(p)
    <3>1. CASE e.group # c.group \/ Awaiting(c) \/ ~ HasTree(p)
      BY <1>1, <1>6, <1>12, <3>1 DEF HandleCommit, NextCommit, HasTree
    <3>2. CASE e.group = c.group /\ ~ Awaiting(c) /\ HasTree(p) /\ e.epoch < Epoch(c.log)
      <4>1. Calls(p, c, Idle)
        BY <1>1, <1>12, <3>2 DEF HandleCommit
      <4>2. ~ (Epoch(c.log) <= e.epoch)
        BY <1>3, <2>1, <3>2 DEF Epoch
      <4> QED
        BY <1>1, <4>1, <4>2 DEF NextCommit
    <3>3. CASE e.group = c.group /\ ~ Awaiting(c) /\ HasTree(p) /\ ~ (e.epoch < Epoch(c.log))
      <4>1. NextCommit(p, e)
        BY <1>1, <1>3, <2>1, <3>3 DEF NextCommit, Epoch
      <4> QED
        BY <1>1, <1>12, <3>3, <4>1 DEF HandleCommit
    <3> QED
      BY <3>1, <3>2, <3>3
  <2>3. CASE /\ Calls(p, Failed(c), Idle) \/ Calls(p, early, Idle) \/ Calls(p, c, Idle)
             /\ ~ NextCommit(p, e)
    BY <1>1, <1>2, <1>7, <1>8, <2>3, PutMoves
  <2>4. CASE /\ NextCommit(p, e) /\ Continues(c.log, e.payload)
             /\ Calls(p, Joined(p, c, e.payload), Idle)
    <3>1. call'[p] = Joined(p, c, e.payload) /\ task'[p] = Idle /\ OthersAsTheyWere(p)
      BY <2>4, CallsMove
    <3>2. call'[p].log = e.payload /\ call'[p].group = c.group /\ call'[p].names = c.names
      BY <1>3, <3>1, JoinedLog
    <3>3. starts'[p] = starts[p]
      BY <2>4, CallsMove
    <3> QED
      BY <1>1, <1>2, <1>8, <2>4, <3>1, <3>2, <3>3 DEF HandlerMoves, Applies
  <2>5. CASE NextCommit(p, e) /\ ~ Continues(c.log, e.payload) /\ Restart(p)
    BY <1>1, <1>2, <2>5, RestartMoves DEF HandlerMoves, StartsAgain
  <2> QED
    BY <2>2, <2>3, <2>4, <2>5
<1>13. CASE HandleWelcome(p, e)
  <2>1. ~ NextCommit(p, e) /\ e.name = "e2eeWelcome"
    BY <1>13 DEF HandleWelcome, NextCommit
  <2>2. PICK joined : joined = [Joined(p, c, Welcomed(e)) EXCEPT !.early = {}]
    OBVIOUS
  <2>3. \/ Calls(p, Failed(c), Idle)
        \/ e.group = c.group /\ Awaiting(c) /\ Calls(p, joined, Idle)
    BY <1>1, <1>13, <2>2 DEF HandleWelcome
  <2>4. CASE Calls(p, Failed(c), Idle)
    BY <1>1, <1>2, <1>7, <1>8, <2>1, <2>4, PutMoves
  <2>5. CASE e.group = c.group /\ Awaiting(c) /\ Calls(p, joined, Idle)
    <3>1. call'[p] = joined /\ task'[p] = Idle /\ OthersAsTheyWere(p)
      BY <2>5, CallsMove
    <3>2. call'[p].log = Welcomed(e) /\ call'[p].group = c.group /\ call'[p].names = c.names
      BY <1>3, <2>2, <3>1, JoinedLog
    <3>3. starts'[p] = starts[p]
      BY <2>5, CallsMove
    <3> QED
      BY <1>1, <1>2, <1>8, <2>1, <2>5, <3>1, <3>2, <3>3 DEF HandlerMoves, TakesWelcome
  <2> QED
    BY <2>3, <2>4, <2>5
<1>14. CASE HandleRejoined(p, e)
  <2>1. ~ NextCommit(p, e)
    BY <1>14 DEF HandleRejoined, NextCommit
  <2>2. \/ c.group # sid[p] /\ Restart(p)
        \/ Calls(p, c, Idle)
    BY <1>1, <1>14 DEF HandleRejoined
  <2>3. CASE c.group # sid[p] /\ Restart(p)
    BY <1>1, <1>2, <2>3, RestartMoves DEF HandlerMoves, StartsAgain
  <2>4. CASE Calls(p, c, Idle)
    BY <1>1, <1>2, <1>7, <1>8, <2>1, <2>4, PutMoves
  <2> QED
    BY <2>2, <2>3, <2>4
<1> QED
  BY <1>2, <1>9, <1>10, <1>11, <1>12, <1>13, <1>14 DEF Handle

(* The answer to a Commit: what was staged is held now, or it is dropped. *)
LEMMA AnswerMoves ==
  ASSUME CallInv, NEW p \in Peer, HearAnswer(p), Staged(p)
  PROVE  /\ InCall(p) /\ Pending(p) /\ UNCHANGED <<relayVars, starts>> /\ OthersAsTheyWere(p)
         /\ MadeFrom(call'[p], task'[p]) /\ call'[p].group = call[p].group
         /\ UNCHANGED <<seen, away>> /\ call'[p].names = call[p].names
         /\ StagedBy(p, call'[p], seen[p], away[p], task'[p])
         /\ Len(call[p].log) \in Nat /\ Len(call[p].log) >= 1
         /\ IF task[p].step = "accepted"
            THEN call'[p].log = task[p].log /\ Len(task[p].log) = Len(call[p].log) + 1
            ELSE call'[p].log = call[p].log
<1>1. PICK t, c : /\ t = task[p] /\ c = call'[p]
                  /\ c = IF t.step = "accepted" THEN Joined(p, call[p], t.log) ELSE call[p]
                  /\ task'[p] = After(p, c, t)
  BY DEF HearAnswer, Asks, CallInv, CallShape
<1>2. /\ t.step \in {"accepted", "refused"} /\ Pending(p) /\ t # Idle
      /\ UNCHANGED <<relayVars, starts, seen, away>> /\ OthersAsTheyWere(p)
  BY <1>1 DEF HearAnswer, Pending, Asks, CallInv, CallShape, OthersAsTheyWere, Idle
<1>3. /\ InCall(p) /\ Own(p) \in Member /\ call[p] \in ClientRecord
      /\ Len(call[p].log) \in Nat /\ Len(call[p].log) >= 1
      /\ t.log \in Seq(Entry) /\ Len(t.log) = Len(call[p].log) + 1
      /\ t.next \in SUBSET Peer /\ \A q \in t.next : call[p].names[q] # {}
  <2>1. InCall(p)
    BY <1>1, <1>2, Waiting
  <2>2. FitTask(call[p], t, accepted) /\ Own(p) \in Member /\ Len(call[p].log) \in Nat
    BY <1>1, <2>1, Handling
  <2>3. call[p] \in ClientRecord
    BY DEF CallInv, CallShape
  <2>4. t.log \in Seq(Entry) /\ t.next \in SUBSET Peer
    BY <1>2, <2>2 DEF FitTask, Task
  <2> QED
    BY <1>2, <2>1, <2>2, <2>3, <2>4 DEF FitTask
<1>4. /\ c.group = call[p].group /\ c.names = call[p].names
      /\ c.log = IF t.step = "accepted" THEN t.log ELSE call[p].log
  <2>1. /\ Joined(p, call[p], t.log).log = t.log
        /\ Joined(p, call[p], t.log).group = call[p].group
        /\ Joined(p, call[p], t.log).names = call[p].names
    BY <1>3 DEF Joined, ClientRecord
  <2> QED
    BY <1>1, <2>1
<1>5. MadeFrom(c, task'[p]) /\ StagedBy(p, c, seen[p], away[p], task'[p])
  <2>1. c.log \in Seq(Entry) /\ Len(c.log) >= 1 /\ c.names \in [Peer -> SUBSET Member]
    BY <1>3, <1>4 DEF ClientRecord
  <2>2. CASE t.step = "accepted" /\ t.welcome # {}
    <3>1. After(p, c, t).step = "welcome"
      BY <1>1, <1>2, <2>2, Waiting, Handling DEF After, FitTask, Task
    <3> QED
      BY <1>1, <3>1 DEF MadeFrom, StagedBy
  <2>3. CASE ~ (t.step = "accepted" /\ t.welcome # {}) /\ t.next = {}
    BY <1>1, <2>3, IdleMade DEF After
  <2>4. CASE ~ (t.step = "accepted" /\ t.welcome # {}) /\ t.next # {}
    <3>1. PICK q \in t.next : After(p, c, t) = StageAdd(p, c, seen[p], away[p], q)
      BY <2>4 DEF After
    <3>2. q \in Peer /\ c.names[q] # {}
      BY <1>3, <1>4
    <3>3. StagedBy(p, c, seen[p], away[p], StageAdd(p, c, seen[p], away[p], q))
      BY <3>2 DEF StagedBy
    <3>4. MadeFrom(c, StageAdd(p, c, seen[p], away[p], q))
      BY <1>3, <2>1, <3>2, AddMade
    <3> QED
      BY <1>1, <3>1, <3>3, <3>4
  <2> QED
    BY <2>2, <2>3, <2>4
<1> QED
  BY <1>1, <1>2, <1>3, <1>4, <1>5

(* Any other step leaves the call of q as it was, or ends it. *)
Keeps(q) ==
  /\ InCall(q)' => /\ InCall(q) /\ SameLog(call[q], call'[q]) /\ starts'[q] = starts[q]
                   /\ call'[q].names = call[q].names
  /\ Pending(q)' => InCall(q)' /\ Pending(q) /\ task'[q].log = task[q].log

KeepsAnswer(q) == InCall(q)' /\ task[q].step = "accepted" => task'[q] = task[q]

(* What p does that may change its log. *)
Decides(p) ==
  \/ inbox[p] # <<>> /\ Handle(p, Head(inbox[p]))
  \/ HearAnswer(p)
  \/ Enter(p)

LEMMA EndedKeeps ==
  ASSUME NEW q, \/ call'[q] = call[q] /\ task'[q] = task[q] /\ starts'[q] = starts[q]
                \/ call'[q] = NoCall /\ task'[q] = Idle,
         Pending(q) => InCall(q)
  PROVE  Keeps(q) /\ KeepsAnswer(q)
BY DEF Keeps, KeepsAnswer, InCall, Pending, NoCall, Idle, SameLog

LEMMA PendingInCall ==
  ASSUME CallInv, NEW q \in Peer, Pending(q)
  PROVE  InCall(q)
BY Waiting DEF Pending, Idle

LEMMA StepKeepsCalls ==
  ASSUME CallInv, NEW p \in Peer, Runs(p) \/ Befalls(p), NEW q \in Peer, q # p \/ ~ Decides(p)
  PROVE  Keeps(q) /\ (~ RequestFails(p) /\ ~ AnswerFails(p) => KeepsAnswer(q))
<1>1. /\ call \in [Peer -> ClientRecord] /\ task \in [Peer -> Task]
      /\ starts \in [Peer -> 0..MaxStarts]
      /\ Pending(q) => InCall(q)
  BY PendingInCall DEF CallInv, CallShape
<1>2. ASSUME \/ call'[q] = call[q] /\ task'[q] = task[q] /\ starts'[q] = starts[q]
             \/ call'[q] = NoCall /\ task'[q] = Idle
      PROVE  Keeps(q) /\ KeepsAnswer(q)
  BY <1>1, <1>2, EndedKeeps
<1>3. ASSUME q # p, call'[q] = call[q], task'[q] = task[q], starts'[q] = starts[q]
      PROVE  Keeps(q) /\ KeepsAnswer(q)
  BY <1>2, <1>3
<1>4. CASE inbox[p] # <<>> /\ Handle(p, Head(inbox[p]))
  <2>1. q # p
    BY <1>4 DEF Decides
  <2>2. OthersAsTheyWere(p)
    BY <1>4, HandleMoves DEF HandlerMoves
  <2> QED
    BY <1>2, <2>1, <2>2 DEF OthersAsTheyWere
<1>5. CASE HearAnswer(p)
  <2>1. q # p
    BY <1>5 DEF Decides
  <2>2. call'[q] = call[q] /\ task'[q] = task[q] /\ starts'[q] = starts[q]
    BY <1>1, <1>5, <2>1 DEF HearAnswer, Asks
  <2> QED
    BY <1>2, <2>2
<1>6. CASE Enter(p)
  <2>1. q # p
    BY <1>6 DEF Decides
  <2>2. \/ call'[q] = call[q] /\ task'[q] = task[q] /\ starts'[q] = starts[q]
        \/ call'[q] = NoCall /\ task'[q] = Idle
    BY <1>1, <1>6, <2>1 DEF Enter
  <2> QED
    BY <1>2, <2>2
<1>7. CASE AskToJoin(p)
  <2>1. call' = call /\ starts' = starts /\ task' = [task EXCEPT ![p] = Idle]
        /\ task[p].step \in {"enter", "join"}
    BY <1>7 DEF AskToJoin, Asks
  <2>2. CASE q = p
    BY <1>1, <2>1, <2>2 DEF Keeps, KeepsAnswer, Pending, Idle, InCall, SameLog
  <2> QED
    BY <1>1, <1>2, <2>1, <2>2
<1>8. CASE SendCommit(p)
  <2>1. PICK step \in {"accepted", "refused"} :
          /\ call' = call /\ starts' = starts
          /\ task' = [task EXCEPT ![p] = [task[p] EXCEPT !.step = step]]
          /\ task[p].step = "commit"
    BY <1>8 DEF SendCommit, Asks
  <2>2. CASE q = p
    <3>1. task'[q] = [task[p] EXCEPT !.step = step] /\ task[p] \in Task
      BY <1>1, <2>1, <2>2
    <3>2. task'[q].log = task[q].log /\ Pending(q)
      BY <2>1, <2>2, <3>1 DEF Task, Pending
    <3> QED
      BY <1>1, <2>1, <2>2, <3>2 DEF Keeps, KeepsAnswer, InCall, SameLog
  <2> QED
    BY <1>1, <1>2, <2>1, <2>2
<1>9. CASE SendWelcome(p)
  <2>1. /\ call' = call \/ call' = [call EXCEPT ![p] = Failed(@)]
        /\ starts' = starts /\ task' = [task EXCEPT ![p] = Idle] /\ task[p].step = "welcome"
    BY <1>9 DEF SendWelcome, Asks
  <2>2. CASE q = p
    <3>1. /\ SameLog(call[p], call[p]) /\ SameLog(call[p], Failed(call[p]))
          /\ Failed(call[p]).names = call[p].names
      BY <1>1, SameLogs, SameNames
    <3>2. InCall(p)
      BY <1>9, Waiting DEF SendWelcome, Idle
    <3> QED
      BY <1>1, <2>1, <2>2, <3>1, <3>2 DEF Keeps, KeepsAnswer, Pending, Idle
  <2> QED
    BY <1>1, <1>2, <2>1, <2>2
<1>10. CASE RequestFails(p) \/ AnswerFails(p)
  <2>1. /\ call' = [call EXCEPT ![p] = IF task[p].step = "enter" THEN NoCall ELSE Failed(@)]
        /\ starts' = starts /\ task' = [task EXCEPT ![p] = Idle] /\ task[p] # Idle
    BY <1>10 DEF RequestFails, AnswerFails, FailsE2ee
  <2>2. CASE q = p
    <3>1. SameLog(call[p], Failed(call[p])) /\ Failed(call[p]).names = call[p].names
      BY <1>1, SameLogs, SameNames
    <3>2. InCall(p)
      BY <2>1, Waiting
    <3>3. call'[p] = NoCall \/ call'[p] = Failed(call[p])
      BY <1>1, <2>1
    <3> QED
      BY <1>1, <1>10, <2>1, <2>2, <3>1, <3>2, <3>3 DEF Keeps, Pending, Idle, InCall, NoCall
  <2> QED
    BY <1>1, <1>2, <2>1, <2>2
<1>11. CASE Notice(p) \/ Drop(p) \/ Reconnect(p)
  BY <1>2, <1>11 DEF Notice, callVars, Drop, Reconnect
<1>12. CASE Exit(p) \/ Expire(p) \/ Stop(p)
  <2>1. /\ call' = [call EXCEPT ![p] = NoCall] /\ task' = [task EXCEPT ![p] = Idle]
        /\ starts' = starts
    BY <1>12 DEF Exit, Expire, Stop
  <2> QED
    BY <1>1, <1>2, <2>1
<1>13. CASE Expel(p)
  <2>1. \/ call'[q] = call[q] /\ task'[q] = task[q] /\ starts'[q] = starts[q]
        \/ call'[q] = NoCall /\ task'[q] = Idle
    BY <1>1, <1>13 DEF Expel
  <2> QED
    BY <1>2, <2>1
<1> QED
  BY <1>4, <1>5, <1>6, <1>7, <1>8, <1>9, <1>10, <1>11, <1>12, <1>13 DEF Runs, Befalls

LEMMA StagedKeeps ==
  ASSUME CallInv, [CallNext]_vars, \A q \in Peer : Staged(q)
  PROVE  \A q \in Peer : Staged(q)'
<1>1. CASE UNCHANGED vars
  BY <1>1 DEF vars, callVars, Staged, Pending
<1>2. ASSUME NEW p \in Peer, Runs(p) \/ Befalls(p), NEW q \in Peer
      PROVE  Staged(q)'
  <2>1. CASE q # p \/ ~ Decides(p)
    <3>1. Keeps(q) /\ Staged(q)
      BY <1>2, <2>1, StepKeepsCalls
    <3> QED
      BY <3>1 DEF Keeps, Staged, SameLog
  <2>2. CASE q = p /\ inbox[p] # <<>> /\ Handle(p, Head(inbox[p]))
    BY <2>2, HandleMoves DEF HandlerMoves, MadeFrom, Staged, Pending
  <2>3. CASE q = p /\ HearAnswer(p)
    BY <2>3, AnswerMoves DEF MadeFrom, Staged, Pending
  <2>4. CASE q = p /\ Enter(p)
    <3>1. task'[p].step \notin {"commit", "accepted", "refused"}
      <4>1. task'[p] = [step |-> "enter"] \/ task'[p] = Idle \/ task'[p] = task[p]
        BY <2>4 DEF Enter
      <4>2. status[p] = "unborn"
        BY <2>4 DEF Enter, Join
      <4>3. ~ InCall(p)
        BY <4>2 DEF CallInv, ClientFits, FitSeat
      <4>4. ~ Pending(p)
        BY <4>3, PendingInCall
      <4> QED
        BY <4>1, <4>4 DEF Idle, Pending
    <3> QED
      BY <2>4, <3>1 DEF Staged, Pending
  <2> QED
    BY <2>1, <2>2, <2>3, <2>4 DEF Decides
<1> QED
  BY <1>1, <1>2 DEF CallNext

-----------------------------------------------------------------------------
(* A Commit is accepted *)

(* The Commit p waits for closes its epoch, and the others are told. *)
Closes(p, a) ==
  /\ SendCommit(p) /\ a = Decision(p, [group |-> call[p].group, epoch |-> Epoch(call[p].log),
                                       payload |-> task[p].log])
  /\ InCall(p) /\ Pending(p)
  /\ task[p].step = "commit" /\ task'[p].step = "accepted" /\ task'[p].log = a.payload
  /\ a.epoch = groups[a.group].currentEpoch
  /\ accepted' = accepted \cup {a}
  /\ \E e \in CommitEvent : /\ e.group = a.group /\ e.epoch = a.epoch
                            /\ inbox' = Sent(Peer \ {p}, <<e>>)
  /\ UNCHANGED <<status, wire, session, call, starts>>

LEMMA WhoCloses ==
  ASSUME MlsIsPayload, CallInv, NEW p \in Peer, Runs(p) \/ Befalls(p),
         NEW a \in accepted', a \notin accepted
  PROVE  Closes(p, a)
<1>1. SendCommit(p)
  <2>1. \A e : Handle(p, e) => accepted' = accepted
    BY DEF Handle, HandleRoster, HandlePeerLeft, HandleKeyPackage, HandleCommit, HandleWelcome,
           HandleRejoined, Take, Receive
  <2>2. AskToJoin(p) \/ HearAnswer(p) \/ SendWelcome(p) \/ RequestFails(p) \/ Stop(p) \/ Notice(p)
        => accepted' = accepted
    BY DEF AskToJoin, RelayE2eeJoin, HearAnswer, SendWelcome, RelayE2eeWelcome, RequestFails, Stop,
           SocketLost, Notice, OrphanPeer, relayVars
  <2>3. Befalls(p) => accepted' = accepted
    BY DEF Befalls, Enter, Join, Drop, SocketLost, Reconnect, Resume, Exit, Leave, Expel, Kick,
           Expire, Evict, AnswerFails, RelayE2eeJoin, RelayE2eeWelcome, relayVars
  <2> QED
    BY <2>1, <2>2, <2>3 DEF Runs
<1>2. PICK c : c = [group |-> call[p].group, epoch |-> Epoch(call[p].log), payload |-> task[p].log]
  OBVIOUS
<1>3. /\ task[p].step = "commit" /\ RelayE2eeCommit(p, c)
      /\ task' = [task EXCEPT ![p] = [task[p] EXCEPT !.step =
                    IF CommitAnswer(p, c) \in {"accepted", "accepted_before"}
                    THEN "accepted" ELSE "refused"]]
      /\ call' = call /\ starts' = starts
  BY <1>1, <1>2 DEF SendCommit, Asks
<1>4. CommitAnswer(p, c) = "accepted" /\ a = Decision(p, c) /\ accepted' = accepted \cup {a}
  BY <1>3 DEF RelayE2eeCommit, Decision
<1>5. c.epoch = groups[c.group].currentEpoch
  BY <1>4 DEF CommitAnswer
<1>6. InCall(p) /\ task \in [Peer -> Task] /\ Pending(p)
  BY <1>3, Waiting DEF Idle, CallInv, CallShape, Pending
<1>7. task'[p].step = "accepted" /\ task'[p].log = task[p].log
  BY <1>3, <1>4, <1>6 DEF Task
<1>8. PICK e : e = CommitNews(p, c)
  OBVIOUS
<1>9. e \in CommitEvent /\ e.group = c.group /\ e.epoch = c.epoch /\ inbox' = Sent(Peer \ {p}, <<e>>)
  <2>1. c \in AnyCommit
    BY <1>1, <1>2, <1>3, Submitted DEF AnyCommit, MlsIsPayload
  <2>2. e \in CommitEvent
    BY <1>8, <2>1 DEF CommitEvent, CommitNews, AnyCommit, CallInv, IInv, TypeOK
  <2> QED
    BY <1>3, <1>4, <1>8, <2>2 DEF RelayE2eeCommit, CommitNews
<1>10. UNCHANGED <<status, wire, session>>
  BY <1>3 DEF RelayE2eeCommit
<1>11. a.group = c.group /\ a.epoch = c.epoch /\ a.payload = c.payload
  BY <1>4 DEF Decision
<1> QED
  BY <1>1, <1>2, <1>3, <1>4, <1>5, <1>6, <1>7, <1>9, <1>10, <1>11 DEF Closes

(* The room's session is the same, or none of its Commits was accepted yet. *)
LEMMA SessionOrNew ==
  ASSUME MlsIsPayload, CallInv, [CallNext]_vars
  PROVE  \/ session' = session
         \/ session' = session + 1 /\ accepted' = accepted /\ \A a \in accepted' : ~ Ours(a)'
<1>1. session' = session \/ session' = session + 1
  BY CallStepIsRelayStep, SessionGrows
<1>2. session \in Nat /\ \A a \in accepted : a.life \in Nat /\ a.life <= session
  BY DEF CallInv, IInv, TypeOK, RelayInv, HistoryAgrees
<1>3. ASSUME session' # session PROVE accepted' = accepted
  <2>1. QuietStep
    BY <1>3, CallStepIsRelayStep DEF RelaySteps, AcceptStep, WelcomeStep, relayVars
  <2> QED
    BY <2>1 DEF QuietStep
<1>4. ASSUME session' # session, NEW a \in accepted' PROVE ~ Ours(a)'
  <2>1. a.life \in Nat /\ a.life <= session /\ session' = session + 1
    BY <1>1, <1>2, <1>3, <1>4
  <2>2. a.life # session'
    BY <1>2, <2>1
  <2> QED
    BY <2>2 DEF Ours
<1> QED
  BY <1>1, <1>3, <1>4

(* What p holds of the room's session was made by the Commit before. *)
LEMMA HeldIsLast ==
  ASSUME CallInv, NEW p \in Peer, call[p].group = session, NEW a \in accepted, Ours(a),
         Len(call[p].log) \in Nat, a.epoch + 1 = Epoch(call[p].log)
  PROVE  a.payload = call[p].log
<1>1. a.epoch \in Nat
  BY DEF CallInv, IInv, TypeOK
<1>2. Len(call[p].log) >= 2
  BY <1>1 DEF Epoch
<1>3. PICK b \in accepted : /\ b.life = session /\ b.group = session
                            /\ b.payload = call[p].log /\ Len(call[p].log) = b.epoch + 2
                            /\ b.epoch \in Nat
  BY <1>2, HeldIsAccepted
<1>4. a.epoch = b.epoch
  BY <1>1, <1>3 DEF Epoch
<1> QED
  BY <1>3, <1>4 DEF Ours, CallInv, IInv, OneCommitPerEpoch

LEMMA ChainedKeeps ==
  ASSUME MlsIsPayload, CallInv, [CallNext]_vars, Chained, \A q \in Peer : Staged(q)
  PROVE  Chained'
<1> SUFFICES ASSUME NEW a \in accepted', NEW b \in accepted', Ours(a)', Ours(b)',
                    b.epoch = a.epoch + 1
             PROVE  Continues(a.payload, b.payload)
  BY DEF Chained
<1>1. session' = session /\ Ours(a) /\ Ours(b)
  BY SessionOrNew DEF Ours
<1>2. \A d \in accepted : Ours(d) => d.epoch \in Nat /\ d.epoch < groups[session].currentEpoch
  BY DEF CallInv, IInv, TypeOK, RelayInv, HistoryAgrees, Ours
<1>3. CASE a \in accepted /\ b \in accepted
  BY <1>1, <1>3 DEF Chained
<1>4. CASE ~ (a \in accepted /\ b \in accepted)
  <2>1. PICK p \in Peer, d \in {a, b} : d \notin accepted /\ Closes(p, d)
    <3>1. ~ UNCHANGED vars
      BY <1>4 DEF vars, relayVars
    <3>2. PICK p \in Peer : Runs(p) \/ Befalls(p)
      BY <3>1 DEF CallNext
    <3>3. \A d \in accepted' : d \notin accepted => Closes(p, d)
      BY <3>2, WhoCloses
    <3> QED
      BY <1>4, <3>3
  <2>2. /\ accepted' = accepted \cup {d} /\ d.epoch = groups[session].currentEpoch
        /\ d.epoch = Epoch(call[p].log) /\ d.payload = task[p].log
        /\ call[p].group = session /\ Pending(p) /\ task[p].step = "commit"
    BY <1>1, <2>1 DEF Closes, Decision, Ours
  <2>3. /\ Len(call[p].log) \in Nat /\ d.epoch \in Nat
        /\ Continues(call[p].log, d.payload)
    BY <2>1, <2>2, Handling DEF Closes, Submitted, Staged, CallInv, IInv, TypeOK, GroupState, Epoch
  <2>4. CASE a = d
    <3>1. (b \in accepted /\ b.epoch = groups[session].currentEpoch + 1) \/ b = d
      BY <2>2, <2>4
    <3> QED
      BY <1>1, <1>2, <2>2, <2>3, <2>4, <3>1
  <2>5. CASE a # d
    <3>1. a \in accepted /\ b = d
      BY <2>1, <2>2, <2>5
    <3>2. a.payload = call[p].log
      BY <1>1, <2>2, <2>3, <3>1, HeldIsLast
    <3> QED
      BY <2>3, <3>1, <3>2
  <2> QED
    BY <2>4, <2>5
<1> QED
  BY <1>3, <1>4

-----------------------------------------------------------------------------
(* What is on its way stays on its way *)

LEMMA ElemsGrow ==
  ASSUME NEW S, NEW s \in Seq(S), NEW t \in Seq(S)
  PROVE  Elems(s) \subseteq Elems(s \o t) /\ Elems(t) \subseteq Elems(s \o t)
<1>1. /\ s \o t \in Seq(S) /\ Len(s \o t) = Len(s) + Len(t)
      /\ \A j \in 1..Len(s \o t) : (s \o t)[j] = IF j <= Len(s) THEN s[j] ELSE t[j - Len(s)]
  BY ConcatProperties
<1>2. /\ Len(s) \in Nat /\ Len(t) \in Nat
      /\ DOMAIN s = 1..Len(s) /\ DOMAIN t = 1..Len(t) /\ DOMAIN (s \o t) = 1..Len(s \o t)
  BY <1>1, LenProperties
<1>3. ASSUME NEW i \in DOMAIN s PROVE s[i] \in Elems(s \o t)
  <2>1. i \in DOMAIN (s \o t) /\ (s \o t)[i] = s[i]
    BY <1>1, <1>2
  <2> QED
    BY <2>1 DEF Elems
<1>4. ASSUME NEW i \in DOMAIN t PROVE t[i] \in Elems(s \o t)
  <2>1. Len(s) + i \in DOMAIN (s \o t) /\ (s \o t)[Len(s) + i] = t[i]
    <3>1. Len(s) + i \in 1..Len(s \o t) /\ ~ (Len(s) + i <= Len(s)) /\ Len(s) + i - Len(s) = i
      BY <1>1, <1>2
    <3> QED
      BY <1>1, <1>2, <3>1
  <2> QED
    BY <2>1 DEF Elems
<1> QED
  BY <1>3, <1>4 DEF Elems

LEMMA SentStays ==
  ASSUME TypeOK, NEW to, NEW t \in Seq(Event), inbox' = Sent(to, t), NEW q \in Peer
  PROVE  Mail(q) \subseteq Mail(q)' /\ (q \in to /\ Hears(q) => Elems(t) \subseteq Mail(q)')
<1>1. inbox'[q] = IF q \in to /\ Hears(q) THEN inbox[q] \o t ELSE inbox[q]
  BY DEF Sent
<1>2. Elems(inbox[q]) \subseteq Elems(inbox[q] \o t) /\ Elems(t) \subseteq Elems(inbox[q] \o t)
  BY MailType, ElemsGrow
<1> QED
  BY <1>1, <1>2 DEF Mail

LEMMA ConcatThree ==
  ASSUME NEW s \in Seq(Event), NEW t \in Seq(Event), NEW u \in Seq(Event)
  PROVE  s \o (t \o u) = s \o t \o u
BY ConcatAssociative

(* A KeyPackage in t is the one p asks with. *)
AsksOf(p, t) ==
  \A e \in Elems(t) : e.name = "e2eeJoinRequested" => InCall(p) /\ e.peer = p /\ e.payload = Own(p)

(* What a step of p does to q's inbox. *)
Gains(p, q) ==
  \/ inbox'[q] = inbox[q]
  \/ Hears(q) /\ \E t \in Seq(Event) : inbox'[q] = inbox[q] \o t /\ AsksOf(p, t)

LEMMA SentGains ==
  ASSUME NEW p, NEW to, NEW t \in Seq(Event), AsksOf(p, t), inbox' = Sent(to, t), NEW q \in Peer
  PROVE  Gains(p, q)
<1>1. inbox'[q] = IF q \in to /\ Hears(q) THEN inbox[q] \o t ELSE inbox[q]
  BY DEF Sent
<1> QED
  BY <1>1 DEF Gains

(* Nobody's inbox loses anything who stays, while no socket is. *)
LEMMA MailGrows ==
  ASSUME MlsIsPayload, CallInv, SocketsUp, drops = 0, drops' = 0, fails' = fails,
         NEW p \in Peer, Runs(p) \/ Befalls(p), NEW q \in Peer,
         q # p \/ ~ (Enter(p) \/ Stop(p) \/ (inbox[p] # <<>> /\ Handle(p, Head(inbox[p]))))
  PROVE  Gains(p, q)
<1>1. TypeOK
  BY DEF CallInv, IInv
<1>2. \A name \in RosterNames :
        About(name, <<p>>) \in Seq(Event) /\ AsksOf(p, About(name, <<p>>))
  <2> SUFFICES ASSUME NEW name \in RosterNames
               PROVE  About(name, <<p>>) \in Seq(Event) /\ AsksOf(p, About(name, <<p>>))
    OBVIOUS
  <2>1. /\ About(name, <<p>>) \in Seq(Event)
        /\ Elems(About(name, <<p>>)) \subseteq {[name |-> name, peer |-> p]}
    BY AboutOne
  <2> QED
    BY <2>1 DEF AsksOf, RosterNames
<1>3. /\ ~ RequestFails(p) /\ ~ Notice(p) /\ ~ Drop(p) /\ ~ Reconnect(p) /\ ~ Expire(p)
      /\ ~ AnswerFails(p)
  BY NobodyDrops, NobodyGivesUp
<1>4. CASE inbox[p] # <<>> /\ Handle(p, Head(inbox[p]))
  <2>1. inbox' = [inbox EXCEPT ![p] = Tail(@)] /\ q # p
    BY <1>4, HandleMoves DEF Take, Receive
  <2> QED
    BY <1>1, <2>1 DEF TypeOK, Gains
<1>5. CASE Enter(p)
  <2>1. q # p
    BY <1>5
  <2>2. PICK left \in [1..Cardinality({} \cup Others(p)) -> {} \cup Others(p)] :
          \/ inbox'[q] = inbox[q]
          \/ Hears(q) /\ inbox'[q] = inbox[q] \o About("peerLeft", left) \o About("peerJoined", <<p>>)
    BY <1>5, <2>1 DEF Enter, Join
  <2>3. {} \cup Others(p) \in SUBSET Peer
    BY DEF Others, InRoom
  <2>4. PICK news, joined : news = About("peerLeft", left) /\ joined = About("peerJoined", <<p>>)
    OBVIOUS
  <2>5. /\ news \in Seq(Event)
        /\ Elems(news) \subseteq {[name |-> n, peer |-> w] : n \in RosterNames, w \in Peer}
    <3>1. /\ news \in Seq(Event)
          /\ Elems(news) \subseteq {[name |-> "peerLeft", peer |-> o] : o \in {} \cup Others(p)}
      BY <2>3, <2>4, AboutSome
    <3> QED
      BY <2>3, <3>1 DEF RosterNames
  <2>6. joined \in Seq(Event) /\ AsksOf(p, joined)
    BY <1>2, <2>4 DEF RosterNames
  <2>7. /\ news \o joined \in Seq(Event) /\ AsksOf(p, news \o joined)
        /\ inbox[q] \o (news \o joined) = inbox[q] \o news \o joined
    <3>1. inbox[q] \in Seq(Event)
      BY <1>1, MailType
    <3>2. news \o joined \in Seq(Event)
      BY <2>5, <2>6, ConcatProperties
    <3>3. inbox[q] \o (news \o joined) = inbox[q] \o news \o joined
      <4>1. news \in Seq(Event) /\ joined \in Seq(Event)
        BY <2>5, <2>6
      <4>2. PICK seq : seq = inbox[q]
        OBVIOUS
      <4>3. seq \o (news \o joined) = seq \o news \o joined
        BY <3>1, <4>1, <4>2, ConcatThree
      <4> QED
        BY <4>2, <4>3
    <3>4. Elems(news \o joined) \subseteq Elems(news) \cup Elems(joined)
      BY <2>5, <2>6, ElemsConcat
    <3>5. \A e \in Elems(news) : e.name # "e2eeJoinRequested"
      BY <2>5 DEF RosterNames
    <3> QED
      BY <2>6, <3>2, <3>3, <3>4, <3>5 DEF AsksOf
  <2> QED
    BY <2>2, <2>4, <2>7 DEF Gains
<1>6. CASE HearAnswer(p)
  BY <1>6 DEF HearAnswer, relayVars, Gains
<1>7. CASE AskToJoin(p)
  <2>1. PICK e : /\ e = [name |-> "e2eeJoinRequested", peer |-> p,
                         group |-> call[p].group, payload |-> Own(p)]
                 /\ inbox' = inbox \/ inbox' = Sent(Peer \ {p}, <<e>>)
    BY <1>7 DEF AskToJoin, RelayE2eeJoin
  <2>2. InCall(p) /\ call[p].group \in Group /\ Own(p) \in Payload
    BY <1>7, Waiting, Handling DEF AskToJoin, Idle, MlsIsPayload
  <2>3. e \in Event
    BY <2>1, <2>2 DEF Event, KeyPackageEvent
  <2>4. <<e>> \in Seq(Event) /\ AsksOf(p, <<e>>)
    BY <2>1, <2>2, <2>3 DEF AsksOf, Elems
  <2>5. PICK to, t : to = Peer \ {p} /\ t = <<e>>
    OBVIOUS
  <2>6. inbox' = Sent(to, t) => Gains(p, q)
    BY <2>4, <2>5, SentGains
  <2> QED
    BY <2>1, <2>5, <2>6 DEF Gains
<1>8. CASE SendCommit(p)
  <2>1. CASE accepted' = accepted
    <3>1. PICK c : /\ RelayE2eeCommit(p, c)
                   /\ c = [group |-> call[p].group, epoch |-> Epoch(call[p].log),
                           payload |-> task[p].log]
      BY <1>8 DEF SendCommit
    <3>2. c.epoch = groups[c.group].currentEpoch => Decision(p, c) \notin accepted
      <4>1. c.group \in Nat /\ c.epoch \in Nat
        BY <1>8, <3>1, Submitted DEF SendCommit
      <4> QED
        BY <4>1 DEF Decision, CallInv, IInv, RelayInv, HistoryAgrees
    <3>3. CommitAnswer(p, c) # "accepted"
      BY <2>1, <3>1, <3>2 DEF RelayE2eeCommit, Decision, CommitAnswer
    <3>4. inbox' = inbox
      BY <3>1, <3>3 DEF RelayE2eeCommit
    <3> QED
      BY <3>4 DEF Gains
  <2>2. CASE accepted' # accepted
    <3>1. PICK a \in accepted' : a \notin accepted
      <4>1. accepted \subseteq accepted'
        BY <1>8 DEF SendCommit, RelayE2eeCommit
      <4> QED
        BY <2>2, <4>1
    <3>2. PICK e \in CommitEvent : inbox' = Sent(Peer \ {p}, <<e>>)
      BY <3>1, WhoCloses DEF Closes
    <3>3. <<e>> \in Seq(Event) /\ AsksOf(p, <<e>>)
      BY DEF Event, CommitEvent, AsksOf, Elems
    <3>4. PICK to, t : to = Peer \ {p} /\ t = <<e>>
      OBVIOUS
    <3> QED
      BY <3>2, <3>3, <3>4, SentGains
  <2> QED
    BY <2>1, <2>2
<1>9. CASE SendWelcome(p)
  <2>1. CASE inbox' = inbox
    BY <2>1 DEF Gains
  <2>2. CASE inbox' # inbox
    <3>1. PICK r \in task[p].welcome :
            RelayE2eeWelcome(p, [group |-> call[p].group, epoch |-> Epoch(call[p].log) - 1,
                                 target |-> r])
      BY <1>9, <2>2 DEF SendWelcome, WelcomeFor, relayVars
    <3>2. PICK e : /\ e = [name |-> "e2eeWelcome", peer |-> p, life |-> session,
                           group |-> call[p].group, epoch |-> Epoch(call[p].log) - 1]
                   /\ inbox' = Sent({r}, <<e>>)
      BY <3>1 DEF RelayE2eeWelcome
    <3>3. /\ FitTask(call[p], task[p], accepted) /\ call[p].group \in Group /\ session \in Nat
          /\ Len(call[p].log) \in Nat
      BY <1>9, Waiting, Handling DEF SendWelcome, Idle
    <3>4. Epoch(call[p].log) - 1 \in Nat
      BY <1>9, <3>3 DEF SendWelcome, FitTask, Epoch
    <3>5. e \in Event
      BY <3>2, <3>3, <3>4 DEF Event, WelcomeEvent
    <3>6. <<e>> \in Seq(Event) /\ AsksOf(p, <<e>>)
      BY <3>2, <3>5 DEF AsksOf, Elems
    <3>7. PICK to, t : to = {r} /\ t = <<e>>
      OBVIOUS
    <3> QED
      BY <3>2, <3>6, <3>7, SentGains
  <2> QED
    BY <2>1, <2>2
<1>10. CASE Exit(p)
  <2>1. PICK to, t : to = Peer \ {p} /\ t = About("peerLeft", <<p>>)
    OBVIOUS
  <2>2. inbox' = Sent(to, t) /\ t \in Seq(Event) /\ AsksOf(p, t)
    BY <1>2, <1>10, <2>1 DEF Exit, Leave, RosterNames
  <2> QED
    BY <2>2, SentGains
<1>11. CASE Expel(p)
  <2>1. PICK kicked \in {<<>>, About("peerKicked", <<p>>)} :
          inbox' = Sent(Peer \ {p}, kicked \o About("peerLeft", <<p>>))
    BY <1>11 DEF Expel, Kick
  <2>2. PICK left : left = About("peerLeft", <<p>>)
    OBVIOUS
  <2>3. /\ kicked \in Seq(Event) /\ AsksOf(p, kicked)
        /\ left \in Seq(Event) /\ AsksOf(p, left)
    <3>1. Elems(<<>>) = {}
      BY EmptySeq DEF Elems
    <3> QED
      BY <1>2, <2>2, <3>1, EmptySeq DEF RosterNames, AsksOf
  <2>4. kicked \o left \in Seq(Event) /\ AsksOf(p, kicked \o left)
    <3>1. Elems(kicked \o left) \subseteq Elems(kicked) \cup Elems(left)
      BY <2>3, ElemsConcat
    <3> QED
      BY <2>3, <3>1, ConcatProperties DEF AsksOf
  <2>5. PICK to, t : to = Peer \ {p} /\ t = kicked \o left
    OBVIOUS
  <2> QED
    BY <2>1, <2>2, <2>4, <2>5, SentGains
<1>12. CASE Stop(p)
  BY <1>1, <1>12 DEF Stop, SocketLost, TypeOK, Gains
<1> QED
  BY <1>3, <1>4, <1>5, <1>6, <1>7, <1>8, <1>9, <1>10, <1>11, <1>12 DEF Runs, Befalls

LEMMA MailStays ==
  ASSUME MlsIsPayload, CallInv, SocketsUp, drops = 0, drops' = 0, fails' = fails,
         NEW p \in Peer, Runs(p) \/ Befalls(p), NEW q \in Peer, InCall(q)',
         q # p \/ (~ Enter(p) /\ ~ (inbox[p] # <<>> /\ Handle(p, Head(inbox[p]))))
  PROVE  Mail(q) \subseteq Mail(q)'
<1>1. q # p \/ ~ Stop(p)
  BY DEF Stop, InCall, NoCall, CallInv, CallShape
<1>2. Gains(p, q)
  BY <1>1, MailGrows
<1>3. inbox[q] \in Seq(Event)
  BY MailType DEF CallInv, IInv
<1>4. \A t \in Seq(Event) : Elems(inbox[q]) \subseteq Elems(inbox[q] \o t)
  BY <1>3, ElemsGrow
<1> QED
  BY <1>2, <1>4 DEF Gains, Mail

(* Only who is in the room is sent a Commit. *)
LEMMA NewCommitIsHeard ==
  ASSUME CallInv, RelaySteps, NEW q \in Peer, NEW e \in Mail(q)', e \notin Mail(q),
         e.name = "e2eeCommit"
  PROVE  status[q] = "here"
<1>1. TypeOK /\ MlsInOrder
  BY DEF CallInv, IInv
<1>2. CASE QuietStep
  <2>1. IsMls(e) => e \in Mail(q)
    BY <1>1, <1>2, QuietInboxes DEF Mail, Elems
  <2> QED
    BY <2>1 DEF IsMls
<1>3. ASSUME NEW to, NEW t, inbox' = Sent(to, t) PROVE status[q] = "here"
  <2>1. inbox'[q] # inbox[q]
    BY DEF Mail
  <2> QED
    BY <1>3, <2>1 DEF Sent, Hears
<1>4. CASE UNCHANGED relayVars
  BY <1>4 DEF relayVars, Mail
<1> QED
  BY <1>2, <1>3, <1>4 DEF RelaySteps, AcceptStep, WelcomeStep

(* What a Commit of the room's session on its way to q says. *)
LEMMA OursIsSettled ==
  ASSUME CallInv, NEW q \in Peer, NEW e \in Mail(q), IsMls(e), e.group = session
  PROVE  e.life = session /\ e.epoch \in Nat /\ e.epoch < groups[session].currentEpoch
BY LifeIsSession DEF Mail, Elems

LEMMA OursAreClosed ==
  ASSUME CallInv, NEW a \in accepted, Ours(a)
  PROVE  a.epoch \in Nat /\ a.epoch < groups[session].currentEpoch
BY DEF CallInv, IInv, TypeOK, RelayInv, HistoryAgrees, Ours

(* A Commit that is accepted reaches whom it is due. *)
LEMMA NewCommitReaches ==
  ASSUME MlsIsPayload, CallInv, SocketsUp, NEW p \in Peer, Runs(p) \/ Befalls(p),
         NEW a \in accepted', a \notin accepted, Ours(a)', NEW q \in Peer, Due(q, a.epoch)'
  PROVE  IF q = p THEN Confirmed(q, a)' /\ ~ Awaiting(call'[q]) ELSE OnItsWay(q, a.epoch)'
<1>1. Closes(p, a)
  BY WhoCloses
<1>2. /\ session' = session /\ status' = status /\ a.group = session
      /\ a.epoch = groups[session].currentEpoch /\ call' = call
  BY <1>1 DEF Closes, Ours
<1>3. PICK e \in CommitEvent : /\ e.group = session /\ e.epoch = a.epoch
                               /\ inbox' = Sent(Peer \ {p}, <<e>>)
  BY <1>1, <1>2 DEF Closes
<1>4. TypeOK /\ <<e>> \in Seq(Event) /\ e \in Elems(<<e>>)
  BY DEF CallInv, IInv, Event, Elems
<1>5. CASE q = p
  <2>1. FitTask(call[p], task[p], accepted) /\ (Awaiting(call[p]) <=> Len(call[p].log) = 0)
    BY <1>1, Handling DEF Closes
  <2>2. ~ Awaiting(call[p])
    BY <1>1, <2>1 DEF Closes, FitTask
  <2> QED
    BY <1>1, <1>2, <1>5, <2>2 DEF Closes, Confirmed
<1>6. CASE q # p /\ status[q] = "here"
  <2>1. Hears(q)
    BY <1>6 DEF Hears, SocketsUp
  <2>2. e \in Mail(q)'
    <3>1. PICK to, t : to = Peer \ {p} /\ t = <<e>>
      OBVIOUS
    <3>2. t \in Seq(Event) /\ inbox' = Sent(to, t) /\ q \in to /\ e \in Elems(t)
      BY <1>3, <1>4, <1>6, <3>1
    <3>3. Elems(t) \subseteq Mail(q)'
      BY <1>4, <2>1, <3>2, SentStays
    <3> QED
      BY <3>2, <3>3
  <2> QED
    BY <1>2, <1>3, <1>6, <2>2 DEF OnItsWay, IsOurs, CommitEvent
<1>7. CASE q # p /\ status[q] # "here"
  <2>1. inbox'[q] = inbox[q]
    BY <1>3, <1>7 DEF Sent, Hears
  <2>2. PICK f \in Mail(q) : IsOurs(f) /\ a.epoch <= f.epoch
    BY <1>2, <1>7, <2>1 DEF Due, IsOurs, Mail
  <2>3. f.epoch \in Nat /\ f.epoch < groups[session].currentEpoch
    BY <2>2, OursIsSettled DEF IsOurs, IsMls
  <2>4. a.epoch \in Nat
    BY <1>3 DEF CommitEvent
  <2> QED
    BY <1>2, <2>2, <2>3, <2>4
<1> QED
  BY <1>5, <1>6, <1>7

(* Who does not decide anything keeps up. *)
LEMMA StayingKeepsUp ==
  ASSUME MlsIsPayload, CallInv, SocketsUp, NEW p \in Peer, Runs(p) \/ Befalls(p),
         session' = session, NEW q \in Peer, Keeps(q), KeepsAnswer(q), KeptUp(q),
         InCall(q)' => Mail(q) \subseteq Mail(q)',
         status'[q] = "here" => status[q] = "here"
  PROVE  KeptUp(q)'
<1> SUFFICES ASSUME InSession(q)', NEW a \in accepted', Ours(a)', Due(q, a.epoch)'
             PROVE  /\ (HasTree(q) \/ Pending(q))' /\ Epoch(call'[q].log) <= a.epoch =>
                         Confirmed(q, a)' \/ OnItsWay(q, a.epoch)'
                    /\ Awaiting(call'[q]) => \A w \in Mail(q)' :
                         w.name = "e2eeWelcome" /\ w.group = session' /\ w.epoch < a.epoch
                         => OnItsWay(q, a.epoch)'
  BY DEF KeptUp
<1>1. /\ InCall(q)' /\ InCall(q) /\ SameLog(call[q], call'[q]) /\ starts'[q] = starts[q]
      /\ InSession(q) /\ Mail(q) \subseteq Mail(q)'
  BY DEF InSession, Keeps, SameLog
<1>2. (HasTree(q) \/ Pending(q))' => HasTree(q) \/ Pending(q)
  BY <1>1 DEF Keeps, HasTree, Own, SameLog, Awaiting
<1>3. CASE a \notin accepted
  BY <1>3, NewCommitReaches
<1>4. CASE a \in accepted
  <2>1. Ours(a) /\ a.epoch \in Nat /\ a.epoch < groups[session].currentEpoch
    BY <1>4, OursAreClosed DEF Ours
  <2>2. RelaySteps
    BY CallStepIsRelayStep DEF CallNext
  <2>3. Due(q, a.epoch)
    <3>1. CASE status'[q] = "here"
      BY <3>1 DEF Due
    <3>2. CASE status'[q] # "here"
      <4>1. PICK e \in Mail(q)' : IsOurs(e)' /\ a.epoch <= e.epoch
        BY <3>2 DEF Due
      <4>2. e \in Mail(q) \/ status[q] = "here"
        BY <2>2, <4>1, NewCommitIsHeard DEF IsOurs
      <4> QED
        BY <4>1, <4>2 DEF Due, IsOurs
    <3> QED
      BY <3>1, <3>2
  <2>4. OnItsWay(q, a.epoch) => OnItsWay(q, a.epoch)'
    BY <1>1 DEF OnItsWay, IsOurs
  <2>5. Confirmed(q, a) => Confirmed(q, a)'
    BY <1>1 DEF KeepsAnswer, Confirmed
  <2>6. (HasTree(q) \/ Pending(q))' /\ Epoch(call'[q].log) <= a.epoch =>
             Confirmed(q, a)' \/ OnItsWay(q, a.epoch)'
    BY <1>1, <1>2, <1>4, <2>1, <2>3, <2>4, <2>5 DEF KeptUp, SameLog
  <2>7. ASSUME Awaiting(call'[q]), NEW w \in Mail(q)', w.name = "e2eeWelcome",
               w.group = session', w.epoch < a.epoch
        PROVE  OnItsWay(q, a.epoch)'
    <3>1. Awaiting(call[q])
      BY <1>1, <2>7 DEF Awaiting, SameLog
    <3>2. CASE w \in Mail(q)
      BY <1>1, <1>4, <2>1, <2>3, <2>4, <2>7, <3>1, <3>2 DEF KeptUp
    <3>3. CASE w \notin Mail(q)
      <4>1. w.epoch + 1 = groups[session].currentEpoch
        BY <2>2, <2>7, <3>3, RelayMoves DEF IsMls
      <4>2. w.epoch \in Nat
        <5>1. CallInv'
          BY CallStepKeeps DEF CallNext
        <5>2. w \in Event
          BY <5>1, MailType DEF CallInv, IInv, TypeOK, Mail, Elems
        <5> QED
          BY <2>7, <5>2 DEF Event, RosterEvent, RosterNames, KeyPackageEvent, CommitEvent,
                           WelcomeEvent
      <4> QED
        BY <2>1, <2>7, <4>1, <4>2
    <3> QED
      BY <3>2, <3>3
  <2> QED
    BY <2>6, <2>7
<1> QED
  BY <1>3, <1>4

(* The head of the queue goes, and what follows it is of later epochs. *)
LEMMA HeadGoes ==
  ASSUME CallInv, NEW p \in Peer, inbox[p] # <<>>, NEW e, e = Head(inbox[p]), Receive(p)
  PROVE  /\ e \in Mail(p) /\ Mail(p)' \subseteq Mail(p) /\ Mail(p) \subseteq Mail(p)' \cup {e}
         /\ \A f \in Mail(p)' : IsMls(e) /\ IsMls(f) /\ e.group = session /\ f.group = session =>
              IF f.name = "e2eeCommit" THEN e.epoch < f.epoch ELSE e.epoch <= f.epoch
<1>1. /\ inbox[p] \in Seq(Event) /\ Len(inbox[p]) \in Nat /\ DOMAIN inbox[p] = 1..Len(inbox[p])
      /\ inbox'[p] = Tail(inbox[p]) /\ Ordered(inbox[p])
  BY MailType DEF Receive, CallInv, IInv, TypeOK, MlsInOrder
<1>2. PICK s \in Seq(Event) : s = inbox[p]
  BY <1>1
<1>3. /\ e = s[1] /\ 1 \in DOMAIN s
      /\ Len(Tail(s)) = Len(s) - 1 /\ Tail(s) \in Seq(Event)
      /\ \A i \in 1..(Len(s) - 1) : Tail(s)[i] = s[i + 1]
  BY <1>1, <1>2, HeadTailProperties, EmptySeq
<1>4. e \in Mail(p)
  BY <1>2, <1>3 DEF Mail, Elems
<1>5. Mail(p)' \subseteq Mail(p)
  BY TailMail DEF Mail, Elems
<1>6. ASSUME NEW i \in DOMAIN s PROVE s[i] \in Mail(p)' \cup {e}
  <2>1. CASE i = 1
    BY <1>3, <2>1
  <2>2. CASE i # 1
    <3>1. i - 1 \in 1..(Len(s) - 1) /\ (i - 1) + 1 = i
      BY <1>1, <1>2, <2>2
    <3>2. Tail(s)[i - 1] = s[i] /\ i - 1 \in DOMAIN Tail(s)
      BY <1>3, <3>1, LenProperties
    <3> QED
      BY <1>1, <1>2, <3>2 DEF Mail, Elems
  <2> QED
    BY <2>1, <2>2
<1>7. ASSUME NEW f \in Mail(p)', IsMls(e), IsMls(f), e.group = session, f.group = session
      PROVE  IF f.name = "e2eeCommit" THEN e.epoch < f.epoch ELSE e.epoch <= f.epoch
  <2>1. PICK i \in DOMAIN inbox[p] : i > 1 /\ f = inbox[p][i]
    BY <1>7, TailMail
  <2>2. e.life = session /\ f.life = session
    BY <1>4, <1>5, <1>7, OursIsSettled
  <2> QED
    BY <1>1, <1>2, <1>3, <1>7, <2>1, <2>2 DEF Ordered
<1> QED
  BY <1>2, <1>4, <1>5, <1>6, <1>7 DEF Mail, Elems

(* The Commit of the room's session that p has to apply now was made from *)
(* what p holds.                                                          *)
LEMMA NextContinues ==
  ASSUME CallInv, Chained, OneFounder, NEW p \in Peer, InSession(p), NEW a \in accepted, Ours(a),
         ~ Awaiting(call[p]), a.epoch = Epoch(call[p].log)
  PROVE  Continues(call[p].log, a.payload)
<1>1. Len(call[p].log) \in Nat /\ Len(call[p].log) # 0 /\ a.epoch \in Nat
  BY Handling, OursAreClosed DEF InSession
<1>2. CASE Len(call[p].log) = 1
  BY <1>2 DEF OneFounder, Epoch
<1>3. CASE Len(call[p].log) >= 2
  <2>1. PICK b \in accepted : /\ b.life = session /\ b.group = session
                              /\ b.payload = call[p].log /\ Len(call[p].log) = b.epoch + 2
                              /\ b.epoch \in Nat
    BY <1>3, HeldIsAccepted DEF InSession
  <2>2. a.epoch = b.epoch + 1
    BY <2>1 DEF Epoch
  <2> QED
    BY <2>1, <2>2 DEF Chained, Ours
<1>4. \A n \in Nat : n # 0 => n = 1 \/ n >= 2
  OBVIOUS
<1> QED
  BY <1>1, <1>2, <1>3, <1>4

(* Nobody in the room's session has to start again. *)
LEMMA NobodyStartsAgain ==
  ASSUME CallInv, Chained, OneFounder, NEW p \in Peer, KeptUp(p), OwnSession(p), InCall(p),
         task[p] = Idle, inbox[p] # <<>>, NEW e, e = Head(inbox[p]), Receive(p),
         StartsAgain(p, e)
  PROVE  call'[p].group # session
<1> SUFFICES ASSUME call'[p].group = session PROVE FALSE
  OBVIOUS
<1>1. InSession(p) /\ NextCommit(p, e) /\ ~ Continues(call[p].log, e.payload)
  BY DEF StartsAgain, OwnSession, InSession
<1>2. IsOurs(e) /\ HasTree(p) /\ Epoch(call[p].log) <= e.epoch /\ ~ Awaiting(call[p])
  BY <1>1 DEF NextCommit, InSession, IsOurs, HasTree
<1>3. /\ e \in Mail(p) /\ e.life = session /\ e.epoch \in Nat
      /\ e.epoch < groups[session].currentEpoch /\ IsMls(e)
  BY <1>2, HeadGoes, OursIsSettled DEF IsOurs, IsMls
<1>4. PICK a \in accepted : Ours(a) /\ a.epoch = e.epoch /\ a.payload = e.payload
  <2>1. Announced(accepted, e)
    BY <1>2, <1>3 DEF CallInv, MailFits, FitEvent, IsOurs
  <2> QED
    BY <1>2, <1>3, <2>1 DEF Announced, Ours, IsOurs
<1>5. PICK n \in Nat : n = Epoch(call[p].log)
  <2>1. Len(call[p].log) \in Nat /\ Len(call[p].log) # 0
    BY <1>2, Handling
  <2>2. \A k \in Nat : k # 0 => k - 1 \in Nat
    OBVIOUS
  <2> QED
    BY <2>1, <2>2 DEF Epoch
<1>6. PICK b \in accepted : Ours(b) /\ b.epoch = n
  <2>1. session \in Group /\ groups[session].currentEpoch \in Nat
    BY <1>1, Handling DEF InSession, CallInv, IInv, TypeOK, GroupState
  <2>2. n \in 0..(groups[session].currentEpoch - 1)
    BY <1>2, <1>3, <1>5, <2>1
  <2> QED
    BY <2>1, <2>2 DEF CallInv, IInv, RelayInv, HistoryAgrees, Ours
<1>7. OnItsWay(p, n)
  <2>1. Due(p, n)
    BY <1>2, <1>3, <1>5 DEF Due
  <2>2. ~ Confirmed(p, b)
    BY DEF Confirmed, Idle
  <2>3. Epoch(call[p].log) <= b.epoch
    BY <1>5, <1>6
  <2> QED
    BY <1>1, <1>2, <1>6, <2>1, <2>2, <2>3 DEF KeptUp
<1>8. e.epoch = n
  <2>1. PICK f \in Mail(p) : IsOurs(f) /\ f.epoch = n
    BY <1>7 DEF OnItsWay
  <2>2. f \in Mail(p)' => e.epoch < f.epoch
    BY <1>2, <1>3, <2>1, HeadGoes DEF IsOurs, IsMls
  <2>3. f = e
    BY <1>2, <1>3, <1>5, <2>1, <2>2, HeadGoes
  <2> QED
    BY <2>1, <2>3
<1>9. Continues(call[p].log, a.payload)
  BY <1>1, <1>2, <1>4, <1>5, <1>8, NextContinues
<1> QED
  BY <1>1, <1>4, <1>9

(* Who handles an event misses no Commit. *)
LEMMA HandlingKeepsUp ==
  ASSUME CallInv, Chained, OneFounder, NEW p \in Peer, KeptUp(p), OwnSession(p),
         inbox[p] # <<>>, Handle(p, Head(inbox[p]))
  PROVE  KeptUp(p)'
<1> SUFFICES ASSUME InSession(p)', NEW a \in accepted', Ours(a)', Due(p, a.epoch)'
             PROVE  /\ (HasTree(p) \/ Pending(p))' /\ Epoch(call'[p].log) <= a.epoch =>
                         Confirmed(p, a)' \/ OnItsWay(p, a.epoch)'
                    /\ Awaiting(call'[p]) => \A w \in Mail(p)' :
                         w.name = "e2eeWelcome" /\ w.group = session' /\ w.epoch < a.epoch
                         => OnItsWay(p, a.epoch)'
  BY DEF KeptUp
<1>1. PICK e : e = Head(inbox[p])
  OBVIOUS
<1>2. /\ Receive(p) /\ InCall(p) /\ task[p] = Idle
      /\ StaysPut(p, e) \/ Applies(p, e) \/ TakesWelcome(p, e) \/ StartsAgain(p, e)
  BY <1>1, HandleMoves DEF HandlerMoves, Take
<1>3. UNCHANGED <<status, session, groups, accepted>>
  BY <1>2 DEF Receive
<1>4. /\ e \in Mail(p) /\ Mail(p)' \subseteq Mail(p) /\ Mail(p) \subseteq Mail(p)' \cup {e}
      /\ \A f \in Mail(p)' : IsMls(e) /\ IsMls(f) /\ e.group = session /\ f.group = session =>
           IF f.name = "e2eeCommit" THEN e.epoch < f.epoch ELSE e.epoch <= f.epoch
  BY <1>1, <1>2, HeadGoes
<1>5. /\ a \in accepted /\ Ours(a) /\ a.epoch \in Nat /\ Due(p, a.epoch)
      /\ call'[p].group = session /\ ~ Confirmed(p, a)
  BY <1>2, <1>3, <1>4, OursAreClosed DEF Ours, Due, IsOurs, InSession, Confirmed, Idle
<1>6. ASSUME NEW f \in Mail(p), IsOurs(f), f.epoch = a.epoch, f # e
      PROVE  OnItsWay(p, a.epoch)'
  BY <1>3, <1>4, <1>6 DEF OnItsWay, IsOurs
<1>7. Len(call[p].log) \in Nat /\ (Awaiting(call[p]) <=> Len(call[p].log) = 0)
  BY <1>2, Handling
<1>8. CASE StaysPut(p, e)
  <2>1. /\ InSession(p) /\ SameLog(call[p], call'[p]) /\ starts'[p] = starts[p]
        /\ (HasTree(p) \/ Pending(p))' => HasTree(p)
    BY <1>2, <1>5, <1>8 DEF StaysPut, SameLog, InSession, HasTree, Own, Awaiting
  <2>2. ASSUME HasTree(p), Epoch(call[p].log) <= a.epoch
        PROVE  OnItsWay(p, a.epoch)'
    <3>1. PICK f \in Mail(p) : IsOurs(f) /\ f.epoch = a.epoch
      BY <1>5, <2>1, <2>2 DEF KeptUp, OnItsWay
    <3>2. f # e
      BY <1>8, <2>1, <2>2, <3>1 DEF StaysPut, NextCommit, IsOurs, InSession
    <3> QED
      BY <1>6, <3>1, <3>2
  <2>3. ASSUME Awaiting(call'[p]), NEW w \in Mail(p)', w.name = "e2eeWelcome",
               w.group = session', w.epoch < a.epoch
        PROVE  OnItsWay(p, a.epoch)'
    <3>1. w \in Mail(p) /\ w.group = session /\ Awaiting(call[p])
      BY <1>3, <1>4, <2>1, <2>3 DEF SameLog, Awaiting
    <3>2. PICK f \in Mail(p) : IsOurs(f) /\ f.epoch = a.epoch
      BY <1>5, <2>1, <2>3, <3>1 DEF KeptUp, OnItsWay
    <3>3. w.epoch \in Nat /\ IsMls(w)
      BY <2>3, <3>1, OursIsSettled DEF IsMls
    <3>4. f # e
      <4> SUFFICES ASSUME f = e PROVE FALSE
        OBVIOUS
      <4>1. a.epoch <= w.epoch
        BY <1>4, <2>3, <3>1, <3>2, <3>3 DEF IsOurs, IsMls
      <4> QED
        BY <1>5, <2>3, <3>3, <4>1
    <3> QED
      BY <1>6, <3>2, <3>4
  <2> QED
    BY <2>1, <2>2, <2>3 DEF SameLog
<1>9. CASE Applies(p, e)
  <2>1. /\ InSession(p) /\ IsOurs(e) /\ HasTree(p) /\ call'[p].log = e.payload
        /\ Len(e.payload) = Len(call[p].log) + 1
    BY <1>2, <1>5, <1>9 DEF Applies, NextCommit, InSession, IsOurs, Continues
  <2>2. Len(e.payload) = e.epoch + 2 /\ e.epoch \in Nat
    <3>1. Announced(accepted, e)
      BY <1>4, <2>1 DEF CallInv, MailFits, FitEvent, IsOurs
    <3>2. PICK b \in accepted : b.epoch = e.epoch /\ b.payload = e.payload
      BY <3>1 DEF Announced
    <3> QED
      BY <3>2 DEF CallInv, AcceptedFit, IInv, TypeOK
  <2>3. ASSUME Epoch(call'[p].log) <= a.epoch PROVE OnItsWay(p, a.epoch)'
    <3>1. a.epoch > e.epoch /\ Epoch(call[p].log) <= a.epoch
      BY <1>5, <1>7, <2>1, <2>2, <2>3 DEF Epoch
    <3>2. PICK f \in Mail(p) : IsOurs(f) /\ f.epoch = a.epoch
      BY <1>5, <2>1, <3>1 DEF KeptUp, OnItsWay
    <3> QED
      BY <1>6, <2>2, <3>1, <3>2
  <2>4. ~ Awaiting(call'[p])
    BY <1>7, <2>1, EmptySeq DEF Awaiting
  <2> QED
    BY <2>3, <2>4
<1>10. CASE TakesWelcome(p, e)
  <2>1. /\ InSession(p) /\ e.name = "e2eeWelcome" /\ e.group = session /\ Awaiting(call[p])
        /\ call'[p].log = Welcomed(e)
    BY <1>2, <1>5, <1>10 DEF TakesWelcome, InSession
  <2>2. Len(Welcomed(e)) = e.epoch + 2 /\ e.epoch \in Nat
    <3>1. PICK i \in DOMAIN inbox[p] : e = inbox[p][i]
      BY <1>4 DEF Mail, Elems
    <3> QED
      BY <1>4, <2>1, <3>1, WelcomedFits, OursIsSettled DEF IsMls
  <2>3. ASSUME Epoch(call'[p].log) <= a.epoch PROVE OnItsWay(p, a.epoch)'
    <3>1. e.epoch < a.epoch
      BY <1>5, <2>1, <2>2, <2>3 DEF Epoch
    <3>2. PICK f \in Mail(p) : IsOurs(f) /\ f.epoch = a.epoch
      BY <1>4, <1>5, <2>1, <3>1 DEF KeptUp, OnItsWay
    <3> QED
      BY <1>6, <2>1, <3>2 DEF IsOurs
  <2>4. ~ Awaiting(call'[p])
    BY <2>1, <2>2, EmptySeq DEF Awaiting
  <2> QED
    BY <2>3, <2>4
<1>11. CASE StartsAgain(p, e)
  BY <1>1, <1>2, <1>5, <1>11, NobodyStartsAgain
<1> QED
  BY <1>2, <1>8, <1>9, <1>10, <1>11

(* Nor does who hears the answer to a Commit of its own. *)
LEMMA AnsweringKeepsUp ==
  ASSUME CallInv, NEW p \in Peer, HearAnswer(p), Staged(p), KeptUp(p)
  PROVE  KeptUp(p)'
<1> SUFFICES ASSUME InSession(p)', NEW a \in accepted', Ours(a)', Due(p, a.epoch)'
             PROVE  /\ Epoch(call'[p].log) <= a.epoch => Confirmed(p, a)' \/ OnItsWay(p, a.epoch)'
                    /\ ~ Awaiting(call'[p])
  BY DEF KeptUp
<1>1. /\ InCall(p) /\ Pending(p) /\ UNCHANGED relayVars /\ call'[p].group = call[p].group
      /\ Len(call[p].log) \in Nat /\ Len(call[p].log) >= 1
      /\ IF task[p].step = "accepted"
         THEN call'[p].log = task[p].log /\ Len(task[p].log) = Len(call[p].log) + 1
         ELSE call'[p].log = call[p].log
  BY AnswerMoves
<1>2. /\ UNCHANGED <<status, session, inbox, accepted>> /\ InSession(p)
      /\ a \in accepted /\ Ours(a) /\ Due(p, a.epoch)
  BY <1>1 DEF relayVars, InSession, Ours, Due, IsOurs, Mail
<1>3. a.epoch \in Nat /\ Len(a.payload) = a.epoch + 2
  BY <1>2, OursAreClosed DEF CallInv, AcceptedFit
<1>4. PICK n \in Nat, m \in Nat :
        n = Len(call'[p].log) /\ m = Len(call[p].log) /\ m <= n /\ n # 0
  <2>1. PICK m \in Nat : m = Len(call[p].log) /\ m >= 1
    BY <1>1
  <2>2. Len(call'[p].log) = m + 1 \/ Len(call'[p].log) = m
    BY <1>1, <2>1
  <2>3. PICK n \in {m, m + 1} : n = Len(call'[p].log)
    BY <2>2
  <2>4. n \in Nat /\ m <= n /\ n # 0
    BY <2>1, <2>3
  <2> QED
    BY <2>1, <2>3, <2>4
<1>5. ~ Awaiting(call'[p])
  BY <1>4, EmptySeq DEF Awaiting
<1>6. ASSUME Epoch(call'[p].log) <= a.epoch PROVE OnItsWay(p, a.epoch)'
  <2>1. Epoch(call[p].log) <= a.epoch
    <3>1. n - 1 <= a.epoch
      BY <1>4, <1>6 DEF Epoch
    <3>2. PICK k \in Nat : k = a.epoch
      BY <1>3
    <3>3. m - 1 <= k
      BY <1>4, <3>1, <3>2
    <3> QED
      BY <1>4, <3>2, <3>3 DEF Epoch
  <2>2. ~ Confirmed(p, a)
    <3> SUFFICES ASSUME Confirmed(p, a) PROVE FALSE
      OBVIOUS
    <3>1. Len(call'[p].log) = a.epoch + 2
      BY <1>1, <1>3 DEF Confirmed
    <3> QED
      BY <1>3, <1>6, <3>1 DEF Epoch
  <2>3. OnItsWay(p, a.epoch)
    BY <1>1, <1>2, <2>1, <2>2 DEF KeptUp
  <2> QED
    BY <1>2, <2>3 DEF OnItsWay, IsOurs, Mail
<1> QED
  BY <1>5, <1>6

(* Who enters a room with nobody else of its account replaces nobody. *)
LEMMA NobodyReplaced ==
  ASSUME OneDevice, NEW p \in Peer
  PROVE  Others(p) = {}
BY DEF Others, InRoom, OneDevice

(* Who comes in awaits its Welcome, and everyone else is where it was. *)
LEMMA EnterMoves ==
  ASSUME OneDevice, CallInv, NEW p \in Peer, Enter(p)
  PROVE  /\ \A q \in Peer \ {p} : status'[q] = status[q]
         /\ \A q \in Peer \ {p} : call'[q] = call[q] \/ call'[q] = NoCall
         /\ sid' = [sid EXCEPT ![p] = session'] /\ accepted' = accepted
         /\ call'[p].group = session' /\ ~ Pending(p)'
         /\ session' = session => Awaiting(call'[p])
<1>1. /\ Join(p, {}) /\ Mint({}) /\ status[p] = "unborn"
      /\ status' = [q \in Peer |-> IF q = p THEN "here"
                                   ELSE IF q \in {} \cup Others(p) THEN Dismissed(q) ELSE status[q]]
      /\ sid' = [sid EXCEPT ![p] = session'] /\ accepted' = accepted
  BY DEF Enter, Join
<1>2. \A q \in Peer \ {p} : status'[q] = status[q]
  BY <1>1, NobodyReplaced
<1>3. PICK others : others = {q \in Peer : status'[q] = "here"} \ {p}
  OBVIOUS
<1>4. /\ call'[p] = Started(p, 1, session', others = {})
      /\ \A q \in Peer \ {p} : call'[q] = call[q] \/ call'[q] = NoCall
      /\ task'[p] = IF others # {} THEN [step |-> "enter"]
                    ELSE IF status'[p] = "gone" THEN Idle ELSE task[p]
  BY <1>3 DEF Enter
<1>5. ~ Pending(p)'
  <2>1. ~ InCall(p)
    BY <1>1 DEF CallInv, ClientFits, FitSeat
  <2>2. ~ Pending(p)
    BY <2>1, PendingInCall
  <2>3. task'[p].step \notin {"commit", "accepted", "refused"}
    BY <1>4, <2>2 DEF Pending, Idle
  <2> QED
    BY <2>3 DEF Pending
<1>6. ASSUME session' = session PROVE Awaiting(call'[p])
  <2>1. session \in Nat
    BY DEF CallInv, IInv, TypeOK
  <2>2. PICK q \in Peer : status[q] = "here"
    BY <1>1, <1>6, <2>1 DEF Mint, Active
  <2>3. q \in others
    BY <1>1, <1>2, <1>3, <2>2
  <2>4. call'[p].log = <<>>
    BY <1>4, <2>3 DEF Started
  <2> QED
    BY <2>4 DEF Awaiting
<1>7. call'[p].group = session'
  BY <1>4 DEF Started
<1> QED
  BY <1>1, <1>2, <1>4, <1>5, <1>6, <1>7

LEMMA EnteringKeepsUp ==
  ASSUME MlsIsPayload, OneDevice, CallInv, SocketsUp, drops = 0, drops' = 0, fails' = fails,
         NEW p \in Peer, Enter(p), \A q \in Peer : KeptUp(q)
  PROVE  \A q \in Peer : KeptUp(q)'
<1>1. Runs(p) \/ Befalls(p)
  BY DEF Befalls
<1>2. CASE session' # session
  <2>1. \A a \in accepted' : ~ Ours(a)'
    BY <1>1, <1>2, SessionOrNew DEF CallNext
  <2> QED
    BY <2>1 DEF KeptUp
<1>3. ASSUME session' = session, NEW q \in Peer, q # p PROVE KeptUp(q)'
  <2>1. Keeps(q) /\ KeepsAnswer(q)
    <3>1. ~ RequestFails(p) /\ ~ AnswerFails(p)
      BY NobodyDrops, NobodyGivesUp
    <3> QED
      BY <1>1, <1>3, <3>1, StepKeepsCalls
  <2>2. InCall(q)' => Mail(q) \subseteq Mail(q)'
    BY <1>1, <1>3, MailStays
  <2>3. status'[q] = status[q]
    BY <1>3, EnterMoves
  <2> QED
    BY <1>1, <1>3, <2>1, <2>2, <2>3, StayingKeepsUp
<1>4. ASSUME session' = session PROVE KeptUp(p)'
  <2>1. Awaiting(call'[p]) /\ ~ Pending(p)'
    BY <1>4, EnterMoves
  <2>2. ~ HasTree(p)'
    BY <2>1 DEF HasTree
  <2>3. \A w \in Mail(p)' : w.name # "e2eeWelcome"
    <3>1. Join(p, {}) /\ TypeOK
      BY DEF Enter, CallInv, IInv
    <3>2. Mail(p)' \subseteq {[name |-> "peerLeft", peer |-> o] : o \in Others(p)}
      BY <3>1, JoinNews
    <3> QED
      BY <3>2
  <2> QED
    BY <2>1, <2>2, <2>3 DEF KeptUp
<1> QED
  BY <1>2, <1>3, <1>4

(* Nobody founds a group who was in the room already. *)
LEMMA FoundersStay ==
  ASSUME CallInv, SocketsUp, drops = 0, drops' = 0, fails' = fails, Chained, OneFounder,
         \A q \in Peer : Staged(q) /\ KeptUp(q) /\ OwnSession(q),
         NEW p \in Peer, Runs(p) \/ Befalls(p), ~ Enter(p), NEW q \in Peer
  PROVE  /\ OwnSession(q)'
         /\ InSession(q)' /\ Len(call'[q].log) = 1 => InSession(q) /\ call'[q].log = call[q].log
<1>1. session' = session /\ sid'[q] = sid[q]
  BY OthersStay DEF StayMoves
<1>2. CASE q # p \/ ~ Decides(p)
  <2>1. Keeps(q)
    BY <1>2, StepKeepsCalls
  <2> QED
    BY <1>1, <2>1 DEF Keeps, OwnSession, InSession, SameLog
<1>3. CASE q = p /\ inbox[p] # <<>> /\ Handle(p, Head(inbox[p]))
  <2>1. PICK e : e = Head(inbox[p])
    OBVIOUS
  <2>2. /\ Receive(p) /\ InCall(p) /\ task[p] = Idle
        /\ StaysPut(p, e) \/ Applies(p, e) \/ TakesWelcome(p, e) \/ StartsAgain(p, e)
    BY <1>3, <2>1, HandleMoves DEF HandlerMoves, Take
  <2>3. e \in Mail(p)
    BY <1>3, <2>1, <2>2, HeadGoes
  <2>4. CASE StaysPut(p, e)
    BY <1>1, <1>3, <2>2, <2>4 DEF StaysPut, SameLog, OwnSession, InSession
  <2>5. CASE Applies(p, e)
    <3>1. Len(e.payload) # 1
      <4>1. Announced(accepted, e)
        BY <2>3, <2>5 DEF CallInv, MailFits, FitEvent, Applies, NextCommit
      <4>2. e.payload \in Seq(Entry) /\ Len(e.payload) >= 2
        BY <4>1, CommitFits
      <4>3. PICK log \in Seq(Entry) : log = e.payload
        BY <4>2
      <4>4. PICK n \in Nat : n = Len(log)
        BY LenProperties
      <4>5. n >= 2
        BY <4>2, <4>3, <4>4
      <4>6. n # 1
        BY <4>5
      <4> QED
        BY <4>3, <4>4, <4>6
    <3>2. /\ InCall(p) /\ call'[p].log = e.payload /\ call'[p].group = call[p].group
      BY <2>2, <2>5 DEF Applies
    <3> QED
      BY <1>1, <1>3, <3>1, <3>2 DEF OwnSession, InSession
  <2>6. CASE TakesWelcome(p, e)
    <3>1. Len(Welcomed(e)) # 1
      <4>1. Welcomed(e) \in Seq(Entry) /\ Len(Welcomed(e)) >= 2
        BY <1>3, <2>1, <2>6, HeadWelcomed DEF TakesWelcome
      <4>2. PICK log \in Seq(Entry) : log = Welcomed(e)
        BY <4>1
      <4>3. PICK n \in Nat : n = Len(log)
        BY LenProperties
      <4>4. n >= 2
        BY <4>1, <4>2, <4>3
      <4>5. n # 1
        BY <4>4
      <4> QED
        BY <4>2, <4>3, <4>5
    <3>2. /\ InCall(p) /\ call'[p].log = Welcomed(e) /\ call'[p].group = call[p].group
      BY <2>2, <2>6 DEF TakesWelcome
    <3> QED
      BY <1>1, <1>3, <3>1, <3>2 DEF OwnSession, InSession
  <2>7. CASE StartsAgain(p, e)
    <3>1. call'[p].group # session
      BY <1>3, <2>1, <2>2, <2>7, NobodyStartsAgain
    <3> QED
      BY <1>1, <1>3, <2>7, <3>1 DEF StartsAgain, OwnSession, InSession
  <2> QED
    BY <2>2, <2>4, <2>5, <2>6, <2>7
<1>4. CASE q = p /\ HearAnswer(p)
  <2>1. /\ InCall(p) /\ call'[p].group = call[p].group
        /\ Len(call[p].log) \in Nat /\ Len(call[p].log) >= 1
        /\ IF task[p].step = "accepted"
           THEN call'[p].log = task[p].log /\ Len(task[p].log) = Len(call[p].log) + 1
           ELSE call'[p].log = call[p].log
    BY <1>4, AnswerMoves
  <2>2. Len(call'[p].log) = 1 => call'[p].log = call[p].log
    <3>1. PICK n \in Nat : n = Len(call[p].log) /\ n + 1 # 1
      BY <2>1
    <3> QED
      BY <2>1, <3>1
  <2> QED
    BY <1>1, <1>4, <2>1, <2>2 DEF OwnSession, InSession
<1> QED
  BY <1>2, <1>3, <1>4 DEF Decides

LEMMA FounderKeeps ==
  ASSUME MlsIsPayload, CallInv, SocketsUp, drops = 0, drops' = 0, fails' = fails, Chained, OneFounder,
         \A q \in Peer : Staged(q) /\ KeptUp(q) /\ OwnSession(q),
         NEW p \in Peer, Runs(p) \/ Befalls(p), ~ Enter(p)
  PROVE  OneFounder'
<1> SUFFICES ASSUME NEW q \in Peer, InSession(q)', Len(call'[q].log) = 1
             PROVE  /\ \A r \in Peer : InSession(r)' /\ Len(call'[r].log) = 1 => r = q
                    /\ \A a \in accepted' : Ours(a)' /\ a.epoch = 0
                         => Continues(call'[q].log, a.payload)
  BY DEF OneFounder
<1>1. /\ session' = session
      /\ \A r \in Peer : InSession(r)' /\ Len(call'[r].log) = 1
                           => InSession(r) /\ call'[r].log = call[r].log
  BY OthersStay, FoundersStay
<1>2. InSession(q) /\ Len(call[q].log) = 1 /\ call'[q].log = call[q].log
  BY <1>1
<1>3. \A r \in Peer : InSession(r)' /\ Len(call'[r].log) = 1 => r = q
  BY <1>1, <1>2 DEF OneFounder
<1>4. ASSUME NEW a \in accepted', Ours(a)', a.epoch = 0
      PROVE  Continues(call'[q].log, a.payload)
  <2>1. CASE a \in accepted
    BY <1>1, <1>2, <1>4, <2>1 DEF OneFounder, Ours
  <2>2. CASE a \notin accepted
    <3>1. Closes(p, a)
      BY <1>4, <2>2, WhoCloses
    <3>2. /\ InCall(p) /\ Pending(p) /\ a.group = call[p].group /\ a.epoch = Epoch(call[p].log)
          /\ a.payload = task[p].log /\ call[p].group = session
      BY <1>1, <1>4, <3>1 DEF Closes, Decision, Ours
    <3>3. Len(call[p].log) = 1
      <4>1. PICK n \in Nat : n = Len(call[p].log)
        BY <3>2, Handling
      <4>2. n - 1 = 0
        BY <1>4, <3>2, <4>1 DEF Epoch
      <4> QED
        BY <4>1, <4>2
    <3>4. p = q
      BY <1>2, <3>2, <3>3 DEF OneFounder, InSession
    <3> QED
      BY <1>2, <3>2, <3>4 DEF Staged
  <2> QED
    BY <2>1, <2>2
<1> QED
  BY <1>3, <1>4

LEMMA EnteringFounds ==
  ASSUME MlsIsPayload, OneDevice, CallInv, OneFounder, \A q \in Peer : OwnSession(q),
         NEW p \in Peer, Enter(p)
  PROVE  OneFounder' /\ \A q \in Peer : OwnSession(q)'
<1>1. /\ \A q \in Peer \ {p} : call'[q] = call[q] \/ call'[q] = NoCall
      /\ sid' = [sid EXCEPT ![p] = session'] /\ accepted' = accepted
      /\ call'[p].group = session'
      /\ session' = session => Awaiting(call'[p])
  BY EnterMoves
<1>2. ASSUME NEW q \in Peer \ {p}, InCall(q)' PROVE InCall(q) /\ call'[q] = call[q]
  BY <1>1, <1>2 DEF InCall, NoCall
<1>3. \A q \in Peer : OwnSession(q)'
  <2>1. \A q \in Peer : sid'[q] = IF q = p THEN session' ELSE sid[q]
    BY <1>1 DEF CallInv, CallShape
  <2> QED
    BY <1>1, <1>2, <2>1 DEF OwnSession
<1>4. CASE session' = session
  <2>1. \A q \in Peer : InSession(q)' /\ Len(call'[q].log) = 1 =>
          q # p /\ InSession(q) /\ call'[q].log = call[q].log
    <3>1. Len(call'[p].log) # 1
      BY <1>1, <1>4, EmptySeq DEF Awaiting
    <3> QED
      BY <1>2, <1>4, <3>1 DEF InSession
  <2> QED
    BY <1>1, <1>3, <1>4, <2>1 DEF OneFounder, Ours
<1>5. CASE session' # session
  <2>1. session \in Nat /\ session' = session + 1 /\ \A a \in accepted' : ~ Ours(a)'
    BY <1>5, SessionOrNew DEF CallNext, Befalls, CallInv, IInv, TypeOK
  <2>2. \A q \in Peer \ {p} : ~ InSession(q)'
    <3> SUFFICES ASSUME NEW q \in Peer \ {p}, InSession(q)' PROVE FALSE
      OBVIOUS
    <3>1. InCall(q) /\ call[q].group = session'
      BY <1>2 DEF InSession
    <3>2. call[q].group \in 1..session
      BY <3>1, Handling
    <3> QED
      BY <2>1, <3>1, <3>2
  <2> QED
    BY <1>3, <2>1, <2>2 DEF OneFounder
<1> QED
  BY <1>3, <1>4, <1>5

-----------------------------------------------------------------------------
(* Nothing is missed *)

LEMMA TroubleGrows ==
  ASSUME CallInv, NEW p \in Peer, Runs(p) \/ Befalls(p)
  PROVE  /\ drops' = 0 => drops = 0
         /\ fails' = 0 => fails = 0
<1>1. drops \in Nat /\ fails \in Nat
  BY CallAssumption DEF CallInv, CallShape
<1>2. (drops' = drops \/ drops' = drops + 1) /\ (fails' = fails \/ fails' = fails + 1)
  BY DEF Runs, Befalls, Handle, HandleRoster, HandlePeerLeft, HandleKeyPackage, HandleCommit,
     HandleWelcome, HandleRejoined, Take, AskToJoin, SendCommit, HearAnswer, SendWelcome, Asks,
     RequestFails, AnswerFails, Stop, Notice, callVars, Enter, Drop, Reconnect, Exit, Expel, Expire
<1> QED
  BY <1>1, <1>2

LEMMA EveryoneKeepsUp ==
  ASSUME MlsIsPayload, OneDevice, CallInv, SocketsUp, drops = 0, drops' = 0, fails' = fails, Chained, OneFounder,
         \A q \in Peer : Staged(q) /\ KeptUp(q) /\ OwnSession(q),
         NEW p \in Peer, Runs(p) \/ Befalls(p)
  PROVE  \A q \in Peer : KeptUp(q)'
<1>1. CASE Enter(p)
  BY <1>1, EnteringKeepsUp
<1>2. ASSUME ~ Enter(p), NEW q \in Peer PROVE KeptUp(q)'
  <2>1. CASE q = p /\ inbox[p] # <<>> /\ Handle(p, Head(inbox[p]))
    BY <2>1, HandlingKeepsUp
  <2>2. CASE q = p /\ HearAnswer(p)
    BY <2>2, AnsweringKeepsUp
  <2>3. CASE q # p \/ ~ Decides(p)
    <3>1. Keeps(q) /\ KeepsAnswer(q)
      BY <2>3, NobodyDrops, NobodyGivesUp, StepKeepsCalls
    <3>2. InCall(q)' => Mail(q) \subseteq Mail(q)'
      BY <2>3, MailStays DEF Decides
    <3>3. session' = session /\ (status'[q] = "here" => status[q] = "here")
      <4>1. /\ session' = session /\ \A r \in Peer : r \in InRoom' => r \in InRoom
            /\ InRoom = Active
        BY <1>2, OthersStay, NobodyDrops
      <4> QED
        BY <4>1 DEF InRoom, Active
    <3> QED
      BY <3>1, <3>2, <3>3, StayingKeepsUp
  <2> QED
    BY <1>2, <2>1, <2>2, <2>3 DEF Decides
<1> QED
  BY <1>1, <1>2

LEMMA SettledKeeps ==
  ASSUME MlsIsPayload, OneDevice, CallInv, NothingLost, SettledInv, [CallNext]_vars
  PROVE  SettledInv'
<1>1. \A q \in Peer : Staged(q)'
  BY StagedKeeps DEF SettledInv
<1>2. Chained'
  BY ChainedKeeps DEF SettledInv
<1>3. CASE UNCHANGED vars
  <2>1. UNCHANGED <<status, session, inbox, accepted, sid, call, task, starts, drops, fails>>
    BY <1>3 DEF vars, relayVars, callVars
  <2>2. Unbroken' => OneFounder'
    BY <2>1 DEF SettledInv, Unbroken, OneFounder, InSession, InCall, Ours
  <2>3. Unbroken' => \A q \in Peer : OwnSession(q)'
    BY <2>1 DEF SettledInv, Unbroken, OwnSession, InCall
  <2>4. ASSUME Unbroken', NEW q \in Peer PROVE KeptUp(q)'
    <3>1. KeptUp(q)
      BY <2>1, <2>4 DEF SettledInv, Unbroken
    <3> QED
      BY <2>1, <3>1 DEF KeptUp, InSession, InCall, Ours, Due, Mail, IsOurs, HasTree, Awaiting, Own,
         Pending, Confirmed, OnItsWay
  <2> QED
    BY <1>1, <1>2, <2>2, <2>3, <2>4 DEF SettledInv
<1>4. ASSUME NEW p \in Peer, Runs(p) \/ Befalls(p), Unbroken'
      PROVE  OneFounder' /\ \A q \in Peer : KeptUp(q)' /\ OwnSession(q)'
  <2>1. /\ drops = 0 /\ drops' = 0 /\ fails' = fails
        /\ SocketsUp /\ Chained /\ OneFounder
        /\ \A q \in Peer : Staged(q) /\ KeptUp(q) /\ OwnSession(q)
    BY <1>4, TroubleGrows DEF SettledInv, Unbroken, NothingLost
  <2>2. \A q \in Peer : KeptUp(q)'
    BY <1>4, <2>1, EveryoneKeepsUp
  <2>3. OneFounder' /\ \A q \in Peer : OwnSession(q)'
    <3>1. CASE Enter(p)
      BY <2>1, <3>1, EnteringFounds
    <3>2. CASE ~ Enter(p)
      BY <1>4, <2>1, <3>2, FounderKeeps, FoundersStay
    <3> QED
      BY <3>1, <3>2
  <2> QED
    BY <2>2, <2>3
<1>5. CASE ~ UNCHANGED vars
  <2>1. PICK p \in Peer : Runs(p) \/ Befalls(p)
    BY <1>5 DEF CallNext
  <2> QED
    BY <1>1, <1>2, <1>4, <2>1 DEF SettledInv
<1> QED
  BY <1>3, <1>5

(* With one device to an account, and as long as no socket is lost and no    *)
(* request fails, the Commits of the room's session are made one from the    *)
(* other, and nobody misses the one it has to apply next (handle_e2ee_event, *)
(* room.rs).                                                                 *)
THEOREM SettledInvariant ==
  ASSUME MlsIsPayload, OneDevice
  PROVE  CallSpec => []SettledInv
<1>1. CallInit => SettledInv
  <2> SUFFICES ASSUME CallInit PROVE SettledInv
    OBVIOUS
  <2>1. \A p \in Peer : ~ InCall(p) /\ ~ Pending(p)
    BY DEF CallInit, InCall, NoCall, Pending, Idle
  <2>2. accepted = {}
    BY DEF CallInit, Init
  <2> QED
    BY <2>1, <2>2 DEF SettledInv, Staged, Chained, OneFounder, KeptUp, OwnSession, InSession
<1>2. CallInv /\ NothingLost /\ SettledInv /\ [CallNext]_vars => SettledInv'
  BY SettledKeeps
<1> QED
  BY <1>1, <1>2, CallInvariant, NothingLostInvariant, PTL DEF CallSpec

(* When nothing is on its way, whoever has a tree has applied every Commit. *)
LEMMA CalmHasAll ==
  ASSUME CallInv, NothingLost, SettledInv, Calm, NEW p \in Active, HasTree(p)
  PROVE  /\ p \in Peer /\ p \in Seated /\ call[p].group = session
         /\ Epoch(call[p].log) \in Nat
         /\ \A a \in accepted : Ours(a) => a.epoch < Epoch(call[p].log)
<1>1. p \in Peer /\ status[p] = "here" /\ p \in InRoom
  BY DEF Active, InRoom
<1>2. InCall(p) /\ inbox[p] = <<>> /\ task[p] = Idle /\ drops = 0 /\ Unbroken
  BY <1>1 DEF Calm, Quiet, Unbroken
<1>3. call[p].group = session /\ InSession(p) /\ p \in Seated
  BY <1>1, <1>2 DEF NothingLost, OneSession, InSession, Seated
<1>4. Epoch(call[p].log) \in Nat
  <2>1. PICK n \in Nat : n = Len(call[p].log) /\ n # 0
    BY <1>1, <1>2, Handling DEF HasTree
  <2>2. n - 1 \in Nat
    BY <2>1
  <2> QED
    BY <2>1, <2>2 DEF Epoch
<1>5. ASSUME NEW a \in accepted, Ours(a) PROVE a.epoch < Epoch(call[p].log)
  <2>1. a.epoch \in Nat /\ Due(p, a.epoch)
    BY <1>1, <1>5, OursAreClosed DEF Due
  <2>2. ~ Confirmed(p, a)
    BY <1>2 DEF Confirmed, Idle
  <2>3. ~ OnItsWay(p, a.epoch)
    BY <1>2, EmptySeq DEF OnItsWay, Mail, Elems
  <2>4. ~ (Epoch(call[p].log) <= a.epoch)
    BY <1>1, <1>2, <1>3, <1>5, <2>1, <2>2, <2>3 DEF SettledInv, KeptUp
  <2> QED
    BY <1>4, <2>1, <2>4
<1> QED
  BY <1>1, <1>3, <1>4, <1>5

(* addPeer (Room.ts): with an old epoch kept at the relay the Commits of a  *)
(* new group "were refused as stale and nobody else came in"; once the dust *)
(* settles, whoever has a tree is in the epoch the relay waits for, unless  *)
(* a socket was lost or a request failed.                                   *)
THEOREM EveryoneInStep ==
  ASSUME MlsIsPayload, OneDevice
  PROVE  CallSpec => []InStepWithRelay
<1>1. CallInv /\ NothingLost /\ SettledInv /\ NobodyAhead => InStepWithRelay
  <2> SUFFICES ASSUME CallInv, NothingLost, SettledInv, NobodyAhead, Calm,
                      NEW p \in Active, HasTree(p), call[p].group = session
               PROVE  Epoch(call[p].log) = groups[session].currentEpoch
    BY DEF InStepWithRelay
  <2>1. PICK n \in Nat : n = Epoch(call[p].log)
    BY CalmHasAll
  <2>2. p \in Seated /\ p \in Peer /\ \A a \in accepted : Ours(a) => a.epoch < n
    BY <2>1, CalmHasAll
  <2>3. session \in Group /\ groups[session].currentEpoch \in Nat
    <3>1. session \in Group
      BY <2>2, Handling DEF Seated
    <3> QED
      BY <3>1 DEF CallInv, IInv, TypeOK, GroupState
  <2>4. n <= groups[session].currentEpoch
    BY <2>1, <2>2 DEF NobodyAhead
  <2>5. ~ (n < groups[session].currentEpoch)
    <3> SUFFICES ASSUME n < groups[session].currentEpoch PROVE FALSE
      OBVIOUS
    <3>1. n \in 0..(groups[session].currentEpoch - 1)
      BY <2>3
    <3>2. PICK a \in accepted : Ours(a) /\ a.epoch = n
      BY <2>3, <3>1 DEF CallInv, IInv, RelayInv, HistoryAgrees, Ours
    <3> QED
      BY <2>2, <3>2
  <2> QED
    BY <2>1, <2>3, <2>4, <2>5
<1> QED
  BY <1>1, CallInvariant, NothingLostInvariant, SettledInvariant, NoneAhead, PTL

(* acceptE2eeCommit (Room.ts), "retaining a digest makes a lost reply       *)
(* idempotent": the author of an accepted Commit ends up applying it.       *)
THEOREM AuthorsApply ==
  ASSUME MlsIsPayload, OneDevice
  PROVE  CallSpec => []AuthorApplies
<1>1. CallInv /\ NothingLost /\ SettledInv => AuthorApplies
  <2> SUFFICES ASSUME CallInv, NothingLost, SettledInv, Calm, NEW p \in Active,
                      NEW a \in accepted, HasTree(p), a.group = call[p].group
               PROVE  a.epoch < Epoch(call[p].log)
    BY DEF AuthorApplies
  <2>1. a.group = session
    BY CalmHasAll
  <2>2. a.life = session
    BY <2>1 DEF CallInv, AcceptedFit, IInv, TypeOK, RelayInv, HistoryAgrees
  <2> QED
    BY <2>1, <2>2, CalmHasAll DEF Ours
<1> QED
  BY <1>1, CallInvariant, NothingLostInvariant, SettledInvariant, PTL

-----------------------------------------------------------------------------
(* Nobody who stayed is taken out *)

(* The identity of whoever never started again. *)
First(q) == <<q, 1>>

(* The identities there may be: of those in the room the first one only. *)
Entered == {m \in Member : status[m[1]] # "unborn" /\ (m[1] \in InRoom => m[2] = 1)}

(* The members of the group after log, if that is one. *)
Roll(log) == IF log = <<>> THEN {} ELSE Members(log)

Joins(e, q) == e.name = "peerJoined" /\ e.peer = q

(* Event e names q to whoever hears it, when acc was accepted. *)
Shows(acc, e, q) ==
  \/ e.name = "e2eeJoinRequested" /\ e.peer = q
  \/ IsMls(e) /\ \E a \in acc : /\ a.life = e.life /\ a.group = e.group /\ a.epoch = e.epoch
                                /\ First(q) \in Roll(a.payload)

(* Nothing in s names q before q is said to have come in. *)
Introduced(acc, s, q) ==
  \A j \in DOMAIN s : Shows(acc, s[j], q) => \E i \in DOMAIN s : i < j /\ Joins(s[i], q)

(* Nobody in the room started again. *)
Once == \A p \in InRoom : starts[p] = 1

NamesFit(c, ids) == \A q \in Peer : c.names[q] \subseteq {m \in ids : m[1] = q}

AsksFit(q) ==
  \A e \in Mail(q) : e.name = "e2eeJoinRequested" => e.payload \in Entered /\ e.payload[1] = e.peer

ClientEnrolled(p) ==
  /\ Roll(call[p].log) \subseteq Entered
  /\ NamesFit(call[p], Entered)
  /\ Pending(p) => Roll(task[p].log) \subseteq Entered
  /\ InCall(p) => AsksFit(p)

(* Whatever anybody holds or is told names those who came in. *)
Enrolled ==
  /\ \A a \in accepted : Roll(a.payload) \subseteq Entered
  /\ \A p \in Peer : ClientEnrolled(p)

Knows(p, q) ==
  \/ First(q) \in Roll(call[p].log)
  \/ Pending(p) /\ First(q) \in Roll(task[p].log)
  \/ call[p].names[q] # {}

(* Whom p knows by its leaf or its KeyPackage is in p's roster, and whoever *)
(* is not yet in it will be before p hears of either.                       *)
Meets(p) ==
  InSession(p) => \A q \in InRoom \ {p} :
    /\ q \in seen[p] \/ Introduced(accepted, inbox[p], q)
    /\ Knows(p, q) => q \in seen[p]

(* What p staged takes out nobody who is in the room. *)
Spares(p) ==
  InSession(p) /\ Pending(p) => \A q \in InRoom :
    First(q) \in Roll(call[p].log) => First(q) \in Roll(task[p].log)

(* Of two in the room each sees the other, or is about to hear of it. *)
Aware ==
  \A p, q \in InRoom : p # q => q \in seen[p] \/ \E e \in Mail(p) : Joins(e, q)

StayInv == Unbroken => Enrolled /\ Once /\ Aware /\ \A p \in Peer : Meets(p) /\ Spares(p)

-----------------------------------------------------------------------------
(* Whom a Commit adds and takes out *)

LEMMA SomeFirst ==
  ASSUME NEW T \in SUBSET Nat, T # {}
  PROVE  \E m \in T : \A k \in T : m <= k
<1>1. PICK m \in T : \A k \in T : ~ (<<k, m>> \in OpToRel(<, Nat))
  BY NatLessThanWellFounded, WFMin
<1>2. \A k \in T : <<k, m>> \in OpToRel(<, Nat) <=> k < m
  BY DEF OpToRel
<1>3. \A k \in T : ~ (k < m)
  BY <1>1, <1>2, Zenon
<1> QED
  BY <1>3

LEMMA MemberNotBlank ==
  ASSUME NEW m \in Member
  PROVE  m # Blank
<1>1. m \in Peer \X (1..MaxStarts)
  BY DEF Member
<1>2. Len(m) = 2
  BY <1>1
<1>3. Len(Blank) = 0
  BY EmptySeq DEF Blank
<1> QED
  BY <1>2, <1>3

(* The leaves of a tree. *)
Leaves(tree) == {tree[i] : i \in DOMAIN tree} \ {Blank}

LEMMA PlantedLeaves ==
  ASSUME NEW tree \in Seq(Member \cup {Blank}), NEW m \in Member
  PROVE  Leaves(Planted(tree, m)) = Leaves(tree) \cup {m}
<1> DEFINE S == Member \cup {Blank}
           blanks == {i \in DOMAIN tree : tree[i] = Blank}
<1>1. /\ Len(tree) \in Nat /\ DOMAIN tree = 1..Len(tree) /\ tree \in [1..Len(tree) -> S]
      /\ m \in S /\ m # Blank
  BY LenProperties, MemberNotBlank
<1>2. CASE blanks = {}
  <2>1. PICK next : next = Append(tree, m)
    OBVIOUS
  <2>2. /\ next \in Seq(S) /\ Len(next) = Len(tree) + 1
        /\ \A i \in 1..Len(tree) : next[i] = tree[i]
        /\ next[Len(tree) + 1] = m
    BY <1>1, <2>1, AppendProperties
  <2>3. DOMAIN next = DOMAIN tree \cup {Len(tree) + 1}
    <3>1. DOMAIN next = 1..Len(next)
      BY <2>2, LenProperties
    <3> QED
      BY <1>1, <2>2, <3>1
  <2>4. {next[i] : i \in DOMAIN next} = {tree[i] : i \in DOMAIN tree} \cup {m}
    BY <1>1, <2>2, <2>3
  <2>5. Planted(tree, m) = next
    BY <1>2, <2>1 DEF Planted
  <2> QED
    BY <1>1, <2>4, <2>5 DEF Leaves
<1>3. CASE blanks # {}
  <2>1. PICK k \in blanks : Planted(tree, m) = [tree EXCEPT ![k] = m]
    <3>1. \E i \in blanks : \A j \in blanks : i <= j
      <4>1. blanks \in SUBSET Nat
        BY <1>1
      <4> HIDE DEF blanks
      <4> QED
        BY <1>3, <4>1, SomeFirst
    <3>2. PICK k : k = CHOOSE i \in blanks : \A j \in blanks : i <= j
      OBVIOUS
    <3>3. k \in blanks
      BY <3>1, <3>2
    <3> QED
      BY <1>3, <3>2, <3>3 DEF Planted
  <2>2. PICK next : next = [tree EXCEPT ![k] = m]
    OBVIOUS
  <2>3. /\ k \in DOMAIN tree /\ tree[k] = Blank /\ DOMAIN next = DOMAIN tree
        /\ \A i \in DOMAIN tree : next[i] = IF i = k THEN m ELSE tree[i]
    BY <1>1, <2>2
  <2>4. Leaves(next) = Leaves(tree) \cup {m}
    BY <1>1, <2>3 DEF Leaves
  <2> QED
    BY <2>1, <2>2, <2>4
<1> QED
  BY <1>2, <1>3

LEMMA RollOfAppended ==
  ASSUME NEW log \in Seq(Entry), NEW e \in Entry
  PROVE  /\ Roll(Append(log, e)) = Leaves(e.tree)
         /\ log # <<>> => Roll(log) = Leaves(Tree(log))
<1>1. PICK next : next = Append(log, e)
  OBVIOUS
<1>2. PICK n \in Nat : n = Len(log)
  BY LenProperties
<1>3. next \in Seq(Entry) /\ Len(next) = n + 1 /\ next[n + 1] = e
  BY <1>1, <1>2, AppendProperties
<1>4. next # <<>>
  <2>1. n + 1 # 0
    BY <1>2
  <2> QED
    BY <1>3, <2>1, EmptySeq
<1>5. Tree(next) = e.tree
  BY <1>3 DEF Tree
<1> QED
  BY <1>1, <1>4, <1>5 DEF Roll, Members, Leaves

LEMMA AddingRoll ==
  ASSUME NEW log \in Seq(Entry), Len(log) >= 1, NEW by \in Member, NEW m \in Member
  PROVE  Roll(CommitAdding(log, by, m)) = Roll(log) \cup {m}
<1>1. PICK e : e = [by |-> by, tree |-> Planted(Tree(log), m)]
  OBVIOUS
<1>2. Tree(log) \in Seq(Member \cup {Blank}) /\ e \in Entry
  BY <1>1, TreeType, PlantedType DEF Entry
<1>3. log # <<>>
  BY EmptySeq
<1>4. Leaves(e.tree) = Leaves(Tree(log)) \cup {m}
  BY <1>1, <1>2, PlantedLeaves
<1>5. CommitAdding(log, by, m) = Append(log, e)
  BY <1>1 DEF CommitAdding
<1> QED
  BY <1>2, <1>3, <1>4, <1>5, RollOfAppended

LEMMA RemovingRoll ==
  ASSUME NEW log \in Seq(Entry), Len(log) >= 1, NEW by \in Member, NEW out
  PROVE  Roll(CommitRemoving(log, by, out)) = Roll(log) \ out
<1>1. PICK tree : tree = Tree(log)
  OBVIOUS
<1>2. PICK next : next = [i \in DOMAIN tree |-> IF tree[i] \in out THEN Blank ELSE tree[i]]
  OBVIOUS
<1>3. PICK e : e = [by |-> by, tree |-> next]
  OBVIOUS
<1>4. e \in Entry
  <2> DEFINE S == Member \cup {Blank}
  <2>1. /\ Len(tree) \in Nat /\ DOMAIN tree = 1..Len(tree)
        /\ \A i \in 1..Len(tree) : tree[i] \in S
    BY <1>1, TreeType, LenProperties, ElementOfSeq
  <2>2. Blank \in S
    OBVIOUS
  <2> HIDE DEF S
  <2>3. next \in [1..Len(tree) -> S]
    BY <1>2, <2>1, <2>2
  <2>4. next \in Seq(S)
    BY <2>1, <2>3, FunctionIsSeq
  <2> QED
    BY <1>3, <2>4 DEF Entry, S
<1>5. Leaves(next) = Leaves(tree) \ out
  BY <1>2 DEF Leaves
<1>6. log # <<>> /\ e.tree = next
  BY <1>3, EmptySeq
<1>7. CommitRemoving(log, by, out) = Append(log, e)
  BY <1>1, <1>2, <1>3 DEF CommitRemoving
<1> QED
  BY <1>1, <1>4, <1>5, <1>6, <1>7, RollOfAppended

LEMMA CreatedRoll ==
  ASSUME NEW m \in Member
  PROVE  Roll(Created(m)) \subseteq {m}
<1>1. PICK log : log = Created(m)
  OBVIOUS
<1>2. Len(log) = 1 /\ log[1] = [by |-> m, tree |-> <<m>>]
  BY <1>1 DEF Created
<1>3. Tree(log) = <<m>>
  BY <1>2 DEF Tree
<1>4. Members(log) \subseteq {m}
  BY <1>3 DEF Members
<1> QED
  BY <1>1, <1>4 DEF Roll

(* A device on the roster is not gone, whether or not a KeyPackage named it. *)
LEMMA SeenIsNotGone ==
  ASSUME NEW c, c.names \in [Peer -> SUBSET Member], NEW ids, NamesFit(c, ids),
         NEW q \in Peer, \A m \in ids : m[1] = q => m = First(q), NEW who, q \in who, NEW off
  PROVE  Presence(c, who, off, First(q)) # "gone"
<1>1. c.names[q] \subseteq {First(q)}
  BY DEF NamesFit
<1>2. First(q)[1] = q
  BY DEF First
<1>3. CASE Named(c, First(q)) = {}
  <2>1. c.names[q] = {}
    BY <1>1, <1>3 DEF Named
  <2>2. q \in {r \in who : c.names[r] = {} /\ AccountOf[r] = AccountOf[First(q)[1]]}
    BY <1>2, <2>1
  <2> QED
    BY <1>3, <2>2 DEF Presence
<1>4. CASE Named(c, First(q)) # {}
  <2>1. PICK r \in Peer : c.names[r] = {First(q)}
    BY <1>4 DEF Named
  <2>2. r = q
    BY <1>2, <2>1 DEF NamesFit
  <2>3. q \in Named(c, First(q)) \cap who
    BY <2>1, <2>2 DEF Named
  <2> QED
    BY <1>4, <2>3 DEF Presence
<1> QED
  BY <1>3, <1>4

LEMMA CleanedRoll ==
  ASSUME NEW p \in Peer, Own(p) \in Member, NEW c, c.log \in Seq(Entry), Len(c.log) >= 1,
         NEW who, NEW off, NEW next
  PROVE  Roll(StageRemoveGhosts(p, c, who, off, next).log) = Roll(c.log) \ Ghosts(c, who, off)
<1>1. StageRemoveGhosts(p, c, who, off, next).log
        = CommitRemoving(c.log, Own(p), Ghosts(c, who, off))
  BY DEF StageRemoveGhosts, Submit
<1> QED
  BY <1>1, RemovingRoll

(* What a client stages is of people there are, names nobody new but whose *)
(* KeyPackage it has, and takes out nobody on its roster.                  *)
LEMMA StagedRoll ==
  ASSUME NEW p \in Peer, Own(p) \in Member, NEW c, c.log \in Seq(Entry), Len(c.log) >= 1,
         c.names \in [Peer -> SUBSET Member], NEW ids, NamesFit(c, ids),
         Roll(c.log) \subseteq ids, NEW who, NEW off, NEW t, StagedBy(p, c, who, off, t),
         t.step \in {"commit", "accepted", "refused"}
  PROVE  /\ Roll(t.log) \subseteq ids
         /\ \A q \in Peer : (\A m \in ids : m[1] = q => m = First(q)) =>
              /\ First(q) \in Roll(t.log) => First(q) \in Roll(c.log) \/ c.names[q] # {}
              /\ First(q) \in Roll(c.log) /\ (q \in who \/ First(q) = Own(p))
                   => First(q) \in Roll(t.log)
<1>1. CASE \E r \in Peer : c.names[r] # {} /\ t = StageAdd(p, c, who, off, r)
  <2>1. PICK r \in Peer : c.names[r] # {} /\ t = StageAdd(p, c, who, off, r)
    BY <1>1
  <2>2. t # Idle
    BY DEF Idle
  <2>3. PICK m \in ids : m[1] = r /\ Roll(t.log) = Roll(c.log) \cup {m}
    <3>1. PICK m : m = CHOOSE x \in c.names[r] : TRUE
      OBVIOUS
    <3>2. m \in Member /\ m \in ids /\ m[1] = r
      BY <2>1, <3>1 DEF NamesFit
    <3>3. t.log = CommitAdding(c.log, Own(p), m)
      BY <2>1, <2>2, <3>1 DEF StageAdd, Submit
    <3>4. Roll(CommitAdding(c.log, Own(p), m)) = Roll(c.log) \cup {m}
      BY <3>2, AddingRoll
    <3> QED
      BY <3>2, <3>3, <3>4
  <2>4. \A q \in Peer : m = First(q) => c.names[q] # {}
    BY <2>1, <2>3 DEF First
  <2> QED
    BY <2>3, <2>4
<1>2. CASE Cleans(p, c, who, off) /\ \E next : t = StageRemoveGhosts(p, c, who, off, next)
  <2>1. Roll(t.log) = Roll(c.log) \ Ghosts(c, who, off)
    BY <1>2, CleanedRoll
  <2>2. Presence(c, who, off, Own(p)) = "here"
    BY <1>2 DEF Cleans, IsCommitter
  <2>3. ASSUME NEW q \in Peer, \A m \in ids : m[1] = q => m = First(q),
               q \in who \/ First(q) = Own(p)
        PROVE  First(q) \notin Ghosts(c, who, off)
    <3>1. Presence(c, who, off, First(q)) # "gone"
      BY <2>2, <2>3, SeenIsNotGone
    <3> QED
      BY <3>1 DEF Ghosts
  <2> QED
    BY <2>1, <2>3
<1> QED
  BY <1>1, <1>2 DEF StagedBy

-----------------------------------------------------------------------------
(* Who is named before coming in *)

LEMMA ConcatParts ==
  ASSUME NEW s \in Seq(Event), NEW t \in Seq(Event)
  PROVE  /\ DOMAIN s \subseteq DOMAIN (s \o t)
         /\ \A i \in DOMAIN s : (s \o t)[i] = s[i]
         /\ \A j \in DOMAIN (s \o t) :
              j \in DOMAIN s \/ ((s \o t)[j] \in Elems(t) /\ \A i \in DOMAIN s : i < j)
<1>1. /\ s \o t \in Seq(Event) /\ Len(s \o t) = Len(s) + Len(t)
      /\ \A j \in 1..Len(s \o t) : (s \o t)[j] = IF j <= Len(s) THEN s[j] ELSE t[j - Len(s)]
  BY ConcatProperties
<1>2. /\ Len(s) \in Nat /\ Len(t) \in Nat
      /\ DOMAIN s = 1..Len(s) /\ DOMAIN t = 1..Len(t) /\ DOMAIN (s \o t) = 1..Len(s \o t)
  BY <1>1, LenProperties
<1>3. DOMAIN s \subseteq DOMAIN (s \o t)
  BY <1>1, <1>2
<1>4. \A i \in DOMAIN s : (s \o t)[i] = s[i]
  BY <1>1, <1>2
<1>5. ASSUME NEW j \in DOMAIN (s \o t), j \notin DOMAIN s
      PROVE  (s \o t)[j] \in Elems(t) /\ \A i \in DOMAIN s : i < j
  <2>1. j \in Nat /\ ~ (j <= Len(s)) /\ j - Len(s) \in DOMAIN t
    BY <1>1, <1>2, <1>5
  <2>2. (s \o t)[j] = t[j - Len(s)]
    BY <1>1, <1>2, <2>1
  <2>3. \A i \in DOMAIN s : i < j
    BY <1>2, <2>1
  <2> QED
    BY <2>1, <2>2, <2>3 DEF Elems
<1> QED
  BY <1>3, <1>4, <1>5

(* What follows names only who is said to have come in, or nobody new. *)
LEMMA IntroducedGrows ==
  ASSUME NEW acc, NEW s \in Seq(Event), NEW t \in Seq(Event), NEW q, Introduced(acc, s, q),
         \/ \E e \in Elems(s) : Joins(e, q)
         \/ \A e \in Elems(t) : ~ Shows(acc, e, q)
  PROVE  Introduced(acc, s \o t, q)
<1> SUFFICES ASSUME NEW j \in DOMAIN (s \o t), Shows(acc, (s \o t)[j], q)
             PROVE  \E i \in DOMAIN (s \o t) : i < j /\ Joins((s \o t)[i], q)
  BY DEF Introduced
<1>1. /\ DOMAIN s \subseteq DOMAIN (s \o t)
      /\ \A i \in DOMAIN s : (s \o t)[i] = s[i]
      /\ j \in DOMAIN s \/ ((s \o t)[j] \in Elems(t) /\ \A i \in DOMAIN s : i < j)
  BY ConcatParts
<1>2. \E i \in DOMAIN s : i < j /\ Joins(s[i], q)
  <2>1. CASE j \in DOMAIN s
    BY <1>1, <2>1 DEF Introduced
  <2>2. CASE j \notin DOMAIN s
    <3>1. \E e \in Elems(s) : Joins(e, q)
      BY <1>1, <2>2
    <3>2. PICK i \in DOMAIN s : Joins(s[i], q)
      BY <3>1 DEF Elems
    <3> QED
      BY <1>1, <2>2, <3>2
  <2> QED
    BY <2>1, <2>2
<1> QED
  BY <1>1, <1>2

(* Nor does the head of the queue name who has not come in. *)
LEMMA IntroducedNext ==
  ASSUME NEW acc, NEW s \in Seq(Event), s # <<>>, NEW q, Introduced(acc, s, q),
         ~ Joins(Head(s), q)
  PROVE  ~ Shows(acc, Head(s), q) /\ Introduced(acc, Tail(s), q)
<1>1. PICK n \in Nat : n = Len(s) /\ DOMAIN s = 1..n
  BY LenProperties
<1>2. PICK t : t = Tail(s)
  OBVIOUS
<1>3. /\ Head(s) = s[1] /\ 1 \in 1..n
      /\ DOMAIN t = 1..(n - 1)
      /\ \A i \in 1..(n - 1) : t[i] = s[i + 1]
  BY <1>1, <1>2, HeadTailProperties, EmptySeq, LenProperties
<1>4. ~ Shows(acc, s[1], q)
  BY <1>1, <1>3 DEF Introduced
<1>5. ASSUME NEW j \in 1..(n - 1), Shows(acc, t[j], q)
      PROVE  \E i \in 1..(n - 1) : i < j /\ Joins(t[i], q)
  <2>1. j + 1 \in 1..n /\ t[j] = s[j + 1]
    BY <1>1, <1>3
  <2>2. PICK i \in 1..n : i < j + 1 /\ Joins(s[i], q)
    BY <1>1, <1>5, <2>1 DEF Introduced
  <2>3. i # 1
    BY <1>3, <2>2
  <2>4. i - 1 \in 1..(n - 1) /\ i - 1 < j /\ (i - 1) + 1 = i
    BY <1>1, <2>1, <2>2, <2>3
  <2> QED
    BY <1>3, <2>2, <2>4
<1> QED
  BY <1>2, <1>3, <1>4, <1>5 DEF Introduced

(* A Commit accepted now is in no inbox yet. *)
LEMMA OldMail ==
  ASSUME MlsIsPayload, CallInv, NEW p \in Peer, Runs(p) \/ Befalls(p), NEW r \in Peer,
         NEW e \in Mail(r), NEW q, Shows(accepted', e, q)
  PROVE  Shows(accepted, e, q)
<1>1. CASE e.name = "e2eeJoinRequested"
  BY <1>1 DEF Shows, IsMls
<1>2. CASE e.name # "e2eeJoinRequested"
  <2>1. PICK a \in accepted' : /\ IsMls(e) /\ a.life = e.life /\ a.group = e.group
                               /\ a.epoch = e.epoch /\ First(q) \in Roll(a.payload)
    BY <1>2 DEF Shows
  <2>2. a \in accepted
    <3> SUFFICES ASSUME a \notin accepted PROVE FALSE
      OBVIOUS
    <3>1. Closes(p, a)
      BY WhoCloses
    <3>2. a.life = session /\ a.epoch = groups[a.group].currentEpoch
      BY <3>1 DEF Closes, Decision
    <3>3. e.epoch < groups[e.group].currentEpoch
      BY <2>1, <3>2 DEF CallInv, IInv, RelayInv, InboxSettled, Settled, Mail, Elems
    <3>4. e.group \in Group /\ e.epoch = groups[e.group].currentEpoch
      <4>1. e \in Event
        BY MailType DEF CallInv, IInv
      <4> QED
        BY <2>1, <3>2, <4>1 DEF IsMls, Event, RosterEvent, RosterNames, KeyPackageEvent,
                                CommitEvent, WelcomeEvent
    <3>5. groups[e.group].currentEpoch \in Nat
      BY <3>4 DEF CallInv, IInv, TypeOK, GroupState
    <3> QED
      BY <3>3, <3>4, <3>5
  <2> QED
    BY <2>1, <2>2 DEF Shows
<1> QED
  BY <1>1, <1>2

-----------------------------------------------------------------------------
(* Who is in the room *)

(* Nothing was lost so far, and nothing is in this step. *)
Intact ==
  /\ drops = 0 /\ drops' = 0 /\ fails' = fails
  /\ SocketsUp /\ OneSession /\ Chained /\ OneFounder
  /\ \A q \in Peer : Staged(q) /\ KeptUp(q) /\ OwnSession(q)

(* Those in the room go by their first identity. *)
LEMMA FirstOnly ==
  ASSUME NEW q \in InRoom, NEW m \in Entered, m[1] = q
  PROVE  m = First(q)
<1>1. m \in Peer \X (1..MaxStarts) /\ m[2] = 1
  BY DEF Entered, Member
<1>2. m = <<m[1], m[2]>>
  BY <1>1
<1> QED
  BY <1>1, <1>2 DEF First

LEMMA OwnEntered ==
  ASSUME CallInv, Once, NEW p \in Peer, InCall(p)
  PROVE  Own(p) \in Member /\ Own(p) \in Entered /\ Own(p)[1] = p
<1>1. Own(p) \in Member /\ Own(p)[1] = p /\ Own(p)[2] = starts[p]
  BY Handling DEF Own
<1>2. status[p] \in {"here", "orphan", "closing"}
  BY DEF CallInv, ClientFits, FitSeat
<1> QED
  BY <1>1, <1>2 DEF Entered, Once

(* Who has come in is not as if it had not. *)
LEMMA BornStays ==
  ASSUME CallInv, NEW p \in Peer, Runs(p) \/ Befalls(p), NEW q \in Peer, status[q] # "unborn"
  PROVE  status'[q] # "unborn"
<1>1. status \in [Peer -> Status]
  BY DEF CallInv, IInv, TypeOK
<1>2. \A r : Dismissed(r) # "unborn"
  BY DEF Dismissed
<1>3. CASE inbox[p] # <<>> /\ Handle(p, Head(inbox[p]))
  <2>1. status' = status
    BY <1>3, HandleMoves DEF Take, Receive
  <2> QED
    BY <2>1
<1>4. CASE \/ AskToJoin(p) \/ SendCommit(p) \/ HearAnswer(p) \/ SendWelcome(p)
           \/ RequestFails(p) \/ AnswerFails(p)
  BY <1>4 DEF AskToJoin, RelayE2eeJoin, SendCommit, RelayE2eeCommit, HearAnswer, SendWelcome,
              RelayE2eeWelcome, RequestFails, AnswerFails, relayVars
<1>5. CASE Stop(p) \/ Drop(p) \/ Notice(p) \/ Exit(p) \/ Expire(p) \/ Reconnect(p)
  BY <1>1, <1>5 DEF Stop, Drop, SocketLost, Notice, OrphanPeer, Exit, Leave, Expire, Evict,
                    Reconnect, Resume
<1>6. CASE Expel(p)
  BY <1>1, <1>2, <1>6 DEF Expel, Kick
<1>7. CASE Enter(p)
  BY <1>1, <1>2, <1>7 DEF Enter, Join
<1> QED
  BY <1>3, <1>4, <1>5, <1>6, <1>7 DEF Runs, Befalls

(* Only a newcomer comes into the room. *)
LEMMA RoomShrinks ==
  ASSUME OneDevice, CallInv, Intact, NEW p \in Peer, Runs(p) \/ Befalls(p)
  PROVE  /\ \A q \in InRoom' : q \in InRoom \/ (Enter(p) /\ q = p)
         /\ Enter(p) => status[p] = "unborn" /\ status'[p] = "here" /\ p \notin InRoom
<1>1. ASSUME Enter(p)
      PROVE  /\ status[p] = "unborn" /\ status'[p] = "here" /\ p \notin InRoom
             /\ \A q \in InRoom' : q \in InRoom \/ q = p
  <2>1. status[p] = "unborn" /\ status'[p] = "here"
    BY <1>1 DEF Enter, Join
  <2>2. \A q \in Peer \ {p} : status'[q] = status[q]
    BY <1>1, EnterMoves
  <2> QED
    BY <2>1, <2>2 DEF InRoom
<1>2. ASSUME ~ Enter(p) PROVE \A q \in InRoom' : q \in InRoom
  BY <1>2, OthersStay DEF Intact, InRoom
<1> QED
  BY <1>1, <1>2

LEMMA EnteredGrows ==
  ASSUME OneDevice, CallInv, Intact, NEW p \in Peer, Runs(p) \/ Befalls(p)
  PROVE  Entered \subseteq Entered'
<1> SUFFICES ASSUME NEW m \in Entered PROVE m \in Entered'
  OBVIOUS
<1>1. m \in Member /\ m[1] \in Peer /\ status[m[1]] # "unborn" /\ (m[1] \in InRoom => m[2] = 1)
  BY DEF Entered, Member
<1>2. status'[m[1]] # "unborn"
  BY <1>1, BornStays
<1>3. m[1] \in InRoom' => m[1] \in InRoom
  BY <1>1, RoomShrinks
<1> QED
  BY <1>1, <1>2, <1>3 DEF Entered

(* Who handles an event does not start again, unless it leaves the session. *)
LEMMA StayerStays ==
  ASSUME CallInv, Intact, NEW p \in Peer, inbox[p] # <<>>, NEW e, e = Head(inbox[p]), Handle(p, e),
         p \in InRoom \/ InSession(p)'
  PROVE  StaysPut(p, e) \/ Applies(p, e) \/ TakesWelcome(p, e)
<1>1. /\ Take(p, e) /\ Receive(p) /\ InCall(p) /\ task[p] = Idle /\ session' = session
      /\ StaysPut(p, e) \/ Applies(p, e) \/ TakesWelcome(p, e) \/ StartsAgain(p, e)
  BY HandleMoves DEF HandlerMoves, Take, Receive
<1>2. StartsAgain(p, e) => call'[p].group # session
  BY <1>1, NobodyStartsAgain DEF Intact
<1>3. StartsAgain(p, e) /\ p \in InRoom => call'[p].group = session
  BY DEF StartsAgain, Intact, OneSession
<1> QED
  BY <1>1, <1>2, <1>3 DEF InSession

(* Nobody in the room starts again. *)
LEMMA OnceKeeps ==
  ASSUME OneDevice, CallInv, Intact, Once, NEW p \in Peer, Runs(p) \/ Befalls(p)
  PROVE  Once'
<1> SUFFICES ASSUME NEW q \in InRoom' PROVE starts'[q] = 1
  BY DEF Once
<1>1. q \in Peer /\ starts \in [Peer -> 0..MaxStarts] /\ (q \in InRoom \/ (Enter(p) /\ q = p))
  BY RoomShrinks DEF InRoom, CallInv, CallShape
<1>2. q \in InRoom => starts[q] = 1
  BY DEF Once
<1>3. CASE Enter(p)
  <2>1. starts' = [starts EXCEPT ![p] = 1]
    BY <1>3 DEF Enter
  <2> QED
    BY <1>1, <1>2, <2>1
<1>4. CASE inbox[p] # <<>> /\ Handle(p, Head(inbox[p])) /\ q \in InRoom
  <2>1. PICK e : e = Head(inbox[p])
    OBVIOUS
  <2>2. OthersAsTheyWere(p)
    BY <1>4, <2>1, HandleMoves DEF HandlerMoves
  <2>3. CASE q = p
    <3>1. StaysPut(p, e) \/ Applies(p, e) \/ TakesWelcome(p, e)
      BY <1>4, <2>1, <2>3, StayerStays
    <3> QED
      BY <1>2, <1>4, <2>3, <3>1 DEF StaysPut, Applies, TakesWelcome
  <2> QED
    BY <1>1, <1>2, <1>4, <2>2, <2>3 DEF OthersAsTheyWere
<1>5. CASE ~ Enter(p) /\ ~ (inbox[p] # <<>> /\ Handle(p, Head(inbox[p])))
  <2>1. starts' = starts
    BY <1>5 DEF Runs, Befalls, AskToJoin, SendCommit, HearAnswer, SendWelcome, Asks, RequestFails,
                AnswerFails, Stop, Notice, callVars, Drop, Reconnect, Exit, Expel, Expire
  <2> QED
    BY <1>1, <1>2, <1>5, <2>1
<1> QED
  BY <1>1, <1>3, <1>4, <1>5

-----------------------------------------------------------------------------
(* Whoever is named has come in *)

LEMMA OutNamesNobody ==
  ASSUME CallInv', NEW q \in Peer, ~ InCall(q)'
  PROVE  /\ Roll(call'[q].log) = {} /\ \A ids : NamesFit(call'[q], ids)
         /\ ~ Pending(q)'
<1>1. call'[q] = NoCall
  BY DEF CallInv, ClientFits, FitCall, InCall
<1>2. ~ Pending(q)'
  BY DEF CallInv, ClientFits, FitTask, InCall, Pending
<1> QED
  BY <1>1, <1>2 DEF NoCall, Roll, NamesFit

(* What p stages names those it may name and spares those it sees. *)
LEMMA StagedNames ==
  ASSUME CallInv', NEW p \in Peer, Own(p) \in Member,
         StagedBy(p, call'[p], seen'[p], away'[p], task'[p]), Pending(p)',
         NamesFit(call'[p], Entered), Roll(call'[p].log) \subseteq Entered
  PROVE  /\ Roll(task'[p].log) \subseteq Entered
         /\ \A q \in InRoom :
              /\ First(q) \in Roll(task'[p].log)
                   => First(q) \in Roll(call'[p].log) \/ call'[p].names[q] # {}
              /\ First(q) \in Roll(call'[p].log) /\ (q \in seen'[p] \/ First(q) = Own(p))
                   => First(q) \in Roll(task'[p].log)
<1>1. PICK c, t, who, off, ids :
        c = call'[p] /\ t = task'[p] /\ who = seen'[p] /\ off = away'[p] /\ ids = Entered
  OBVIOUS
<1>2. /\ c.log \in Seq(Entry) /\ c.names \in [Peer -> SUBSET Member]
      /\ Len(c.log) >= 1 /\ t.step \in {"commit", "accepted", "refused"}
  BY <1>1 DEF CallInv, CallShape, ClientRecord, ClientFits, FitTask, Pending
<1>3. StagedBy(p, c, who, off, t) /\ NamesFit(c, ids) /\ Roll(c.log) \subseteq ids
  BY <1>1
<1>4. /\ Roll(t.log) \subseteq ids
      /\ \A q \in Peer : (\A m \in ids : m[1] = q => m = First(q)) =>
           /\ First(q) \in Roll(t.log) => First(q) \in Roll(c.log) \/ c.names[q] # {}
           /\ First(q) \in Roll(c.log) /\ (q \in who \/ First(q) = Own(p))
                => First(q) \in Roll(t.log)
  BY <1>2, <1>3, StagedRoll
<1>5. \A q \in InRoom : q \in Peer /\ \A m \in ids : m[1] = q => m = First(q)
  BY <1>1, FirstOnly DEF InRoom
<1> QED
  BY <1>1, <1>4, <1>5

(* The members a Commit or Welcome on its way says there are. *)
LEMMA HeadNames ==
  ASSUME CallInv, NEW p \in Peer, inbox[p] # <<>>, NEW e, e = Head(inbox[p]), InCall(p)
  PROVE  /\ e \in Mail(p)
         /\ e.name = "e2eeCommit" => \E a \in accepted :
              /\ a.life = e.life /\ a.group = e.group /\ a.epoch = e.epoch
              /\ a.payload = e.payload
         /\ e.name = "e2eeWelcome" => \E a \in accepted :
              /\ a.life = e.life /\ a.group = e.group /\ a.epoch = e.epoch
              /\ a.payload = Welcomed(e)
<1>1. e \in Mail(p) /\ FitEvent(p, e)
  <2>1. inbox[p] \in Seq(Event) /\ Len(inbox[p]) \in Nat /\ DOMAIN inbox[p] = 1..Len(inbox[p])
    BY MailType DEF CallInv, IInv
  <2>2. 1 \in DOMAIN inbox[p] /\ Head(inbox[p]) = inbox[p][1]
    BY <2>1, EmptySeq
  <2> QED
    BY <2>2, HeadIsMail DEF Mail, Elems
<1>2. ASSUME e.name = "e2eeWelcome"
      PROVE  \E a \in accepted : /\ a.life = e.life /\ a.group = e.group /\ a.epoch = e.epoch
                                 /\ a.payload = Welcomed(e)
  <2>1. \E a \in accepted : a.life = e.life /\ a.group = e.group /\ a.epoch = e.epoch
    BY <1>1, <1>2 DEF CallInv, IInv, WelcomeFollowsCommit, Mail, Elems
  <2> QED
    BY <2>1 DEF Welcomed
<1> QED
  BY <1>1, <1>2 DEF FitEvent, Announced

LEMMA HandlerNames ==
  ASSUME CallInv, CallInv', Intact, Once, Enrolled, NEW p \in Peer, inbox[p] # <<>>,
         Handle(p, Head(inbox[p]))
  PROVE  /\ Roll(call'[p].log) \subseteq Entered /\ NamesFit(call'[p], Entered)
         /\ Pending(p)' => Roll(task'[p].log) \subseteq Entered
<1>1. PICK e : e = Head(inbox[p])
  OBVIOUS
<1>2. /\ Take(p, e) /\ InCall(p) /\ HandlerMoves(p, e)
  BY <1>1, HandleMoves
<1>3. /\ e \in Mail(p) /\ Own(p) \in Member
      /\ e.name = "e2eeCommit" => \E a \in accepted : a.payload = e.payload
      /\ e.name = "e2eeWelcome" => \E a \in accepted : a.payload = Welcomed(e)
  BY <1>1, <1>2, HeadNames, Handling
<1>4. /\ Roll(call[p].log) \subseteq Entered /\ NamesFit(call[p], Entered) /\ AsksFit(p)
      /\ \A a \in accepted : Roll(a.payload) \subseteq Entered
  BY <1>2 DEF Enrolled, ClientEnrolled
<1>5. Roll(call'[p].log) \subseteq Entered /\ NamesFit(call'[p], Entered)
  <2>1. CASE StaysPut(p, e)
    <3>1. call'[p].log = call[p].log /\ Notes(call[p], call'[p], e)
      BY <2>1 DEF StaysPut, SameLog
    <3>2. CASE call'[p].names = call[p].names
      BY <1>4, <3>1, <3>2 DEF NamesFit
    <3>3. CASE /\ e.name = "e2eeJoinRequested"
               /\ call'[p].names = [call[p].names EXCEPT ![e.peer] = {e.payload}]
      <4>1. e.payload \in Entered /\ e.payload[1] = e.peer
        BY <1>3, <1>4, <3>3 DEF AsksFit
      <4>2. call[p].names \in [Peer -> SUBSET Member]
        BY DEF CallInv, CallShape, ClientRecord
      <4> QED
        BY <1>4, <3>1, <3>3, <4>1, <4>2 DEF NamesFit
    <3> QED
      BY <3>1, <3>2, <3>3 DEF Notes
  <2>2. CASE Applies(p, e)
    BY <1>3, <1>4, <2>2 DEF Applies, NextCommit, NamesFit
  <2>3. CASE TakesWelcome(p, e)
    BY <1>3, <1>4, <2>3 DEF TakesWelcome, NamesFit
  <2>4. CASE StartsAgain(p, e) /\ p \notin InRoom
    <3>1. PICK n, s, alone : /\ n = starts[p] + 1 /\ starts[p] < MaxStarts
                             /\ call'[p] = Started(p, n, s, alone)
      BY <2>4 DEF StartsAgain, Restart, CallInv, CallShape
    <3>2. n \in 1..MaxStarts
      <4>1. starts[p] \in 1..MaxStarts
        BY <1>2, Handling
      <4> QED
        BY <3>1, <4>1, CallAssumption
    <3>3. PICK m : m = <<p, n>>
      OBVIOUS
    <3>4. m \in Member /\ m[1] = p
      BY <3>2, <3>3 DEF Member
    <3>5. status[p] # "unborn"
      BY <1>2 DEF CallInv, ClientFits, FitSeat
    <3>6. m \in Entered
      BY <2>4, <3>4, <3>5 DEF Entered
    <3>7. /\ call'[p].log = <<>> \/ call'[p].log = Created(m)
          /\ call'[p].names = [q \in Peer |-> IF q = p THEN {m} ELSE {}]
      BY <3>1, <3>3 DEF Started
    <3>8. Roll(call'[p].log) \subseteq {m}
      BY <3>4, <3>7, CreatedRoll DEF Roll
    <3>9. NamesFit(call'[p], Entered)
      BY <3>4, <3>6, <3>7 DEF NamesFit
    <3> QED
      BY <3>6, <3>8, <3>9
  <2> QED
    BY <1>1, <1>2, <2>1, <2>2, <2>3, <2>4, StayerStays DEF HandlerMoves
<1>6. Pending(p)' => Roll(task'[p].log) \subseteq Entered
  BY <1>2, <1>3, <1>5, StagedNames DEF HandlerMoves
<1> QED
  BY <1>5, <1>6

LEMMA AnswerNames ==
  ASSUME CallInv, CallInv', Enrolled, NEW p \in Peer, HearAnswer(p), Staged(p)
  PROVE  /\ Roll(call'[p].log) \subseteq Entered /\ NamesFit(call'[p], Entered)
         /\ Pending(p)' => Roll(task'[p].log) \subseteq Entered
<1>1. /\ InCall(p) /\ Pending(p) /\ UNCHANGED <<seen, away>> /\ call'[p].names = call[p].names
      /\ StagedBy(p, call'[p], seen[p], away[p], task'[p])
      /\ call'[p].log \in {call[p].log, task[p].log}
  BY AnswerMoves
<1>2. Own(p) \in Member
  BY <1>1, Handling
<1>3. Roll(call'[p].log) \subseteq Entered /\ NamesFit(call'[p], Entered)
  BY <1>1 DEF Enrolled, ClientEnrolled, NamesFit
<1>4. Pending(p)' => Roll(task'[p].log) \subseteq Entered
  BY <1>1, <1>2, <1>3, StagedNames
<1> QED
  BY <1>3, <1>4

(* The KeyPackages on their way to q are of those who came in. *)
LEMMA AsksKeep ==
  ASSUME MlsIsPayload, OneDevice, CallInv, Intact, Once, Enrolled,
         NEW p \in Peer, Runs(p) \/ Befalls(p), NEW q \in Peer, InCall(q)'
  PROVE  AsksFit(q)'
<1>1. Entered \subseteq Entered'
  BY EnteredGrows
<1>2. CASE q = p /\ Enter(p)
  <2>1. Join(p, {}) /\ TypeOK
    BY <1>2 DEF Enter, CallInv, IInv
  <2>2. Mail(p)' \subseteq {[name |-> "peerLeft", peer |-> o] : o \in Others(p)}
    BY <2>1, JoinNews
  <2> QED
    BY <1>2, <2>2 DEF AsksFit
<1>3. CASE q = p /\ inbox[p] # <<>> /\ Handle(p, Head(inbox[p]))
  <2>1. InCall(p) /\ Receive(p)
    BY <1>3, HandleMoves DEF Take
  <2>2. Mail(p)' \subseteq Mail(p)
    BY <1>3, <2>1, HeadGoes
  <2> QED
    BY <1>1, <1>3, <2>1, <2>2 DEF Enrolled, ClientEnrolled, AsksFit
<1>4. CASE q # p \/ ~ (Enter(p) \/ (inbox[p] # <<>> /\ Handle(p, Head(inbox[p]))))
  <2>1. q # p \/ ~ Stop(p)
    BY DEF Stop, InCall, NoCall, CallInv, CallShape
  <2>2. Gains(p, q)
    BY <1>4, <2>1, MailGrows DEF Intact
  <2>3. InCall(q)
    <3>1. CASE q = p /\ HearAnswer(p)
      BY <3>1, AnswerMoves DEF Intact
    <3>2. CASE ~ (q = p /\ HearAnswer(p))
      <4>1. q # p \/ ~ Decides(p)
        BY <1>4, <3>2 DEF Decides
      <4> QED
        BY <4>1, StepKeepsCalls DEF Keeps
    <3> QED
      BY <3>1, <3>2
  <2>4. AsksFit(q) /\ inbox[q] \in Seq(Event)
    BY <2>3, MailType DEF Enrolled, ClientEnrolled, CallInv, IInv
  <2>5. CASE inbox'[q] = inbox[q]
    BY <1>1, <2>4, <2>5 DEF AsksFit, Mail
  <2>6. ASSUME NEW t \in Seq(Event), inbox'[q] = inbox[q] \o t, AsksOf(p, t)
        PROVE  AsksFit(q)'
    <3>1. Mail(q)' \subseteq Mail(q) \cup Elems(t)
      BY <2>4, <2>6, ElemsConcat DEF Mail
    <3>2. \A e \in Elems(t) : e.name = "e2eeJoinRequested"
                                => e.payload \in Entered /\ e.payload[1] = e.peer
      BY <2>6, OwnEntered DEF AsksOf
    <3> QED
      BY <1>1, <2>4, <3>1, <3>2 DEF AsksFit
  <2> QED
    BY <2>2, <2>5, <2>6 DEF Gains
<1> QED
  BY <1>2, <1>3, <1>4

LEMMA EnrolledKeeps ==
  ASSUME MlsIsPayload, OneDevice, CallInv, Intact, Once, Enrolled,
         NEW p \in Peer, Runs(p) \/ Befalls(p)
  PROVE  Enrolled'
<1>1. CallInv' /\ Entered \subseteq Entered'
  BY CallStepKeeps, EnteredGrows DEF CallNext
<1>2. ASSUME NEW a \in accepted' PROVE Roll(a.payload) \subseteq Entered'
  <2>1. CASE a \in accepted
    BY <1>1, <2>1 DEF Enrolled
  <2>2. CASE a \notin accepted
    <3>1. Closes(p, a)
      BY <2>2, WhoCloses
    <3>2. Pending(p) /\ a.payload = task[p].log
      BY <3>1 DEF Closes, Decision
    <3> QED
      BY <1>1, <3>2 DEF Enrolled, ClientEnrolled
  <2> QED
    BY <2>1, <2>2
<1>3. ASSUME NEW q \in Peer
      PROVE  /\ Roll(call'[q].log) \subseteq Entered' /\ NamesFit(call'[q], Entered')
             /\ Pending(q)' => Roll(task'[q].log) \subseteq Entered'
  <2> SUFFICES ASSUME InCall(q)'
               PROVE  /\ Roll(call'[q].log) \subseteq Entered' /\ NamesFit(call'[q], Entered')
                      /\ Pending(q)' => Roll(task'[q].log) \subseteq Entered'
    BY <1>1, OutNamesNobody
  <2>1. ASSUME Roll(call'[q].log) \subseteq Entered, NamesFit(call'[q], Entered),
               Pending(q)' => Roll(task'[q].log) \subseteq Entered
        PROVE  /\ Roll(call'[q].log) \subseteq Entered' /\ NamesFit(call'[q], Entered')
               /\ Pending(q)' => Roll(task'[q].log) \subseteq Entered'
    BY <1>1, <2>1 DEF NamesFit
  <2>2. ClientEnrolled(q)
    BY DEF Enrolled
  <2>3. CASE q # p \/ ~ Decides(p)
    <3>1. Keeps(q)
      BY <2>3, StepKeepsCalls
    <3> QED
      BY <2>1, <2>2, <3>1 DEF Keeps, SameLog, ClientEnrolled, NamesFit
  <2>4. CASE q = p /\ inbox[p] # <<>> /\ Handle(p, Head(inbox[p]))
    BY <1>1, <2>1, <2>4, HandlerNames
  <2>5. CASE q = p /\ HearAnswer(p)
    BY <1>1, <2>1, <2>5, AnswerNames DEF Intact
  <2>6. CASE q = p /\ Enter(p)
    <3>1. PICK alone, s : call'[p] = Started(p, 1, s, alone)
      BY <2>6 DEF Enter
    <3>2. PICK m : m = <<p, 1>>
      OBVIOUS
    <3>3. m \in Member /\ m[1] = p /\ m[2] = 1
      BY <3>2, CallAssumption DEF Member
    <3>4. m \in Entered'
      BY <2>6, <3>3, RoomShrinks DEF Entered
    <3>5. /\ call'[p].log = <<>> \/ call'[p].log = Created(m)
          /\ call'[p].names = [r \in Peer |-> IF r = p THEN {m} ELSE {}]
      BY <3>1, <3>2 DEF Started
    <3>6. Roll(call'[p].log) \subseteq {m}
      BY <3>3, <3>5, CreatedRoll DEF Roll
    <3>7. NamesFit(call'[p], Entered')
      BY <3>3, <3>4, <3>5 DEF NamesFit
    <3>8. ~ Pending(p)'
      BY <2>6, EnterMoves
    <3> QED
      BY <2>6, <3>4, <3>6, <3>7, <3>8
  <2> QED
    BY <2>3, <2>4, <2>5, <2>6 DEF Decides
<1>4. ASSUME NEW q \in Peer PROVE InCall(q)' => AsksFit(q)'
  BY AsksKeep
<1> QED
  BY <1>2, <1>3, <1>4 DEF Enrolled, ClientEnrolled

-----------------------------------------------------------------------------
(* Everyone in the room is seen, or about to be *)

LEMMA NewcomerIsTold ==
  ASSUME CallInv, SocketsUp, NEW p \in Peer, Enter(p), NEW r \in Peer, r # p,
         r \in InRoom, Others(p) = {}
  PROVE  \E e \in Mail(r)' : Joins(e, p)
<1>1. TypeOK /\ Hears(r)
  BY DEF CallInv, IInv, InRoom, Hears, SocketsUp
<1>2. PICK left \in [1..Cardinality({} \cup Others(p)) -> {} \cup Others(p)] :
        inbox'[r] = inbox[r] \o About("peerLeft", left) \o About("peerJoined", <<p>>)
  BY <1>1 DEF Enter, Join
<1>3. PICK news, joined : news = About("peerLeft", left) /\ joined = About("peerJoined", <<p>>)
  OBVIOUS
<1>4. news \in Seq(Event)
  <2>1. {} \cup Others(p) \in SUBSET Peer
    OBVIOUS
  <2> QED
    BY <1>3, <2>1, AboutSome
<1>5. joined \in Seq(Event) /\ [name |-> "peerJoined", peer |-> p] \in Elems(joined)
  <2>1. "peerJoined" \in Told
    BY CallAssumption DEF TellableNames, RosterNames
  <2>2. joined = [i \in DOMAIN <<p>> |-> [name |-> "peerJoined", peer |-> <<p>>[i]]]
    BY <1>3, <2>1 DEF About
  <2>3. 1 \in DOMAIN <<p>> /\ <<p>>[1] = p
    OBVIOUS
  <2>4. 1 \in DOMAIN joined /\ joined[1] = [name |-> "peerJoined", peer |-> p]
    BY <2>2, <2>3
  <2>5. joined \in Seq(Event)
    BY <1>3, AboutOne DEF RosterNames
  <2> QED
    BY <2>4, <2>5 DEF Elems
<1>6. Elems(joined) \subseteq Mail(r)'
  <2>1. PICK s : s = inbox[r] \o news
    OBVIOUS
  <2>2. s \in Seq(Event)
    BY <1>1, <1>4, <2>1, MailType, ConcatProperties
  <2>3. inbox'[r] = s \o joined
    BY <1>2, <1>3, <2>1
  <2> QED
    BY <1>5, <2>2, <2>3, ElemsGrow DEF Mail
<1> QED
  BY <1>5, <1>6 DEF Joins

LEMMA NewcomerSees ==
  ASSUME OneDevice, CallInv, SocketsUp, NEW p \in Peer, Enter(p)
  PROVE  /\ \A q \in InRoom' : q \in seen'[p]
         /\ \A r \in Peer \ {p} : seen'[r] = seen[r] /\ away'[r] = away[r]
<1>1. seen \in [Peer -> SUBSET Peer] /\ away' = away
  BY DEF Enter, CallInv, CallShape
<1>2. seen'[p] = ({q \in Peer : status'[q] = "here"} \ {p}) \cup {p}
  BY <1>1 DEF Enter
<1>3. \A r \in Peer \ {p} : seen'[r] = seen[r]
  BY <1>1 DEF Enter
<1>4. \A q \in InRoom' : q \in Peer /\ (q = p \/ status'[q] = "here")
  <2> SUFFICES ASSUME NEW q \in InRoom', q # p PROVE q \in Peer /\ status'[q] = "here"
    BY DEF InRoom
  <2>1. q \in Peer /\ status'[q] \in {"here", "orphan"}
    BY DEF InRoom
  <2>2. status'[q] = status[q]
    BY <2>1, EnterMoves
  <2> QED
    BY <2>1, <2>2 DEF SocketsUp
<1> QED
  BY <1>1, <1>2, <1>3, <1>4

LEMMA AwareKeeps ==
  ASSUME MlsIsPayload, OneDevice, CallInv, Intact, Aware, NEW p \in Peer, Runs(p) \/ Befalls(p)
  PROVE  Aware'
<1> SUFFICES ASSUME NEW r \in InRoom', NEW q \in InRoom', r # q
             PROVE  q \in seen'[r] \/ \E e \in Mail(r)' : Joins(e, q)
  BY DEF Aware
<1>1. /\ SocketsUp /\ drops = 0 /\ drops' = 0 /\ fails' = fails /\ r \in Peer /\ q \in Peer
      /\ r \in InRoom \/ (Enter(p) /\ r = p)
      /\ q \in InRoom \/ (Enter(p) /\ q = p)
  BY RoomShrinks DEF Intact, InRoom
<1>2. CASE Enter(p) /\ r = p
  BY <1>1, <1>2, NewcomerSees
<1>3. CASE Enter(p) /\ q = p
  BY <1>1, <1>3, NobodyReplaced, NewcomerIsTold
<1>4. ASSUME r \in InRoom, q \in InRoom,
             r # p \/ ~ (Enter(p) \/ (inbox[p] # <<>> /\ Handle(p, Head(inbox[p]))))
      PROVE  Mail(r) \subseteq Mail(r)'
  <2>1. r # p \/ ~ Stop(p)
    BY <1>4 DEF InRoom, Stop
  <2>2. Gains(p, r)
    BY <1>1, <1>4, <2>1, MailGrows
  <2>3. inbox[r] \in Seq(Event)
    BY <1>1, MailType DEF CallInv, IInv
  <2>4. \A t \in Seq(Event) : Elems(inbox[r]) \subseteq Elems(inbox[r] \o t)
    BY <2>3, ElemsGrow
  <2> QED
    BY <2>2, <2>4 DEF Gains, Mail
<1>5. CASE Enter(p) /\ r # p /\ q # p
  <2>1. r \in InRoom /\ q \in InRoom /\ seen'[r] = seen[r] /\ Mail(r) \subseteq Mail(r)'
    BY <1>1, <1>4, <1>5, NewcomerSees
  <2> QED
    BY <1>1, <2>1 DEF Aware
<1>6. CASE ~ Enter(p)
  <2>1. r \in InRoom /\ q \in InRoom /\ (q \in seen[r] => q \in seen'[r])
    BY <1>1, <1>6, OthersStay DEF StayMoves
  <2>2. CASE r = p /\ inbox[p] # <<>> /\ Handle(p, Head(inbox[p]))
    <3>1. PICK e : e = Head(inbox[p])
      OBVIOUS
    <3>2. Receive(p) /\ seen' = [seen EXCEPT ![p] = SeenAfter(p, e)]
      BY <2>2, <3>1, HandleMoves DEF Take
    <3>3. Mail(p) \subseteq Mail(p)' \cup {e}
      BY <2>2, <3>1, <3>2, HeadGoes
    <3>4. Joins(e, q) => q \in seen'[p]
      BY <3>2 DEF Joins, SeenAfter, CallInv, CallShape
    <3> QED
      BY <2>1, <2>2, <3>3, <3>4 DEF Aware
  <2>3. CASE ~ (r = p /\ inbox[p] # <<>> /\ Handle(p, Head(inbox[p])))
    <3>1. Mail(r) \subseteq Mail(r)'
      BY <1>4, <1>6, <2>1, <2>3
    <3> QED
      BY <2>1, <3>1 DEF Aware
  <2> QED
    BY <2>2, <2>3
<1> QED
  BY <1>2, <1>3, <1>5, <1>6

-----------------------------------------------------------------------------
(* Nobody is known before being seen *)

(* In a new session there is the newcomer alone. *)
LEMMA NewSessionIsOfOne ==
  ASSUME MlsIsPayload, OneDevice, CallInv, NEW p \in Peer, Runs(p) \/ Befalls(p), Enter(p),
         session' # session, NEW r \in Peer, InSession(r)'
  PROVE  r = p
<1> SUFFICES ASSUME r # p PROVE FALSE
  OBVIOUS
<1>1. session \in Nat /\ session' = session + 1
  BY SessionOrNew DEF CallNext, CallInv, IInv, TypeOK
<1>2. InCall(r) /\ call[r].group = session'
  BY EnterMoves DEF InSession, InCall, NoCall
<1>3. call[r].group \in 1..session
  BY <1>2, Handling
<1> QED
  BY <1>1, <1>2, <1>3

(* Who has not come in yet is known to nobody. *)
LEMMA UnbornIsUnknown ==
  ASSUME Enrolled, NEW p \in Peer, status[p] = "unborn", NEW r \in Peer
  PROVE  /\ ~ Knows(r, p) /\ First(p) \notin Roll(call[r].log)
         /\ InCall(r) => \A e \in Mail(r) : ~ Shows(accepted, e, p)
<1>1. \A m \in Entered : m[1] # p
  BY DEF Entered
<1>2. First(p) \notin Entered
  BY <1>1 DEF First
<1>3. ClientEnrolled(r) /\ \A a \in accepted : First(p) \notin Roll(a.payload)
  BY <1>2 DEF Enrolled
<1>4. call[r].names[p] = {}
  BY <1>1, <1>3 DEF ClientEnrolled, NamesFit
<1>5. ~ Knows(r, p) /\ First(p) \notin Roll(call[r].log)
  BY <1>2, <1>3, <1>4 DEF Knows, ClientEnrolled
<1>6. ASSUME InCall(r), NEW e \in Mail(r), Shows(accepted, e, p) PROVE FALSE
  <2>1. e.name = "e2eeJoinRequested" => e.peer # p
    BY <1>1, <1>3, <1>6 DEF ClientEnrolled, AsksFit
  <2> QED
    BY <1>3, <1>6, <2>1 DEF Shows
<1> QED
  BY <1>5, <1>6

(* Somebody else's step. *)
LEMMA StayingMeets ==
  ASSUME MlsIsPayload, OneDevice, CallInv, Intact, Enrolled, Aware,
         NEW p \in Peer, Runs(p) \/ Befalls(p), NEW r \in Peer, Meets(r), r # p \/ ~ Decides(p),
         session' = session, InSession(r)', NEW q \in InRoom \ {r}
  PROVE  /\ q \in seen'[r] \/ Introduced(accepted', inbox'[r], q)
         /\ Knows(r, q)' => q \in seen'[r]
<1>1. Keeps(r) /\ InCall(r)' /\ InCall(r) /\ InSession(r) /\ q \in Peer /\ SocketsUp
  <2>1. Keeps(r)
    BY StepKeepsCalls
  <2> QED
    BY <2>1 DEF InSession, Keeps, SameLog, InRoom, Intact
<1>2. q \in seen[r] => q \in seen'[r]
  <2>1. CASE Enter(p)
    BY <1>1, <2>1, NewcomerSees DEF Decides
  <2>2. CASE ~ Enter(p)
    BY <2>2, OthersStay DEF StayMoves, Intact
  <2> QED
    BY <2>1, <2>2
<1>3. Knows(r, q)' => Knows(r, q)
  BY <1>1 DEF Knows, Keeps, SameLog
<1>4. ASSUME q \notin seen[r] PROVE Introduced(accepted', inbox'[r], q)
  <2>1. Introduced(accepted, inbox[r], q)
    BY <1>1, <1>4 DEF Meets
  <2>2. PICK s, acc : s = inbox[r] /\ acc = accepted'
    OBVIOUS
  <2>3. s \in Seq(Event)
    BY <2>2, MailType DEF CallInv, IInv
  <2>4. Introduced(acc, s, q)
    <3>1. \A j \in DOMAIN s : Shows(acc, s[j], q) => Shows(accepted, s[j], q)
      <4>1. \A j \in DOMAIN s : s[j] \in Mail(r)
        BY <2>2 DEF Mail, Elems
      <4> QED
        BY <2>2, <4>1, OldMail
    <3> QED
      BY <2>1, <2>2, <3>1 DEF Introduced
  <2>5. Gains(p, r)
    <3>1. r # p \/ ~ Stop(p)
      BY <1>1 DEF Stop, InCall, NoCall, CallInv, CallShape
    <3> QED
      BY <3>1, MailGrows DEF Intact, Decides
  <2>6. CASE inbox'[r] = inbox[r]
    BY <2>2, <2>4, <2>6
  <2>7. ASSUME Hears(r), NEW t \in Seq(Event), inbox'[r] = s \o t
        PROVE  Introduced(acc, s \o t, q)
    <3>1. r \in InRoom
      BY <2>7 DEF Hears, InRoom
    <3>2. \E e \in Elems(s) : Joins(e, q)
      BY <1>4, <2>2, <3>1 DEF Aware, Mail
    <3> QED
      BY <2>3, <2>4, <3>2, IntroducedGrows
  <2> QED
    BY <2>2, <2>5, <2>6, <2>7 DEF Gains
<1> QED
  BY <1>1, <1>2, <1>3, <1>4 DEF Meets

(* The newcomer is met by name before it is known by anything else. *)
LEMMA NewcomerIsMet ==
  ASSUME OneDevice, CallInv, Intact, Enrolled, NEW p \in Peer, Runs(p) \/ Befalls(p), Enter(p),
         NEW r \in Peer \ {p}, session' = session, InSession(r)'
  PROVE  Introduced(accepted', inbox'[r], p) /\ ~ Knows(r, p)'
<1>1. Keeps(r) /\ InCall(r) /\ SocketsUp /\ status[p] = "unborn" /\ accepted' = accepted
  <2>1. Keeps(r)
    BY StepKeepsCalls
  <2> QED
    BY <2>1, EnterMoves DEF InSession, Keeps, Intact, Enter, Join
<1>2. ~ Knows(r, p) /\ \A e \in Mail(r) : ~ Shows(accepted, e, p)
  BY <1>1, UnbornIsUnknown
<1>3. ~ Knows(r, p)'
  BY <1>1, <1>2 DEF Knows, Keeps, SameLog, InSession
<1>4. ASSUME NEW e \in Mail(r)' PROVE ~ Shows(accepted, e, p)
  <2>1. Mail(r)' \subseteq Mail(r) \cup {[name |-> "peerJoined", peer |-> p]}
    <3>1. TypeOK /\ Join(p, {}) /\ Others(p) = {}
      BY NobodyReplaced DEF Enter, CallInv, IInv
    <3> QED
      BY <3>1, JoinNews
  <2>2. CASE e = [name |-> "peerJoined", peer |-> p]
    BY <2>2 DEF Shows, IsMls
  <2> QED
    BY <1>2, <2>1, <2>2
<1>5. Introduced(accepted', inbox'[r], p)
  <2>1. \A j \in DOMAIN inbox'[r] : inbox'[r][j] \in Mail(r)'
    BY DEF Mail, Elems
  <2> QED
    BY <1>1, <1>4, <2>1 DEF Introduced
<1> QED
  BY <1>3, <1>5

(* What p hears may name only those it was told of. *)
LEMMA HandlingMeets ==
  ASSUME CallInv, CallInv', Intact, Once, Enrolled, NEW p \in Peer, inbox[p] # <<>>,
         Handle(p, Head(inbox[p])), Meets(p), InSession(p)', NEW q \in InRoom \ {p}
  PROVE  /\ q \in seen'[p] \/ Introduced(accepted', inbox'[p], q)
         /\ Knows(p, q)' => q \in seen'[p]
<1>1. PICK e : e = Head(inbox[p])
  OBVIOUS
<1>2. /\ Take(p, e) /\ Receive(p) /\ InCall(p) /\ HandlerMoves(p, e)
      /\ UNCHANGED <<session, accepted>> /\ inbox'[p] = Tail(inbox[p])
      /\ seen'[p] = SeenAfter(p, e) /\ Own(p) \in Member
  <2>1. /\ Take(p, e) /\ Receive(p) /\ InCall(p) /\ HandlerMoves(p, e)
        /\ UNCHANGED <<session, accepted>>
    BY <1>1, HandleMoves DEF Take, Receive
  <2>2. inbox'[p] = Tail(inbox[p])
    BY <2>1 DEF Receive, CallInv, IInv, TypeOK
  <2>3. seen'[p] = SeenAfter(p, e)
    BY <2>1 DEF Take, CallInv, CallShape
  <2> QED
    BY <2>1, <2>2, <2>3, Handling
<1>3. StaysPut(p, e) \/ Applies(p, e) \/ TakesWelcome(p, e)
  BY <1>1, StayerStays
<1>4. InSession(p)
  BY <1>2, <1>3 DEF InSession, StaysPut, Applies, TakesWelcome, SameLog
<1>5. CASE q \in seen[p]
  BY <1>2, <1>5, SeenStays
<1>6. CASE Joins(e, q)
  BY <1>2, <1>6 DEF Joins, SeenAfter
<1>7. ASSUME q \notin seen[p], ~ Joins(e, q)
      PROVE  Introduced(accepted', inbox'[p], q) /\ ~ Knows(p, q)'
  <2>1. Introduced(accepted, inbox[p], q) /\ ~ Knows(p, q)
    BY <1>4, <1>7 DEF Meets
  <2>2. ~ Shows(accepted, e, q) /\ Introduced(accepted', inbox'[p], q)
    <3>1. PICK s, acc : s = inbox[p] /\ acc = accepted
      OBVIOUS
    <3>2. s \in Seq(Event)
      BY <3>1, MailType DEF CallInv, IInv
    <3> QED
      BY <1>1, <1>2, <1>7, <2>1, <3>1, <3>2, IntroducedNext
  <2>3. First(q) \notin Roll(call'[p].log) /\ call'[p].names[q] = {}
    <3>1. /\ e.name = "e2eeCommit" => First(q) \notin Roll(e.payload)
          /\ e.name = "e2eeWelcome" => First(q) \notin Roll(Welcomed(e))
      BY <1>1, <1>2, <2>2, HeadNames DEF Shows, IsMls
    <3>2. First(q) \notin Roll(call[p].log) /\ call[p].names[q] = {}
      BY <2>1 DEF Knows
    <3>3. CASE StaysPut(p, e)
      <4>1. call[p].names \in [Peer -> SUBSET Member] /\ q \in Peer
        BY DEF CallInv, CallShape, ClientRecord, InRoom
      <4>2. e.name = "e2eeJoinRequested" => e.peer # q
        BY <2>2 DEF Shows
      <4>3. call'[p].log = call[p].log /\ Notes(call[p], call'[p], e)
        BY <3>3 DEF StaysPut, SameLog
      <4> QED
        BY <3>2, <4>1, <4>2, <4>3 DEF Notes
    <3>4. CASE Applies(p, e)
      BY <3>1, <3>2, <3>4 DEF Applies, NextCommit
    <3>5. CASE TakesWelcome(p, e)
      BY <3>1, <3>2, <3>5 DEF TakesWelcome
    <3> QED
      BY <1>3, <3>3, <3>4, <3>5
  <2>4. ~ (Pending(p)' /\ First(q) \in Roll(task'[p].log))
    <3>1. Roll(call'[p].log) \subseteq Entered /\ NamesFit(call'[p], Entered)
      BY HandlerNames
    <3> QED
      BY <1>2, <2>3, <3>1, StagedNames DEF HandlerMoves
  <2> QED
    BY <2>2, <2>3, <2>4 DEF Knows
<1> QED
  BY <1>5, <1>6, <1>7

(* What p goes on with after an answer names nobody it did not know. *)
LEMMA AnsweringMeets ==
  ASSUME CallInv, CallInv', Intact, Enrolled, NEW p \in Peer, HearAnswer(p), Meets(p),
         InSession(p)', NEW q \in InRoom \ {p}
  PROVE  /\ q \in seen'[p] \/ Introduced(accepted', inbox'[p], q)
         /\ Knows(p, q)' => q \in seen'[p]
<1>1. /\ InCall(p) /\ Pending(p) /\ UNCHANGED relayVars /\ call'[p].group = call[p].group
      /\ UNCHANGED <<seen, away>> /\ call'[p].names = call[p].names
      /\ StagedBy(p, call'[p], seen[p], away[p], task'[p])
      /\ call'[p].log \in {call[p].log, task[p].log}
  BY AnswerMoves DEF Intact
<1>2. UNCHANGED <<session, inbox, accepted, seen>> /\ InSession(p) /\ Own(p) \in Member
  BY <1>1, Handling DEF relayVars, InSession
<1>3. Knows(p, q)' => Knows(p, q)
  <2>1. First(q) \in Roll(call'[p].log) => Knows(p, q)
    BY <1>1 DEF Knows
  <2>2. Pending(p)' /\ First(q) \in Roll(task'[p].log)
          => First(q) \in Roll(call'[p].log) \/ call'[p].names[q] # {}
    <3>1. Roll(call'[p].log) \subseteq Entered /\ NamesFit(call'[p], Entered)
      BY AnswerNames DEF Intact
    <3> QED
      BY <1>1, <1>2, <3>1, StagedNames
  <2> QED
    BY <1>1, <2>1, <2>2 DEF Knows
<1> QED
  BY <1>2, <1>3 DEF Meets

LEMMA MeetsKeeps ==
  ASSUME MlsIsPayload, OneDevice, CallInv, Intact, Once, Enrolled, Aware,
         NEW p \in Peer, Runs(p) \/ Befalls(p), NEW r \in Peer, Meets(r)
  PROVE  Meets(r)'
<1> SUFFICES ASSUME InSession(r)', NEW q \in InRoom', q # r
             PROVE  /\ q \in seen'[r] \/ Introduced(accepted', inbox'[r], q)
                    /\ Knows(r, q)' => q \in seen'[r]
  BY DEF Meets
<1>1. CallInv' /\ q \in Peer /\ SocketsUp /\ (q \in InRoom \/ (Enter(p) /\ q = p))
  BY CallStepKeeps, RoomShrinks DEF CallNext, InRoom, Intact
<1>2. CASE Enter(p) /\ r = p
  BY <1>1, <1>2, NewcomerSees
<1>3. ASSUME ~ (Enter(p) /\ r = p) PROVE session' = session
  <2>1. CASE Enter(p)
    BY <1>3, <2>1, NewSessionIsOfOne
  <2>2. CASE ~ Enter(p)
    BY <2>2, OthersStay DEF Intact
  <2> QED
    BY <2>1, <2>2
<1>4. CASE Enter(p) /\ r # p /\ q = p
  BY <1>3, <1>4, NewcomerIsMet
<1>5. CASE q \in InRoom /\ (r # p \/ ~ Decides(p))
  <2>1. session' = session
    BY <1>3, <1>5 DEF Decides
  <2> QED
    BY <1>5, <2>1, StayingMeets
<1>6. CASE q \in InRoom /\ r = p /\ inbox[p] # <<>> /\ Handle(p, Head(inbox[p]))
  BY <1>1, <1>6, HandlingMeets
<1>7. CASE q \in InRoom /\ r = p /\ HearAnswer(p)
  BY <1>1, <1>7, AnsweringMeets
<1> QED
  BY <1>1, <1>2, <1>4, <1>5, <1>6, <1>7 DEF Decides

(* Nobody stages a Commit that takes out someone who is in the room. *)
LEMMA SparesKeeps ==
  ASSUME MlsIsPayload, OneDevice, CallInv, Intact, Once, Enrolled,
         NEW p \in Peer, Runs(p) \/ Befalls(p), NEW r \in Peer, Spares(r), Meets(r)'
  PROVE  Spares(r)'
<1> SUFFICES ASSUME InSession(r)', Pending(r)', NEW q \in InRoom', First(q) \in Roll(call'[r].log)
             PROVE  First(q) \in Roll(task'[r].log)
  BY DEF Spares
<1>1. CallInv' /\ q \in Peer /\ (q \in InRoom \/ (Enter(p) /\ q = p))
  BY CallStepKeeps, RoomShrinks DEF CallNext, InRoom
<1>2. CASE r # p \/ ~ Decides(p)
  <2>1. Keeps(r)
    BY <1>2, StepKeepsCalls
  <2>2. session' = session
    <3>1. CASE Enter(p)
      BY <1>2, <3>1, NewSessionIsOfOne DEF Decides
    <3>2. CASE ~ Enter(p)
      BY <3>2, OthersStay DEF Intact
    <3> QED
      BY <3>1, <3>2
  <2>3. /\ InSession(r) /\ Pending(r) /\ First(q) \in Roll(call[r].log)
        /\ task'[r].log = task[r].log
    BY <2>1, <2>2 DEF InSession, Keeps, SameLog
  <2>4. q \in InRoom
    <3>1. CASE Enter(p) /\ q = p
      <4>1. status[p] = "unborn"
        BY <3>1 DEF Enter, Join
      <4> QED
        BY <2>3, <3>1, <4>1, UnbornIsUnknown
    <3> QED
      BY <1>1, <3>1
  <2> QED
    BY <2>3, <2>4 DEF Spares
<1>3. ASSUME q \in InRoom, InCall(p), r = p,
             StagedBy(p, call'[p], seen'[p], away'[p], task'[p]),
             NamesFit(call'[p], Entered), Roll(call'[p].log) \subseteq Entered
      PROVE  First(q) \in Roll(task'[p].log)
  <2>1. q \in seen'[p] \/ First(q) = Own(p)
    <3>1. CASE q = p
      BY <1>3, <3>1 DEF Once, Own, First
    <3>2. CASE q # p
      BY <1>3, <3>2 DEF Meets, Knows
    <3> QED
      BY <3>1, <3>2
  <2>2. Own(p) \in Member
    BY <1>3, Handling
  <2> QED
    BY <1>1, <1>3, <2>1, <2>2, StagedNames
<1>4. CASE r = p /\ inbox[p] # <<>> /\ Handle(p, Head(inbox[p]))
  <2>1. InCall(p) /\ StagedBy(p, call'[p], seen'[p], away'[p], task'[p])
    BY <1>4, HandleMoves DEF HandlerMoves
  <2>2. NamesFit(call'[p], Entered) /\ Roll(call'[p].log) \subseteq Entered
    BY <1>1, <1>4, HandlerNames
  <2>3. q \in InRoom
    <3>1. ~ Enter(p)
      BY <2>1 DEF Enter, Join, CallInv, ClientFits, FitSeat
    <3> QED
      BY <1>1, <3>1
  <2> QED
    BY <1>3, <1>4, <2>1, <2>2, <2>3
<1>5. CASE r = p /\ HearAnswer(p)
  <2>1. InCall(p) /\ StagedBy(p, call'[p], seen'[p], away'[p], task'[p])
    BY <1>5, AnswerMoves DEF Intact
  <2>2. NamesFit(call'[p], Entered) /\ Roll(call'[p].log) \subseteq Entered
    BY <1>1, <1>5, AnswerNames DEF Intact
  <2>3. q \in InRoom
    <3>1. ~ Enter(p)
      BY <2>1 DEF Enter, Join, CallInv, ClientFits, FitSeat
    <3> QED
      BY <1>1, <3>1
  <2> QED
    BY <1>3, <1>5, <2>1, <2>2, <2>3
<1>6. CASE r = p /\ Enter(p)
  BY <1>6, EnterMoves
<1> QED
  BY <1>2, <1>4, <1>5, <1>6 DEF Decides

LEMMA StayKeeps ==
  ASSUME MlsIsPayload, OneDevice, CallInv, NothingLost, SettledInv, StayInv, [CallNext]_vars
  PROVE  StayInv'
<1>1. CASE UNCHANGED vars
  <2>1. /\ UNCHANGED <<status, session, inbox, accepted>>
        /\ UNCHANGED <<seen, call, task, starts, drops, fails>>
    BY <1>1 DEF vars, relayVars, callVars
  <2>2. InRoom' = InRoom /\ Entered' = Entered
    BY <2>1 DEF InRoom, Entered
  <2>3. Enrolled => Enrolled'
    BY <2>1, <2>2 DEF Enrolled, ClientEnrolled, NamesFit, AsksFit, Pending, InCall, Mail
  <2>4. (Once => Once') /\ (Aware => Aware')
    BY <2>1, <2>2 DEF Once, Aware, Mail
  <2>5. \A p \in Peer : (Meets(p) => Meets(p)') /\ (Spares(p) => Spares(p)')
    BY <2>1, <2>2 DEF Meets, Spares, InSession, InCall, Pending, Knows
  <2> QED
    BY <2>1, <2>3, <2>4, <2>5 DEF StayInv, Unbroken
<1>2. ASSUME NEW p \in Peer, Runs(p) \/ Befalls(p), Unbroken'
      PROVE  Enrolled' /\ Once' /\ Aware' /\ \A r \in Peer : Meets(r)' /\ Spares(r)'
  <2>1. Unbroken
    BY <1>2, TroubleGrows DEF Unbroken
  <2>2. Intact
    BY <1>2, <2>1 DEF Intact, NothingLost, SettledInv, Unbroken
  <2>3. Enrolled /\ Once /\ Aware /\ \A r \in Peer : Meets(r) /\ Spares(r)
    BY <2>1 DEF StayInv
  <2>4. Enrolled' /\ Once' /\ Aware'
    BY <1>2, <2>2, <2>3, EnrolledKeeps, OnceKeeps, AwareKeeps
  <2>5. \A r \in Peer : Meets(r)'
    BY <1>2, <2>2, <2>3, MeetsKeeps
  <2>6. \A r \in Peer : Spares(r)'
    BY <1>2, <2>2, <2>3, <2>5, SparesKeeps
  <2> QED
    BY <2>4, <2>5, <2>6
<1>3. CASE ~ UNCHANGED vars
  <2>1. PICK p \in Peer : Runs(p) \/ Befalls(p)
    BY <1>3 DEF CallNext
  <2> QED
    BY <1>2, <2>1 DEF StayInv
<1> QED
  BY <1>1, <1>3

(* With one device to an account, and as long as no socket is lost and no     *)
(* request fails, a client knows by its leaf or its KeyPackage only whom its  *)
(* roster shows (addPeer in Room.ts tells of a newcomer before anything that  *)
(* comes from it), and stages no Commit that takes out someone who is in the  *)
(* room.                                                                      *)
THEOREM StayInvariant ==
  ASSUME MlsIsPayload, OneDevice
  PROVE  CallSpec => []StayInv
<1>1. CallInit => StayInv
  <2> SUFFICES ASSUME CallInit PROVE StayInv
    OBVIOUS
  <2>1. /\ \A p \in Peer : call[p] = NoCall /\ task[p] = Idle
        /\ accepted = {} /\ InRoom = {}
    BY DEF CallInit, Init, InRoom
  <2>2. \A p \in Peer : ~ InCall(p) /\ ~ Pending(p)
    BY <2>1 DEF InCall, NoCall, Pending, Idle
  <2>3. \A p \in Peer : Roll(call[p].log) = {} /\ NamesFit(call[p], Entered)
    BY <2>1 DEF NoCall, Roll, NamesFit
  <2>4. Enrolled
    BY <2>1, <2>2, <2>3 DEF Enrolled, ClientEnrolled
  <2> QED
    BY <2>1, <2>2, <2>4 DEF StayInv, Once, Aware, Meets, Spares, InSession
<1>2. CallInv /\ NothingLost /\ SettledInv /\ StayInv /\ [CallNext]_vars => StayInv'
  BY StayKeeps
<1> QED
  BY <1>1, <1>2, CallInvariant, NothingLostInvariant, SettledInvariant, PTL DEF CallSpec

(* A Commit accepted now takes out nobody who stayed. *)
LEMMA AcceptedSpares ==
  ASSUME MlsIsPayload, OneDevice, CallInv, NothingLost, SettledInv, StayInv, [CallNext]_vars,
         Unbroken'
  PROVE  TakesNobodyOut
<1> SUFFICES ASSUME NEW a \in accepted' \ accepted, NEW r \in Seated, call[r].group = a.group,
                    Own(r) \in TakenOut(a)
             PROVE  FALSE
  BY DEF TakesNobodyOut
<1>1. PICK p \in Peer : Runs(p) \/ Befalls(p)
  BY DEF CallNext, vars, relayVars
<1>2. /\ Enrolled /\ Once /\ Spares(p) /\ Staged(p) /\ OneSession
  BY <1>1, TroubleGrows DEF StayInv, SettledInv, NothingLost, Unbroken
<1>3. /\ InCall(p) /\ Pending(p) /\ a.group = call[p].group /\ a.payload = task[p].log
  <2>1. Closes(p, a)
    BY <1>1, WhoCloses
  <2>2. InCall(p) /\ Pending(p)
    BY <2>1 DEF Closes
  <2>3. PICK c : /\ c = [group |-> call[p].group, epoch |-> Epoch(call[p].log),
                         payload |-> task[p].log]
                 /\ a = Decision(p, c)
    BY <2>1 DEF Closes
  <2>4. a.group = call[p].group /\ a.payload = task[p].log
    BY <2>3 DEF Decision
  <2> QED
    BY <2>2, <2>4
<1>4. r \in InRoom /\ InCall(r) /\ call[r].group = session
  BY <1>2 DEF Seated, OneSession
<1>5. InSession(p) /\ Own(r) = First(r)
  BY <1>2, <1>3, <1>4 DEF InSession, Once, Own, First
<1>6. PICK n, log, next : /\ log = call[p].log /\ next = task[p].log
                          /\ n \in Nat /\ n = Len(log) /\ n >= 1
                          /\ Len(next) = n + 1 /\ SubSeq(next, 1, n) = log
  <2>1. Len(call[p].log) \in Nat /\ Len(call[p].log) >= 1
    BY <1>3, Handling DEF FitTask, Pending
  <2>2. Continues(call[p].log, task[p].log)
    BY <1>2, <1>3 DEF Staged
  <2> QED
    BY <2>1, <2>2 DEF Continues
<1>7. TakenOut(a) = Members(log) \ Members(next)
  <2>1. n + 1 - 1 = n
    BY <1>6
  <2>2. Len(next) - 1 = n /\ a.payload = next
    BY <1>3, <1>6, <2>1
  <2>3. SubSeq(next, 1, Len(next) - 1) = log
    BY <1>6, <2>2
  <2> QED
    BY <2>2, <2>3 DEF TakenOut
<1>8. Roll(log) = Members(log) /\ Roll(next) = Members(next)
  BY <1>6, EmptySeq DEF Roll
<1>9. First(r) \in Roll(log) /\ First(r) \notin Roll(next)
  BY <1>5, <1>7, <1>8
<1> QED
  BY <1>2, <1>3, <1>4, <1>5, <1>6, <1>9 DEF Spares

(* Presence (e2ee_call.rs), a device in the room is "kept in the group": until *)
(* a socket is lost or a request fails, no Commit the relay accepts takes out  *)
(* the current leaf of someone who is in the room and in that group.           *)
THEOREM NobodyRemoved ==
  ASSUME MlsIsPayload, OneDevice
  PROVE  CallSpec => [][Unbroken' => TakesNobodyOut]_vars
<1>1. CallInv /\ NothingLost /\ SettledInv /\ StayInv /\ [CallNext]_vars
        => [Unbroken' => TakesNobodyOut]_vars
  BY AcceptedSpares
<1> QED
  BY <1>1, CallInvariant, NothingLostInvariant, SettledInvariant, StayInvariant, PTL
     DEF CallSpec

-----------------------------------------------------------------------------
(* Whoever has a group has its place in it *)

(* The Commits of the room's session keep the leaves of those in the room. *)
LeavesKept ==
  \A a, b \in accepted : Ours(a) /\ Ours(b) /\ a.epoch <= b.epoch =>
    \A q \in InRoom : First(q) \in Roll(a.payload) => First(q) \in Roll(b.payload)

(* p has its leaf in what it holds, and keeps it in what it has not applied. *)
Placed(p) ==
  p \in InRoom /\ InSession(p) /\ ~ Awaiting(call[p]) =>
    /\ First(p) \in Roll(call[p].log)
    /\ \A a \in accepted : Ours(a) /\ Epoch(call[p].log) <= a.epoch => First(p) \in Roll(a.payload)

PlacedInv == Unbroken => LeavesKept /\ \A p \in Peer : Placed(p)

(* A Commit of the room's group was accepted in its session. *)
LEMMA OfTheSession ==
  ASSUME CallInv, NEW a \in accepted, a.group = session
  PROVE  Ours(a) /\ a.epoch \in Nat /\ a.epoch < groups[session].currentEpoch
<1>1. a.group <= a.life /\ a.life \in Nat /\ a.epoch \in Nat /\ session \in Nat
  BY DEF CallInv, AcceptedFit, IInv, TypeOK
<1>2. a.life <= session /\ (a.life = session => a.epoch < groups[a.group].currentEpoch)
  BY DEF CallInv, IInv, RelayInv, HistoryAgrees
<1> QED
  BY <1>1, <1>2 DEF Ours

LEMMA CreatedHas ==
  ASSUME NEW m \in Member
  PROVE  m \in Roll(Created(m))
<1>1. PICK log : log = Created(m)
  OBVIOUS
<1>2. Len(log) = 1 /\ log[1] = [by |-> m, tree |-> <<m>>]
  BY <1>1 DEF Created
<1>3. Tree(log) = <<m>>
  BY <1>2 DEF Tree
<1>4. PICK tree : tree = Tree(log) /\ 1 \in DOMAIN tree /\ tree[1] = m
  BY <1>3
<1>5. m \in Members(log)
  BY <1>4, MemberNotBlank DEF Members
<1>6. log # <<>>
  BY <1>2
<1> QED
  BY <1>1, <1>5, <1>6 DEF Roll

(* A Welcome is taken only by whom it has a leaf for. *)
LEMMA WelcomeSeats ==
  ASSUME CallInv, NEW p \in Peer, inbox[p] # <<>>, NEW e, e = Head(inbox[p]), Handle(p, e),
         TakesWelcome(p, e)
  PROVE  Own(p) \in Roll(call'[p].log)
<1>1. HandleWelcome(p, e)
  BY DEF Handle, HandleRoster, HandlePeerLeft, HandleKeyPackage, HandleCommit, HandleRejoined,
         TakesWelcome
<1>2. Len(Welcomed(e)) >= 2 /\ Welcomed(e) # <<>> /\ Welcomed(e) \in Seq(Entry)
  BY HeadWelcomed, EmptySeq DEF TakesWelcome
<1>3. CASE Own(p) \in Members(Welcomed(e))
  BY <1>2, <1>3 DEF TakesWelcome, Roll
<1>4. CASE Own(p) \notin Members(Welcomed(e))
  <2>1. call' = [call EXCEPT ![p] = Failed(call[p])]
    BY <1>1, <1>4 DEF HandleWelcome, Calls
  <2>2. call'[p].log = <<>>
    BY <2>1, SameLogs DEF CallInv, CallShape, TakesWelcome, Awaiting, SameLog
  <2> QED
    BY <1>2, <2>2 DEF TakesWelcome
<1> QED
  BY <1>3, <1>4

(* A count that is not zero is one, or more: of a log, that it is the founder's alone, or not. *)
LEMMA OneOrMore == \A k \in Nat : k >= 1 => k = 1 \/ k >= 2
  OBVIOUS

(* Who has a Commit accepted keeps everybody's leaf in it. *)
LEMMA AcceptedKeepsLeaves ==
  ASSUME MlsIsPayload, CallInv, Intact, Once, LeavesKept, \A q \in Peer : Placed(q) /\ Spares(q),
         NEW p \in Peer, Runs(p) \/ Befalls(p),
         NEW a \in accepted', a \notin accepted, Ours(a)', NEW q \in InRoom
  PROVE  /\ session' = session
         /\ \A b \in accepted : Ours(b) =>
              /\ b.epoch < a.epoch
              /\ First(q) \in Roll(b.payload) => First(q) \in Roll(a.payload)
         /\ InSession(q) /\ ~ Awaiting(call[q]) => First(q) \in Roll(a.payload)
<1>1. Closes(p, a)
  BY WhoCloses
<1>2. session' = session /\ InCall(p) /\ Pending(p)
  BY <1>1 DEF Closes
<1>3. PICK n : n = groups[session].currentEpoch
  OBVIOUS
<1>4. /\ a.epoch = n /\ a.epoch = Epoch(call[p].log) /\ a.payload = task[p].log
      /\ call[p].group = session
  <2>1. PICK c : /\ c = [group |-> call[p].group, epoch |-> Epoch(call[p].log),
                         payload |-> task[p].log]
                 /\ a = Decision(p, c)
    BY <1>1 DEF Closes
  <2>2. a.group = call[p].group /\ a.epoch = Epoch(call[p].log) /\ a.payload = task[p].log
    BY <2>1 DEF Decision
  <2>3. a.group = session
    BY <1>2 DEF Ours
  <2> QED
    BY <1>1, <1>3, <2>2, <2>3 DEF Closes
<1>5. Len(call[p].log) \in Nat /\ Len(call[p].log) >= 1 /\ n \in Nat
  <2>1. Len(call[p].log) \in Nat /\ Len(call[p].log) >= 1
    BY <1>2, Handling DEF Pending, FitTask
  <2> QED
    BY <1>4, <2>1 DEF Epoch
<1>6. InSession(p)
  BY <1>2, <1>4 DEF InSession
<1>7. First(q) \in Roll(call[p].log) => First(q) \in Roll(a.payload)
  BY <1>2, <1>4, <1>6 DEF Spares
<1>8. ASSUME NEW b \in accepted, Ours(b)
      PROVE  b.epoch \in Nat /\ b.epoch < n /\ b.epoch < a.epoch
  BY <1>3, <1>4, <1>8, OursAreClosed
<1>9. CASE Len(call[p].log) = 1
  <2>1. \A b \in accepted : ~ Ours(b)
    BY <1>4, <1>8, <1>9 DEF Epoch
  <2>2. ASSUME InSession(q), ~ Awaiting(call[q])
        PROVE  First(q) \in Roll(a.payload)
    <3>1. q \in Peer /\ Len(call[q].log) \in Nat /\ Len(call[q].log) # 0
      BY <2>2, Handling DEF InSession, InRoom
    <3>2. Len(call[q].log) = 1
      <4>1. ~ (Len(call[q].log) >= 2)
        BY <2>1, <2>2, <3>1, HeldIsAccepted DEF InSession, Ours
      <4>2. PICK k \in Nat : k = Len(call[q].log)
        BY <3>1
      <4>3. k # 0 /\ ~ (k >= 2)
        BY <3>1, <4>1, <4>2
      <4>4. k = 1
        BY <4>3
      <4> QED
        BY <4>2, <4>4
    <3>3. q = p
      BY <1>6, <1>9, <2>2, <3>1, <3>2 DEF Intact, OneFounder
    <3> QED
      BY <1>7, <2>2, <3>1, <3>3 DEF Placed
  <2> QED
    BY <1>2, <2>1, <2>2
<1>10. CASE Len(call[p].log) >= 2
  <2>1. PICK c \in accepted : /\ Ours(c) /\ c.payload = call[p].log
                              /\ Len(call[p].log) = c.epoch + 2 /\ c.epoch \in Nat
    BY <1>4, <1>10, HeldIsAccepted DEF Ours
  <2>2. c.epoch + 1 = n
    BY <1>4, <1>5, <2>1 DEF Epoch
  <2>3. ASSUME NEW b \in accepted, Ours(b), First(q) \in Roll(b.payload)
        PROVE  First(q) \in Roll(a.payload)
    <3>1. b.epoch <= c.epoch
      BY <1>5, <1>8, <2>1, <2>2, <2>3
    <3> QED
      BY <1>7, <2>1, <2>3, <3>1 DEF LeavesKept
  <2>4. ASSUME InSession(q), ~ Awaiting(call[q])
        PROVE  First(q) \in Roll(a.payload)
    <3>1. q \in Peer /\ Len(call[q].log) \in Nat /\ Len(call[q].log) # 0
      BY <2>4, Handling DEF InSession, InRoom
    <3>2. CASE Epoch(call[q].log) <= c.epoch
      BY <1>7, <2>1, <2>4, <3>1, <3>2 DEF Placed
    <3>3. CASE Len(call[q].log) >= 2 /\ c.epoch < Epoch(call[q].log)
      <4>1. PICK d \in accepted : /\ Ours(d) /\ d.payload = call[q].log
                                  /\ Len(call[q].log) = d.epoch + 2 /\ d.epoch \in Nat
        BY <2>4, <3>1, <3>3, HeldIsAccepted DEF Ours, InSession
      <4>2. First(q) \in Roll(d.payload)
        BY <2>4, <3>1, <4>1 DEF Placed
      <4> QED
        BY <2>3, <4>1, <4>2
    <3> QED
      BY <2>1, <3>1, <3>2, <3>3 DEF Epoch
  <2> QED
    BY <1>2, <1>8, <2>3, <2>4
<1>11. Len(call[p].log) = 1 \/ Len(call[p].log) >= 2
  BY <1>5, OneOrMore
<1> QED
  BY <1>9, <1>10, <1>11

(* What p takes over has its leaf, and so has what comes after it. *)
LEMMA TakenOver ==
  ASSUME CallInv, LeavesKept, NEW p \in InRoom, NEW a \in accepted, Ours(a),
         First(p) \in Roll(a.payload)
  PROVE  \A b \in accepted : Ours(b) /\ Epoch(a.payload) <= b.epoch => First(p) \in Roll(b.payload)
<1>1. Len(a.payload) = a.epoch + 2 /\ a.epoch \in Nat
  BY OursAreClosed DEF CallInv, AcceptedFit
<1>2. \A b \in accepted : b.epoch \in Nat
  BY DEF CallInv, IInv, TypeOK
<1>3. \A b \in accepted : Epoch(a.payload) <= b.epoch => a.epoch <= b.epoch
  BY <1>1, <1>2 DEF Epoch
<1> QED
  BY <1>3 DEF LeavesKept

(* What p holds after a step: what it held, or what the relay accepted, with *)
(* its leaf in it.                                                          *)
LEMMA HoldsPlace ==
  ASSUME CallInv, CallInv', Intact, Once, \A q \in Peer : Placed(q) /\ Spares(q),
         NEW p \in Peer, \/ inbox[p] # <<>> /\ Handle(p, Head(inbox[p]))
                         \/ HearAnswer(p),
         p \in InRoom, InSession(p)', ~ Awaiting(call'[p])
  PROVE  /\ accepted' = accepted /\ session' = session /\ status' = status
         /\ \/ InSession(p) /\ call'[p].log = call[p].log
            \/ \E a \in accepted : Ours(a) /\ a.payload = call'[p].log /\ First(p) \in Roll(a.payload)
<1>1. CASE HearAnswer(p)
  <2>1. /\ InCall(p) /\ Pending(p) /\ UNCHANGED relayVars
        /\ call'[p].group = call[p].group /\ Len(call[p].log) >= 1
        /\ IF task[p].step = "accepted"
           THEN call'[p].log = task[p].log /\ Len(task[p].log) = Len(call[p].log) + 1
           ELSE call'[p].log = call[p].log
    BY <1>1, AnswerMoves DEF Intact
  <2>2. accepted' = accepted /\ session' = session /\ status' = status
    BY <2>1 DEF relayVars
  <2>3. InSession(p)
    BY <2>1, <2>2 DEF InSession
  <2>4. CASE task[p].step = "accepted"
    <3>1. Supported(accepted, call[p].group, task[p].log)
      BY <2>1, <2>4, Handling DEF FitTask
    <3>2. PICK a \in accepted : a.group = session /\ a.payload = task[p].log
      BY <2>3, <3>1 DEF Supported, InSession
    <3>3. ~ Awaiting(call[p])
      BY <2>1, Handling DEF Awaiting
    <3>4. First(p) \in Roll(call[p].log)
      BY <2>3, <3>3 DEF Placed
    <3>5. First(p) \in Roll(task[p].log)
      BY <2>1, <2>3, <3>4 DEF Spares
    <3> QED
      BY <2>1, <2>2, <2>4, <3>2, <3>5, OfTheSession
  <2> QED
    BY <2>1, <2>2, <2>3, <2>4
<1>2. ASSUME NEW e, e = Head(inbox[p]), inbox[p] # <<>>, Handle(p, e)
      PROVE  /\ accepted' = accepted /\ session' = session /\ status' = status
             /\ \/ InSession(p) /\ call'[p].log = call[p].log
                \/ \E a \in accepted : /\ Ours(a) /\ a.payload = call'[p].log
                                       /\ First(p) \in Roll(a.payload)
  <2>1. /\ Take(p, e) /\ InCall(p)
        /\ accepted' = accepted /\ session' = session /\ status' = status
    BY <1>2, HandleMoves DEF Take, Receive
  <2>2. StaysPut(p, e) \/ Applies(p, e) \/ TakesWelcome(p, e)
    BY <1>2, StayerStays
  <2>3. InSession(p)
    BY <2>1, <2>2 DEF InSession, StaysPut, Applies, TakesWelcome, SameLog
  <2>4. CASE StaysPut(p, e)
    BY <2>1, <2>3, <2>4 DEF StaysPut, SameLog
  <2>5. CASE Applies(p, e)
    <3>1. PICK a \in accepted : /\ a.group = e.group /\ a.epoch = e.epoch
                                /\ a.payload = e.payload
      BY <1>2, <2>1, <2>5, HeadNames DEF Applies, NextCommit
    <3>2. Ours(a) /\ a.payload = call'[p].log /\ Epoch(call[p].log) <= a.epoch
      BY <2>3, <2>5, <3>1, OfTheSession DEF Applies, NextCommit, InSession
    <3>3. ~ Awaiting(call[p])
      BY <2>5 DEF Applies, NextCommit, HasTree
    <3>4. First(p) \in Roll(a.payload)
      BY <2>3, <3>2, <3>3 DEF Placed
    <3> QED
      BY <2>1, <3>2, <3>4
  <2>6. CASE TakesWelcome(p, e)
    <3>1. PICK a \in accepted : a.group = e.group /\ a.payload = Welcomed(e)
      BY <1>2, <2>1, <2>6, HeadNames DEF TakesWelcome
    <3>2. Ours(a) /\ a.payload = call'[p].log
      BY <2>3, <2>6, <3>1, OfTheSession DEF TakesWelcome, InSession
    <3>3. Own(p) \in Roll(call'[p].log)
      BY <1>2, <2>6, WelcomeSeats
    <3>4. Own(p) = First(p)
      BY DEF Once, Own, First
    <3> QED
      BY <2>1, <3>2, <3>3, <3>4
  <2> QED
    BY <2>2, <2>4, <2>5, <2>6
<1> QED
  BY <1>1, <1>2

LEMMA LeavesKeptKeeps ==
  ASSUME MlsIsPayload, OneDevice, CallInv, Intact, Once, Enrolled,
         LeavesKept, \A q \in Peer : Placed(q) /\ Spares(q),
         NEW p \in Peer, Runs(p) \/ Befalls(p)
  PROVE  LeavesKept'
<1> SUFFICES ASSUME NEW a \in accepted', NEW b \in accepted', Ours(a)', Ours(b)',
                    a.epoch <= b.epoch, NEW q \in InRoom', First(q) \in Roll(a.payload)
             PROVE  First(q) \in Roll(b.payload)
  BY DEF LeavesKept
<1>1. session' = session
  BY SessionOrNew DEF CallNext
<1>2. CASE a \in accepted
  <2>1. q \in InRoom
    <3>1. CASE Enter(p) /\ q = p
      <4>1. First(q) \in Entered
        BY <1>2 DEF Enrolled
      <4>2. status[p] = "unborn"
        BY <3>1 DEF Enter, Join
      <4> QED
        BY <3>1, <4>1, <4>2 DEF Entered, First
    <3> QED
      BY <3>1, RoomShrinks
  <2>2. CASE b \in accepted
    BY <1>1, <1>2, <2>1, <2>2 DEF LeavesKept, Ours
  <2>3. CASE b \notin accepted
    BY <1>1, <1>2, <2>1, <2>3, AcceptedKeepsLeaves DEF Ours
  <2> QED
    BY <2>2, <2>3
<1>3. CASE a \notin accepted
  <2>1. Closes(p, a)
    BY <1>3, WhoCloses
  <2>2. accepted' = accepted \cup {a} /\ status' = status
    BY <2>1 DEF Closes
  <2>3. CASE b = a
    BY <2>3
  <2>4. CASE b \in accepted
    <3>1. q \in InRoom /\ Ours(b)
      BY <1>1, <2>2 DEF InRoom, Ours
    <3>2. b.epoch < a.epoch /\ b.epoch \in Nat
      BY <1>3, <2>4, <3>1, AcceptedKeepsLeaves, OursAreClosed
    <3>3. a.epoch \in Nat
      BY CallStepKeeps DEF CallNext, CallInv, IInv, TypeOK
    <3> QED
      BY <3>2, <3>3
  <2> QED
    BY <2>2, <2>3, <2>4
<1> QED
  BY <1>2, <1>3

LEMMA PlacedKeeps ==
  ASSUME MlsIsPayload, OneDevice, CallInv, Intact, Once, Enrolled,
         LeavesKept, LeavesKept', \A q \in Peer : Placed(q) /\ Spares(q),
         NEW p \in Peer, Runs(p) \/ Befalls(p), NEW r \in Peer
  PROVE  Placed(r)'
<1> SUFFICES ASSUME r \in InRoom', InSession(r)', ~ Awaiting(call'[r])
             PROVE  /\ First(r) \in Roll(call'[r].log)
                    /\ \A a \in accepted' : Ours(a)' /\ Epoch(call'[r].log) <= a.epoch
                         => First(r) \in Roll(a.payload)
  BY DEF Placed
<1>1. CallInv'
  BY CallStepKeeps DEF CallNext
<1>2. CASE r # p \/ ~ Decides(p)
  <2>1. Keeps(r)
    BY <1>2, StepKeepsCalls
  <2>2. session' = session
    <3>1. CASE Enter(p)
      BY <1>2, <3>1, NewSessionIsOfOne DEF Decides
    <3>2. CASE ~ Enter(p)
      BY <3>2, OthersStay DEF Intact
    <3> QED
      BY <3>1, <3>2
  <2>3. InSession(r) /\ call'[r].log = call[r].log /\ ~ Awaiting(call[r])
    BY <2>1, <2>2 DEF InSession, Keeps, SameLog, Awaiting
  <2>4. r \in InRoom
    BY <1>2, RoomShrinks DEF Decides
  <2>5. First(r) \in Roll(call[r].log)
    BY <2>3, <2>4 DEF Placed
  <2>6. ASSUME NEW a \in accepted', Ours(a)', Epoch(call[r].log) <= a.epoch
        PROVE  First(r) \in Roll(a.payload)
    <3>1. CASE a \in accepted
      BY <2>2, <2>3, <2>4, <2>6, <3>1 DEF Placed, Ours
    <3>2. CASE a \notin accepted
      BY <2>3, <2>4, <2>6, <3>2, AcceptedKeepsLeaves
    <3> QED
      BY <3>1, <3>2
  <2> QED
    BY <2>3, <2>5, <2>6
<1>3. CASE r = p /\ ((inbox[p] # <<>> /\ Handle(p, Head(inbox[p]))) \/ HearAnswer(p))
  <2>1. InCall(p) /\ ~ Enter(p)
    <3>1. InCall(p)
      BY <1>3, HandleMoves, AnswerMoves DEF Intact
    <3> QED
      BY <3>1 DEF Enter, Join, CallInv, ClientFits, FitSeat
  <2>2. p \in InRoom
    BY <1>3, <2>1, RoomShrinks
  <2>3. /\ accepted' = accepted /\ session' = session /\ status' = status
        /\ \/ InSession(p) /\ call'[p].log = call[p].log
           \/ \E a \in accepted : Ours(a) /\ a.payload = call'[p].log /\ First(p) \in Roll(a.payload)
    BY <1>1, <1>3, <2>2, HoldsPlace
  <2>4. CASE InSession(p) /\ call'[p].log = call[p].log
    BY <1>3, <2>2, <2>3, <2>4 DEF Placed, Awaiting, Ours
  <2>5. ASSUME NEW a \in accepted, Ours(a), a.payload = call'[p].log, First(p) \in Roll(a.payload)
        PROVE  /\ First(r) \in Roll(call'[r].log)
               /\ \A b \in accepted' : Ours(b)' /\ Epoch(call'[r].log) <= b.epoch
                    => First(r) \in Roll(b.payload)
    BY <1>3, <2>2, <2>3, <2>5, TakenOver DEF Ours
  <2> QED
    BY <2>3, <2>4, <2>5
<1>4. CASE r = p /\ Enter(p)
  <2>1. session' # session
    BY <1>4, EnterMoves
  <2>2. \A a \in accepted' : ~ Ours(a)'
    BY <2>1, SessionOrNew DEF CallNext
  <2>3. PICK alone \in BOOLEAN : call'[p] = Started(p, 1, session', alone)
    <3>1. PICK alone \in BOOLEAN : alone = ({q \in Peer : status'[q] = "here"} \ {p} = {})
      OBVIOUS
    <3>2. call'[p] = Started(p, 1, session', alone)
      BY <1>4, <3>1 DEF Enter
    <3> QED
      BY <3>2
  <2>4. call'[p].log = IF alone THEN Created(First(p)) ELSE <<>>
    BY <2>3 DEF Started, First
  <2>5. call'[p].log = Created(First(p))
    BY <1>4, <2>4 DEF Awaiting
  <2>6. First(p) \in Member
    BY OwnMember, CallAssumption DEF First
  <2> QED
    BY <1>4, <2>2, <2>5, <2>6, CreatedHas
<1> QED
  BY <1>2, <1>3, <1>4 DEF Decides

LEMMA PlacedInvKeeps ==
  ASSUME MlsIsPayload, OneDevice, CallInv, NothingLost, SettledInv, StayInv, PlacedInv,
         [CallNext]_vars
  PROVE  PlacedInv'
<1>1. CASE UNCHANGED vars
  <2>1. UNCHANGED <<status, session, accepted, call, drops, fails>>
    BY <1>1 DEF vars, relayVars, callVars
  <2>2. (LeavesKept => LeavesKept') /\ \A r \in Peer : Placed(r) => Placed(r)'
    BY <2>1 DEF LeavesKept, Placed, InRoom, InSession, InCall, Ours
  <2> QED
    BY <2>1, <2>2 DEF PlacedInv, Unbroken
<1>2. ASSUME NEW p \in Peer, Runs(p) \/ Befalls(p), Unbroken'
      PROVE  LeavesKept' /\ \A r \in Peer : Placed(r)'
  <2>1. Unbroken
    BY <1>2, TroubleGrows DEF Unbroken
  <2>2. /\ Intact /\ Enrolled /\ Once /\ LeavesKept
        /\ \A r \in Peer : Placed(r) /\ Spares(r)
    BY <1>2, <2>1 DEF Intact, NothingLost, SettledInv, StayInv, PlacedInv, Unbroken
  <2>3. LeavesKept'
    BY <1>2, <2>2, LeavesKeptKeeps
  <2> QED
    BY <1>2, <2>2, <2>3, PlacedKeeps
<1>3. CASE ~ UNCHANGED vars
  <2>1. PICK p \in Peer : Runs(p) \/ Befalls(p)
    BY <1>3 DEF CallNext
  <2> QED
    BY <1>2, <2>1 DEF PlacedInv
<1> QED
  BY <1>1, <1>3

(* With one device to an account, and as long as no socket is lost and no    *)
(* request fails, whoever has a group in the room's session has its own leaf *)
(* in it: nobody holds a group that has taken it out without its knowing.    *)
THEOREM PlacedInvariant ==
  ASSUME MlsIsPayload, OneDevice
  PROVE  CallSpec => []PlacedInv
<1>1. CallInit => PlacedInv
  BY DEF CallInit, Init, InRoom, PlacedInv, LeavesKept, Placed
<1>2. CallInv /\ NothingLost /\ SettledInv /\ StayInv /\ PlacedInv /\ [CallNext]_vars => PlacedInv'
  BY PlacedInvKeeps
<1> QED
  BY <1>1, <1>2, CallInvariant, NothingLostInvariant, SettledInvariant, StayInvariant, PTL
     DEF CallSpec

(* E2EE.md, "without splitting the group": once nothing is on its way, all   *)
(* who have a group are in the same state of the same one, whoever left or   *)
(* was kicked meanwhile, unless a socket was lost or a request failed.       *)
THEOREM EveryoneInOneGroup ==
  ASSUME MlsIsPayload, OneDevice
  PROVE  CallSpec => []OneGroupInTheRoom
<1>1. CallInv /\ NothingLost /\ SettledInv /\ StayInv /\ PlacedInv /\ InStepWithRelay /\ Agreement
        => OneGroupInTheRoom
  <2> SUFFICES ASSUME CallInv, NothingLost, SettledInv, StayInv, PlacedInv, InStepWithRelay,
                      Agreement, Calm, NEW p \in Active, NEW q \in Active,
                      ~ Awaiting(call[p]), ~ Awaiting(call[q])
               PROVE  call[p].log = call[q].log
    BY DEF OneGroupInTheRoom
  <2>1. ASSUME NEW r \in Active, ~ Awaiting(call[r])
        PROVE  /\ r \in Seated /\ call[r].group = session
               /\ Len(call[r].log) \in Nat
               /\ Len(call[r].log) = groups[session].currentEpoch + 1
    <3>1. r \in Peer /\ r \in InRoom /\ InCall(r)
      BY <2>1 DEF Calm, Quiet, Active, InRoom
    <3>2. InSession(r) /\ Placed(r) /\ Once
      BY <3>1 DEF Calm, Unbroken, NothingLost, OneSession, InSession, PlacedInv, StayInv
    <3>3. First(r) \in Roll(call[r].log) /\ Own(r) = First(r)
      BY <2>1, <3>1, <3>2 DEF Placed, Once, Own, First
    <3>4. HasTree(r)
      BY <2>1, <3>3 DEF HasTree, Roll, Awaiting
    <3>5. Epoch(call[r].log) = groups[session].currentEpoch
      BY <2>1, <3>2, <3>4 DEF InStepWithRelay, InSession
    <3>6. Len(call[r].log) \in Nat
      BY <3>1, Handling
    <3>7. groups[session].currentEpoch \in Nat
      BY <3>1, <3>2, Handling DEF InSession, CallInv, IInv, TypeOK, GroupState
    <3> QED
      BY <3>1, <3>2, <3>4, <3>5, <3>6, <3>7 DEF Seated, InSession, Epoch
  <2>2. Len(call[p].log) = Len(call[q].log) /\ call[p].group = call[q].group
    BY <2>1
  <2> QED
    BY <2>1, <2>2 DEF Agreement, Calm, Unbroken
<1> QED
  BY <1>1, CallInvariant, NothingLostInvariant, SettledInvariant, StayInvariant, PlacedInvariant,
     EveryoneInStep, GroupsAgree, PTL
=============================================================================
