---------------------------- MODULE E2eeCallProofs ----------------------------
(***************************************************************************)
(* The theorems about E2eeRelay, for any number of peers, accounts,        *)
(* groups, payloads and epochs, and those about E2eeCall, for any number   *)
(* of lost sockets, failed requests, exits, kicks and identities too.  The *)
(* one hypothesis of the latter is that what a client hands to the relay   *)
(* is a payload to it; the former need none.                               *)
(***************************************************************************)
EXTENDS E2eeCall, FiniteSetTheorems, SequenceTheorems, TLAPS

-----------------------------------------------------------------------------
(* The relay *)

QuietEvent == RosterEvent \cup KeyPackageEvent

(* What the lemmas about one step need of an envelope: no bound on its epoch. *)
AnyCommit == [group: Group, epoch: Nat, payload: Payload]

AnyWelcome == [group: Group, epoch: Nat, target: Peer]

(* What is on its way to q afterwards is a piece of what was, and then news *)
(* that is neither a Commit nor a Welcome.                                  *)
QuietMail(q) ==
  \E m \in 1..2, n \in 0..Len(inbox[q]), t \in Seq(QuietEvent) :
    inbox'[q] = SubSeq(inbox[q], m, n) \o t

-----------------------------------------------------------------------------
(* Sequences of events *)

(* A function over 1..n is a sequence: how the news are built. *)
LEMMA FunctionIsSeq ==
  ASSUME NEW S, NEW n \in Nat, NEW f \in [1..n -> S]
  PROVE  f \in Seq(S)
BY SeqDef, Zenon

(* The news of a roster change are roster events. *)
LEMMA AboutType ==
  ASSUME NEW name \in RosterNames, NEW who \in Seq(Peer)
  PROVE  About(name, who) \in Seq(RosterEvent)
<1>1. who \in [1..Len(who) -> Peer] /\ Len(who) \in Nat
  BY LenProperties
<1>2. [i \in DOMAIN who |-> [name |-> name, peer |-> who[i]]] \in [1..Len(who) -> RosterEvent]
  BY <1>1 DEF RosterEvent
<1>3. [i \in DOMAIN who |-> [name |-> name, peer |-> who[i]]] \in Seq(RosterEvent)
  BY <1>1, <1>2, FunctionIsSeq
<1> QED
  BY <1>3, EmptySeq DEF About

(* A piece of an ordered sequence, followed by quiet events, is ordered and *)
(* holds no Commit or Welcome the sequence did not hold.                    *)
LEMMA PieceOrdered ==
  ASSUME NEW s \in Seq(Event), NEW m \in 1..2, NEW n \in 0..Len(s), NEW t \in Seq(QuietEvent)
  PROVE  LET u == SubSeq(s, m, n) \o t
         IN  /\ u \in Seq(Event)
             /\ \A i \in DOMAIN u : IsMls(u[i]) => \E j \in DOMAIN s : u[i] = s[j]
             /\ Ordered(s) => Ordered(u)
<1> DEFINE piece == SubSeq(s, m, n)
           u == piece \o t
<1>1. /\ piece \in Seq(Event)
      /\ Len(piece) = IF m <= n THEN n - m + 1 ELSE 0
      /\ \A i \in 1..Len(piece) : piece[i] = s[m + i - 1]
  <2>1. \A i \in m..n : s[i] \in Event
    BY ElementOfSeq
  <2> QED
    BY <2>1, SubSeqProperties
<1>2. t \in Seq(Event)
  BY SeqMonotonic DEF Event, QuietEvent
<1>3. /\ u \in Seq(Event)
      /\ Len(u) = Len(piece) + Len(t)
      /\ \A i \in 1..Len(u) : u[i] = IF i <= Len(piece) THEN piece[i] ELSE t[i - Len(piece)]
  BY <1>1, <1>2, ConcatProperties
<1>4. Len(t) \in Nat /\ Len(piece) \in Nat /\ Len(s) \in Nat
      /\ DOMAIN u = 1..Len(u) /\ DOMAIN s = 1..Len(s)
  BY <1>1, <1>2, <1>3, LenProperties
<1>5. \A i \in 1..Len(t) : ~ IsMls(t[i])
  <2> SUFFICES ASSUME NEW i \in 1..Len(t) PROVE ~ IsMls(t[i])
    OBVIOUS
  <2>1. t[i] \in QuietEvent
    BY ElementOfSeq
  <2> QED
    BY <2>1 DEF QuietEvent, RosterEvent, RosterNames, KeyPackageEvent, IsMls
<1>6. \A i \in DOMAIN u : IsMls(u[i]) => /\ m + i - 1 \in DOMAIN s
                                         /\ u[i] = s[m + i - 1]
  <2> SUFFICES ASSUME NEW i \in DOMAIN u, IsMls(u[i])
               PROVE  m + i - 1 \in DOMAIN s /\ u[i] = s[m + i - 1]
    OBVIOUS
  <2>1. i \in 1..(Len(piece) + Len(t))
    BY <1>3, <1>4
  <2>2. CASE i <= Len(piece)
    <3>1. i \in 1..Len(piece)
      BY <2>1, <2>2
    <3>2. u[i] = s[m + i - 1]
      BY <3>1, <1>1, <1>3, <1>4, <2>1
    <3>3. m + i - 1 \in 1..Len(s)
      <4> HIDE DEF piece
      <4>1. Len(piece) = IF m <= n THEN n - m + 1 ELSE 0
        BY <1>1
      <4> QED
        BY <3>1, <4>1, <1>4
    <3> QED
      BY <3>2, <3>3, <1>4
  <2>3. CASE ~ (i <= Len(piece))
    <3>1. u[i] = t[i - Len(piece)]
      BY <2>1, <2>3, <1>3, <1>4
    <3>2. i - Len(piece) \in 1..Len(t)
      BY <2>1, <2>3, <1>4
    <3> QED
      BY <3>1, <3>2, <1>5
  <2> QED
    BY <2>2, <2>3
<1>7. Ordered(s) => Ordered(u)
  <2> SUFFICES ASSUME Ordered(s), NEW i \in DOMAIN u, NEW j \in DOMAIN u, i < j,
                      IsMls(u[i]), IsMls(u[j]),
                      u[i].life = u[j].life, u[i].group = u[j].group
               PROVE  IF u[j].name = "e2eeCommit" THEN u[i].epoch < u[j].epoch
                                                  ELSE u[i].epoch <= u[j].epoch
    BY DEF Ordered
  <2>1. m + i - 1 < m + j - 1
    BY <1>4
  <2> QED
    BY <1>6, <2>1 DEF Ordered
<1> QED
  BY <1>3, <1>6, <1>7

(* An ordered sequence stays ordered when a Commit or Welcome that no one of *)
(* its group overtakes comes last.                                           *)
LEMMA AppendOrdered ==
  ASSUME NEW s \in Seq(Event), Ordered(s), NEW e \in Event,
         \A i \in DOMAIN s :
           IsMls(s[i]) /\ s[i].life = e.life /\ s[i].group = e.group
           => IF e.name = "e2eeCommit" THEN s[i].epoch < e.epoch ELSE s[i].epoch <= e.epoch
  PROVE  /\ s \o <<e>> \in Seq(Event)
         /\ \A i \in DOMAIN (s \o <<e>>) : (s \o <<e>>)[i] = e \/ \E j \in DOMAIN s : (s \o <<e>>)[i] = s[j]
         /\ Ordered(s \o <<e>>)
<1> DEFINE u == s \o <<e>>
<1>1. <<e>> \in Seq(Event) /\ Len(<<e>>) = 1 /\ <<e>>[1] = e
  OBVIOUS
<1>2. /\ u \in Seq(Event)
      /\ Len(u) = Len(s) + 1
      /\ \A i \in 1..Len(u) : u[i] = IF i <= Len(s) THEN s[i] ELSE <<e>>[i - Len(s)]
  BY <1>1, ConcatProperties
<1>3. Len(s) \in Nat /\ DOMAIN u = 1..(Len(s) + 1) /\ DOMAIN s = 1..Len(s)
  BY <1>2, LenProperties
<1>4. \A i \in DOMAIN u : IF i <= Len(s) THEN i \in DOMAIN s /\ u[i] = s[i]
                                         ELSE i = Len(s) + 1 /\ u[i] = e
  BY <1>1, <1>2, <1>3
<1>5. Ordered(u)
  <2> SUFFICES ASSUME NEW i \in DOMAIN u, NEW j \in DOMAIN u, i < j,
                      IsMls(u[i]), IsMls(u[j]),
                      u[i].life = u[j].life, u[i].group = u[j].group
               PROVE  IF u[j].name = "e2eeCommit" THEN u[i].epoch < u[j].epoch
                                                  ELSE u[i].epoch <= u[j].epoch
    BY DEF Ordered
  <2>1. i <= Len(s)
    BY <1>3
  <2>2. CASE j <= Len(s)
    BY <2>1, <2>2, <1>4 DEF Ordered
  <2>3. CASE ~ (j <= Len(s))
    BY <2>1, <2>3, <1>4
  <2> QED
    BY <2>2, <2>3
<1> QED
  BY <1>2, <1>4, <1>5

-----------------------------------------------------------------------------
(* The actions, by what they put in the inboxes *)

(* News sent to some of the peers are quiet mail. *)
LEMMA SentQuiet ==
  ASSUME TypeOK, NEW to \in SUBSET Peer, NEW t \in Seq(QuietEvent), inbox' = Sent(to, t)
  PROVE  /\ inbox' \in [Peer -> Seq(Event)]
         /\ \A q \in Peer : QuietMail(q)
<1>1. t \in Seq(Event)
  BY SeqMonotonic DEF Event, QuietEvent
<1>2. \A q \in Peer : inbox[q] \in Seq(Event) /\ Len(inbox[q]) \in Nat
  BY LenProperties DEF TypeOK
<1>3. \A q \in Peer : inbox[q] \o t \in Seq(Event)
  BY <1>1, <1>2, ConcatProperties
<1>4. inbox' \in [Peer -> Seq(Event)]
  BY <1>2, <1>3 DEF Sent
<1>5. ASSUME NEW q \in Peer PROVE QuietMail(q)
  <2>1. SubSeq(inbox[q], 1, Len(inbox[q])) = inbox[q]
    BY <1>2, SubSeqFull
  <2>2. inbox[q] \o <<>> = inbox[q] /\ <<>> \in Seq(QuietEvent)
    BY <1>2, ConcatEmptySeq, EmptySeq
  <2>3. inbox'[q] = inbox[q] \o t \/ inbox'[q] = inbox[q] \o <<>>
    BY <2>2 DEF Sent
  <2>4. 1 \in 1..2 /\ Len(inbox[q]) \in 0..Len(inbox[q])
    BY <1>2
  <2> QED
    BY <2>1, <2>2, <2>3, <2>4 DEF QuietMail
<1> QED
  BY <1>4, <1>5

(* Nothing new on its way is quiet mail. *)
LEMMA SentNothing ==
  ASSUME TypeOK, inbox' = inbox
  PROVE  /\ inbox' \in [Peer -> Seq(Event)]
         /\ \A q \in Peer : QuietMail(q)
<1>1. inbox' = Sent({}, <<>>)
  BY DEF Sent, TypeOK
<1>2. <<>> \in Seq(QuietEvent)
  BY EmptySeq
<1> QED
  BY <1>1, <1>2, SentQuiet

(* Roster events and key packages go out as quiet mail. *)
LEMMA RosterIsQuiet ==
  ASSUME NEW name \in RosterNames, NEW p \in Peer
  PROVE  About(name, <<p>>) \in Seq(QuietEvent)
<1>1. <<p>> \in Seq(Peer)
  OBVIOUS
<1>2. About(name, <<p>>) \in Seq(RosterEvent)
  BY <1>1, AboutType
<1> QED
  BY <1>2, SeqMonotonic DEF QuietEvent

(* A fresh join tells the newcomer who leaves, the others that too and the join. *)
LEMMA JoinMail ==
  ASSUME TypeOK, NEW p \in Peer, NEW previous \in SUBSET Peer, Join(p, previous)
  PROVE  /\ inbox' \in [Peer -> Seq(Event)]
         /\ \A q \in Peer : QuietMail(q)
<1> DEFINE out == previous \cup Others(p)
<1>1. out \in SUBSET Peer
  BY DEF Others, InRoom
<1>2. PICK left \in [1..Cardinality(out) -> out] :
        LET news == About("peerLeft", left)
        IN  inbox' = [q \in Peer |->
                        IF q = p THEN news
                        ELSE IF Hears(q) /\ q \notin out
                        THEN inbox[q] \o news \o About("peerJoined", <<p>>)
                        ELSE inbox[q]]
  BY DEF Join
<1> DEFINE news == About("peerLeft", left)
           joined == About("peerJoined", <<p>>)
<1>3. Cardinality(out) \in Nat
  BY <1>1, RelayAssumption, FS_Subset, FS_CardinalityType
<1>4. left \in Seq(Peer)
  BY <1>1, <1>2, <1>3, FunctionIsSeq
<1>5. news \in Seq(QuietEvent) /\ joined \in Seq(QuietEvent)
  <2>1. news \in Seq(RosterEvent)
    BY <1>4, AboutType DEF RosterNames
  <2>2. joined \in Seq(QuietEvent)
    BY RosterIsQuiet DEF RosterNames
  <2> QED
    BY <2>1, <2>2, SeqMonotonic DEF QuietEvent
<1>6. /\ news \o joined \in Seq(QuietEvent)
      /\ news \in Seq(Event) /\ joined \in Seq(Event) /\ news \o joined \in Seq(Event)
  <2>1. QuietEvent \subseteq Event
    BY DEF QuietEvent, Event
  <2>2. news \o joined \in Seq(QuietEvent)
    BY <1>5, ConcatProperties
  <2> QED
    BY <1>5, <2>1, <2>2, SeqMonotonic
<1>7. \A q \in Peer : inbox[q] \in Seq(Event) /\ Len(inbox[q]) \in Nat
  BY LenProperties DEF TypeOK
<1> HIDE DEF news, joined, out
<1>8. ASSUME NEW q \in Peer PROVE inbox[q] \o news \o joined = inbox[q] \o (news \o joined)
  <2>1. inbox[q] \in Seq(Event) /\ news \in Seq(Event) /\ joined \in Seq(Event)
    BY <1>6, <1>7
  <2>2. \A s, t, u \in Seq(Event) : (s \o t) \o u = s \o (t \o u)
    BY ConcatAssociative
  <2> QED
    BY <2>1, <2>2, Zenon
<1>9. ASSUME NEW q \in Peer PROVE inbox'[q] \in Seq(Event) /\ QuietMail(q)
  <2>1. /\ SubSeq(inbox[q], 1, Len(inbox[q])) = inbox[q]
        /\ SubSeq(inbox[q], 1, 0) = <<>>
    BY <1>7, SubSeqFull, SubSeqEmpty
  <2>2. /\ inbox[q] \o <<>> = inbox[q] /\ <<>> \o news = news
        /\ <<>> \in Seq(QuietEvent)
        /\ inbox[q] \o (news \o joined) \in Seq(Event)
    BY <1>6, <1>7, ConcatEmptySeq, EmptySeq, ConcatProperties
  <2>3. 1 \in 1..2 /\ 0 \in 0..Len(inbox[q]) /\ Len(inbox[q]) \in 0..Len(inbox[q])
    BY <1>7
  <2>4. \/ inbox'[q] = news
        \/ inbox'[q] = inbox[q] \o (news \o joined)
        \/ inbox'[q] = inbox[q]
    BY <1>2, <1>8 DEF news, joined, out
  <2>5. CASE inbox'[q] = news
    <3>1. inbox'[q] = SubSeq(inbox[q], 1, 0) \o news
      BY <2>1, <2>2, <2>5
    <3> QED
      BY <3>1, <2>3, <2>5, <1>5, <1>6 DEF QuietMail
  <2>6. CASE inbox'[q] = inbox[q] \o (news \o joined)
    BY <2>1, <2>2, <2>3, <2>6, <1>6 DEF QuietMail
  <2>7. CASE inbox'[q] = inbox[q]
    <3>1. inbox'[q] = SubSeq(inbox[q], 1, Len(inbox[q])) \o <<>>
      BY <2>1, <2>2, <2>7
    <3> QED
      BY <3>1, <2>2, <2>3, <2>7, <1>7 DEF QuietMail
  <2> QED
    BY <2>4, <2>5, <2>6, <2>7
<1>10. inbox' = [q \in Peer |-> inbox'[q]]
  BY <1>2
<1> QED
  BY <1>9, <1>10

(* Whoever comes back marks its own queue and is announced to the others. *)
LEMMA ResumeMail ==
  ASSUME TypeOK, NEW p \in Peer, Resume(p)
  PROVE  /\ inbox' \in [Peer -> Seq(Event)]
         /\ \A q \in Peer : QuietMail(q)
<1> DEFINE mark == About("sessionRejoined", <<p>>)
           back == About("peerReconnected", <<p>>)
<1>1. mark \in Seq(QuietEvent) /\ back \in Seq(QuietEvent) /\ <<>> \in Seq(QuietEvent)
  BY RosterIsQuiet, EmptySeq DEF RosterNames
<1>2. \A t \in Seq(QuietEvent) : t \in Seq(Event)
  BY SeqMonotonic DEF Event, QuietEvent
<1>3. \A q \in Peer : inbox[q] \in Seq(Event) /\ Len(inbox[q]) \in Nat
  BY LenProperties DEF TypeOK
<1>4. /\ inbox' = [q \in Peer |-> inbox'[q]]
      /\ \A q \in Peer : inbox'[q] \in {inbox[q] \o mark, inbox[q] \o back, inbox[q]}
  BY DEF Resume
<1> HIDE DEF mark, back
<1>5. ASSUME NEW q \in Peer PROVE inbox'[q] \in Seq(Event) /\ QuietMail(q)
  <2>1. /\ SubSeq(inbox[q], 1, Len(inbox[q])) = inbox[q]
        /\ inbox[q] \o <<>> = inbox[q]
    BY <1>3, SubSeqFull, ConcatEmptySeq
  <2>2. PICK t \in Seq(QuietEvent) : inbox'[q] = inbox[q] \o t
    BY <1>1, <1>4, <2>1
  <2>3. inbox[q] \o t \in Seq(Event)
    BY <1>2, <1>3, ConcatProperties
  <2>4. 1 \in 1..2 /\ Len(inbox[q]) \in 0..Len(inbox[q])
    BY <1>3
  <2> QED
    BY <2>1, <2>2, <2>3, <2>4 DEF QuietMail
<1> QED
  BY <1>4, <1>5

(* A lost socket keeps a prefix, a delivery the tail. *)
LEMMA LossMail ==
  ASSUME TypeOK, NEW p \in Peer,
         (\E k \in 0..Len(inbox[p]) : SocketLost(p, k)) \/ Receive(p)
  PROVE  /\ inbox' \in [Peer -> Seq(Event)]
         /\ \A q \in Peer : QuietMail(q)
<1>1. \A q \in Peer : inbox[q] \in Seq(Event) /\ Len(inbox[q]) \in Nat
  BY LenProperties DEF TypeOK
<1>2. <<>> \in Seq(QuietEvent)
  BY EmptySeq
<1>3. PICK m \in 1..2, n \in 0..Len(inbox[p]) :
        inbox' = [inbox EXCEPT ![p] = SubSeq(inbox[p], m, n)]
  <2>1. CASE \E k \in 0..Len(inbox[p]) : SocketLost(p, k)
    <3>1. PICK k \in 0..Len(inbox[p]) : inbox' = [inbox EXCEPT ![p] = SubSeq(inbox[p], 1, k)]
      BY <2>1 DEF SocketLost
    <3>2. 1 \in 1..2
      OBVIOUS
    <3> QED
      BY <3>1, <3>2
  <2>2. CASE Receive(p)
    <3>1. Tail(inbox[p]) = SubSeq(inbox[p], 2, Len(inbox[p]))
      BY <2>2, <1>1, TailIsSubSeq DEF Receive
    <3>2. 2 \in 1..2 /\ Len(inbox[p]) \in 0..Len(inbox[p])
      BY <1>1
    <3> QED
      BY <2>2, <3>1, <3>2 DEF Receive, TypeOK
  <2> QED
    BY <2>1, <2>2
<1>4. SubSeq(inbox[p], m, n) \in Seq(Event)
  <2>1. \A i \in m..n : inbox[p][i] \in Event
    BY <1>1, ElementOfSeq
  <2> QED
    BY <2>1, SubSeqProperties
<1>5. inbox' \in [Peer -> Seq(Event)]
  BY <1>1, <1>3, <1>4 DEF TypeOK
<1>6. ASSUME NEW q \in Peer PROVE QuietMail(q)
  <2>1. CASE q = p
    <3>1. inbox'[q] = SubSeq(inbox[q], m, n) \o <<>>
      BY <2>1, <1>3, <1>4, ConcatEmptySeq DEF TypeOK
    <3> QED
      BY <3>1, <2>1, <1>2, <1>3 DEF QuietMail
  <2>2. CASE q # p
    <3>1. inbox'[q] = SubSeq(inbox[q], 1, Len(inbox[q])) \o <<>>
      BY <2>2, <1>1, <1>3, SubSeqFull, ConcatEmptySeq DEF TypeOK
    <3>2. 1 \in 1..2 /\ Len(inbox[q]) \in 0..Len(inbox[q])
      BY <1>1
    <3> QED
      BY <3>1, <3>2, <1>2 DEF QuietMail
  <2> QED
    BY <2>1, <2>2
<1> QED
  BY <1>5, <1>6

-----------------------------------------------------------------------------
(* The three kinds of step *)

(* Nothing is decided: quiet mail, and perhaps a new session. *)
QuietStep ==
  /\ inbox' \in [Peer -> Seq(Event)]
  /\ \A q \in Peer : QuietMail(q)
  /\ status' \in [Peer -> Status]
  /\ wire' \subseteq Peer
  /\ opened' \subseteq Group
  /\ accepted' = accepted
  /\ \/ session' = session /\ groups' = groups
     \/ session' = session + 1 /\ groups' = [g \in Group |-> Fresh]

CommitNews(p, c) ==
  [name |-> "e2eeCommit", peer |-> p, life |-> session, group |-> c.group,
   epoch |-> c.epoch, payload |-> c.payload]

Decision(p, c) ==
  [life |-> session, group |-> c.group, epoch |-> c.epoch, sender |-> p, payload |-> c.payload]

(* Commit c of p closes its epoch. *)
AcceptStep(p, c) ==
  /\ c.epoch = groups[c.group].currentEpoch
  /\ groups' = [groups EXCEPT ![c.group] = Advance(@, p, c)]
  /\ accepted' = accepted \cup {Decision(p, c)}
  /\ inbox' = Sent(Peer \ {p}, <<CommitNews(p, c)>>)
  /\ opened' \subseteq Group
  /\ UNCHANGED <<status, wire, session>>

WelcomeNews(p, w) ==
  [name |-> "e2eeWelcome", peer |-> p, life |-> session, group |-> w.group, epoch |-> w.epoch]

(* The Welcome of p, author of the last Commit of the group, is passed on. *)
WelcomeStep(p, w) ==
  /\ WelcomeAllowed(p, w)
  /\ inbox' = Sent({w.target}, <<WelcomeNews(p, w)>>)
  /\ UNCHANGED <<status, wire, session, opened, groups, accepted>>

(* Membership actions are quiet steps. *)
LEMMA MembershipStep ==
  ASSUME TypeOK, NEW p \in Peer,
         \/ \E previous \in SUBSET Peer : Join(p, previous)
         \/ Resume(p)
         \/ \E k \in 0..Len(inbox[p]) : SocketLost(p, k)
         \/ OrphanPeer(p)
         \/ Evict(p)
         \/ Leave(p)
         \/ Kick(p)
         \/ Receive(p)
  PROVE  QuietStep
<1>1. \A name \in RosterNames : About(name, <<p>>) \in Seq(QuietEvent)
  BY RosterIsQuiet
<1>2. Peer \ {p} \in SUBSET Peer
  OBVIOUS
<1>3. CASE \E previous \in SUBSET Peer : Join(p, previous)
  <2>1. PICK previous \in SUBSET Peer : Join(p, previous)
    BY <1>3
  <2>2. inbox' \in [Peer -> Seq(Event)] /\ \A q \in Peer : QuietMail(q)
    BY <2>1, JoinMail
  <2>3. status' \in [Peer -> Status] /\ wire' \subseteq Peer /\ accepted' = accepted
    BY <2>1 DEF Join, Dismissed, TypeOK, Status
  <2>4. /\ opened' \subseteq Group
        /\ \/ session' = session /\ groups' = groups
           \/ session' = session + 1 /\ groups' = [g \in Group |-> Fresh]
    BY <2>1 DEF Join, Mint, TypeOK
  <2> QED
    BY <2>2, <2>3, <2>4 DEF QuietStep
<1>4. CASE Resume(p)
  <2>1. inbox' \in [Peer -> Seq(Event)] /\ \A q \in Peer : QuietMail(q)
    BY <1>4, ResumeMail
  <2> QED
    BY <1>4, <2>1 DEF Resume, QuietStep, TypeOK, Status
<1>5. CASE (\E k \in 0..Len(inbox[p]) : SocketLost(p, k)) \/ Receive(p)
  <2>1. inbox' \in [Peer -> Seq(Event)] /\ \A q \in Peer : QuietMail(q)
    BY <1>5, LossMail
  <2> QED
    BY <1>5, <2>1 DEF SocketLost, Receive, QuietStep, TypeOK, Status
<1>6. CASE OrphanPeer(p)
  <2>1. inbox' \in [Peer -> Seq(Event)] /\ \A q \in Peer : QuietMail(q)
    BY <1>1, <1>2, <1>6, SentQuiet DEF OrphanPeer, RosterNames
  <2> QED
    BY <1>6, <2>1 DEF OrphanPeer, QuietStep, TypeOK, Status
<1>7. CASE Evict(p) \/ Leave(p)
  <2>1. inbox' \in [Peer -> Seq(Event)] /\ \A q \in Peer : QuietMail(q)
    BY <1>1, <1>2, <1>7, SentQuiet DEF Evict, Leave, RosterNames
  <2> QED
    BY <1>7, <2>1 DEF Evict, Leave, QuietStep, TypeOK, Status
<1>8. CASE Kick(p)
  <2>1. PICK kicked \in {<<>>, About("peerKicked", <<p>>)} :
          inbox' = Sent(Peer \ {p}, kicked \o About("peerLeft", <<p>>))
    BY <1>8 DEF Kick
  <2>2. kicked \in Seq(QuietEvent) /\ About("peerLeft", <<p>>) \in Seq(QuietEvent)
    BY <1>1, EmptySeq DEF RosterNames
  <2>3. kicked \o About("peerLeft", <<p>>) \in Seq(QuietEvent)
    BY <2>2, ConcatProperties
  <2>4. inbox' \in [Peer -> Seq(Event)] /\ \A q \in Peer : QuietMail(q)
    BY <1>2, <2>1, <2>3, SentQuiet
  <2> QED
    BY <1>8, <2>4 DEF Kick, Dismissed, QuietStep, TypeOK, Status
<1> QED
  BY <1>3, <1>4, <1>5, <1>6, <1>7, <1>8

(* Relaying is quiet, decides one Commit or passes one Welcome on. *)
LEMMA RelayStep ==
  ASSUME TypeOK, NEW p \in Peer,
         \/ \E g \in Group, payload \in Payload : RelayE2eeJoin(p, g, payload)
         \/ \E c \in AnyCommit : RelayE2eeCommit(p, c)
         \/ \E w \in AnyWelcome : RelayE2eeWelcome(p, w)
  PROVE  \/ QuietStep
         \/ \E c \in AnyCommit : AcceptStep(p, c)
         \/ \E w \in AnyWelcome : WelcomeStep(p, w)
<1>1. Peer \ {p} \in SUBSET Peer
  OBVIOUS
<1>2. CASE \E g \in Group, payload \in Payload : RelayE2eeJoin(p, g, payload)
  <2>1. PICK g \in Group, payload \in Payload : RelayE2eeJoin(p, g, payload)
    BY <1>2
  <2> DEFINE news == [name |-> "e2eeJoinRequested", peer |-> p, group |-> g, payload |-> payload]
  <2>2. news \in QuietEvent
    BY DEF QuietEvent, KeyPackageEvent
  <2>3. <<news>> \in Seq(QuietEvent)
    BY <2>2
  <2>4. inbox' = Sent(Peer \ {p}, <<news>>) \/ inbox' = inbox
    BY <2>1 DEF RelayE2eeJoin
  <2> HIDE DEF news
  <2>5. inbox' \in [Peer -> Seq(Event)] /\ \A q \in Peer : QuietMail(q)
    BY <1>1, <2>3, <2>4, SentQuiet, SentNothing
  <2> QED
    BY <2>1, <2>5 DEF RelayE2eeJoin, QuietStep, TypeOK
<1>3. CASE \E c \in AnyCommit : RelayE2eeCommit(p, c)
  <2>1. PICK c \in AnyCommit : RelayE2eeCommit(p, c)
    BY <1>3
  <2>2. opened' \subseteq Group /\ UNCHANGED <<status, wire, session>>
    BY <2>1 DEF RelayE2eeCommit, OpenGroup, AnyCommit, TypeOK
  <2>3. CASE CommitAnswer(p, c) = "accepted"
    <3>1. c.epoch = groups[c.group].currentEpoch
      BY <2>3 DEF CommitAnswer
    <3> QED
      BY <2>1, <2>2, <2>3, <3>1 DEF RelayE2eeCommit, AcceptStep, CommitNews, Decision
  <2>4. CASE CommitAnswer(p, c) # "accepted"
    <3>1. UNCHANGED <<groups, accepted, inbox>>
      BY <2>1, <2>4 DEF RelayE2eeCommit
    <3>2. inbox' \in [Peer -> Seq(Event)] /\ \A q \in Peer : QuietMail(q)
      BY <3>1, SentNothing
    <3> QED
      BY <2>2, <3>1, <3>2 DEF QuietStep, TypeOK
  <2> QED
    BY <2>3, <2>4
<1>4. CASE \E w \in AnyWelcome : RelayE2eeWelcome(p, w)
  BY <1>4 DEF RelayE2eeWelcome, WelcomeStep, WelcomeNews
<1> QED
  BY <1>2, <1>3, <1>4

LEMMA Steps ==
  ASSUME TypeOK, Next
  PROVE  \/ QuietStep
         \/ \E p \in Peer, c \in AnyCommit : AcceptStep(p, c)
         \/ \E p \in Peer, w \in AnyWelcome : WelcomeStep(p, w)
<1>1. Commit \subseteq AnyCommit /\ Welcome \subseteq AnyWelcome
  BY RelayAssumption DEF Commit, Welcome, AnyCommit, AnyWelcome
<1>2. PICK p \in Peer :
        \/ \/ \E previous \in SUBSET Peer : Join(p, previous)
           \/ Resume(p)
           \/ \E k \in 0..Len(inbox[p]) : SocketLost(p, k)
           \/ OrphanPeer(p)
           \/ Evict(p)
           \/ Leave(p)
           \/ Kick(p)
           \/ Receive(p)
        \/ \/ \E g \in Group, payload \in Payload : RelayE2eeJoin(p, g, payload)
           \/ \E c \in Commit : RelayE2eeCommit(p, c)
           \/ \E w \in Welcome : RelayE2eeWelcome(p, w)
  BY Zenon DEF Next
<1>3. \/ \E g \in Group, payload \in Payload : RelayE2eeJoin(p, g, payload)
      \/ \E c \in Commit : RelayE2eeCommit(p, c)
      \/ \E w \in Welcome : RelayE2eeWelcome(p, w)
      => \/ \E g \in Group, payload \in Payload : RelayE2eeJoin(p, g, payload)
         \/ \E c \in AnyCommit : RelayE2eeCommit(p, c)
         \/ \E w \in AnyWelcome : RelayE2eeWelcome(p, w)
  BY <1>1
<1> QED
  BY <1>2, <1>3, MembershipStep, RelayStep

-----------------------------------------------------------------------------
(* The inductive invariant *)

IInv ==
  /\ TypeOK
  /\ RelayInv
  /\ OneCommitPerEpoch
  /\ NoEpochSkipped
  /\ WelcomeFollowsCommit
  /\ MlsInOrder

(* After a quiet step every inbox is in order and holds no new Commit or Welcome. *)
LEMMA QuietInboxes ==
  ASSUME TypeOK, MlsInOrder, QuietStep, NEW q \in Peer
  PROVE  /\ Ordered(inbox'[q])
         /\ \A i \in DOMAIN inbox'[q] :
              IsMls(inbox'[q][i]) => \E j \in DOMAIN inbox[q] : inbox'[q][i] = inbox[q][j]
<1>1. inbox[q] \in Seq(Event) /\ Ordered(inbox[q])
  BY DEF TypeOK, MlsInOrder
<1>2. PICK m \in 1..2, n \in 0..Len(inbox[q]), t \in Seq(QuietEvent) :
        inbox'[q] = SubSeq(inbox[q], m, n) \o t
  BY DEF QuietStep, QuietMail
<1> DEFINE s == inbox[q]
           u == SubSeq(s, m, n) \o t
<1> HIDE DEF s
<1>3. /\ \A i \in DOMAIN u : IsMls(u[i]) => \E j \in DOMAIN s : u[i] = s[j]
      /\ Ordered(s) => Ordered(u)
  <2>1. s \in Seq(Event) /\ n \in 0..Len(s)
    BY <1>1 DEF s
  <2> QED
    BY <2>1, PieceOrdered
<1> HIDE DEF u
<1>4. inbox'[q] = u
  BY <1>2 DEF u, s
<1> QED
  BY <1>1, <1>3, <1>4 DEF s

(* One event sent at the end: the same for an event that overtakes nothing. *)
LEMMA NewsInboxes ==
  ASSUME TypeOK, MlsInOrder, NEW to \in SUBSET Peer, NEW e \in Event,
         inbox' = Sent(to, <<e>>),
         \A q \in Peer : \A i \in DOMAIN inbox[q] :
           IsMls(inbox[q][i]) /\ inbox[q][i].life = e.life /\ inbox[q][i].group = e.group
           => IF e.name = "e2eeCommit" THEN inbox[q][i].epoch < e.epoch
                                       ELSE inbox[q][i].epoch <= e.epoch
  PROVE  /\ inbox' \in [Peer -> Seq(Event)]
         /\ \A q \in Peer :
              /\ Ordered(inbox'[q])
              /\ \A i \in DOMAIN inbox'[q] :
                   inbox'[q][i] = e \/ \E j \in DOMAIN inbox[q] : inbox'[q][i] = inbox[q][j]
<1>1. ASSUME NEW q \in Peer
      PROVE  /\ inbox'[q] \in Seq(Event)
             /\ Ordered(inbox'[q])
             /\ \A i \in DOMAIN inbox'[q] :
                  inbox'[q][i] = e \/ \E j \in DOMAIN inbox[q] : inbox'[q][i] = inbox[q][j]
  <2>1. inbox[q] \in Seq(Event) /\ Ordered(inbox[q])
    BY DEF TypeOK, MlsInOrder
  <2>2. inbox'[q] = inbox[q] \/ inbox'[q] = inbox[q] \o <<e>>
    BY DEF Sent
  <2>3. CASE inbox'[q] = inbox[q]
    BY <2>1, <2>3
  <2>4. CASE inbox'[q] = inbox[q] \o <<e>>
    <3> DEFINE s == inbox[q]
               u == s \o <<e>>
    <3>1. \A i \in DOMAIN s :
            IsMls(s[i]) /\ s[i].life = e.life /\ s[i].group = e.group
            => IF e.name = "e2eeCommit" THEN s[i].epoch < e.epoch ELSE s[i].epoch <= e.epoch
      OBVIOUS
    <3>2. s \in Seq(Event) /\ Ordered(s) /\ inbox'[q] = u
      BY <2>1, <2>4
    <3> HIDE DEF s
    <3>3. /\ u \in Seq(Event)
          /\ \A i \in DOMAIN u : u[i] = e \/ \E j \in DOMAIN s : u[i] = s[j]
          /\ Ordered(u)
      BY <3>1, <3>2, AppendOrdered
    <3> HIDE DEF u
    <3> QED
      BY <3>2, <3>3 DEF s
  <2> QED
    BY <2>2, <2>3, <2>4
<1>2. inbox' = [q \in Peer |-> inbox'[q]]
  BY DEF Sent
<1> QED
  BY <1>1, <1>2

(* What a quiet step preserves. *)
LEMMA QuietKeeps ==
  ASSUME IInv, QuietStep
  PROVE  IInv'
<1> USE DEF IInv
<1>1. TypeOK'
  BY DEF TypeOK, QuietStep, Fresh, GroupState
<1>2. \A q \in Peer : \A i \in DOMAIN inbox'[q] :
        IsMls(inbox'[q][i]) => \E j \in DOMAIN inbox[q] : inbox'[q][i] = inbox[q][j]
  BY QuietInboxes
<1>3. MlsInOrder'
  BY QuietInboxes DEF MlsInOrder
<1>4. OneCommitPerEpoch' /\ NoEpochSkipped'
  BY DEF OneCommitPerEpoch, NoEpochSkipped, QuietStep
<1>5. WelcomeFollowsCommit'
  <2> SUFFICES ASSUME NEW q \in Peer, NEW i \in DOMAIN inbox'[q],
                      inbox'[q][i].name = "e2eeWelcome"
               PROVE  \E a \in accepted :
                        /\ a.life = inbox'[q][i].life /\ a.group = inbox'[q][i].group
                        /\ a.epoch = inbox'[q][i].epoch /\ a.sender = inbox'[q][i].peer
    BY DEF WelcomeFollowsCommit, QuietStep
  <2>1. PICK j \in DOMAIN inbox[q] : inbox'[q][i] = inbox[q][j]
    BY <1>2 DEF IsMls
  <2> QED
    BY <2>1 DEF WelcomeFollowsCommit
<1>6. HistoryAgrees' /\ LastIsRemembered'
  <2>1. CASE session' = session /\ groups' = groups
    BY <2>1 DEF RelayInv, HistoryAgrees, LastIsRemembered, QuietStep
  <2>2. CASE session' = session + 1 /\ groups' = [g \in Group |-> Fresh]
    <3>1. \A a \in accepted : a.life \in Nat /\ a.life <= session
      BY DEF RelayInv, HistoryAgrees, TypeOK
    <3>2. \A g \in Group : groups'[g].currentEpoch = 0 /\ groups'[g].lastAccepted = {}
      BY <2>2 DEF Fresh
    <3>3. session \in Nat /\ accepted' = accepted
      BY DEF TypeOK, QuietStep
    <3>4. \A a \in accepted' : a.life <= session' /\ a.life # session'
      BY <2>2, <3>1, <3>3
    <3>5. LastIsRemembered'
      BY <3>2 DEF LastIsRemembered
    <3> QED
      BY <3>2, <3>4, <3>5 DEF HistoryAgrees
  <2> QED
    BY <2>1, <2>2 DEF QuietStep
<1>7. InboxSettled'
  <2> SUFFICES ASSUME NEW q \in Peer, NEW i \in DOMAIN inbox'[q], IsMls(inbox'[q][i])
               PROVE  /\ inbox'[q][i].life <= session'
                      /\ inbox'[q][i].life = session' =>
                           inbox'[q][i].epoch < groups'[inbox'[q][i].group].currentEpoch
    BY DEF InboxSettled, Settled
  <2>1. PICK j \in DOMAIN inbox[q] : inbox'[q][i] = inbox[q][j]
    BY <1>2
  <2>2. /\ inbox[q][j].life <= session
        /\ inbox[q][j].life = session =>
             inbox[q][j].epoch < groups[inbox[q][j].group].currentEpoch
    BY <2>1 DEF RelayInv, InboxSettled, Settled
  <2>3. inbox[q][j] \in Event
    BY ElementOfSeq, LenProperties DEF TypeOK
  <2>4. inbox[q][j].life \in Nat /\ session \in Nat
    BY <2>1, <2>3 DEF TypeOK, Event, IsMls, RosterEvent, RosterNames, KeyPackageEvent,
                      CommitEvent, WelcomeEvent
  <2> QED
    BY <2>1, <2>2, <2>4 DEF QuietStep
<1> QED
  BY <1>1, <1>3, <1>4, <1>5, <1>6, <1>7 DEF RelayInv

(* What the deciding step preserves. *)
LEMMA AcceptKeeps ==
  ASSUME IInv, NEW p \in Peer, NEW c \in AnyCommit, AcceptStep(p, c)
  PROVE  IInv'
<1> USE DEF IInv
<1> DEFINE e == CommitNews(p, c)
           d == Decision(p, c)
<1>1. /\ c.group \in Group /\ c.epoch \in Nat /\ c.payload \in Payload
      /\ session \in Nat /\ c.epoch = groups[c.group].currentEpoch
      /\ groups[c.group] \in GroupState
  BY DEF AnyCommit, AcceptStep, TypeOK
<1>2. /\ e \in CommitEvent
      /\ d \in [life: Nat, group: Group, epoch: Nat, sender: Peer, payload: Payload]
  BY <1>1 DEF CommitEvent, CommitNews, Decision
<1>3. /\ groups'[c.group].currentEpoch = c.epoch + 1
      /\ groups'[c.group].lastAccepted =
           {[epoch |-> c.epoch, sender |-> p, payload |-> c.payload]}
      /\ \A g \in Group : g # c.group => groups'[g] = groups[g]
      /\ groups' \in [Group -> GroupState]
      /\ session' = session /\ accepted' = accepted \cup {d}
  BY <1>1 DEF AcceptStep, Advance, TypeOK, GroupState, Accepted
<1>4. /\ inbox' \in [Peer -> Seq(Event)]
      /\ \A q \in Peer :
           /\ Ordered(inbox'[q])
           /\ \A i \in DOMAIN inbox'[q] :
                inbox'[q][i] = e \/ \E j \in DOMAIN inbox[q] : inbox'[q][i] = inbox[q][j]
  <2>1. e \in Event /\ e.name = "e2eeCommit" /\ e.life = session /\ e.group = c.group
        /\ e.epoch = c.epoch
    BY <1>2 DEF Event, CommitNews
  <2>2. \A q \in Peer : \A i \in DOMAIN inbox[q] :
          IsMls(inbox[q][i]) /\ inbox[q][i].life = session /\ inbox[q][i].group = c.group
          => inbox[q][i].epoch < c.epoch
    BY <1>1 DEF RelayInv, InboxSettled, Settled
  <2>3. inbox' = Sent(Peer \ {p}, <<e>>) /\ Peer \ {p} \in SUBSET Peer
    BY DEF AcceptStep
  <2> HIDE DEF e, IInv
  <2>4. TypeOK /\ MlsInOrder
    BY DEF IInv
  <2>5. \A q \in Peer : \A i \in DOMAIN inbox[q] :
          IsMls(inbox[q][i]) /\ inbox[q][i].life = e.life /\ inbox[q][i].group = e.group
          => IF e.name = "e2eeCommit" THEN inbox[q][i].epoch < e.epoch
                                      ELSE inbox[q][i].epoch <= e.epoch
    BY <2>1, <2>2
  <2> QED
    BY <2>1, <2>3, <2>4, <2>5, NewsInboxes
<1>5. TypeOK'
  <2>1. \A g \in Group : \A a, b \in groups'[g].lastAccepted : a = b
    <3> SUFFICES ASSUME NEW g \in Group, NEW a \in groups'[g].lastAccepted,
                        NEW b \in groups'[g].lastAccepted
                 PROVE  a = b
      OBVIOUS
    <3>1. CASE g = c.group
      BY <3>1, <1>3
    <3>2. CASE g # c.group
      BY <3>2, <1>3 DEF TypeOK
    <3> QED
      BY <3>1, <3>2
  <2>2. accepted' \subseteq [life: Nat, group: Group, epoch: Nat, sender: Peer, payload: Payload]
    BY <1>2, <1>3 DEF TypeOK
  <2> QED
    BY <2>1, <2>2, <1>3, <1>4 DEF TypeOK, AcceptStep
<1>6. MlsInOrder'
  BY <1>4 DEF MlsInOrder
<1>7. \A a \in accepted : a.life = session /\ a.group = c.group => a.epoch < c.epoch
  BY <1>1 DEF RelayInv, HistoryAgrees
<1>8. d.life = session /\ d.group = c.group /\ d.epoch = c.epoch
  BY DEF Decision
<1>9. \A a \in accepted : a.life \in Nat /\ a.group \in Group /\ a.epoch \in Nat
  BY DEF TypeOK
<1>10. OneCommitPerEpoch'
  <2> SUFFICES ASSUME NEW a \in accepted', NEW b \in accepted',
                      a.life = b.life, a.group = b.group, a.epoch = b.epoch
               PROVE  a = b
    BY DEF OneCommitPerEpoch
  <2>1. CASE a \in accepted /\ b \in accepted
    BY <2>1 DEF OneCommitPerEpoch
  <2>2. CASE a = d \/ b = d
    <3> HIDE DEF d
    <3> QED
      BY <2>2, <1>1, <1>3, <1>7, <1>8, <1>9
  <2> QED
    BY <2>1, <2>2, <1>3
<1>11. NoEpochSkipped'
  <2> SUFFICES ASSUME NEW a \in accepted', a.epoch > 0
               PROVE  \E b \in accepted' : b.life = a.life /\ b.group = a.group
                                           /\ b.epoch + 1 = a.epoch
    BY DEF NoEpochSkipped
  <2>1. CASE a \in accepted
    BY <2>1, <1>3 DEF NoEpochSkipped
  <2>2. CASE a = d
    <3>1. c.epoch - 1 \in 0..(groups[c.group].currentEpoch - 1)
      BY <2>2, <1>1, <1>8
    <3>2. PICK b \in accepted : b.life = session /\ b.group = c.group /\ b.epoch = c.epoch - 1
      BY <3>1, <1>1 DEF RelayInv, HistoryAgrees
    <3> HIDE DEF d
    <3> QED
      BY <2>2, <3>2, <1>1, <1>3, <1>8
  <2> QED
    BY <2>1, <2>2, <1>3
<1>12. WelcomeFollowsCommit'
  <2> SUFFICES ASSUME NEW q \in Peer, NEW i \in DOMAIN inbox'[q],
                      inbox'[q][i].name = "e2eeWelcome"
               PROVE  \E a \in accepted' :
                        /\ a.life = inbox'[q][i].life /\ a.group = inbox'[q][i].group
                        /\ a.epoch = inbox'[q][i].epoch /\ a.sender = inbox'[q][i].peer
    BY DEF WelcomeFollowsCommit
  <2>1. inbox'[q][i] # e
    BY DEF CommitNews
  <2>2. PICK j \in DOMAIN inbox[q] : inbox'[q][i] = inbox[q][j]
    BY <2>1, <1>4
  <2> QED
    BY <2>2, <1>3 DEF WelcomeFollowsCommit
<1>13. HistoryAgrees'
  <2>1. ASSUME NEW a \in accepted'
        PROVE  /\ a.life <= session'
               /\ a.life = session' => a.epoch < groups'[a.group].currentEpoch
    <3>1. CASE a \in accepted
      BY <3>1, <1>1, <1>3, <1>9 DEF RelayInv, HistoryAgrees
    <3>2. CASE a = d
      <4> HIDE DEF d
      <4> QED
        BY <3>2, <1>1, <1>3, <1>8
    <3> QED
      BY <3>1, <3>2, <1>3
  <2>2. ASSUME NEW g \in Group, NEW n \in 0..(groups'[g].currentEpoch - 1)
        PROVE  \E a \in accepted' : a.life = session' /\ a.group = g /\ a.epoch = n
    <3>1. CASE g # c.group \/ n < c.epoch
      BY <3>1, <1>1, <1>3 DEF RelayInv, HistoryAgrees
    <3>2. CASE g = c.group /\ ~ (n < c.epoch)
      <4>1. n = c.epoch
        BY <3>2, <1>1, <1>3
      <4> HIDE DEF d
      <4> QED
        BY <3>2, <4>1, <1>3, <1>8
    <3> QED
      BY <3>1, <3>2
  <2> QED
    BY <2>1, <2>2 DEF HistoryAgrees
<1>14. LastIsRemembered'
  <2> SUFFICES ASSUME NEW g \in Group
               PROVE  /\ groups'[g].currentEpoch > 0 => groups'[g].lastAccepted # {}
                      /\ \A a \in groups'[g].lastAccepted :
                           /\ a.epoch + 1 = groups'[g].currentEpoch
                           /\ [life |-> session', group |-> g, epoch |-> a.epoch,
                               sender |-> a.sender, payload |-> a.payload] \in accepted'
    BY DEF LastIsRemembered
  <2>1. CASE g = c.group
    BY <2>1, <1>1, <1>3 DEF Decision
  <2>2. CASE g # c.group
    BY <2>2, <1>3 DEF RelayInv, LastIsRemembered
  <2> QED
    BY <2>1, <2>2
<1>15. InboxSettled'
  <2> SUFFICES ASSUME NEW q \in Peer, NEW i \in DOMAIN inbox'[q], IsMls(inbox'[q][i])
               PROVE  /\ inbox'[q][i].life <= session'
                      /\ inbox'[q][i].life = session' =>
                           inbox'[q][i].epoch < groups'[inbox'[q][i].group].currentEpoch
    BY DEF InboxSettled, Settled
  <2>1. CASE inbox'[q][i] = e
    BY <2>1, <1>1, <1>3 DEF CommitNews
  <2>2. CASE \E j \in DOMAIN inbox[q] : inbox'[q][i] = inbox[q][j]
    <3>1. PICK j \in DOMAIN inbox[q] : inbox'[q][i] = inbox[q][j]
      BY <2>2
    <3>2. inbox[q][j] \in Event
      BY ElementOfSeq, LenProperties DEF TypeOK
    <3>3. inbox[q][j].group \in Group /\ inbox[q][j].epoch \in Nat
      BY <3>1, <3>2 DEF Event, IsMls, RosterEvent, RosterNames, KeyPackageEvent,
                        CommitEvent, WelcomeEvent
    <3>4. /\ inbox[q][j].life <= session
          /\ inbox[q][j].life = session =>
               inbox[q][j].epoch < groups[inbox[q][j].group].currentEpoch
      BY <3>1 DEF RelayInv, InboxSettled, Settled
    <3> HIDE DEF e, d, IInv
    <3> QED
      BY <3>1, <3>3, <3>4, <1>1, <1>3
  <2> QED
    BY <2>1, <2>2, <1>4
<1> QED
  BY <1>5, <1>6, <1>10, <1>11, <1>12, <1>13, <1>14, <1>15 DEF RelayInv

(* What passing a Welcome on preserves. *)
LEMMA WelcomeKeeps ==
  ASSUME IInv, NEW p \in Peer, NEW w \in AnyWelcome, WelcomeStep(p, w)
  PROVE  IInv'
<1> USE DEF IInv
<1> DEFINE e == WelcomeNews(p, w)
<1>1. /\ w.group \in Group /\ w.epoch \in Nat /\ w.target \in Peer /\ session \in Nat
      /\ groups[w.group].currentEpoch = w.epoch + 1
  BY DEF AnyWelcome, WelcomeStep, WelcomeAllowed, TypeOK
<1>2. UNCHANGED <<status, wire, session, opened, groups, accepted>>
  BY DEF WelcomeStep
<1>3. \E a \in accepted : a.life = session /\ a.group = w.group
                          /\ a.epoch = w.epoch /\ a.sender = p
  BY <1>1 DEF WelcomeStep, WelcomeAllowed, RelayInv, LastIsRemembered
<1>4. /\ inbox' \in [Peer -> Seq(Event)]
      /\ \A q \in Peer :
           /\ Ordered(inbox'[q])
           /\ \A i \in DOMAIN inbox'[q] :
                inbox'[q][i] = e \/ \E j \in DOMAIN inbox[q] : inbox'[q][i] = inbox[q][j]
  <2>1. e \in Event /\ e.name = "e2eeWelcome" /\ e.life = session /\ e.group = w.group
        /\ e.epoch = w.epoch
    BY <1>1 DEF Event, WelcomeEvent, WelcomeNews
  <2>2. \A q \in Peer : \A i \in DOMAIN inbox[q] :
          IsMls(inbox[q][i]) /\ inbox[q][i].life = session /\ inbox[q][i].group = w.group
          => inbox[q][i].epoch <= w.epoch
    <3> SUFFICES ASSUME NEW q \in Peer, NEW i \in DOMAIN inbox[q], IsMls(inbox[q][i]),
                        inbox[q][i].life = session, inbox[q][i].group = w.group
                 PROVE  inbox[q][i].epoch <= w.epoch
      OBVIOUS
    <3>1. inbox[q][i].epoch < w.epoch + 1
      BY <1>1 DEF RelayInv, InboxSettled, Settled
    <3>2. inbox[q][i] \in Event
      BY ElementOfSeq, LenProperties DEF TypeOK
    <3>3. inbox[q][i].epoch \in Nat
      BY <3>2 DEF Event, IsMls, RosterEvent, RosterNames, KeyPackageEvent,
                  CommitEvent, WelcomeEvent
    <3> QED
      BY <3>1, <3>3, <1>1
  <2>3. inbox' = Sent({w.target}, <<e>>) /\ {w.target} \in SUBSET Peer
    BY <1>1 DEF WelcomeStep
  <2> HIDE DEF e, IInv
  <2>4. TypeOK /\ MlsInOrder
    BY DEF IInv
  <2>5. \A q \in Peer : \A i \in DOMAIN inbox[q] :
          IsMls(inbox[q][i]) /\ inbox[q][i].life = e.life /\ inbox[q][i].group = e.group
          => IF e.name = "e2eeCommit" THEN inbox[q][i].epoch < e.epoch
                                      ELSE inbox[q][i].epoch <= e.epoch
    BY <2>1, <2>2
  <2> QED
    BY <2>1, <2>3, <2>4, <2>5, NewsInboxes
<1>5. TypeOK' /\ MlsInOrder'
  BY <1>2, <1>4 DEF TypeOK, MlsInOrder
<1>6. OneCommitPerEpoch' /\ NoEpochSkipped' /\ HistoryAgrees' /\ LastIsRemembered'
  BY <1>2 DEF OneCommitPerEpoch, NoEpochSkipped, RelayInv, HistoryAgrees, LastIsRemembered
<1>7. WelcomeFollowsCommit'
  <2> SUFFICES ASSUME NEW q \in Peer, NEW i \in DOMAIN inbox'[q],
                      inbox'[q][i].name = "e2eeWelcome"
               PROVE  \E a \in accepted :
                        /\ a.life = inbox'[q][i].life /\ a.group = inbox'[q][i].group
                        /\ a.epoch = inbox'[q][i].epoch /\ a.sender = inbox'[q][i].peer
    BY <1>2 DEF WelcomeFollowsCommit
  <2>1. CASE inbox'[q][i] = e
    BY <2>1, <1>3 DEF WelcomeNews
  <2>2. CASE \E j \in DOMAIN inbox[q] : inbox'[q][i] = inbox[q][j]
    BY <2>2 DEF WelcomeFollowsCommit
  <2> QED
    BY <2>1, <2>2, <1>4
<1>8. InboxSettled'
  <2> SUFFICES ASSUME NEW q \in Peer, NEW i \in DOMAIN inbox'[q], IsMls(inbox'[q][i])
               PROVE  /\ inbox'[q][i].life <= session
                      /\ inbox'[q][i].life = session =>
                           inbox'[q][i].epoch < groups[inbox'[q][i].group].currentEpoch
    BY <1>2 DEF InboxSettled, Settled
  <2>1. CASE inbox'[q][i] = e
    BY <2>1, <1>1 DEF WelcomeNews
  <2>2. CASE \E j \in DOMAIN inbox[q] : inbox'[q][i] = inbox[q][j]
    BY <2>2 DEF RelayInv, InboxSettled, Settled
  <2> QED
    BY <2>1, <2>2, <1>4
<1> QED
  BY <1>5, <1>6, <1>7, <1>8 DEF RelayInv

-----------------------------------------------------------------------------
(* The theorems *)

LEMMA InitInv ==
  ASSUME Init
  PROVE  IInv
<1>1. TypeOK
  BY EmptySeq DEF Init, TypeOK, Status, Fresh, GroupState
<1>2. RelayInv
  BY DEF Init, Fresh, RelayInv, HistoryAgrees, LastIsRemembered, InboxSettled, IsMls
<1>3. OneCommitPerEpoch /\ NoEpochSkipped /\ WelcomeFollowsCommit /\ MlsInOrder
  BY DEF Init, OneCommitPerEpoch, NoEpochSkipped, WelcomeFollowsCommit, MlsInOrder, Ordered
<1> QED
  BY <1>1, <1>2, <1>3 DEF IInv

LEMMA StutterKeeps ==
  ASSUME IInv, UNCHANGED relayVars
  PROVE  IInv'
BY DEF relayVars, IInv, TypeOK, RelayInv, HistoryAgrees, LastIsRemembered, InboxSettled, Settled,
       OneCommitPerEpoch, NoEpochSkipped, WelcomeFollowsCommit, MlsInOrder

(* No step of the relay, whoever makes it, leaves the invariant. *)
LEMMA StepKeeps ==
  ASSUME IInv,
         \/ QuietStep
         \/ \E p \in Peer, c \in AnyCommit : AcceptStep(p, c)
         \/ \E p \in Peer, w \in AnyWelcome : WelcomeStep(p, w)
         \/ UNCHANGED relayVars
  PROVE  IInv'
BY QuietKeeps, AcceptKeeps, WelcomeKeeps, StutterKeeps

(* The inductive invariant holds in every reachable state. *)
THEOREM RelayInvariant == Spec => []IInv
<1>1. Init => IInv
  BY InitInv
<1>2. IInv /\ [Next]_relayVars => IInv'
  <2>1. IInv => TypeOK
    BY DEF IInv
  <2> QED
    BY <2>1, Steps, StepKeeps
<1> QED
  BY <1>1, <1>2, PTL DEF Spec

(* Every variable keeps its type, and the relay remembers at most one Commit *)
(* of a group (Room.ts, e2eeGroups).                                         *)
THEOREM TypeCorrect == Spec => []TypeOK
<1>1. IInv => TypeOK
  BY DEF IInv
<1> QED
  BY <1>1, RelayInvariant, PTL

(* What the relay remembers of a group, and what is still on its way to a   *)
(* client, agrees with the Commits it ever accepted (Room.ts, e2eeGroups).   *)
THEOREM MemoryAgrees == Spec => []RelayInv
<1>1. IInv => RelayInv
  BY DEF IInv
<1> QED
  BY <1>1, RelayInvariant, PTL

(* acceptE2eeCommit cannot split a group: whoever sends whatever, however    *)
(* often, at most one Commit closes an epoch of a group in one E2EE session. *)
THEOREM NoSplit == Spec => []OneCommitPerEpoch
<1>1. IInv => OneCommitPerEpoch
  BY DEF IInv
<1> QED
  BY <1>1, RelayInvariant, PTL

(* A Commit in flight or delivered never belongs to an epoch whose *)
(* predecessor was not closed before it.                           *)
THEOREM UnbrokenChain == Spec => []NoEpochSkipped
<1>1. IInv => NoEpochSkipped
  BY DEF IInv
<1> QED
  BY <1>1, RelayInvariant, PTL

(* relayE2eeWelcome: every Welcome on its way comes from the author of the *)
(* Commit that closed its epoch.                                           *)
THEOREM WelcomesAuthorized == Spec => []WelcomeFollowsCommit
<1>1. IInv => WelcomeFollowsCommit
  BY DEF IInv
<1> QED
  BY <1>1, RelayInvariant, PTL

(* broadcastE2ee and Peer.send: on every socket Commits and Welcomes come in *)
(* the order in which their epochs were closed.                              *)
THEOREM DeliveryInOrder == Spec => []MlsInOrder
<1>1. IInv => MlsInOrder
  BY DEF IInv
<1> QED
  BY <1>1, RelayInvariant, PTL

(* acceptE2eeCommit: asking again about a Commit gives "accepted" exactly *)
(* when it is the one that closed the last epoch.                         *)
THEOREM LostReply == Spec => []LostReplyIsIdempotent
<1>1. IInv => LostReplyIsIdempotent
  <2> SUFFICES ASSUME IInv, NEW p \in Peer, NEW c \in Commit
               PROVE  CommitAnswer(p, c) = "accepted_before" <=>
                        \E a \in accepted :
                          /\ a = Decision(p, c)
                          /\ groups[c.group].currentEpoch = c.epoch + 1
    BY DEF LostReplyIsIdempotent, Decision
  <2> DEFINE state == groups[c.group]
             mine == [epoch |-> c.epoch, sender |-> p, payload |-> c.payload]
  <2>1. /\ c.group \in Group /\ c.epoch \in Nat /\ state \in GroupState
        /\ state.currentEpoch \in Nat
    BY DEF Commit, IInv, TypeOK, GroupState
  <2>2. \A a \in state.lastAccepted :
          /\ a \in Accepted
          /\ a.epoch + 1 = state.currentEpoch
          /\ [life |-> session, group |-> c.group, epoch |-> a.epoch,
              sender |-> a.sender, payload |-> a.payload] \in accepted
    BY <2>1 DEF IInv, RelayInv, LastIsRemembered, GroupState
  <2>3. CommitAnswer(p, c) = "accepted_before" <=>
          c.epoch < state.currentEpoch /\ mine \in state.lastAccepted
    BY <2>1 DEF CommitAnswer
  <2>4. ASSUME c.epoch < state.currentEpoch, mine \in state.lastAccepted
        PROVE  Decision(p, c) \in accepted /\ state.currentEpoch = c.epoch + 1
    BY <2>1, <2>2, <2>4 DEF Decision
  <2>5. ASSUME Decision(p, c) \in accepted, state.currentEpoch = c.epoch + 1
        PROVE  c.epoch < state.currentEpoch /\ mine \in state.lastAccepted
    <3>1. state.lastAccepted # {}
      BY <2>1, <2>5 DEF IInv, RelayInv, LastIsRemembered
    <3>2. PICK a \in state.lastAccepted : TRUE
      BY <3>1
    <3>3. a.epoch = c.epoch
      <4>1. a.epoch \in Nat /\ a.epoch + 1 = c.epoch + 1
        BY <2>2, <2>5, <3>2 DEF Accepted
      <4> QED
        BY <4>1, <2>1
    <3>4. [life |-> session, group |-> c.group, epoch |-> a.epoch,
           sender |-> a.sender, payload |-> a.payload] = Decision(p, c)
      BY <2>2, <2>5, <3>2, <3>3 DEF IInv, OneCommitPerEpoch, Decision
    <3>5. a = mine
      BY <2>2, <3>2, <3>3, <3>4 DEF Decision, Accepted
    <3> QED
      BY <2>1, <2>5, <3>2, <3>5
  <2> QED
    BY <2>3, <2>4, <2>5
<1> QED
  BY <1>1, RelayInvariant, PTL

(* Every step of the relay decides the next open epoch of one group of the *)
(* current session, or decides nothing.                                    *)
LEMMA StepDecidesInOrder ==
  ASSUME IInv,
         \/ QuietStep
         \/ \E p \in Peer, c \in AnyCommit : AcceptStep(p, c)
         \/ \E p \in Peer, w \in AnyWelcome : WelcomeStep(p, w)
  PROVE  [Order!Next]_accepted
<1>1. CASE QuietStep
  BY <1>1 DEF QuietStep
<1>2. ASSUME NEW p \in Peer, NEW c \in AnyCommit, AcceptStep(p, c)
      PROVE  Order!Next
  <2> DEFINE d == Decision(p, c)
  <2>1. /\ c.group \in Group /\ c.epoch \in Nat /\ session \in Nat
        /\ c.epoch = groups[c.group].currentEpoch
        /\ accepted' = accepted \cup {d}
    BY <1>2 DEF AnyCommit, AcceptStep, IInv, TypeOK
  <2>2. d.life = session /\ d.group = c.group /\ d.epoch = c.epoch
    BY DEF Decision
  <2>3. \A a \in accepted :
          /\ a.life <= session
          /\ a.epoch \in Nat
          /\ a.life = session /\ a.group = c.group => a.epoch < c.epoch
    BY <2>1 DEF IInv, TypeOK, RelayInv, HistoryAgrees
  <2>4. c.epoch = 0 \/ \E a \in accepted : /\ a.life = session /\ a.group = c.group
                                           /\ a.epoch + 1 = c.epoch
    <3>1. CASE c.epoch # 0
      <4>1. c.epoch - 1 \in 0..(groups[c.group].currentEpoch - 1)
        BY <3>1, <2>1
      <4>2. PICK a \in accepted : a.life = session /\ a.group = c.group
                                  /\ a.epoch = c.epoch - 1
        BY <4>1, <2>1 DEF IInv, RelayInv, HistoryAgrees
      <4> QED
        BY <4>2, <2>1
    <3> QED
      BY <3>1
  <2> HIDE DEF d
  <2>5. d \notin accepted /\ Order!InOrder(d)
    BY <2>1, <2>2, <2>3, <2>4 DEF Order!InOrder
  <2> QED
    BY <2>1, <2>5 DEF Order!Next, Order!Decide
<1>3. ASSUME NEW p \in Peer, NEW w \in AnyWelcome, WelcomeStep(p, w)
      PROVE  UNCHANGED accepted
  BY <1>3 DEF WelcomeStep
<1> QED
  BY <1>1, <1>2, <1>3

(* The relay implements CommitOrder: every step decides the next open epoch *)
(* of one group of the current session, or decides nothing.                 *)
THEOREM ImplementsCommitOrder == Spec => DecidesInOrder
<1>1. Init => Order!Init
  BY DEF Init, Order!Init
<1>2. IInv /\ [Next]_relayVars => [Order!Next]_accepted
  <2>1. IInv => TypeOK
    BY DEF IInv
  <2>2. UNCHANGED relayVars => UNCHANGED accepted
    BY DEF relayVars
  <2> QED
    BY <2>1, <2>2, Steps, StepDecidesInOrder
<1> QED
  BY <1>1, <1>2, RelayInvariant, PTL DEF Spec, DecidesInOrder, Order!Spec

-----------------------------------------------------------------------------
(* The clients with the relay *)

(* KeyPackages and group states are opaque bytes to the relay. *)
MlsIsPayload == Member \cup Seq(Entry) \subseteq Payload

Elems(s) == {s[i] : i \in DOMAIN s}

Mail(q) == Elems(inbox[q])

ClientRecord ==
  [group: Nat, log: Seq(Entry), names: [Peer -> SUBSET Member], early: SUBSET Nat,
   state: {"out", "establishing", "encrypted", "failed"}]

(* Log is what a Commit of group g made that is one of acc. *)
Supported(acc, g, log) ==
  \E a \in acc : a.group = g /\ a.payload = log /\ Len(log) = a.epoch + 2

(* A call in a room of so many sessions: a log of two or more Commits is an *)
(* accepted one, and only a client that has no tree keeps early Commits.    *)
FitCall(c, sessions, acc) ==
  /\ c \in ClientRecord
  /\ c.state = "out" => c = NoCall
  /\ c.state # "out" => c.group \in 1..sessions
  /\ ~ Awaiting(c) => c.early = {}
  /\ Len(c.log) >= 2 => Supported(acc, c.group, c.log)

(* What a client in call c may be waiting for. *)
FitTask(c, t, acc) ==
  /\ t \in Task
  /\ t.step # "idle" => c.state # "out"
  /\ t.step \in {"commit", "accepted", "refused"} =>
       /\ Len(c.log) >= 1
       /\ Len(t.log) = Len(c.log) + 1
       /\ \A q \in t.next : c.names[q] # {}
  /\ t.step = "accepted" => Supported(acc, c.group, t.log)
  /\ t.step = "welcome" => Len(c.log) >= 2

(* Where p is and whom it sees. *)
FitSeat(p) ==
  /\ IF status[p] = "unborn" THEN away[p] = {} ELSE sid[p] \in 1..session
  /\ away[p] \subseteq seen[p] \ {p}
  /\ InCall(p) => starts[p] \in 1..MaxStarts /\ status[p] \in {"here", "orphan", "closing"}

Departed == {"closing", "gone"}

Announced(acc, e) ==
  \E a \in acc : /\ a.life = e.life /\ a.group = e.group /\ a.epoch = e.epoch
                 /\ a.payload = e.payload

(* What may be on its way to q: a peer said to have left has left. *)
FitEvent(q, e) ==
  /\ e.peer \in Peer
  /\ e.name = "e2eeJoinRequested" => e.payload \in Member
  /\ e.name = "e2eeCommit" => Announced(accepted, e)
  /\ e.name \in RosterNames \ {"sessionRejoined"} => e.peer # q
  /\ e.name \in {"peerLeft", "peerKicked"} => status[e.peer] \in Departed

AcceptedFit ==
  \A a \in accepted : /\ a.payload \in Seq(Entry)
                      /\ Len(a.payload) = a.epoch + 2
                      /\ a.group <= a.life

MailFits == \A q \in Peer : \A e \in Mail(q) : FitEvent(q, e)

Wired ==
  \A p \in Peer : /\ status[p] = "closing" => p \in wire
                  /\ p \in wire => status[p] \in {"here", "closing"}

CallShape ==
  /\ sid \in [Peer -> Nat]
  /\ seen \in [Peer -> SUBSET Peer]
  /\ away \in [Peer -> SUBSET Peer]
  /\ call \in [Peer -> ClientRecord]
  /\ task \in [Peer -> Task]
  /\ starts \in [Peer -> 0..MaxStarts]
  /\ drops \in 0..MaxDrops /\ fails \in 0..MaxFails
  /\ exits \in 0..MaxExits /\ kicks \in 0..MaxKicks

ClientFits(p) ==
  FitSeat(p) /\ FitCall(call[p], session, accepted) /\ FitTask(call[p], task[p], accepted)

(* The inductive invariant: the relay's, and what each client holds. *)
CallInv ==
  /\ IInv
  /\ session <= MaxSession
  /\ CallShape
  /\ AcceptedFit /\ MailFits /\ Wired
  /\ \A p \in Peer : ClientFits(p)

-----------------------------------------------------------------------------
(* Logs *)

(* A peer's identities are members. *)
LEMMA OwnMember ==
  ASSUME NEW p \in Peer, NEW n \in 1..MaxStarts
  PROVE  <<p, n>> \in Member
BY DEF Member

LEMMA TreeType ==
  ASSUME NEW log \in Seq(Entry), Len(log) >= 1
  PROVE  Tree(log) \in Seq(Member \cup {Blank})
<1>1. Len(log) \in 1..Len(log)
  BY LenProperties
<1>2. log[Len(log)] \in Entry
  BY <1>1, ElementOfSeq
<1> QED
  BY <1>2 DEF Tree, Entry

LEMMA PlantedType ==
  ASSUME NEW tree \in Seq(Member \cup {Blank}), NEW m \in Member
  PROVE  Planted(tree, m) \in Seq(Member \cup {Blank})
<1> DEFINE S == Member \cup {Blank}
<1>1. m \in S
  OBVIOUS
<1> HIDE DEF S
<1>2. ASSUME NEW i PROVE [tree EXCEPT ![i] = m] \in Seq(S)
  <2>1. Len(tree) \in Nat /\ tree \in [1..Len(tree) -> S]
    BY LenProperties DEF S
  <2>2. [tree EXCEPT ![i] = m] \in [1..Len(tree) -> S]
    BY <1>1, <2>1
  <2> QED
    BY <2>1, <2>2, FunctionIsSeq
<1>3. Append(tree, m) \in Seq(S)
  BY <1>1, AppendProperties DEF S
<1> QED
  BY <1>2, <1>3 DEF Planted, S

(* One more Commit is one more entry. *)
LEMMA AppendEntry ==
  ASSUME NEW log \in Seq(Entry), NEW e \in Entry
  PROVE  Append(log, e) \in Seq(Entry) /\ Len(Append(log, e)) = Len(log) + 1
BY AppendProperties

LEMMA AddingType ==
  ASSUME NEW log \in Seq(Entry), Len(log) >= 1, NEW by \in Member, NEW m \in Member
  PROVE  /\ CommitAdding(log, by, m) \in Seq(Entry)
         /\ Len(CommitAdding(log, by, m)) = Len(log) + 1
<1>1. [by |-> by, tree |-> Planted(Tree(log), m)] \in Entry
  BY TreeType, PlantedType DEF Entry
<1> QED
  BY <1>1, AppendEntry DEF CommitAdding

LEMMA RemovingType ==
  ASSUME NEW log \in Seq(Entry), Len(log) >= 1, NEW by \in Member, NEW out
  PROVE  /\ CommitRemoving(log, by, out) \in Seq(Entry)
         /\ Len(CommitRemoving(log, by, out)) = Len(log) + 1
<1> DEFINE S == Member \cup {Blank}
           tree == [i \in DOMAIN Tree(log) |-> IF Tree(log)[i] \in out THEN Blank ELSE Tree(log)[i]]
<1>1. /\ Len(Tree(log)) \in Nat
      /\ DOMAIN Tree(log) = 1..Len(Tree(log))
      /\ \A i \in 1..Len(Tree(log)) : Tree(log)[i] \in S
  BY TreeType, LenProperties, ElementOfSeq
<1>2. Blank \in S
  OBVIOUS
<1> HIDE DEF S
<1>3. tree \in [1..Len(Tree(log)) -> S]
  BY <1>1, <1>2
<1>4. tree \in Seq(S)
  BY <1>1, <1>3, FunctionIsSeq
<1> HIDE DEF tree
<1>5. [by |-> by, tree |-> tree] \in Entry
  BY <1>4 DEF Entry, S
<1> QED
  BY <1>5, AppendEntry DEF CommitRemoving, tree

LEMMA CreatedType ==
  ASSUME NEW m \in Member
  PROVE  Created(m) \in Seq(Entry) /\ Len(Created(m)) = 1
<1>1. <<m>> \in Seq(Member \cup {Blank})
  OBVIOUS
<1>2. [by |-> m, tree |-> <<m>>] \in Entry
  BY <1>1 DEF Entry
<1> QED
  BY <1>2 DEF Created

(* Having no tree is having no Commit. *)
LEMMA AwaitingLen ==
  ASSUME NEW c, c.log \in Seq(Entry)
  PROVE  /\ Awaiting(c) <=> Len(c.log) = 0
         /\ Len(c.log) \in Nat
BY LenProperties, EmptySeq DEF Awaiting

-----------------------------------------------------------------------------
(* What a handler may make of a call *)

LEMMA NoCallFits ==
  ASSUME NEW n \in Nat, NEW acc
  PROVE  FitCall(NoCall, n, acc) /\ FitTask(NoCall, Idle, acc)
<1>1. NoCall \in ClientRecord
  BY EmptySeq DEF NoCall, ClientRecord
<1>2. Idle \in Task
  BY DEF Idle, Task
<1> QED
  BY <1>1, <1>2 DEF FitCall, FitTask, NoCall, Idle, Awaiting

LEMMA IdleFits ==
  ASSUME NEW c, NEW acc
  PROVE  FitTask(c, Idle, acc)
BY DEF FitTask, Idle, Task

(* A call stays fit while sessions are minted and Commits accepted. *)
LEMMA CallAges ==
  ASSUME NEW c, NEW m \in Nat, NEW n \in Nat, m <= n, NEW acc, NEW more, acc \subseteq more,
         FitCall(c, m, acc)
  PROVE  FitCall(c, n, more)
<1>1. Supported(acc, c.group, c.log) => Supported(more, c.group, c.log)
  BY DEF Supported
<1>2. c.group \in 1..m => c.group \in 1..n
  OBVIOUS
<1> QED
  BY <1>1, <1>2 DEF FitCall

LEMMA TaskAges ==
  ASSUME NEW c, NEW t, NEW acc, NEW more, acc \subseteq more, FitTask(c, t, acc)
  PROVE  FitTask(c, t, more)
<1>1. Supported(acc, c.group, t.log) => Supported(more, c.group, t.log)
  BY DEF Supported
<1> QED
  BY <1>1 DEF FitTask

LEMMA StartedFits ==
  ASSUME NEW p \in Peer, NEW k \in 1..MaxStarts, NEW n \in Nat, NEW s \in 1..n, NEW acc,
         NEW alone \in BOOLEAN
  PROVE  LET c == Started(p, k, s, alone)
         IN  /\ FitCall(c, n, acc)
             /\ c.state # "out"
             /\ c.group = s
             /\ \A step \in {"enter", "join"} : FitTask(c, [step |-> step], acc)
<1> DEFINE c == Started(p, k, s, alone)
<1>1. /\ <<p, k>> \in Member
      /\ Created(<<p, k>>) \in Seq(Entry) /\ Len(Created(<<p, k>>)) = 1
  BY OwnMember, CreatedType
<1>2. s \in Nat
  OBVIOUS
<1>3. /\ c.group = s
      /\ c.log \in Seq(Entry) /\ Len(c.log) < 2
      /\ c.names \in [Peer -> SUBSET Member]
      /\ c.early = {}
      /\ c.state \in {"encrypted", "establishing"}
  <2>1. c.log = Created(<<p, k>>) \/ c.log = <<>>
    BY DEF Started
  <2>2. <<>> \in Seq(Entry) /\ Len(<<>>) = 0
    BY EmptySeq
  <2> HIDE DEF c
  <2>3. c.log \in Seq(Entry) /\ Len(c.log) < 2
    <3>1. CASE c.log = Created(<<p, k>>)
      <4>1. Len(c.log) = 1
        BY <1>1, <3>1
      <4> QED
        BY SMTT(40), <1>1, <3>1, <4>1
    <3>2. CASE c.log = <<>>
      BY <2>2, <3>2
    <3> QED
      BY <2>1, <3>1, <3>2
  <2>4. [q \in Peer |-> IF q = p THEN {<<p, k>>} ELSE {}] \in [Peer -> SUBSET Member]
    BY <1>1
  <2> QED
    BY <2>3, <2>4 DEF Started, c
<1>4. c \in ClientRecord
  BY <1>2, <1>3 DEF Started, ClientRecord
<1>5. \A step \in {"enter", "join"} : [step |-> step] \in Task
  BY DEF Task
<1> HIDE DEF c
<1> QED
  BY <1>3, <1>4, <1>5 DEF FitCall, FitTask, c

LEMMA FailedFits ==
  ASSUME NEW c, NEW n, NEW acc, FitCall(c, n, acc), c.state # "out"
  PROVE  /\ FitCall(Failed(c), n, acc)
         /\ Failed(c).state # "out"
BY DEF FitCall, Failed, ClientRecord, Awaiting

LEMMA NotedFits ==
  ASSUME NEW c, NEW n, NEW acc, FitCall(c, n, acc), c.state # "out",
         NEW q \in Peer, NEW m \in Member
  PROVE  LET noted == [c EXCEPT !.names[q] = {m}]
         IN  /\ FitCall(noted, n, acc)
             /\ noted.state # "out" /\ noted.log = c.log
             /\ noted.names[q] = {m}
<1>1. [c.names EXCEPT ![q] = {m}] \in [Peer -> SUBSET Member]
  BY DEF FitCall, ClientRecord
<1> QED
  BY <1>1 DEF FitCall, ClientRecord, Awaiting

LEMMA EarlyFits ==
  ASSUME NEW c, NEW n, NEW acc, FitCall(c, n, acc), c.state # "out", Awaiting(c),
         NEW e \in Nat
  PROVE  FitCall([c EXCEPT !.early = @ \cup {e}], n, acc)
BY DEF FitCall, ClientRecord, Awaiting

(* A group state that an accepted Commit made, taken over. *)
LEMMA JoinedFits ==
  ASSUME NEW p \in Peer, NEW c, NEW n, NEW acc, FitCall(c, n, acc), c.state # "out",
         NEW log \in Seq(Entry), Len(log) >= 2, Supported(acc, c.group, log)
  PROVE  LET d == [Joined(p, c, log) EXCEPT !.early = {}]
         IN  /\ FitCall(d, n, acc)
             /\ d.state # "out" /\ d.log = log
             /\ c.early = {} => d = Joined(p, c, log)
<1> DEFINE d == [Joined(p, c, log) EXCEPT !.early = {}]
<1>1. /\ d.log = log /\ d.group = c.group /\ d.names = c.names /\ d.early = {}
      /\ d.state \in {"encrypted", "failed"}
      /\ d = [group |-> c.group, log |-> log, names |-> c.names, early |-> {}, state |-> d.state]
  <2> DEFINE st == IF Own(p) \in Members(log) THEN "encrypted" ELSE "failed"
  <2>1. st \in {"encrypted", "failed"}
    OBVIOUS
  <2>2. d = [[c EXCEPT !.log = log, !.state = st] EXCEPT !.early = {}]
    BY DEF Joined
  <2> HIDE DEF st, d
  <2>3. c \in ClientRecord
    BY DEF FitCall
  <2> QED
    BY <2>1, <2>2, <2>3 DEF ClientRecord
<1>2. d \in ClientRecord
  BY <1>1 DEF FitCall, ClientRecord
<1>3. c.early = {} => d = Joined(p, c, log)
  BY DEF FitCall, ClientRecord, Joined
<1> HIDE DEF d
<1> QED
  BY <1>1, <1>2, <1>3 DEF FitCall, d

(* A Commit of its own that a client with a tree stages. *)
LEMMA SubmitFits ==
  ASSUME NEW c, NEW n, NEW acc, FitCall(c, n, acc), c.state # "out", Len(c.log) >= 1,
         NEW log \in Seq(Entry), Len(log) = Len(c.log) + 1,
         NEW welcome \in SUBSET Peer, NEW next \in SUBSET Peer,
         \A q \in next : c.names[q] # {}
  PROVE  FitTask(c, Submit(log, welcome, next), acc)
BY DEF FitTask, Submit, Task

LEMMA StageAddFits ==
  ASSUME NEW p \in Peer, Own(p) \in Member, NEW c, NEW n, NEW acc, FitCall(c, n, acc),
         c.state # "out", Len(c.log) >= 1, NEW who, NEW off,
         NEW q \in Peer, c.names[q] # {}
  PROVE  FitTask(c, StageAdd(p, c, who, off, q), acc)
<1> DEFINE m == CHOOSE m \in c.names[q] : TRUE
           log == CommitAdding(c.log, Own(p), m)
<1>1. c.log \in Seq(Entry) /\ c.names[q] \subseteq Member
  BY DEF FitCall, ClientRecord
<1>2. m \in Member
  BY <1>1
<1> HIDE DEF m
<1>3. log \in Seq(Entry) /\ Len(log) = Len(c.log) + 1
  BY <1>1, <1>2, AddingType
<1> HIDE DEF log
<1>4. {q} \in SUBSET Peer /\ {} \in SUBSET Peer
  OBVIOUS
<1>5. FitTask(c, Submit(log, {q}, {}), acc)
  BY <1>3, <1>4, SubmitFits
<1> QED
  BY <1>5, IdleFits DEF StageAdd, log, m

LEMMA StageRemoveFits ==
  ASSUME NEW p \in Peer, Own(p) \in Member, NEW c, NEW n, NEW acc, FitCall(c, n, acc),
         c.state # "out", Len(c.log) >= 1, NEW who, NEW off,
         NEW next \in SUBSET Peer, \A q \in next : c.names[q] # {}
  PROVE  FitTask(c, StageRemoveGhosts(p, c, who, off, next), acc)
<1> DEFINE log == CommitRemoving(c.log, Own(p), Ghosts(c, who, off))
<1>1. c.log \in Seq(Entry)
  BY DEF FitCall, ClientRecord
<1>2. log \in Seq(Entry) /\ Len(log) = Len(c.log) + 1
  BY <1>1, RemovingType
<1> HIDE DEF log
<1>3. {} \in SUBSET Peer
  OBVIOUS
<1>4. FitTask(c, Submit(log, {}, next), acc)
  BY <1>2, <1>3, SubmitFits
<1> QED
  BY <1>4 DEF StageRemoveGhosts, log

-----------------------------------------------------------------------------
(* What is on its way *)

LEMMA ElemsConcat ==
  ASSUME NEW S, NEW s \in Seq(S), NEW t \in Seq(S)
  PROVE  Elems(s \o t) \subseteq Elems(s) \cup Elems(t)
<1> SUFFICES ASSUME NEW i \in DOMAIN (s \o t)
             PROVE  (s \o t)[i] \in Elems(s) \cup Elems(t)
  BY DEF Elems
<1>1. /\ Len(s \o t) = Len(s) + Len(t)
      /\ \A j \in 1..Len(s \o t) : (s \o t)[j] = IF j <= Len(s) THEN s[j] ELSE t[j - Len(s)]
      /\ s \o t \in Seq(S)
  BY ConcatProperties
<1>2. /\ Len(s) \in Nat /\ Len(t) \in Nat
      /\ DOMAIN s = 1..Len(s) /\ DOMAIN t = 1..Len(t) /\ DOMAIN (s \o t) = 1..Len(s \o t)
  BY <1>1, LenProperties
<1>3. CASE i <= Len(s)
  BY <1>1, <1>2, <1>3 DEF Elems
<1>4. CASE ~ (i <= Len(s))
  <2>1. i - Len(s) \in DOMAIN t /\ (s \o t)[i] = t[i - Len(s)]
    BY <1>1, <1>2, <1>4
  <2> QED
    BY <2>1 DEF Elems
<1> QED
  BY <1>3, <1>4

LEMMA ElemsPiece ==
  ASSUME NEW S, NEW s \in Seq(S), NEW m \in 1..2, NEW n \in 0..Len(s)
  PROVE  Elems(SubSeq(s, m, n)) \subseteq Elems(s)
<1> DEFINE u == SubSeq(s, m, n)
<1>1. Len(s) \in Nat /\ DOMAIN s = 1..Len(s)
  BY LenProperties
<1>2. /\ u \in Seq(S)
      /\ Len(u) = IF m <= n THEN n - m + 1 ELSE 0
      /\ \A i \in 1..Len(u) : u[i] = s[m + i - 1]
  <2>1. \A i \in m..n : s[i] \in S
    BY <1>1, ElementOfSeq
  <2> QED
    BY <2>1, SubSeqProperties
<1>3. DOMAIN u = 1..Len(u)
  BY <1>2, LenProperties
<1> HIDE DEF u
<1>4. ASSUME NEW i \in DOMAIN u PROVE u[i] \in Elems(s)
  <2>1. m + i - 1 \in DOMAIN s /\ u[i] = s[m + i - 1]
    BY SMTT(40), <1>1, <1>2, <1>3
  <2> QED
    BY <2>1 DEF Elems
<1>5. Elems(u) \subseteq Elems(s)
  BY <1>4 DEF Elems
<1> QED
  BY <1>5 DEF u

LEMMA MailType ==
  ASSUME TypeOK, NEW q \in Peer
  PROVE  /\ inbox[q] \in Seq(Event)
         /\ Len(inbox[q]) \in Nat /\ DOMAIN inbox[q] = 1..Len(inbox[q])
         /\ Mail(q) \subseteq Event
<1>1. inbox[q] \in Seq(Event)
  BY DEF TypeOK
<1> QED
  BY <1>1, LenProperties, ElementOfSeq DEF Mail, Elems

(* Who hears what is sent. *)
LEMMA SentMail ==
  ASSUME TypeOK, NEW to \in SUBSET Peer, NEW t \in Seq(Event), inbox' = Sent(to, t), NEW q \in Peer
  PROVE  /\ Mail(q)' \subseteq Mail(q) \cup Elems(t)
         /\ q \notin to => Mail(q)' = Mail(q)
<1>1. inbox'[q] = inbox[q] \/ (q \in to /\ inbox'[q] = inbox[q] \o t)
  BY DEF Sent
<1>2. Elems(inbox[q] \o t) \subseteq Elems(inbox[q]) \cup Elems(t)
  BY MailType, ElemsConcat
<1> QED
  BY <1>1, <1>2 DEF Mail

LEMMA AboutElems ==
  ASSUME NEW name, NEW who
  PROVE  Elems(About(name, who)) \subseteq {[name |-> name, peer |-> who[i]] : i \in DOMAIN who}
<1>1. CASE name \in Told
  <2>1. About(name, who) = [i \in DOMAIN who |-> [name |-> name, peer |-> who[i]]]
    BY <1>1 DEF About
  <2>2. \A i \in DOMAIN About(name, who) :
          i \in DOMAIN who /\ About(name, who)[i] = [name |-> name, peer |-> who[i]]
    BY <2>1
  <2> QED
    BY <2>2 DEF Elems
<1>2. CASE name \notin Told
  <2>1. About(name, who) = <<>> /\ DOMAIN <<>> = {}
    BY <1>2 DEF About
  <2> QED
    BY <2>1 DEF Elems
<1> QED
  BY <1>1, <1>2

(* One event about p, or none. *)
LEMMA AboutOne ==
  ASSUME NEW name \in RosterNames, NEW p \in Peer
  PROVE  /\ About(name, <<p>>) \in Seq(Event)
         /\ Elems(About(name, <<p>>)) \subseteq {[name |-> name, peer |-> p]}
<1>1. About(name, <<p>>) \in Seq(Event)
  BY RosterIsQuiet, SeqMonotonic DEF QuietEvent, Event
<1>2. \A i \in DOMAIN <<p>> : <<p>>[i] = p
  OBVIOUS
<1>3. Elems(About(name, <<p>>)) \subseteq {[name |-> name, peer |-> p]}
  BY <1>2, AboutElems
<1> QED
  BY <1>1, <1>3

(* What a fresh join tells of those it replaces. *)
LEMMA AboutSome ==
  ASSUME NEW out \in SUBSET Peer, NEW left \in [1..Cardinality(out) -> out]
  PROVE  /\ About("peerLeft", left) \in Seq(Event)
         /\ Elems(About("peerLeft", left)) \subseteq {[name |-> "peerLeft", peer |-> o] : o \in out}
<1>1. Cardinality(out) \in Nat
  BY RelayAssumption, FS_Subset, FS_CardinalityType
<1>2. left \in Seq(Peer)
  BY <1>1, FunctionIsSeq
<1>3. About("peerLeft", left) \in Seq(Event)
  BY <1>2, AboutType, SeqMonotonic DEF Event, RosterNames
<1>4. Elems(About("peerLeft", left)) \subseteq {[name |-> "peerLeft", peer |-> o] : o \in out}
  <2>1. ASSUME NEW e \in Elems(About("peerLeft", left))
        PROVE  e \in {[name |-> "peerLeft", peer |-> o] : o \in out}
    <3>1. PICK i \in DOMAIN left : e = [name |-> "peerLeft", peer |-> left[i]]
      BY AboutElems
    <3>2. left[i] \in out
      BY <3>1
    <3> QED
      BY <3>1, <3>2
  <2> QED
    BY <2>1
<1> QED
  BY <1>3, <1>4

(* What each inbox gains by a fresh join. *)
LEMMA JoinNews ==
  ASSUME TypeOK, NEW p \in Peer, Join(p, {}), NEW q \in Peer
  PROVE  IF q = p
         THEN Mail(q)' \subseteq {[name |-> "peerLeft", peer |-> o] : o \in Others(p)}
         ELSE Mail(q)' \subseteq Mail(q) \cup {[name |-> "peerJoined", peer |-> p]}
                           \cup {[name |-> "peerLeft", peer |-> o] : o \in Others(p) \ {q}}
<1> DEFINE out == {} \cup Others(p)
<1>1. out = Others(p) /\ out \in SUBSET Peer
  BY DEF Others, InRoom
<1>2. PICK left \in [1..Cardinality(out) -> out] :
        LET news == About("peerLeft", left)
        IN  inbox' = [r \in Peer |->
                        IF r = p THEN news
                        ELSE IF Hears(r) /\ r \notin out
                        THEN inbox[r] \o news \o About("peerJoined", <<p>>)
                        ELSE inbox[r]]
  BY DEF Join
<1> DEFINE news == About("peerLeft", left)
           joined == About("peerJoined", <<p>>)
<1> HIDE DEF out
<1>3. news \in Seq(Event) /\ Elems(news) \subseteq {[name |-> "peerLeft", peer |-> o] : o \in out}
  BY <1>1, AboutSome
<1>4. joined \in Seq(Event) /\ Elems(joined) \subseteq {[name |-> "peerJoined", peer |-> p]}
  BY AboutOne DEF RosterNames
<1>5. \/ q = p /\ inbox'[q] = news
      \/ q # p /\ q \notin out /\ inbox'[q] = inbox[q] \o news \o joined
      \/ q # p /\ inbox'[q] = inbox[q]
  BY <1>2
<1> HIDE DEF news, joined
<1>6. Elems(inbox[q] \o news \o joined) \subseteq Elems(inbox[q]) \cup Elems(news) \cup Elems(joined)
  <2>1. inbox[q] \o news \in Seq(Event)
    BY <1>3, MailType, ConcatProperties
  <2>2. Elems(inbox[q] \o news) \subseteq Elems(inbox[q]) \cup Elems(news)
    BY <1>3, MailType, ElemsConcat
  <2>3. Elems(inbox[q] \o news \o joined) \subseteq Elems(inbox[q] \o news) \cup Elems(joined)
    BY <1>4, <2>1, ElemsConcat
  <2> QED
    BY <2>2, <2>3
<1>7. CASE q = p /\ inbox'[q] = news
  BY <1>1, <1>3, <1>7 DEF Mail
<1>8. CASE q # p /\ q \notin out /\ inbox'[q] = inbox[q] \o news \o joined
  <2>1. out = out \ {q}
    BY <1>8
  <2> QED
    BY <1>1, <1>3, <1>4, <1>6, <1>8, <2>1 DEF Mail
<1>9. CASE q # p /\ inbox'[q] = inbox[q]
  BY <1>9 DEF Mail
<1> QED
  BY <1>5, <1>7, <1>8, <1>9

(* Everybody but p is told of p. *)
LEMMA ToldOf ==
  ASSUME TypeOK, NEW name \in RosterNames, NEW p \in Peer,
         inbox' = Sent(Peer \ {p}, About(name, <<p>>)), NEW q \in Peer, NEW e \in Mail(q)'
  PROVE  e \in Mail(q) \/ (q # p /\ e = [name |-> name, peer |-> p])
<1>1. /\ About(name, <<p>>) \in Seq(Event)
      /\ Elems(About(name, <<p>>)) \subseteq {[name |-> name, peer |-> p]}
  BY AboutOne
<1>2. Peer \ {p} \in SUBSET Peer
  OBVIOUS
<1>3. /\ Mail(q)' \subseteq Mail(q) \cup Elems(About(name, <<p>>))
      /\ q \notin Peer \ {p} => Mail(q)' = Mail(q)
  BY <1>1, <1>2, SentMail
<1> QED
  BY <1>1, <1>3

LEMMA KickNews ==
  ASSUME TypeOK, NEW p \in Peer, Kick(p), NEW q \in Peer, NEW e \in Mail(q)'
  PROVE  e \in Mail(q) \/ (q # p /\ e \in {[name |-> "peerKicked", peer |-> p], [name |-> "peerLeft", peer |-> p]})
<1>1. PICK kicked \in {<<>>, About("peerKicked", <<p>>)} :
        inbox' = Sent(Peer \ {p}, kicked \o About("peerLeft", <<p>>))
  BY DEF Kick
<1>2. /\ kicked \in Seq(Event)
      /\ Elems(kicked) \subseteq {[name |-> "peerKicked", peer |-> p]}
  <2>1. CASE kicked = <<>>
    BY <2>1, EmptySeq DEF Elems
  <2>2. CASE kicked = About("peerKicked", <<p>>)
    BY <2>2, AboutOne DEF RosterNames
  <2> QED
    BY <1>1, <2>1, <2>2
<1>3. /\ About("peerLeft", <<p>>) \in Seq(Event)
      /\ Elems(About("peerLeft", <<p>>)) \subseteq {[name |-> "peerLeft", peer |-> p]}
  BY AboutOne DEF RosterNames
<1> DEFINE news == kicked \o About("peerLeft", <<p>>)
<1>4. /\ news \in Seq(Event)
      /\ Elems(news) \subseteq {[name |-> "peerKicked", peer |-> p], [name |-> "peerLeft", peer |-> p]}
  <2>1. Elems(news) \subseteq Elems(kicked) \cup Elems(About("peerLeft", <<p>>))
    BY <1>2, <1>3, ElemsConcat
  <2>2. news \in Seq(Event)
    BY <1>2, <1>3, ConcatProperties
  <2> QED
    BY <2>1, <2>2, <1>2, <1>3
<1>5. inbox' = Sent(Peer \ {p}, news)
  BY <1>1
<1>6. Peer \ {p} \in SUBSET Peer
  OBVIOUS
<1> HIDE DEF news
<1>7. /\ Mail(q)' \subseteq Mail(q) \cup Elems(news)
      /\ q \notin Peer \ {p} => Mail(q)' = Mail(q)
  BY <1>4, <1>5, <1>6, SentMail
<1> QED
  BY <1>4, <1>7

LEMMA ResumeNews ==
  ASSUME TypeOK, NEW p \in Peer, Resume(p), NEW q \in Peer, NEW e \in Mail(q)'
  PROVE  \/ e \in Mail(q)
         \/ q = p /\ e = [name |-> "sessionRejoined", peer |-> p]
         \/ q # p /\ e = [name |-> "peerReconnected", peer |-> p]
<1>1. \/ q = p /\ inbox'[q] = inbox[q] \o About("sessionRejoined", <<p>>)
      \/ q # p /\ inbox'[q] = inbox[q] \o About("peerReconnected", <<p>>)
      \/ inbox'[q] = inbox[q]
  BY DEF Resume
<1>2. ASSUME NEW name \in RosterNames
      PROVE  Elems(inbox[q] \o About(name, <<p>>)) \subseteq Mail(q) \cup {[name |-> name, peer |-> p]}
  BY MailType, ElemsConcat, AboutOne DEF Mail
<1> QED
  BY <1>1, <1>2 DEF Mail, RosterNames

(* A lost socket and a delivery only take away. *)
LEMMA LossNews ==
  ASSUME TypeOK, NEW p \in Peer, (\E k \in 0..Len(inbox[p]) : SocketLost(p, k)) \/ Receive(p),
         NEW q \in Peer
  PROVE  Mail(q)' \subseteq Mail(q)
<1>1. inbox[p] \in Seq(Event) /\ Len(inbox[p]) \in Nat
  BY MailType
<1>2. CASE \E k \in 0..Len(inbox[p]) : SocketLost(p, k)
  <2>1. PICK k \in 0..Len(inbox[p]) : inbox' = [inbox EXCEPT ![p] = SubSeq(inbox[p], 1, k)]
    BY <1>2 DEF SocketLost
  <2>2. Elems(SubSeq(inbox[p], 1, k)) \subseteq Elems(inbox[p])
    <3>1. 1 \in 1..2
      OBVIOUS
    <3> QED
      BY <1>1, <3>1, ElemsPiece
  <2> QED
    BY <2>1, <2>2 DEF Mail, TypeOK
<1>3. CASE Receive(p)
  <2>1. Tail(inbox[p]) = SubSeq(inbox[p], 2, Len(inbox[p]))
    BY <1>1, <1>3, TailIsSubSeq DEF Receive
  <2>2. Elems(SubSeq(inbox[p], 2, Len(inbox[p]))) \subseteq Elems(inbox[p])
    <3>1. 2 \in 1..2 /\ Len(inbox[p]) \in 0..Len(inbox[p])
      BY <1>1
    <3> QED
      BY <1>1, <3>1, ElemsPiece
  <2> QED
    BY <1>3, <2>1, <2>2 DEF Mail, Receive, TypeOK
<1> QED
  BY <1>2, <1>3

-----------------------------------------------------------------------------
(* What the room's side of a step keeps *)

(* What happens to p in the room, relaying apart. *)
Membership(p) ==
  \/ Join(p, {})
  \/ Resume(p)
  \/ \E k \in 0..Len(inbox[p]) : SocketLost(p, k)
  \/ OrphanPeer(p)
  \/ Evict(p)
  \/ Leave(p)
  \/ Kick(p)
  \/ Receive(p)

RoomKept ==
  /\ IInv'
  /\ session \in Nat /\ session' \in Nat /\ session <= session' /\ session' <= MaxSession
  /\ accepted \subseteq accepted'
  /\ AcceptedFit' /\ MailFits' /\ Wired'

LEMMA RosterEventFits ==
  ASSUME NEW q \in Peer, NEW name \in RosterNames, NEW o \in Peer,
         name # "sessionRejoined" => o # q,
         name \in {"peerLeft", "peerKicked"} => status'[o] \in Departed
  PROVE  FitEvent(q, [name |-> name, peer |-> o])'
BY DEF FitEvent, RosterNames

LEMMA MailKept ==
  ASSUME MailFits, accepted \subseteq accepted',
         \A r \in Peer : status[r] \in Departed => status'[r] \in Departed,
         \A q \in Peer : \A e \in Mail(q)' : e \in Mail(q) \/ FitEvent(q, e)'
  PROVE  MailFits'
<1> SUFFICES ASSUME NEW q \in Peer, NEW e \in Mail(q)', e \in Mail(q)
             PROVE  FitEvent(q, e)'
  BY DEF MailFits
<1>1. FitEvent(q, e)
  BY DEF MailFits
<1>2. Announced(accepted, e) => Announced(accepted', e)
  BY DEF Announced
<1> QED
  BY <1>1, <1>2 DEF FitEvent

(* Nobody comes back who was taken out, and sockets close with their peers. *)
LEMMA MembershipSeats ==
  ASSUME TypeOK, Wired, NEW p \in Peer,
         Membership(p)
  PROVE  /\ Wired'
         /\ \A r \in Peer : status[r] \in Departed => status'[r] \in Departed
         /\ \A r \in Peer : status'[r] = "unborn" <=> status[r] = "unborn" /\ (r = p => ~ Join(p, {}))
<1> USE DEF Membership
<1>1. \A r \in Peer : status[r] \in Status
  BY DEF TypeOK
<1>2. CASE Join(p, {})
  BY <1>1, <1>2 DEF Join, Others, InRoom, Wired, Dismissed, Hears, Departed, TypeOK, Status
<1>3. CASE Resume(p)
  BY <1>1, <1>3 DEF Resume, InRoom, Wired, Departed, TypeOK, Status
<1>4. CASE \E k \in 0..Len(inbox[p]) : SocketLost(p, k)
  BY <1>1, <1>4 DEF SocketLost, Wired, Departed, TypeOK, Status
<1>5. CASE OrphanPeer(p)
  BY <1>1, <1>5 DEF OrphanPeer, Wired, Departed, TypeOK, Status
<1>6. CASE Evict(p)
  BY <1>1, <1>6 DEF Evict, Wired, Departed, TypeOK, Status
<1>7. CASE Leave(p)
  BY <1>1, <1>7 DEF Leave, Hears, Wired, Departed, TypeOK, Status
<1>8. CASE Kick(p)
  BY <1>1, <1>8 DEF Kick, InRoom, Dismissed, Hears, Wired, Departed, TypeOK, Status
<1>9. CASE Receive(p)
  <2>1. ~ Join(p, {})
    BY <1>9 DEF Receive, Join, TypeOK
  <2> QED
    BY <1>1, <1>9, <2>1 DEF Receive, Wired, Departed, TypeOK, Status
<1> QED
  BY <1>2, <1>3, <1>4, <1>5, <1>6, <1>7, <1>8, <1>9

(* What comes and goes with the peers is true of them. *)
LEMMA MembershipNews ==
  ASSUME TypeOK, NEW p \in Peer,
         Membership(p),
         NEW q \in Peer, NEW e \in Mail(q)', e \notin Mail(q)
  PROVE  FitEvent(q, e)'
<1> USE DEF Membership
<1>1. {"peerJoined", "peerLeft", "peerKicked", "peerConnectionLost", "peerReconnected",
       "sessionRejoined"} = RosterNames
  BY DEF RosterNames
<1>2. CASE Join(p, {})
  <2>1. Others(p) \subseteq Peer \ {p} /\ \A o \in Others(p) : status'[o] \in Departed
    BY <1>2 DEF Join, Others, InRoom, Dismissed, Departed
  <2>2. \/ \E o \in Others(p) : o # q /\ e = [name |-> "peerLeft", peer |-> o]
        \/ q # p /\ e = [name |-> "peerJoined", peer |-> p]
    BY <1>2, <2>1, JoinNews
  <2> QED
    BY <1>1, <2>1, <2>2, RosterEventFits
<1>3. CASE Resume(p)
  <2>1. \/ q = p /\ e = [name |-> "sessionRejoined", peer |-> p]
        \/ q # p /\ e = [name |-> "peerReconnected", peer |-> p]
    BY <1>3, ResumeNews
  <2> QED
    BY <1>1, <2>1, RosterEventFits
<1>4. CASE (\E k \in 0..Len(inbox[p]) : SocketLost(p, k)) \/ Receive(p)
  BY <1>4, LossNews
<1>5. CASE OrphanPeer(p)
  <2>1. q # p /\ e = [name |-> "peerConnectionLost", peer |-> p]
    BY <1>1, <1>5, ToldOf DEF OrphanPeer
  <2> QED
    BY <1>1, <2>1, RosterEventFits
<1>6. CASE Evict(p) \/ Leave(p)
  <2>1. q # p /\ e = [name |-> "peerLeft", peer |-> p]
    BY <1>1, <1>6, ToldOf DEF Evict, Leave
  <2>2. status'[p] \in Departed
    BY <1>6 DEF Evict, Leave, Departed, TypeOK
  <2> QED
    BY <1>1, <2>1, <2>2, RosterEventFits
<1>7. CASE Kick(p)
  <2>1. q # p /\ e \in {[name |-> "peerKicked", peer |-> p], [name |-> "peerLeft", peer |-> p]}
    BY <1>7, KickNews
  <2>2. status'[p] \in Departed
    BY <1>7 DEF Kick, Dismissed, Departed, TypeOK
  <2> QED
    BY <1>1, <2>1, <2>2, RosterEventFits
<1> QED
  BY <1>2, <1>3, <1>4, <1>5, <1>6, <1>7

LEMMA MembershipKeepsRoom ==
  ASSUME CallInv, NEW p \in Peer,
         Membership(p)
  PROVE  RoomKept
<1> USE DEF Membership
<1>1. IInv /\ TypeOK /\ Wired /\ MailFits /\ AcceptedFit /\ session <= MaxSession
  BY DEF CallInv, IInv
<1>2. QuietStep
  <2>1. (\E previous \in SUBSET Peer : Join(p, previous))
        \/ ~ Join(p, {})
    OBVIOUS
  <2> QED
    BY <1>1, <2>1, MembershipStep
<1>3. IInv'
  BY <1>1, <1>2, StepKeeps
<1>4. /\ Wired'
      /\ \A r \in Peer : status[r] \in Departed => status'[r] \in Departed
  BY <1>1, MembershipSeats
<1>5. accepted' = accepted
  BY <1>2 DEF QuietStep
<1>6. \A q \in Peer : \A e \in Mail(q)' : e \in Mail(q) \/ FitEvent(q, e)'
  BY <1>1, MembershipNews
<1>7. MailFits'
  BY <1>1, <1>4, <1>5, <1>6, MailKept
<1>8. AcceptedFit'
  BY <1>1, <1>5 DEF AcceptedFit
<1>9. session \in Nat /\ session' \in Nat /\ session <= session' /\ session' <= MaxSession
  <2>1. session \in Nat /\ MaxSession \in Nat
    BY <1>1, RelayAssumption DEF TypeOK
  <2>2. session' = session \/ (session < MaxSession /\ session' = session + 1)
    BY DEF Join, Mint, Resume, SocketLost, OrphanPeer, Evict, Leave, Kick, Receive
  <2> QED
    BY <1>1, <2>1, <2>2
<1> QED
  BY <1>3, <1>4, <1>5, <1>7, <1>8, <1>9 DEF RoomKept

LEMMA AskKeepsRoom ==
  ASSUME MlsIsPayload, CallInv, NEW p \in Peer, NEW g \in Group, NEW m \in Member,
         RelayE2eeJoin(p, g, m)
  PROVE  RoomKept /\ UNCHANGED <<status, wire, session, accepted>>
<1>1. IInv /\ TypeOK /\ Wired /\ MailFits /\ AcceptedFit /\ session <= MaxSession
  BY DEF CallInv, IInv
<1>2. m \in Payload
  BY DEF MlsIsPayload
<1>3. UNCHANGED <<status, wire, session, opened, groups, accepted>>
  BY DEF RelayE2eeJoin
<1>4. IInv'
  BY <1>1, <1>2, RelayStep, StepKeeps
<1>5. session \in Nat /\ Wired' /\ AcceptedFit'
  BY <1>1, <1>3 DEF TypeOK, Wired, AcceptedFit
<1>6. MailFits'
  <2> DEFINE e == [name |-> "e2eeJoinRequested", peer |-> p, group |-> g, payload |-> m]
  <2>1. <<e>> \in Seq(Event) /\ Elems(<<e>>) = {e}
    <3>1. e \in Event
      BY <1>2 DEF Event, KeyPackageEvent
    <3> QED
      BY <3>1 DEF Elems
  <2>2. \A q \in Peer : FitEvent(q, e)'
    BY DEF FitEvent, RosterNames
  <2>3. Peer \ {p} \in SUBSET Peer
    OBVIOUS
  <2>4. inbox' = inbox \/ inbox' = Sent(Peer \ {p}, <<e>>)
    BY DEF RelayE2eeJoin
  <2> HIDE DEF e
  <2>5. \A q \in Peer : Mail(q)' \subseteq Mail(q) \cup {e}
    BY <1>1, <2>1, <2>3, <2>4, SentMail DEF Mail
  <2> QED
    BY <1>1, <1>3, <2>2, <2>5, MailKept
<1> QED
  BY <1>1, <1>3, <1>4, <1>5, <1>6 DEF RoomKept

(* A Commit made in the state of its epoch is relayed, or refused. *)
LEMMA CommitKeepsRoom ==
  ASSUME MlsIsPayload, CallInv, NEW p \in Peer, NEW c,
         c = [group |-> c.group, epoch |-> c.epoch, payload |-> c.payload],
         c.group \in Group, c.epoch \in Nat, c.payload \in Seq(Entry),
         Len(c.payload) = c.epoch + 2, c.group <= session, RelayE2eeCommit(p, c)
  PROVE  /\ RoomKept /\ UNCHANGED <<status, wire, session>>
         /\ CommitAnswer(p, c) \in {"accepted", "accepted_before"} =>
              Supported(accepted', c.group, c.payload)
<1>1. IInv /\ TypeOK /\ Wired /\ MailFits /\ AcceptedFit /\ session <= MaxSession
  BY DEF CallInv, IInv
<1>2. c \in AnyCommit
  BY DEF MlsIsPayload, AnyCommit
<1>3. UNCHANGED <<status, wire, session>>
  BY DEF RelayE2eeCommit
<1>4. IInv'
  BY <1>1, <1>2, RelayStep, StepKeeps
<1>5. session \in Nat /\ Wired'
  BY <1>1, <1>3 DEF TypeOK, Wired
<1> DEFINE d == Decision(p, c)
           e == CommitNews(p, c)
<1>6. CASE CommitAnswer(p, c) = "accepted"
  <2>1. accepted' = accepted \cup {d} /\ inbox' = Sent(Peer \ {p}, <<e>>)
    BY <1>6 DEF RelayE2eeCommit, Decision, CommitNews
  <2>2. /\ d.life = session /\ d.group = c.group /\ d.epoch = c.epoch /\ d.payload = c.payload
        /\ e.life = session /\ e.group = c.group /\ e.epoch = c.epoch /\ e.payload = c.payload
        /\ e.name = "e2eeCommit" /\ e.peer = p
    BY DEF Decision, CommitNews
  <2>3. e \in Event
    BY <1>1, <1>2 DEF CommitNews, CommitEvent, Event, AnyCommit, TypeOK
  <2>4. <<e>> \in Seq(Event) /\ Elems(<<e>>) = {e}
    BY <2>3 DEF Elems
  <2> HIDE DEF d, e
  <2>5. AcceptedFit'
    BY <1>1, <2>1, <2>2 DEF AcceptedFit
  <2>6. Supported(accepted', c.group, c.payload)
    BY <2>1, <2>2 DEF Supported
  <2>7. ASSUME NEW q \in Peer, NEW x, x = e PROVE FitEvent(q, x)'
    BY <2>1, <2>2, <2>7 DEF FitEvent, Announced, RosterNames
  <2>8. Peer \ {p} \in SUBSET Peer
    OBVIOUS
  <2>9. \A q \in Peer : Mail(q)' \subseteq Mail(q) \cup {e}
    BY <1>1, <2>1, <2>4, <2>8, SentMail
  <2>10. \A q \in Peer : \A x \in Mail(q)' : x \in Mail(q) \/ FitEvent(q, x)'
    BY <2>7, <2>9
  <2>11. MailFits'
    BY <1>1, <1>3, <2>1, <2>10, MailKept
  <2> QED
    BY <1>1, <1>3, <1>4, <1>5, <2>1, <2>5, <2>6, <2>11 DEF RoomKept
<1>7. CASE CommitAnswer(p, c) # "accepted"
  <2>1. UNCHANGED <<groups, accepted, inbox>>
    BY <1>7 DEF RelayE2eeCommit
  <2>2. MailFits' /\ AcceptedFit'
    BY <1>1, <1>3, <2>1 DEF MailFits, Mail, FitEvent, AcceptedFit
  <2>3. ASSUME CommitAnswer(p, c) = "accepted_before"
        PROVE  Supported(accepted', c.group, c.payload)
    <3>1. [epoch |-> c.epoch, sender |-> p, payload |-> c.payload]
            \in groups[c.group].lastAccepted
      BY <2>3 DEF CommitAnswer
    <3>2. PICK a \in groups[c.group].lastAccepted : a.epoch = c.epoch /\ a.payload = c.payload
      BY <3>1
    <3>3. [life |-> session, group |-> c.group, epoch |-> a.epoch,
           sender |-> a.sender, payload |-> a.payload] \in accepted
      BY <1>1, <3>2 DEF IInv, RelayInv, LastIsRemembered
    <3> QED
      BY <2>1, <3>2, <3>3 DEF Supported
  <2> QED
    BY <1>1, <1>3, <1>4, <1>5, <1>7, <2>1, <2>2, <2>3 DEF RoomKept
<1> QED
  BY <1>6, <1>7

LEMMA WelcomeKeepsRoom ==
  ASSUME CallInv, NEW p \in Peer, NEW w \in AnyWelcome, RelayE2eeWelcome(p, w)
  PROVE  RoomKept /\ UNCHANGED <<status, wire, session, accepted>>
<1>1. IInv /\ TypeOK /\ Wired /\ MailFits /\ AcceptedFit /\ session <= MaxSession
  BY DEF CallInv, IInv
<1>2. UNCHANGED <<status, wire, session, opened, groups, accepted>>
  BY DEF RelayE2eeWelcome
<1>3. IInv'
  BY <1>1, RelayStep, StepKeeps
<1>4. session \in Nat /\ Wired' /\ AcceptedFit'
  BY <1>1, <1>2 DEF TypeOK, Wired, AcceptedFit
<1>5. MailFits'
  <2> DEFINE e == WelcomeNews(p, w)
  <2>1. e \in Event /\ e.name = "e2eeWelcome" /\ e.peer = p
    BY <1>1 DEF Event, WelcomeEvent, WelcomeNews, AnyWelcome, TypeOK
  <2>2. {w.target} \in SUBSET Peer
    BY DEF AnyWelcome
  <2>3. inbox' = Sent({w.target}, <<e>>)
    BY DEF RelayE2eeWelcome, WelcomeNews
  <2> HIDE DEF e
  <2>4. <<e>> \in Seq(Event) /\ Elems(<<e>>) = {e}
    BY <2>1 DEF Elems
  <2>5. ASSUME NEW q \in Peer, NEW x, x = e PROVE FitEvent(q, x)'
    BY <2>1, <2>5 DEF FitEvent, RosterNames
  <2>6. \A q \in Peer : Mail(q)' \subseteq Mail(q) \cup {e}
    BY <1>1, <2>2, <2>3, <2>4, SentMail
  <2>7. \A q \in Peer : \A x \in Mail(q)' : x \in Mail(q) \/ FitEvent(q, x)'
    BY <2>5, <2>6
  <2> QED
    BY <1>1, <1>2, <2>7, MailKept
<1> QED
  BY <1>1, <1>2, <1>3, <1>4, <1>5 DEF RoomKept

-----------------------------------------------------------------------------
(* What one client's part of a step keeps *)

(* A client that takes no part in a step, or is thrown out of its call by it. *)
LEMMA ClientStays ==
  ASSUME CallInv, RoomKept, NEW q \in Peer,
         sid'[q] = sid[q], seen'[q] = seen[q], away'[q] = away[q], starts'[q] = starts[q],
         status'[q] = "unborn" <=> status[q] = "unborn",
         \/ /\ call'[q] = call[q] /\ task'[q] = task[q]
            /\ InCall(q) => status'[q] \in {"here", "orphan", "closing"}
         \/ call'[q] = NoCall /\ task'[q] = Idle
  PROVE  ClientFits(q)'
<1>1. ClientFits(q)
  BY DEF CallInv
<1>2. /\ session \in Nat /\ session' \in Nat /\ session <= session'
      /\ accepted \subseteq accepted'
  BY DEF RoomKept
<1>3. CASE /\ call'[q] = call[q] /\ task'[q] = task[q]
           /\ InCall(q) => status'[q] \in {"here", "orphan", "closing"}
  <2>1. FitCall(call[q], session', accepted') /\ FitTask(call[q], task[q], accepted')
    BY <1>1, <1>2, CallAges, TaskAges DEF ClientFits
  <2>2. FitSeat(q)'
    BY <1>1, <1>2, <1>3 DEF ClientFits, FitSeat, InCall
  <2> QED
    BY <1>3, <2>1, <2>2 DEF ClientFits
<1>4. CASE call'[q] = NoCall /\ task'[q] = Idle
  <2>1. FitSeat(q)'
    BY <1>1, <1>2, <1>4 DEF ClientFits, FitSeat, InCall, NoCall
  <2> QED
    BY <1>2, <1>4, <2>1, NoCallFits DEF ClientFits
<1> QED
  BY <1>3, <1>4

LEMMA Whole ==
  ASSUME RoomKept, \A q \in Peer : ClientFits(q)',
         sid' \in [Peer -> Nat], seen' \in [Peer -> SUBSET Peer], away' \in [Peer -> SUBSET Peer],
         starts' \in [Peer -> 0..MaxStarts],
         drops' \in 0..MaxDrops, fails' \in 0..MaxFails,
         exits' \in 0..MaxExits, kicks' \in 0..MaxKicks,
         call' = [q \in Peer |-> call'[q]], task' = [q \in Peer |-> task'[q]]
  PROVE  CallInv'
<1>1. \A q \in Peer : call'[q] \in ClientRecord /\ task'[q] \in Task
  BY DEF ClientFits, FitCall, FitTask
<1>2. call' \in [Peer -> ClientRecord] /\ task' \in [Peer -> Task]
  BY <1>1
<1>3. CallShape'
  BY <1>2 DEF CallShape
<1> QED
  BY <1>3 DEF RoomKept, CallInv

(* Only the call and the request of p change. *)
LEMMA RequestKeeps ==
  ASSUME CallInv, RoomKept, NEW p \in Peer, NEW c, NEW t,
         UNCHANGED <<status, sid, seen, away, starts, drops, exits, kicks>>,
         fails' \in 0..MaxFails,
         call' = [call EXCEPT ![p] = c], task' = [task EXCEPT ![p] = t],
         FitCall(c, session', accepted'), FitTask(c, t, accepted'),
         c.state # "out" => InCall(p)
  PROVE  CallInv'
<1>1. CallShape /\ ClientFits(p)
  BY DEF CallInv
<1>2. call'[p] = c /\ task'[p] = t
  BY <1>1 DEF CallShape
<1>3. ClientFits(p)'
  <2>1. session \in Nat /\ session' \in Nat /\ session <= session'
    BY DEF RoomKept
  <2>2. FitSeat(p)'
    BY <1>1, <1>2, <2>1 DEF ClientFits, FitSeat, InCall
  <2> QED
    BY <1>2, <2>2 DEF ClientFits
<1>4. ASSUME NEW q \in Peer, q # p PROVE ClientFits(q)'
  <2>1. /\ call'[q] = call[q] /\ task'[q] = task[q]
        /\ InCall(q) => status'[q] \in {"here", "orphan", "closing"}
    BY <1>4, <1>1 DEF CallInv, ClientFits, FitSeat, CallShape
  <2> QED
    BY <2>1, ClientStays
<1> QED
  BY <1>1, <1>3, <1>4, Whole DEF CallShape

(* The first event of p's queue is one of its mail. *)
LEMMA HeadIsMail ==
  ASSUME CallInv, NEW p \in Peer, inbox[p] # <<>>
  PROVE  Head(inbox[p]) \in Event /\ FitEvent(p, Head(inbox[p]))
<1>1. inbox[p] \in Seq(Event) /\ Len(inbox[p]) \in Nat /\ DOMAIN inbox[p] = 1..Len(inbox[p])
  BY MailType DEF CallInv, IInv
<1>2. 1 \in DOMAIN inbox[p] /\ Head(inbox[p]) = inbox[p][1]
  BY <1>1, EmptySeq
<1>3. Head(inbox[p]) \in Mail(p)
  BY <1>2 DEF Mail, Elems
<1> QED
  BY <1>3, MailType DEF CallInv, IInv, MailFits

(* An event is handled: the roster of p, its call and what it waits for. *)
LEMMA HandlerKeeps ==
  ASSUME CallInv, NEW p \in Peer, NEW e, Take(p, e), NEW c, NEW t, NEW k \in 1..MaxStarts,
         call' = [call EXCEPT ![p] = c], task' = [task EXCEPT ![p] = t],
         starts' = [starts EXCEPT ![p] = k],
         FitCall(c, session, accepted), FitTask(c, t, accepted), c.state # "out"
  PROVE  CallInv'
<1>1. CallShape /\ ClientFits(p)
  BY DEF CallInv
<1>2. call'[p] = c /\ task'[p] = t /\ starts'[p] = k
  BY <1>1 DEF CallShape
<1>3. Receive(p) /\ UNCHANGED <<status, session, accepted, sid, drops, fails, exits, kicks>>
  BY DEF Take, Receive
<1>4. RoomKept
  BY <1>3, MembershipKeepsRoom DEF Membership
<1>5. /\ e.peer \in Peer
      /\ e.name \in RosterNames \ {"sessionRejoined"} => e.peer # p
  BY HeadIsMail DEF Take, FitEvent
<1>6. /\ seen' = [seen EXCEPT ![p] = SeenAfter(p, e)]
      /\ away' = [away EXCEPT ![p] = AwayAfter(p, e)]
  BY DEF Take
<1>7. /\ SeenAfter(p, e) \subseteq Peer
      /\ AwayAfter(p, e) \subseteq SeenAfter(p, e) \ {p}
  BY <1>1, <1>5 DEF SeenAfter, AwayAfter, CallShape, ClientFits, FitSeat, RosterNames
<1>8. ClientFits(p)'
  <2>1. FitSeat(p)'
    <3>1. away'[p] = AwayAfter(p, e) /\ seen'[p] = SeenAfter(p, e)
      BY <1>1, <1>6 DEF CallShape
    <3>2. InCall(p)
      BY DEF Take
    <3> QED
      BY <1>1, <1>2, <1>3, <1>7, <3>1, <3>2 DEF ClientFits, FitSeat
  <2> QED
    BY <1>2, <1>3, <2>1 DEF ClientFits
<1>9. ASSUME NEW q \in Peer, q # p PROVE ClientFits(q)'
  <2>1. /\ call'[q] = call[q] /\ task'[q] = task[q]
        /\ InCall(q) => status'[q] \in {"here", "orphan", "closing"}
    BY <1>1, <1>3, <1>9 DEF CallInv, ClientFits, FitSeat, CallShape
  <2>2. sid'[q] = sid[q] /\ seen'[q] = seen[q] /\ away'[q] = away[q] /\ starts'[q] = starts[q]
    BY <1>1, <1>3, <1>6, <1>9 DEF CallShape
  <2> QED
    BY <1>3, <1>4, <2>1, <2>2, ClientStays
<1>10. /\ seen' \in [Peer -> SUBSET Peer] /\ away' \in [Peer -> SUBSET Peer]
       /\ starts' \in [Peer -> 0..MaxStarts]
  <2>1. k \in 0..MaxStarts
    BY CallAssumption
  <2> QED
    BY <1>1, <1>6, <1>7, <2>1 DEF CallShape
<1> QED
  BY <1>1, <1>3, <1>4, <1>8, <1>9, <1>10, Whole DEF CallShape

(* Room::enter *)
LEMMA EnterKeeps ==
  ASSUME CallInv, NEW p \in Peer, Enter(p)
  PROVE  CallInv'
<1> DEFINE others == {q \in Peer : status'[q] = "here"} \ {p}
<1>1. CallShape /\ ClientFits(p) /\ TypeOK /\ Wired
  BY DEF CallInv, IInv
<1>2. Join(p, {})
  BY DEF Enter
<1>3. /\ RoomKept
      /\ \A r \in Peer : status'[r] = "unborn" <=> status[r] = "unborn" /\ r # p
  BY <1>1, <1>2, MembershipKeepsRoom, MembershipSeats DEF Membership
<1>4. /\ \A r \in Peer \ {p} : status'[r] \in {status[r], "closing", "gone"}
      /\ status'[p] = "here" /\ status[p] = "unborn"
  BY <1>2 DEF Join, Dismissed
<1>5. session' \in Nat /\ session' >= 1
  <2>1. CASE Active = {}
    BY <1>2, <1>3, <2>1 DEF Join, Mint, RoomKept
  <2>2. CASE Active # {}
    <3>1. PICK q \in Peer : status[q] = "here"
      BY <2>2 DEF Active
    <3>2. sid[q] \in 1..session
      BY <3>1 DEF CallInv, ClientFits, FitSeat
    <3> QED
      BY <1>3, <3>2 DEF RoomKept
  <2> QED
    BY <2>1, <2>2
<1>6. /\ sid' = [sid EXCEPT ![p] = session']
      /\ seen' = [seen EXCEPT ![p] = others \cup {p}]
      /\ starts' = [starts EXCEPT ![p] = 1]
      /\ call' = [q \in Peer |-> IF q = p THEN Started(p, 1, session', others = {})
                                ELSE IF status'[q] = "gone" THEN NoCall ELSE call[q]]
      /\ task' = [q \in Peer |-> IF q = p /\ others # {} THEN [step |-> "enter"]
                                ELSE IF status'[q] = "gone" THEN Idle ELSE task[q]]
      /\ UNCHANGED <<away, drops, fails, exits, kicks>>
  BY DEF Enter
<1> HIDE DEF others
<1>7. 1 \in 1..MaxStarts /\ 1 \in 0..MaxStarts
  BY CallAssumption
<1>8. ClientFits(p)'
  <2> DEFINE c == Started(p, 1, session', others = {})
  <2>1. session' \in 1..session' /\ (others = {}) \in BOOLEAN
    BY <1>5
  <2>2. /\ FitCall(c, session', accepted') /\ c.state # "out"
        /\ FitTask(c, [step |-> "enter"], accepted')
    BY ZenonT(40), <1>5, <1>7, <2>1, StartedFits
  <2>3. call'[p] = c /\ task'[p] \in {[step |-> "enter"], Idle}
    <3>1. ~ InCall(p)
      BY <1>1, <1>4 DEF ClientFits, FitSeat
    <3>2. task[p] = Idle
      BY <1>1, <3>1 DEF ClientFits, FitTask, Task, Idle, InCall
    <3> QED
      BY <1>4, <1>6, <3>2
  <2> HIDE DEF c
  <2>4. FitTask(c, task'[p], accepted')
    BY <2>2, <2>3, IdleFits
  <2>5. FitSeat(p)'
    <3>1. sid'[p] = session' /\ starts'[p] = 1 /\ seen'[p] = others \cup {p} /\ away'[p] = {}
      BY <1>1, <1>4, <1>6 DEF CallShape, ClientFits, FitSeat
    <3> QED
      BY <1>4, <1>7, <2>1, <3>1 DEF FitSeat
  <2> QED
    BY <2>2, <2>3, <2>4, <2>5 DEF ClientFits
<1>9. ASSUME NEW q \in Peer, q # p PROVE ClientFits(q)'
  <2>1. sid'[q] = sid[q] /\ seen'[q] = seen[q] /\ away'[q] = away[q] /\ starts'[q] = starts[q]
    BY <1>1, <1>6, <1>9 DEF CallShape
  <2>2. \/ /\ call'[q] = call[q] /\ task'[q] = task[q]
           /\ InCall(q) => status'[q] \in {"here", "orphan", "closing"}
        \/ call'[q] = NoCall /\ task'[q] = Idle
    <3>1. CASE status'[q] = "gone"
      BY <1>6, <1>9, <3>1
    <3>2. CASE status'[q] # "gone"
      BY <1>4, <1>6, <1>9, <3>2 DEF CallInv, ClientFits, FitSeat
    <3> QED
      BY <3>1, <3>2
  <2> QED
    BY <1>3, <1>9, <2>1, <2>2, ClientStays
<1>10. /\ sid' \in [Peer -> Nat] /\ seen' \in [Peer -> SUBSET Peer]
       /\ starts' \in [Peer -> 0..MaxStarts]
  <2>1. others \cup {p} \subseteq Peer
    BY DEF others
  <2> QED
    BY <1>1, <1>5, <1>6, <1>7, <2>1 DEF CallShape
<1> QED
  BY <1>1, <1>3, <1>6, <1>8, <1>9, <1>10, Whole DEF CallShape

(* The network, the SFU and the people: nobody's call changes but to end. *)
LEMMA GoingKeeps ==
  ASSUME CallInv, NEW p \in Peer,
         Drop(p) \/ Exit(p) \/ Expel(p) \/ Expire(p) \/ Stop(p) \/ Notice(p)
  PROVE  CallInv'
<1>1. CallShape /\ TypeOK /\ Wired
  BY DEF CallInv, IInv
<1>2. \/ \E k \in 0..Len(inbox[p]) : SocketLost(p, k)
      \/ OrphanPeer(p)
      \/ Evict(p)
      \/ Leave(p)
      \/ Kick(p)
  <2>1. Len(inbox[p]) \in Nat
    BY <1>1, MailType
  <2>2. SocketLost(p, 0) => \E k \in 0..Len(inbox[p]) : SocketLost(p, k)
    BY <2>1
  <2> QED
    BY <2>2 DEF Drop, Exit, Expel, Expire, Stop, Notice
<1>3. ~ Join(p, {})
  BY <1>2 DEF Join, SocketLost, OrphanPeer, Evict, Leave, Hears, Kick, InRoom, Wired, CallInv
<1>4. /\ RoomKept
      /\ \A r \in Peer : status'[r] = "unborn" <=> status[r] = "unborn"
  BY <1>1, <1>2, <1>3, MembershipKeepsRoom, MembershipSeats DEF Membership
<1>5. UNCHANGED <<sid, seen, away, starts>>
  BY DEF Drop, Exit, Expel, Expire, Stop, Notice, callVars
<1>6. ASSUME NEW q \in Peer
      PROVE  \/ /\ call'[q] = call[q] /\ task'[q] = task[q]
                /\ InCall(q) => status'[q] \in {"here", "orphan", "closing"}
             \/ call'[q] = NoCall /\ task'[q] = Idle
  <2>1. InCall(q) => status[q] \in {"here", "orphan", "closing"}
    BY DEF CallInv, ClientFits, FitSeat
  <2>2. CASE Drop(p)
    <3>1. status' = status /\ UNCHANGED <<call, task>>
      BY <1>1, <2>2 DEF Drop, SocketLost, TypeOK
    <3> QED
      BY <2>1, <3>1
  <2>3. CASE Notice(p)
    BY <1>1, <2>1, <2>3 DEF Notice, OrphanPeer, callVars, TypeOK
  <2>4. CASE Exit(p) \/ Expire(p) \/ Stop(p)
    BY <1>1, <2>1, <2>4 DEF Exit, Expire, Stop, Leave, Evict, SocketLost, CallShape, TypeOK
  <2>5. CASE Expel(p)
    BY <1>1, <2>1, <2>5 DEF Expel, Kick, Dismissed, CallShape, TypeOK
  <2> QED
    BY <2>2, <2>3, <2>4, <2>5
<1>7. \A q \in Peer : ClientFits(q)'
  BY <1>4, <1>5, <1>6, ClientStays
<1>8. /\ drops' \in 0..MaxDrops /\ fails' \in 0..MaxFails
      /\ exits' \in 0..MaxExits /\ kicks' \in 0..MaxKicks
  BY SMTT(40), <1>1, CallAssumption DEF Drop, Exit, Expel, Expire, Stop, Notice, callVars, CallShape
<1>9. call' = [q \in Peer |-> call'[q]] /\ task' = [q \in Peer |-> task'[q]]
  BY <1>1 DEF Drop, Exit, Expel, Expire, Stop, Notice, callVars, CallShape
<1> QED
  BY <1>1, <1>4, <1>5, <1>7, <1>8, <1>9, Whole DEF CallShape

(* request_join(true) *)
LEMMA ReconnectKeeps ==
  ASSUME CallInv, NEW p \in Peer, Reconnect(p)
  PROVE  CallInv'
<1>1. CallShape /\ ClientFits(p) /\ TypeOK /\ Wired
  BY DEF CallInv, IInv
<1>2. Resume(p) /\ ~ Join(p, {})
  BY DEF Reconnect, Resume, InRoom, Join
<1>3. /\ RoomKept
      /\ \A r \in Peer : status'[r] = "unborn" <=> status[r] = "unborn"
  BY <1>1, <1>2, MembershipKeepsRoom, MembershipSeats DEF Membership
<1>4. /\ sid' = [sid EXCEPT ![p] = session]
      /\ seen' = [seen EXCEPT ![p] = InRoom]
      /\ away' = [away EXCEPT ![p] = InRoom \ (Active \cup {p})]
      /\ UNCHANGED <<call, task, starts, drops, fails, exits, kicks>>
      /\ UNCHANGED <<session, accepted>>
      /\ status' = [status EXCEPT ![p] = "here"]
      /\ status[p] \in {"here", "orphan"}
  BY <1>2 DEF Reconnect, Resume, InRoom
<1>5. session \in Nat /\ session >= 1 /\ InRoom \subseteq Peer
  BY <1>1, <1>3, <1>4 DEF RoomKept, InRoom, ClientFits, FitSeat
<1>6. ClientFits(p)'
  <2>1. /\ sid'[p] = session /\ seen'[p] = InRoom /\ away'[p] = InRoom \ (Active \cup {p})
        /\ status'[p] = "here"
    BY <1>1, <1>4 DEF CallShape, TypeOK
  <2>2. FitSeat(p)'
    BY <1>1, <1>4, <1>5, <2>1 DEF ClientFits, FitSeat, InCall
  <2> QED
    BY <1>1, <1>4, <2>2 DEF ClientFits
<1>7. ASSUME NEW q \in Peer, q # p PROVE ClientFits(q)'
  <2>1. /\ sid'[q] = sid[q] /\ seen'[q] = seen[q] /\ away'[q] = away[q] /\ starts'[q] = starts[q]
        /\ call'[q] = call[q] /\ task'[q] = task[q]
        /\ InCall(q) => status'[q] \in {"here", "orphan", "closing"}
    BY <1>1, <1>4, <1>7 DEF CallInv, ClientFits, FitSeat, CallShape, TypeOK
  <2> QED
    BY <1>3, <2>1, ClientStays
<1>8. /\ sid' \in [Peer -> Nat] /\ seen' \in [Peer -> SUBSET Peer]
      /\ away' \in [Peer -> SUBSET Peer]
  BY <1>1, <1>4, <1>5 DEF CallShape
<1> QED
  BY <1>1, <1>3, <1>4, <1>6, <1>7, <1>8, Whole DEF CallShape

-----------------------------------------------------------------------------
(* The event loop *)

(* What a handler starts from. *)
LEMMA Handling ==
  ASSUME CallInv, NEW p \in Peer, InCall(p)
  PROVE  /\ FitCall(call[p], session, accepted) /\ FitTask(call[p], task[p], accepted)
         /\ call[p].state # "out"
         /\ call[p].log \in Seq(Entry) /\ Len(call[p].log) \in Nat
         /\ Awaiting(call[p]) <=> Len(call[p].log) = 0
         /\ starts[p] \in 1..MaxStarts /\ Own(p) \in Member
         /\ session \in Nat /\ sid[p] \in 1..session
         /\ call[p].group \in 1..session /\ call[p].group \in Group
<1>1. ClientFits(p) /\ TypeOK /\ session <= MaxSession
  BY DEF CallInv, IInv
<1>2. /\ call[p].log \in Seq(Entry) /\ call[p].state # "out"
      /\ session \in Nat /\ sid[p] \in 1..session
      /\ call[p].group \in 1..session
      /\ starts[p] \in 1..MaxStarts
  BY <1>1 DEF ClientFits, FitSeat, FitCall, ClientRecord, InCall, TypeOK
<1>3. call[p].group \in 1..MaxSession
  BY <1>1, <1>2, RelayAssumption
<1> QED
  BY <1>1, <1>2, <1>3, AwaitingLen, OwnMember, CallAssumption DEF ClientFits, Own

LEMMA CallsKeeps ==
  ASSUME CallInv, NEW p \in Peer, NEW e, Take(p, e), NEW c, NEW t, Calls(p, c, t),
         FitCall(c, session, accepted), FitTask(c, t, accepted), c.state # "out"
  PROVE  CallInv'
<1>1. starts' = [starts EXCEPT ![p] = starts[p]]
  BY DEF Calls, CallInv, CallShape
<1>2. starts[p] \in 1..MaxStarts
  BY Handling DEF Take
<1> QED
  BY <1>1, <1>2, HandlerKeeps DEF Calls

LEMMA RestartKeeps ==
  ASSUME CallInv, NEW p \in Peer, NEW e, Take(p, e), Restart(p)
  PROVE  CallInv'
<1> DEFINE alone == seen[p] = {p}
           c == Started(p, starts[p] + 1, sid[p], alone)
           t == IF alone THEN Idle ELSE [step |-> "join"]
<1>1. starts[p] \in 1..MaxStarts /\ sid[p] \in 1..session /\ session \in Nat
  BY Handling DEF Take
<1>2. /\ starts' = [starts EXCEPT ![p] = starts[p] + 1]
      /\ starts[p] + 1 \in 1..MaxStarts
      /\ call' = [call EXCEPT ![p] = c]
      /\ task' = [task EXCEPT ![p] = t]
  BY <1>1, CallAssumption DEF Restart, CallInv, CallShape
<1>3. alone \in BOOLEAN
  OBVIOUS
<1> HIDE DEF alone
<1>4. /\ FitCall(c, session, accepted) /\ c.state # "out"
      /\ FitTask(c, [step |-> "join"], accepted)
  BY ZenonT(40), <1>1, <1>2, <1>3, StartedFits
<1> HIDE DEF c
<1>5. FitTask(c, t, accepted)
  BY <1>4, IdleFits
<1> HIDE DEF t
<1> QED
  BY <1>2, <1>4, <1>5, HandlerKeeps

LEMMA HandleRosterKeeps ==
  ASSUME CallInv, NEW p \in Peer, NEW e, HandleRoster(p, e)
  PROVE  CallInv'
BY Handling, CallsKeeps, IdleFits DEF HandleRoster, Take

(* A failed call waits for nothing. *)
LEMMA FailKeeps ==
  ASSUME CallInv, NEW p \in Peer, NEW e, Take(p, e), NEW c, Calls(p, Failed(c), Idle),
         FitCall(c, session, accepted), c.state # "out"
  PROVE  CallInv'
BY FailedFits, IdleFits, CallsKeeps

LEMMA HandlePeerLeftKeeps ==
  ASSUME CallInv, NEW p \in Peer, NEW e, HandlePeerLeft(p, e)
  PROVE  CallInv'
<1> DEFINE c == call[p]
           t == StageRemoveGhosts(p, c, SeenAfter(p, e), AwayAfter(p, e), {})
<1>1. Take(p, e)
  BY DEF HandlePeerLeft
<1>2. /\ FitCall(c, session, accepted) /\ c.state # "out" /\ Own(p) \in Member
      /\ ~ Awaiting(c) => Len(c.log) >= 1
  BY <1>1, Handling DEF Take
<1>3. \/ Calls(p, c, Idle)
      \/ Calls(p, Failed(c), Idle)
      \/ ~ Awaiting(c) /\ Calls(p, c, t)
  BY DEF HandlePeerLeft
<1> HIDE DEF c, t
<1>4. ~ Awaiting(c) => FitTask(c, t, accepted)
  <2>1. {} \in SUBSET Peer
    OBVIOUS
  <2> QED
    BY <1>2, <2>1, StageRemoveFits DEF t
<1> QED
  BY <1>1, <1>2, <1>3, <1>4, IdleFits, CallsKeeps, FailKeeps

LEMMA HandleKeyPackageKeeps ==
  ASSUME CallInv, NEW p \in Peer, NEW e, HandleKeyPackage(p, e)
  PROVE  CallInv'
<1> DEFINE c == call[p]
           noted == [c EXCEPT !.names[e.peer] = {e.payload}]
           clean == StageRemoveGhosts(p, noted, seen[p], away[p], {e.peer})
           add == StageAdd(p, noted, seen[p], away[p], e.peer)
<1>1. Take(p, e) /\ e.name = "e2eeJoinRequested"
  BY DEF HandleKeyPackage
<1>2. /\ FitCall(c, session, accepted) /\ c.state # "out" /\ Own(p) \in Member
      /\ ~ Awaiting(c) => Len(c.log) >= 1
  BY <1>1, Handling DEF Take
<1>3. e.peer \in Peer /\ e.payload \in Member
  BY <1>1, HeadIsMail DEF Take, FitEvent
<1>4. \/ Calls(p, Failed(c), Idle)
      \/ Calls(p, noted, Idle)
      \/ Calls(p, Failed(noted), Idle)
      \/ ~ Awaiting(c) /\ Calls(p, noted, clean)
      \/ ~ Awaiting(c) /\ Calls(p, noted, add)
  BY DEF HandleKeyPackage
<1> HIDE DEF c
<1>5. /\ FitCall(noted, session, accepted) /\ noted.state # "out"
      /\ noted.log = c.log /\ noted.names[e.peer] # {}
  <2> DEFINE n == session
             acc == accepted
             m == e.payload
             q == e.peer
  <2>1. FitCall(c, n, acc) /\ c.state # "out" /\ q \in Peer /\ m \in Member
    BY <1>2, <1>3
  <2> HIDE DEF n, acc, m, q
  <2>2. /\ FitCall([c EXCEPT !.names[q] = {m}], n, acc)
        /\ [c EXCEPT !.names[q] = {m}].state # "out"
        /\ [c EXCEPT !.names[q] = {m}].log = c.log
        /\ [c EXCEPT !.names[q] = {m}].names[q] = {m}
    BY <2>1, NotedFits
  <2>3. {m} # {}
    OBVIOUS
  <2> QED
    BY <2>2, <2>3 DEF n, acc, m, q
<1> HIDE DEF noted, clean, add
<1>6. ~ Awaiting(c) => FitTask(noted, clean, accepted)
  <2>1. {e.peer} \in SUBSET Peer
    BY <1>3
  <2>2. \A q \in {e.peer} : noted.names[q] # {}
    BY <1>5
  <2> QED
    BY <1>2, <1>5, <2>1, <2>2, StageRemoveFits DEF clean
<1>7. ~ Awaiting(c) => FitTask(noted, add, accepted)
  BY <1>2, <1>3, <1>5, StageAddFits DEF add
<1> QED
  BY <1>1, <1>2, <1>4, <1>5, <1>6, <1>7, IdleFits, CallsKeeps, FailKeeps

(* A Commit on its way made a group state the relay accepted. *)
LEMMA CommitFits ==
  ASSUME CallInv, NEW e, Announced(accepted, e)
  PROVE  /\ e.payload \in Seq(Entry) /\ Len(e.payload) >= 2
         /\ Supported(accepted, e.group, e.payload)
<1>1. PICK a \in accepted : a.group = e.group /\ a.payload = e.payload
  BY DEF Announced
<1>2. a.payload \in Seq(Entry) /\ Len(a.payload) = a.epoch + 2 /\ a.epoch \in Nat
  BY DEF CallInv, AcceptedFit, IInv, TypeOK
<1> QED
  BY <1>1, <1>2 DEF Supported

LEMMA HandleCommitKeeps ==
  ASSUME CallInv, NEW p \in Peer, NEW e, HandleCommit(p, e)
  PROVE  CallInv'
<1> DEFINE c == call[p]
           early == [c EXCEPT !.early = @ \cup {e.epoch}]
           next == Joined(p, c, e.payload)
<1>1. Take(p, e) /\ e.name = "e2eeCommit"
  BY DEF HandleCommit
<1>2. FitCall(c, session, accepted) /\ c.state # "out"
  BY <1>1, Handling DEF Take
<1>3. e \in Event /\ Announced(accepted, e)
  BY <1>1, HeadIsMail DEF Take, FitEvent
<1>4. e.epoch \in Nat
  BY <1>1, <1>3 DEF Event, RosterEvent, RosterNames, KeyPackageEvent, CommitEvent, WelcomeEvent
<1>5. /\ e.payload \in Seq(Entry) /\ Len(e.payload) >= 2
      /\ Supported(accepted, e.group, e.payload)
  BY <1>3, CommitFits
<1>6. \/ Calls(p, Failed(c), Idle)
      \/ Awaiting(c) /\ Calls(p, early, Idle)
      \/ Calls(p, c, Idle)
      \/ e.group = c.group /\ ~ Awaiting(c) /\ Calls(p, next, Idle)
      \/ Restart(p)
  BY DEF HandleCommit
<1> HIDE DEF c
<1>7. Awaiting(c) => FitCall(early, session, accepted) /\ early.state # "out"
  BY <1>2, <1>4, EarlyFits DEF FitCall, ClientRecord
<1>8. e.group = c.group /\ ~ Awaiting(c) => FitCall(next, session, accepted) /\ next.state # "out"
  <2> SUFFICES ASSUME e.group = c.group, ~ Awaiting(c)
               PROVE  FitCall(next, session, accepted) /\ next.state # "out"
    OBVIOUS
  <2> DEFINE log == e.payload
             d == [Joined(p, c, log) EXCEPT !.early = {}]
  <2>1. c.early = {}
    BY <1>2 DEF FitCall
  <2>2. log \in Seq(Entry) /\ Len(log) >= 2 /\ Supported(accepted, c.group, log)
    BY <1>5
  <2> HIDE DEF log
  <2>3. FitCall(d, session, accepted) /\ d.state # "out" /\ d = Joined(p, c, log)
    BY <1>2, <2>1, <2>2, JoinedFits
  <2> HIDE DEF d
  <2> QED
    BY <2>3 DEF log
<1> HIDE DEF early, next
<1> QED
  BY <1>1, <1>2, <1>6, <1>7, <1>8, IdleFits, CallsKeeps, FailKeeps, RestartKeeps

(* The Commit a Welcome came with is one the relay accepted. *)
LEMMA WelcomedFits ==
  ASSUME CallInv, NEW p \in Peer, NEW i \in DOMAIN inbox[p], inbox[p][i].name = "e2eeWelcome"
  PROVE  LET log == Welcomed(inbox[p][i])
         IN  /\ log \in Seq(Entry) /\ Len(log) = inbox[p][i].epoch + 2
             /\ Len(log) >= 2
             /\ Supported(accepted, inbox[p][i].group, log)
<1> DEFINE e == inbox[p][i]
           a == CHOOSE a \in accepted : a.life = e.life /\ a.group = e.group /\ a.epoch = e.epoch
<1>1. \E b \in accepted : b.life = e.life /\ b.group = e.group /\ b.epoch = e.epoch
  BY DEF CallInv, IInv, WelcomeFollowsCommit
<1>2. a \in accepted /\ a.life = e.life /\ a.group = e.group /\ a.epoch = e.epoch
  BY <1>1
<1>3. Welcomed(e) = a.payload
  BY DEF Welcomed
<1> HIDE DEF a, e
<1>4. a.payload \in Seq(Entry) /\ Len(a.payload) = a.epoch + 2 /\ a.epoch \in Nat
  BY <1>2 DEF CallInv, AcceptedFit, IInv, TypeOK
<1>5. /\ Welcomed(e) \in Seq(Entry) /\ Len(Welcomed(e)) = e.epoch + 2 /\ Len(Welcomed(e)) >= 2
      /\ Supported(accepted, e.group, Welcomed(e))
  BY <1>2, <1>3, <1>4 DEF Supported
<1> QED
  BY <1>5 DEF e

LEMMA HeadWelcomed ==
  ASSUME CallInv, NEW p \in Peer, inbox[p] # <<>>, Head(inbox[p]).name = "e2eeWelcome"
  PROVE  LET log == Welcomed(Head(inbox[p]))
         IN  /\ log \in Seq(Entry) /\ Len(log) >= 2
             /\ Supported(accepted, Head(inbox[p]).group, log)
<1>1. inbox[p] \in Seq(Event) /\ Len(inbox[p]) \in Nat /\ DOMAIN inbox[p] = 1..Len(inbox[p])
  BY MailType DEF CallInv, IInv
<1>2. 1 \in DOMAIN inbox[p] /\ Head(inbox[p]) = inbox[p][1]
  BY <1>1, EmptySeq
<1> QED
  BY <1>2, WelcomedFits

LEMMA HandleWelcomeKeeps ==
  ASSUME CallInv, NEW p \in Peer, NEW e, HandleWelcome(p, e)
  PROVE  CallInv'
<1> DEFINE c == call[p]
           log == Welcomed(e)
           next == [Joined(p, c, log) EXCEPT !.early = {}]
<1>1. Take(p, e) /\ e.name = "e2eeWelcome" /\ e = Head(inbox[p]) /\ inbox[p] # <<>>
  BY DEF HandleWelcome, Take
<1>2. FitCall(c, session, accepted) /\ c.state # "out"
  BY <1>1, Handling DEF Take
<1>3. /\ log \in Seq(Entry) /\ Len(log) >= 2
      /\ Supported(accepted, e.group, log)
  BY <1>1, HeadWelcomed
<1>4. \/ Calls(p, Failed(c), Idle)
      \/ e.group = c.group /\ Calls(p, next, Idle)
  BY DEF HandleWelcome
<1> HIDE DEF c, log
<1>5. e.group = c.group => FitCall(next, session, accepted) /\ next.state # "out"
  BY <1>2, <1>3, JoinedFits
<1> HIDE DEF next
<1> QED
  BY <1>1, <1>2, <1>4, <1>5, IdleFits, CallsKeeps, FailKeeps

LEMMA HandleRejoinedKeeps ==
  ASSUME CallInv, NEW p \in Peer, NEW e, HandleRejoined(p, e)
  PROVE  CallInv'
<1>1. Take(p, e)
  BY DEF HandleRejoined
<1>2. FitCall(call[p], session, accepted) /\ call[p].state # "out"
  BY <1>1, Handling DEF Take
<1>3. Restart(p) \/ Calls(p, call[p], Idle)
  BY DEF HandleRejoined
<1> QED
  BY <1>1, <1>2, <1>3, IdleFits, CallsKeeps, RestartKeeps

LEMMA HandleKeeps ==
  ASSUME CallInv, NEW p \in Peer, NEW e, Handle(p, e)
  PROVE  CallInv'
BY HandleRosterKeeps, HandlePeerLeftKeeps, HandleKeyPackageKeeps, HandleCommitKeeps,
   HandleWelcomeKeeps, HandleRejoinedKeeps DEF Handle

-----------------------------------------------------------------------------
(* Requests and answers *)

LEMMA FailsStay ==
  ASSUME CallInv, fails' = fails
  PROVE  fails' \in 0..MaxFails
BY DEF CallInv, CallShape

LEMMA RoomStands ==
  ASSUME CallInv, UNCHANGED relayVars
  PROVE  RoomKept
<1>1. IInv'
  BY StutterKeeps DEF CallInv
<1>2. UNCHANGED <<status, wire, session, inbox, accepted>>
  BY DEF relayVars
<1>3. AcceptedFit' /\ MailFits' /\ Wired'
  BY <1>2 DEF CallInv, AcceptedFit, MailFits, Mail, FitEvent, Wired
<1> QED
  BY <1>1, <1>2, <1>3 DEF CallInv, RoomKept, IInv, TypeOK

(* The call of p is the same, or another. *)
LEMMA SameCall ==
  ASSUME CallInv, NEW p \in Peer
  PROVE  call = [call EXCEPT ![p] = call[p]]
BY DEF CallInv, CallShape

LEMMA Waiting ==
  ASSUME CallInv, NEW p \in Peer, task[p] # Idle
  PROVE  InCall(p)
<1>1. FitTask(call[p], task[p], accepted)
  BY DEF CallInv, ClientFits
<1> QED
  BY <1>1 DEF FitTask, Task, Idle, InCall

(* The welcome an added peer is sent. *)
LEMMA WelcomeForSomeone ==
  ASSUME CallInv, NEW p \in Peer, task[p].step = "welcome", NEW q \in task[p].welcome
  PROVE  WelcomeFor(p, q) \in AnyWelcome
<1>1. task[p] # Idle
  BY DEF Idle
<1>2. /\ FitTask(call[p], task[p], accepted) /\ call[p].group \in Group
      /\ Len(call[p].log) \in Nat
  BY <1>1, Waiting, Handling
<1>3. Epoch(call[p].log) - 1 \in Nat
  BY <1>2 DEF FitTask, Epoch
<1>4. q \in Peer
  BY <1>2 DEF FitTask, Task
<1> QED
  BY <1>2, <1>3, <1>4 DEF WelcomeFor, AnyWelcome

(* What a request that fails leaves of the call. *)
LEMMA FailsE2eeKeeps ==
  ASSUME CallInv, RoomKept, NEW p \in Peer, task[p] # Idle, FailsE2ee(p),
         UNCHANGED <<status, session, accepted, sid, seen, away, starts, drops, exits, kicks>>,
         fails' \in 0..MaxFails
  PROVE  CallInv'
<1> DEFINE c == IF task[p].step = "enter" THEN NoCall ELSE Failed(call[p])
<1>1. InCall(p)
  BY Waiting
<1>2. FitCall(call[p], session, accepted) /\ call[p].state # "out" /\ session \in Nat
  BY <1>1, Handling
<1>3. FitCall(c, session, accepted)
  <2>1. FitCall(Failed(call[p]), session, accepted)
    BY <1>2, FailedFits
  <2>2. FitCall(NoCall, session, accepted)
    BY <1>2, NoCallFits
  <2> QED
    BY <2>1, <2>2
<1>4. call' = [call EXCEPT ![p] = c] /\ task' = [task EXCEPT ![p] = Idle]
  BY DEF FailsE2ee
<1> HIDE DEF c
<1> QED
  BY <1>1, <1>3, <1>4, IdleFits, RequestKeeps

LEMMA RequestFailsKeeps ==
  ASSUME CallInv, NEW p \in Peer, RequestFails(p)
  PROVE  CallInv'
<1>1. /\ task[p] # Idle /\ FailsE2ee(p) /\ UNCHANGED relayVars
      /\ UNCHANGED <<status, session, accepted, sid, seen, away, starts, drops, fails, exits, kicks>>
  BY DEF RequestFails, relayVars
<1> QED
  BY <1>1, FailsStay, RoomStands, FailsE2eeKeeps

LEMMA AnswerFailsKeeps ==
  ASSUME MlsIsPayload, CallInv, NEW p \in Peer, AnswerFails(p)
  PROVE  CallInv'
<1>1. /\ task[p] # Idle /\ FailsE2ee(p)
      /\ UNCHANGED <<sid, seen, away, starts, drops, exits, kicks>>
  BY DEF AnswerFails
<1>2. call[p].group \in Group /\ Own(p) \in Member
  BY <1>1, Waiting, Handling
<1>3. fails' \in 0..MaxFails
  <2>1. fails \in 0..MaxFails
    BY DEF CallInv, CallShape
  <2> QED
    BY <2>1, CallAssumption DEF AnswerFails
<1>4. RoomKept /\ UNCHANGED <<status, session, accepted>>
  <2>1. CASE UNCHANGED relayVars
    BY <2>1, RoomStands DEF relayVars
  <2>2. CASE RelayE2eeJoin(p, call[p].group, Own(p))
    BY <1>2, <2>2, AskKeepsRoom
  <2>3. CASE /\ task[p].step = "welcome"
             /\ \E q \in task[p].welcome : RelayE2eeWelcome(p, WelcomeFor(p, q))
    BY <2>3, WelcomeForSomeone, WelcomeKeepsRoom
  <2> QED
    BY <2>1, <2>2, <2>3 DEF AnswerFails
<1> QED
  BY <1>1, <1>3, <1>4, FailsE2eeKeeps

LEMMA AskToJoinKeeps ==
  ASSUME MlsIsPayload, CallInv, NEW p \in Peer, AskToJoin(p)
  PROVE  CallInv'
<1>1. task[p] # Idle
  BY DEF AskToJoin, Idle
<1>2. /\ FitCall(call[p], session, accepted) /\ call[p].group \in Group /\ Own(p) \in Member
      /\ InCall(p)
  BY <1>1, Waiting, Handling
<1>3. RelayE2eeJoin(p, call[p].group, Own(p))
  BY DEF AskToJoin
<1>4. RoomKept /\ UNCHANGED <<status, wire, session, accepted>>
  BY <1>2, <1>3, AskKeepsRoom
<1>5. /\ call' = [call EXCEPT ![p] = call[p]] /\ task' = [task EXCEPT ![p] = Idle]
      /\ UNCHANGED <<sid, seen, away, starts, drops, fails, exits, kicks>>
  BY SameCall DEF AskToJoin, Asks
<1> QED
  BY <1>2, <1>4, <1>5, IdleFits, FailsStay, RequestKeeps

(* The Commit p submits was made in the state p is in. *)
LEMMA Submitted ==
  ASSUME CallInv, NEW p \in Peer, task[p].step = "commit"
  PROVE  LET c == [group |-> call[p].group, epoch |-> Epoch(call[p].log), payload |-> task[p].log]
         IN  /\ c.group \in Group /\ c.group \in Nat /\ c.group <= session
             /\ c.epoch \in Nat /\ c.payload \in Seq(Entry) /\ Len(c.payload) = c.epoch + 2
<1>1. task[p] # Idle
  BY DEF Idle
<1>2. /\ FitTask(call[p], task[p], accepted) /\ call[p].group \in Group
      /\ call[p].group \in 1..session /\ Len(call[p].log) \in Nat /\ session \in Nat
  BY <1>1, Waiting, Handling
<1>3. /\ Len(call[p].log) >= 1 /\ Len(task[p].log) = Len(call[p].log) + 1
      /\ task[p].log \in Seq(Entry)
  BY <1>2 DEF FitTask, Task
<1> QED
  BY <1>2, <1>3 DEF Epoch

LEMMA SendCommitKeeps ==
  ASSUME MlsIsPayload, CallInv, NEW p \in Peer, SendCommit(p)
  PROVE  CallInv'
<1> DEFINE c == [group |-> call[p].group, epoch |-> Epoch(call[p].log), payload |-> task[p].log]
           won == CommitAnswer(p, c) \in {"accepted", "accepted_before"}
           t == [task[p] EXCEPT !.step = IF won THEN "accepted" ELSE "refused"]
<1>1. task[p].step = "commit" /\ task[p] # Idle /\ RelayE2eeCommit(p, c)
  BY DEF SendCommit, Idle
<1>2. /\ c.group \in Group /\ c.group <= session
      /\ c.epoch \in Nat /\ c.payload \in Seq(Entry) /\ Len(c.payload) = c.epoch + 2
      /\ c = [group |-> c.group, epoch |-> c.epoch, payload |-> c.payload]
      /\ c.group = call[p].group /\ c.payload = task[p].log
  BY <1>1, Submitted
<1>3. /\ call' = [call EXCEPT ![p] = call[p]] /\ task' = [task EXCEPT ![p] = t]
      /\ UNCHANGED <<sid, seen, away, starts, drops, fails, exits, kicks>>
  BY SameCall DEF SendCommit, Asks
<1> HIDE DEF c
<1>4. /\ RoomKept /\ UNCHANGED <<status, wire, session>>
      /\ won => Supported(accepted', call[p].group, task[p].log)
  BY <1>1, <1>2, CommitKeepsRoom
<1>5. FitCall(call[p], session, accepted) /\ FitTask(call[p], task[p], accepted) /\ InCall(p)
  BY <1>1, Waiting, Handling
<1>6. FitCall(call[p], session', accepted')
  BY <1>4, <1>5, CallAges DEF RoomKept
<1>7. /\ task[p] \in [step: {"commit", "accepted", "refused", "welcome"}, log: Seq(Entry),
                      welcome: SUBSET Peer, next: SUBSET Peer]
      /\ call[p].state # "out"
  BY <1>1, <1>5 DEF FitTask, Task
<1> HIDE DEF won
<1>8. /\ t \in Task /\ t.log = task[p].log /\ t.next = task[p].next
      /\ t.step = IF won THEN "accepted" ELSE "refused"
  BY <1>7 DEF Task
<1> HIDE DEF t
<1>9. FitTask(call[p], t, accepted')
  <2>1. /\ Len(call[p].log) >= 1
        /\ Len(task[p].log) = Len(call[p].log) + 1
        /\ \A q \in task[p].next : call[p].names[q] # {}
    BY <1>1, <1>5 DEF FitTask
  <2> QED
    BY <1>4, <1>7, <1>8, <2>1 DEF FitTask
<1> QED
  BY <1>3, <1>4, <1>5, <1>6, <1>9, FailsStay, RequestKeeps

LEMMA HearAnswerKeeps ==
  ASSUME CallInv, NEW p \in Peer, HearAnswer(p)
  PROVE  CallInv'
<1> DEFINE t == task[p]
           old == call[p]
           c == IF t.step = "accepted" THEN Joined(p, old, t.log) ELSE old
           u == After(p, c, t)
<1>1. t.step \in {"accepted", "refused"} /\ t # Idle
  BY DEF HearAnswer, Idle
<1>2. /\ call' = [call EXCEPT ![p] = c] /\ task' = [task EXCEPT ![p] = u]
      /\ UNCHANGED relayVars
      /\ UNCHANGED <<status, session, accepted, sid, seen, away, starts, drops, fails, exits, kicks>>
  BY DEF HearAnswer, Asks, relayVars
<1>3. /\ FitCall(old, session, accepted) /\ FitTask(old, t, accepted)
      /\ old.state # "out" /\ old.log \in Seq(Entry) /\ Len(old.log) \in Nat
      /\ Awaiting(old) <=> Len(old.log) = 0
      /\ Own(p) \in Member
  BY <1>1, Waiting, Handling
<1>4. InCall(p)
  BY <1>1, Waiting
<1>5. RoomKept
  BY <1>2, RoomStands
<1> HIDE DEF t, old
<1>6. /\ Len(old.log) >= 1 /\ Len(t.log) = Len(old.log) + 1
      /\ \A q \in t.next : old.names[q] # {}
      /\ t.step = "accepted" => Supported(accepted, old.group, t.log)
      /\ t \in [step: {"commit", "accepted", "refused", "welcome"}, log: Seq(Entry),
                welcome: SUBSET Peer, next: SUBSET Peer]
      /\ t.next \subseteq Peer
  BY <1>1, <1>3 DEF FitTask, Task
<1>7. /\ FitCall(c, session, accepted) /\ c.state # "out" /\ Len(c.log) >= 1
      /\ c.names = old.names
      /\ t.step = "accepted" => Len(c.log) >= 2
  <2>1. CASE t.step = "accepted"
    <3> DEFINE log == t.log
               d == [Joined(p, old, log) EXCEPT !.early = {}]
    <3>1. old.early = {}
      BY <1>3, <1>6 DEF FitCall
    <3>2. log \in Seq(Entry) /\ Len(log) >= 2 /\ Supported(accepted, old.group, log)
      BY <1>3, <1>6, <2>1
    <3>3. c = Joined(p, old, log)
      BY <2>1
    <3> HIDE DEF log, c
    <3>4. FitCall(d, session, accepted) /\ d.state # "out" /\ d.log = log /\ d = Joined(p, old, log)
      BY <1>3, <3>1, <3>2, JoinedFits
    <3>5. Joined(p, old, log).names = old.names
      BY <1>3 DEF Joined, FitCall, ClientRecord
    <3> HIDE DEF d
    <3> QED
      BY <3>2, <3>3, <3>4, <3>5
  <2>2. CASE t.step # "accepted"
    BY <1>3, <1>6, <2>2
  <2> QED
    BY <2>1, <2>2
<1> HIDE DEF c
<1>8. FitTask(c, u, accepted)
  <2> DEFINE q == CHOOSE q \in t.next : TRUE
             w == [t EXCEPT !.step = "welcome"]
             add == StageAdd(p, c, seen[p], away[p], q)
  <2>1. CASE t.step = "accepted" /\ t.welcome # {}
    <3>1. u = w
      BY <2>1 DEF After
    <3>2. w \in Task /\ w.step = "welcome"
      BY <1>6 DEF Task
    <3> HIDE DEF w
    <3> QED
      BY <1>7, <2>1, <3>1, <3>2 DEF FitTask
  <2>2. CASE ~ (t.step = "accepted" /\ t.welcome # {}) /\ t.next = {}
    BY <2>2, IdleFits DEF After
  <2>3. CASE ~ (t.step = "accepted" /\ t.welcome # {}) /\ t.next # {}
    <3>1. q \in t.next
      BY <2>3
    <3>2. u = add
      BY <2>3 DEF After
    <3> HIDE DEF q
    <3>3. FitTask(c, add, accepted)
      <4>1. q \in Peer /\ c.names[q] # {}
        BY <1>6, <1>7, <3>1
      <4> QED
        BY <1>3, <1>7, <4>1, StageAddFits
    <3> QED
      BY <3>2, <3>3
  <2> QED
    BY <2>1, <2>2, <2>3
<1> HIDE DEF u
<1>9. FitCall(c, session', accepted') /\ FitTask(c, u, accepted')
  BY <1>2, <1>7, <1>8
<1> QED
  BY <1>2, <1>4, <1>5, <1>9, FailsStay, RequestKeeps

LEMMA SendWelcomeKeeps ==
  ASSUME CallInv, NEW p \in Peer, SendWelcome(p)
  PROVE  CallInv'
<1>1. task[p].step = "welcome" /\ task[p] # Idle
  BY DEF SendWelcome, Idle
<1>2. /\ FitCall(call[p], session, accepted) /\ FitTask(call[p], task[p], accepted)
      /\ call[p].group \in Group /\ InCall(p) /\ Len(call[p].log) \in Nat
      /\ call[p].state # "out"
  BY <1>1, Waiting, Handling
<1>3. PICK q \in task[p].welcome :
        \/ RelayE2eeWelcome(p, WelcomeFor(p, q)) /\ UNCHANGED call
        \/ call' = [call EXCEPT ![p] = Failed(@)] /\ UNCHANGED relayVars
  BY DEF SendWelcome
<1> DEFINE w == WelcomeFor(p, q)
<1>4. w \in AnyWelcome
  BY <1>1, <1>3, WelcomeForSomeone
<1>5. /\ task' = [task EXCEPT ![p] = Idle]
      /\ UNCHANGED <<sid, seen, away, starts, drops, fails, exits, kicks>>
  BY DEF SendWelcome, Asks
<1>6. CASE RelayE2eeWelcome(p, w) /\ UNCHANGED call
  <2> HIDE DEF w
  <2>1. RoomKept /\ UNCHANGED <<status, wire, session, accepted>>
    BY <1>4, <1>6, WelcomeKeepsRoom
  <2>2. call' = [call EXCEPT ![p] = call[p]]
    BY <1>6, SameCall
  <2> QED
    BY <1>2, <1>5, <2>1, <2>2, IdleFits, FailsStay, RequestKeeps
<1>7. CASE call' = [call EXCEPT ![p] = Failed(@)] /\ UNCHANGED relayVars
  <2>1. RoomKept
    BY <1>7, RoomStands
  <2>2. call' = [call EXCEPT ![p] = Failed(call[p])]
    BY <1>7
  <2>3. UNCHANGED <<status, session, accepted>>
    BY <1>7 DEF relayVars
  <2>4. FitCall(Failed(call[p]), session, accepted)
    BY <1>2, FailedFits
  <2> QED
    BY <1>2, <1>5, <2>1, <2>2, <2>3, <2>4, IdleFits, FailsStay, RequestKeeps
<1> QED
  BY <1>3, <1>6, <1>7

-----------------------------------------------------------------------------
(* The invariant *)

LEMMA CallInitInv ==
  ASSUME CallInit
  PROVE  CallInv
<1>1. IInv /\ session = 0 /\ accepted = {} /\ \A p \in Peer : inbox[p] = <<>>
  BY InitInv DEF CallInit, Init
<1>2. CallShape
  <2>1. NoCall \in ClientRecord /\ Idle \in Task
    BY NoCallFits DEF FitCall, FitTask
  <2> QED
    BY <2>1, CallAssumption DEF CallInit, CallShape
<1>3. \A p \in Peer : Mail(p) = {}
  BY <1>1 DEF Mail, Elems
<1>4. Wired /\ AcceptedFit /\ MailFits
  BY <1>1, <1>3 DEF CallInit, Init, Wired, AcceptedFit, MailFits
<1>5. ASSUME NEW p \in Peer PROVE ClientFits(p)
  <2>1. call[p] = NoCall /\ task[p] = Idle
    BY DEF CallInit
  <2>2. FitSeat(p)
    BY <2>1 DEF CallInit, Init, FitSeat, InCall, NoCall
  <2> QED
    BY <1>1, <2>1, <2>2, NoCallFits DEF ClientFits
<1> QED
  BY <1>1, <1>2, <1>4, <1>5, RelayAssumption DEF CallInv

LEMMA CallStepKeeps ==
  ASSUME MlsIsPayload, CallInv, [CallNext]_vars
  PROVE  CallInv'
<1>1. CASE UNCHANGED vars
  <2>1. RoomKept
    BY <1>1, RoomStands DEF vars
  <2>2. \A q \in Peer : ClientFits(q)'
    BY <1>1 DEF vars, relayVars, callVars, CallInv, ClientFits, FitSeat, InCall
  <2>3. CallShape'
    BY <1>1 DEF vars, callVars, CallInv, CallShape
  <2> QED
    BY <2>1, <2>2, <2>3 DEF CallInv, RoomKept
<1>2. ASSUME NEW p \in Peer, Runs(p)
      PROVE  CallInv'
  BY <1>2, HandleKeeps, AskToJoinKeeps, SendCommitKeeps, HearAnswerKeeps, SendWelcomeKeeps,
     RequestFailsKeeps, GoingKeeps DEF Runs
<1>3. ASSUME NEW p \in Peer, Befalls(p)
      PROVE  CallInv'
  BY <1>3, EnterKeeps, GoingKeeps, ReconnectKeeps, AnswerFailsKeeps DEF Befalls
<1> QED
  BY <1>1, <1>2, <1>3 DEF CallNext

(* The inductive invariant holds in every reachable state. *)
THEOREM CallInvariant ==
  ASSUME MlsIsPayload
  PROVE  CallSpec => []CallInv
<1>1. CallInit => CallInv
  BY CallInitInv
<1>2. CallInv /\ [CallNext]_vars => CallInv'
  BY CallStepKeeps
<1> QED
  BY <1>1, <1>2, PTL DEF CallSpec

-----------------------------------------------------------------------------
(* The relay among its clients *)

(* A step of the room is one of the relay's, or none. *)
RelaySteps ==
  \/ QuietStep
  \/ \E p \in Peer, c \in AnyCommit : AcceptStep(p, c)
  \/ \E p \in Peer, w \in AnyWelcome : WelcomeStep(p, w)
  \/ UNCHANGED relayVars

LEMMA GoingSteps ==
  ASSUME CallInv, NEW p \in Peer,
         Membership(p)
  PROVE  RelaySteps
<1> USE DEF Membership
<1>1. (\E previous \in SUBSET Peer : Join(p, previous)) \/ ~ Join(p, {})
  OBVIOUS
<1> QED
  BY <1>1, MembershipStep DEF CallInv, IInv, RelaySteps

LEMMA AskingSteps ==
  ASSUME MlsIsPayload, CallInv, NEW p \in Peer,
         AskToJoin(p) \/ SendCommit(p) \/ SendWelcome(p) \/ AnswerFails(p)
  PROVE  RelaySteps
<1>1. TypeOK
  BY DEF CallInv, IInv
<1>2. task[p] # Idle
  BY DEF AskToJoin, SendCommit, SendWelcome, AnswerFails, Idle
<1>3. /\ FitTask(call[p], task[p], accepted) /\ call[p].group \in Group /\ Own(p) \in Member
      /\ Len(call[p].log) \in Nat
  BY <1>2, Waiting, Handling
<1>4. CASE AskToJoin(p)
  <2>1. RelayE2eeJoin(p, call[p].group, Own(p)) /\ Own(p) \in Payload
    BY <1>3, <1>4 DEF AskToJoin, MlsIsPayload
  <2> QED
    BY <1>1, <1>3, <2>1, RelayStep DEF RelaySteps
<1>5. CASE SendCommit(p)
  <2> DEFINE c == [group |-> call[p].group, epoch |-> Epoch(call[p].log), payload |-> task[p].log]
  <2>1. RelayE2eeCommit(p, c) /\ task[p].step = "commit"
    BY <1>5 DEF SendCommit
  <2>2. c \in AnyCommit
    BY <2>1, Submitted DEF AnyCommit, MlsIsPayload
  <2> HIDE DEF c
  <2> QED
    BY <1>1, <2>1, <2>2, RelayStep DEF RelaySteps
<1>6. CASE SendWelcome(p)
  <2>1. PICK q \in task[p].welcome :
          RelayE2eeWelcome(p, WelcomeFor(p, q)) \/ UNCHANGED relayVars
    BY <1>6 DEF SendWelcome
  <2> DEFINE w == WelcomeFor(p, q)
  <2>2. w \in AnyWelcome
    BY <1>6, <2>1, WelcomeForSomeone DEF SendWelcome
  <2>3. RelayE2eeWelcome(p, w) \/ UNCHANGED relayVars
    BY <2>1
  <2> HIDE DEF w
  <2> QED
    BY <1>1, <2>2, <2>3, RelayStep DEF RelaySteps
<1>7. CASE AnswerFails(p)
  <2>1. CASE UNCHANGED relayVars
    BY <2>1 DEF RelaySteps
  <2>2. CASE RelayE2eeJoin(p, call[p].group, Own(p))
    <3>1. Own(p) \in Payload
      BY <1>3 DEF MlsIsPayload
    <3> QED
      BY <1>1, <1>3, <2>2, <3>1, RelayStep DEF RelaySteps
  <2>3. CASE /\ task[p].step = "welcome"
             /\ \E q \in task[p].welcome : RelayE2eeWelcome(p, WelcomeFor(p, q))
    BY <1>1, <2>3, WelcomeForSomeone, RelayStep DEF RelaySteps
  <2> QED
    BY <1>7, <2>1, <2>2, <2>3 DEF AnswerFails
<1> QED
  BY <1>4, <1>5, <1>6, <1>7

(* Whatever the clients do, the relay does what E2eeRelay lets it do. *)
LEMMA CallStepIsRelayStep ==
  ASSUME MlsIsPayload, CallInv, [CallNext]_vars
  PROVE  RelaySteps
<1>1. CASE UNCHANGED vars
  BY <1>1 DEF vars, RelaySteps
<1>2. ASSUME NEW p \in Peer, Runs(p) \/ Befalls(p)
      PROVE  RelaySteps
  <2>1. \A e : Handle(p, e) => Receive(p)
    BY DEF Handle, HandleRoster, HandlePeerLeft, HandleKeyPackage, HandleCommit, HandleWelcome,
           HandleRejoined, Take
  <2>2. RequestFails(p) \/ HearAnswer(p) => UNCHANGED relayVars
    BY DEF RequestFails, HearAnswer
  <2>3. Drop(p) \/ Stop(p) => \E k \in 0..Len(inbox[p]) : SocketLost(p, k)
    <3>1. 0 \in 0..Len(inbox[p])
      BY MailType DEF CallInv, IInv
    <3> QED
      BY <3>1 DEF Drop, Stop
  <2>4. \/ Join(p, {})
        \/ Resume(p)
        \/ \E k \in 0..Len(inbox[p]) : SocketLost(p, k)
        \/ OrphanPeer(p)
        \/ Evict(p)
        \/ Leave(p)
        \/ Kick(p)
        \/ Receive(p)
        \/ AskToJoin(p) \/ SendCommit(p) \/ SendWelcome(p) \/ AnswerFails(p)
        \/ UNCHANGED relayVars
    BY <1>2, <2>1, <2>2, <2>3
       DEF Runs, Befalls, Notice, Enter, Reconnect, Exit, Expel, Expire
  <2> QED
    BY <2>4, GoingSteps, AskingSteps DEF RelaySteps, Membership
<1> QED
  BY <1>1, <1>2 DEF CallNext

(* Inside one session the relay's epochs only grow, and a Commit or Welcome *)
(* it sends is of its epoch then.                                           *)
LEMMA RelayMoves ==
  ASSUME CallInv, RelaySteps, NEW q \in Peer, session' = session
  PROVE  /\ \A g \in Group : groups[g].currentEpoch <= groups'[g].currentEpoch
         /\ \A e \in Mail(q)' : IsMls(e) =>
              \/ e \in Mail(q)
              \/ e.name = "e2eeCommit" /\ e.epoch = groups[e.group].currentEpoch
              \/ e.name = "e2eeWelcome" /\ e.epoch + 1 = groups[e.group].currentEpoch
<1>1. TypeOK /\ MlsInOrder
  BY DEF CallInv, IInv
<1>2. \A g \in Group : groups[g].currentEpoch \in Nat
  BY <1>1 DEF TypeOK, GroupState
<1>3. CASE QuietStep
  <2>1. groups' = groups
    BY <1>1, <1>3 DEF QuietStep, TypeOK
  <2>2. \A e \in Mail(q)' : IsMls(e) => e \in Mail(q)
    BY <1>1, <1>3, QuietInboxes DEF Mail, Elems
  <2> QED
    BY <1>2, <2>1, <2>2
<1>4. ASSUME NEW p \in Peer, NEW c \in AnyCommit, AcceptStep(p, c)
      PROVE  /\ \A g \in Group : groups[g].currentEpoch <= groups'[g].currentEpoch
             /\ \A e \in Mail(q)' : e \in Mail(q)
                  \/ (e.name = "e2eeCommit" /\ e.epoch = groups[e.group].currentEpoch)
  <2> DEFINE n == CommitNews(p, c)
  <2>1. inbox' = Sent(Peer \ {p}, <<n>>) /\ Peer \ {p} \in SUBSET Peer
    BY <1>4 DEF AcceptStep
  <2>2. n \in Event /\ n.name = "e2eeCommit" /\ n.epoch = groups[n.group].currentEpoch
    BY <1>1, <1>4 DEF Event, CommitEvent, CommitNews, AcceptStep, AnyCommit, TypeOK
  <2>3. <<n>> \in Seq(Event) /\ Elems(<<n>>) = {n}
    BY <2>2 DEF Elems
  <2> HIDE DEF n
  <2>4. Mail(q)' \subseteq Mail(q) \cup {n}
    BY <1>1, <2>1, <2>3, SentMail
  <2>5. \A g \in Group : groups[g].currentEpoch <= groups'[g].currentEpoch
    BY <1>1, <1>2, <1>4 DEF AcceptStep, Advance, TypeOK
  <2> QED
    BY <2>2, <2>4, <2>5
<1>5. ASSUME NEW p \in Peer, NEW w \in AnyWelcome, WelcomeStep(p, w)
      PROVE  /\ groups' = groups
             /\ \A e \in Mail(q)' : e \in Mail(q)
                  \/ (e.name = "e2eeWelcome" /\ e.epoch + 1 = groups[e.group].currentEpoch)
  <2> DEFINE n == WelcomeNews(p, w)
  <2>1. inbox' = Sent({w.target}, <<n>>) /\ {w.target} \in SUBSET Peer
    BY <1>5 DEF WelcomeStep, AnyWelcome
  <2>2. n \in Event /\ n.name = "e2eeWelcome" /\ n.epoch + 1 = groups[n.group].currentEpoch
    BY <1>1, <1>5 DEF Event, WelcomeEvent, WelcomeNews, WelcomeStep, WelcomeAllowed, AnyWelcome, TypeOK
  <2>3. <<n>> \in Seq(Event) /\ Elems(<<n>>) = {n}
    BY <2>2 DEF Elems
  <2> HIDE DEF n
  <2>4. Mail(q)' \subseteq Mail(q) \cup {n}
    BY <1>1, <2>1, <2>3, SentMail
  <2> QED
    BY <1>5, <2>2, <2>4 DEF WelcomeStep
<1>6. CASE UNCHANGED relayVars
  BY <1>2, <1>6 DEF relayVars, Mail
<1> QED
  BY <1>2, <1>3, <1>4, <1>5, <1>6 DEF RelaySteps

(* A Commit or Welcome of the room's own session was sent in it. *)
LEMMA LifeIsSession ==
  ASSUME CallInv, NEW q \in Peer, NEW i \in DOMAIN inbox[q], IsMls(inbox[q][i]),
         inbox[q][i].group = session
  PROVE  /\ inbox[q][i].life = session
         /\ inbox[q][i].epoch \in Nat
         /\ inbox[q][i].epoch < groups[session].currentEpoch
<1> DEFINE e == inbox[q][i]
<1>1. e \in Event /\ e \in Mail(q) /\ session \in Nat
  BY MailType DEF CallInv, IInv, TypeOK, Mail, Elems
<1>2. PICK a \in accepted : a.life = e.life /\ a.group = e.group
  <2>1. CASE e.name = "e2eeCommit"
    BY <1>1, <2>1 DEF CallInv, MailFits, FitEvent, Announced
  <2>2. CASE e.name = "e2eeWelcome"
    BY <2>2 DEF CallInv, IInv, WelcomeFollowsCommit
  <2> QED
    BY <2>1, <2>2 DEF IsMls
<1>3. a.group <= a.life /\ a.life \in Nat
  BY DEF CallInv, AcceptedFit, IInv, TypeOK
<1>4. e.life <= session /\ (e.life = session => e.epoch < groups[e.group].currentEpoch)
  BY DEF CallInv, IInv, RelayInv, InboxSettled, Settled
<1>5. e.life = session
  BY <1>1, <1>2, <1>3, <1>4
<1>6. e.epoch \in Nat
  BY <1>1 DEF Event, IsMls, RosterEvent, RosterNames, KeyPackageEvent, CommitEvent, WelcomeEvent
<1> QED
  BY <1>4, <1>5, <1>6

-----------------------------------------------------------------------------
(* The Commits that came early *)

(* An early Commit of the room's session is of an epoch the relay closed, and *)
(* nothing older is still on its way.                                         *)
EarlyBehind(p) ==
  InCall(p) /\ call[p].group = session => \A x \in call[p].early :
    /\ x < groups[session].currentEpoch
    /\ \A e \in Mail(p) : IsMls(e) /\ e.group = session =>
         IF e.name = "e2eeCommit" THEN x < e.epoch ELSE x <= e.epoch

(* p keeps an early Commit. *)
Buffers(p) ==
  /\ Receive(p) /\ inbox[p] # <<>>
  /\ Head(inbox[p]).name = "e2eeCommit" /\ Head(inbox[p]).group = call[p].group
  /\ call'[p] = [call[p] EXCEPT !.early = @ \cup {Head(inbox[p]).epoch}]

(* Of the early Commits of c, d keeps none or those of the same group. *)
KeepsEarly(c, d) == d.early = {} \/ (d.early = c.early /\ d.group = c.group)

(* What a step does to the call of q. *)
EarlyMoves(q) ==
  \/ KeepsEarly(call[q], call'[q]) /\ (InCall(q) \/ call'[q].early = {})
  \/ InCall(q) /\ Buffers(q)

LEMMA NewKeepsEarly ==
  ASSUME NEW c, NEW p, NEW n, NEW s, NEW alone
  PROVE  KeepsEarly(c, Started(p, n, s, alone))
BY DEF KeepsEarly, Started

LEMMA NoneKeepsEarly ==
  ASSUME NEW c
  PROVE  KeepsEarly(c, NoCall) /\ KeepsEarly(c, c)
BY DEF KeepsEarly, NoCall

LEMMA FailedKeepsEarly ==
  ASSUME NEW c \in ClientRecord
  PROVE  KeepsEarly(c, Failed(c))
BY DEF KeepsEarly, Failed, ClientRecord

LEMMA JoinedKeepsEarly ==
  ASSUME NEW c \in ClientRecord, NEW p, NEW log
  PROVE  /\ KeepsEarly(c, Joined(p, c, log))
         /\ KeepsEarly(c, [Joined(p, c, log) EXCEPT !.early = {}])
<1>1. Joined(p, c, log).early = c.early /\ Joined(p, c, log).group = c.group
  BY DEF Joined, ClientRecord
<1>2. [Joined(p, c, log) EXCEPT !.early = {}].early = {}
  BY DEF Joined, ClientRecord
<1> QED
  BY <1>1, <1>2 DEF KeepsEarly

LEMMA NotedKeepsEarly ==
  ASSUME NEW c \in ClientRecord, NEW q, NEW m
  PROVE  LET noted == [c EXCEPT !.names[q] = {m}]
         IN  KeepsEarly(c, noted) /\ KeepsEarly(c, Failed(noted))
BY DEF KeepsEarly, Failed, ClientRecord

LEMMA HandleEarly ==
  ASSUME CallInv, NEW p \in Peer, inbox[p] # <<>>, Handle(p, Head(inbox[p])), NEW q \in Peer
  PROVE  EarlyMoves(q)
<1> DEFINE e == Head(inbox[p])
           c == call[p]
           noted == [c EXCEPT !.names[e.peer] = {e.payload}]
           buffered == [c EXCEPT !.early = @ \cup {e.epoch}]
<1>1. /\ Take(p, e) /\ InCall(p) /\ Receive(p)
      /\ call \in [Peer -> ClientRecord] /\ c \in ClientRecord
      /\ InCall(q) \/ call[q].early = {}
  <2>1. Take(p, e)
    BY DEF Handle, HandleRoster, HandlePeerLeft, HandleKeyPackage, HandleCommit, HandleWelcome,
           HandleRejoined
  <2>2. InCall(q) \/ call[q].early = {}
    BY DEF CallInv, ClientFits, FitCall, NoCall, InCall
  <2> QED
    BY <2>1, <2>2 DEF Take, CallInv, CallShape
<1>2. ASSUME NEW d, call' = [call EXCEPT ![p] = d],
             KeepsEarly(c, d) \/ Buffers(p)
      PROVE  EarlyMoves(q)
  <2>1. CASE q = p
    BY <1>1, <1>2, <2>1 DEF EarlyMoves
  <2>2. CASE q # p
    BY <1>1, <1>2, <2>2, NoneKeepsEarly DEF EarlyMoves
  <2> QED
    BY <2>1, <2>2
<1>3. Restart(p) => EarlyMoves(q)
  <2> DEFINE d == Started(p, starts[p] + 1, sid[p], seen[p] = {p})
  <2>1. KeepsEarly(c, d)
    BY NewKeepsEarly
  <2>2. Restart(p) => call' = [call EXCEPT ![p] = d]
    BY DEF Restart
  <2> HIDE DEF d
  <2> QED
    BY <1>2, <2>1, <2>2
<1>4. ASSUME NEW t,
             \/ Calls(p, c, t) \/ Calls(p, Failed(c), t) \/ Calls(p, noted, t)
             \/ Calls(p, Failed(noted), t)
             \/ Calls(p, [Joined(p, c, Welcomed(e)) EXCEPT !.early = {}], t)
             \/ Calls(p, Joined(p, c, e.payload), t)
      PROVE  EarlyMoves(q)
  <2> DEFINE d1 == Failed(c)
             d2 == Failed(noted)
             d3 == [Joined(p, c, Welcomed(e)) EXCEPT !.early = {}]
             d4 == Joined(p, c, e.payload)
  <2>1. /\ KeepsEarly(c, c) /\ KeepsEarly(c, d1) /\ KeepsEarly(c, noted) /\ KeepsEarly(c, d2)
        /\ KeepsEarly(c, d3) /\ KeepsEarly(c, d4)
    <3> HIDE DEF c
    <3> QED
      BY <1>1, NoneKeepsEarly, FailedKeepsEarly, NotedKeepsEarly, JoinedKeepsEarly
  <2>2. \E d : (d = c \/ d = d1 \/ d = noted \/ d = d2 \/ d = d3 \/ d = d4)
               /\ call' = [call EXCEPT ![p] = d]
    BY <1>4 DEF Calls
  <2> HIDE DEF d1, d2, d3, d4, noted, c
  <2> QED
    BY <1>2, <2>1, <2>2
<1>5. e.name = "e2eeCommit" /\ e.group = c.group /\ Calls(p, buffered, Idle) => EarlyMoves(q)
  <2> SUFFICES ASSUME e.name = "e2eeCommit", e.group = c.group, Calls(p, buffered, Idle)
               PROVE  EarlyMoves(q)
    OBVIOUS
  <2>1. call' = [call EXCEPT ![p] = buffered] /\ call'[p] = buffered
    BY <1>1 DEF Calls
  <2>2. Buffers(p)
    BY <1>1, <2>1 DEF Buffers
  <2> HIDE DEF buffered
  <2> QED
    BY <1>2, <2>1, <2>2
<1>6. CASE HandleRoster(p, e) \/ HandlePeerLeft(p, e) \/ HandleRejoined(p, e)
  <2>1. Restart(p) \/ \E t : Calls(p, c, t) \/ Calls(p, Failed(c), t)
    BY <1>6 DEF HandleRoster, HandlePeerLeft, HandleRejoined
  <2> QED
    BY <1>3, <1>4, <2>1
<1>7. CASE HandleKeyPackage(p, e)
  <2>1. \E t : Calls(p, Failed(c), t) \/ Calls(p, noted, t) \/ Calls(p, Failed(noted), t)
    BY <1>7 DEF HandleKeyPackage
  <2> QED
    BY <1>4, <2>1
<1>8. CASE HandleCommit(p, e)
  <2>1. \/ Restart(p)
        \/ \E t : Calls(p, c, t) \/ Calls(p, Failed(c), t) \/ Calls(p, Joined(p, c, e.payload), t)
        \/ e.name = "e2eeCommit" /\ e.group = c.group /\ Calls(p, buffered, Idle)
    BY <1>8 DEF HandleCommit
  <2> QED
    BY <1>3, <1>4, <1>5, <2>1
<1>9. CASE HandleWelcome(p, e)
  <2>1. \E t : Calls(p, Failed(c), t)
               \/ Calls(p, [Joined(p, c, Welcomed(e)) EXCEPT !.early = {}], t)
    BY <1>9 DEF HandleWelcome
  <2> QED
    BY <1>4, <2>1
<1> QED
  BY <1>6, <1>7, <1>8, <1>9 DEF Handle

LEMMA StepEarly ==
  ASSUME CallInv, [CallNext]_vars, NEW q \in Peer
  PROVE  EarlyMoves(q)
<1>1. /\ InCall(q) \/ call[q].early = {}
      /\ call \in [Peer -> ClientRecord] /\ call[q] \in ClientRecord
  BY DEF CallInv, CallShape, ClientFits, FitCall, NoCall, InCall
<1>2. ASSUME KeepsEarly(call[q], call'[q])
      PROVE  EarlyMoves(q)
  BY <1>1, <1>2 DEF EarlyMoves, KeepsEarly
<1>3. CASE UNCHANGED vars
  BY <1>2, <1>3, NoneKeepsEarly DEF vars, callVars
<1>4. ASSUME NEW p \in Peer, Runs(p) \/ Befalls(p)
      PROVE  EarlyMoves(q)
  <2>1. CASE inbox[p] # <<>> /\ Handle(p, Head(inbox[p]))
    BY <2>1, HandleEarly
  <2>2. CASE AskToJoin(p) \/ SendCommit(p) \/ Notice(p) \/ Drop(p) \/ Reconnect(p)
    BY <1>2, <2>2, NoneKeepsEarly DEF AskToJoin, SendCommit, Notice, callVars, Drop, Reconnect
  <2>3. CASE Exit(p) \/ Expire(p) \/ Stop(p) \/ Expel(p)
    <3>1. call'[q] = NoCall \/ call'[q] = call[q]
      BY <1>1, <2>3 DEF Exit, Expire, Stop, Expel
    <3> QED
      BY <1>2, <3>1, NoneKeepsEarly
  <2>4. CASE Enter(p)
    <3>1. \/ call'[q] = NoCall \/ call'[q] = call[q]
          \/ \E s, alone : call'[q] = Started(p, 1, s, alone)
      BY <2>4 DEF Enter
    <3> QED
      BY <1>2, <3>1, NoneKeepsEarly, NewKeepsEarly
  <2>5. CASE RequestFails(p) \/ AnswerFails(p)
    <3>1. call'[q] = NoCall \/ call'[q] = call[q] \/ call'[q] = Failed(call[q])
      BY <1>1, <2>5 DEF RequestFails, AnswerFails, FailsE2ee
    <3> QED
      BY <1>1, <1>2, <3>1, NoneKeepsEarly, FailedKeepsEarly
  <2>6. CASE SendWelcome(p)
    <3>1. call'[q] = call[q] \/ call'[q] = Failed(call[q])
      BY <1>1, <2>6 DEF SendWelcome
    <3> QED
      BY <1>1, <1>2, <3>1, NoneKeepsEarly, FailedKeepsEarly
  <2>7. CASE HearAnswer(p)
    <3>1. call'[q] = call[q] \/ call'[q] = Joined(q, call[q], task[q].log)
      BY <1>1, <2>7 DEF HearAnswer
    <3>2. /\ KeepsEarly(call[q], Joined(q, call[q], task[q].log))
          /\ KeepsEarly(call[q], call[q])
      BY <1>1, NoneKeepsEarly, JoinedKeepsEarly
    <3>3. KeepsEarly(call[q], call'[q])
      BY <3>1, <3>2
    <3> QED
      BY <1>2, <3>3
  <2> QED
    BY <1>4, <2>1, <2>2, <2>3, <2>4, <2>5, <2>6, <2>7 DEF Runs, Befalls
<1> QED
  BY <1>3, <1>4 DEF CallNext

LEMMA TailMail ==
  ASSUME CallInv, NEW q \in Peer, inbox[q] # <<>>, Receive(q), NEW e \in Mail(q)'
  PROVE  \E i \in DOMAIN inbox[q] : i > 1 /\ e = inbox[q][i]
<1>1. inbox[q] \in Seq(Event) /\ Len(inbox[q]) \in Nat /\ DOMAIN inbox[q] = 1..Len(inbox[q])
  BY MailType DEF CallInv, IInv
<1>2. inbox'[q] = Tail(inbox[q])
  BY DEF Receive, CallInv, IInv, TypeOK
<1>3. /\ Tail(inbox[q]) \in Seq(Event) /\ Len(Tail(inbox[q])) = Len(inbox[q]) - 1
      /\ \A i \in 1..Len(Tail(inbox[q])) : Tail(inbox[q])[i] = inbox[q][i + 1]
  BY <1>1, HeadTailProperties
<1>4. DOMAIN Tail(inbox[q]) = 1..(Len(inbox[q]) - 1)
  BY <1>3, LenProperties
<1>5. PICK i \in 1..(Len(inbox[q]) - 1) : e = Tail(inbox[q])[i]
  BY <1>2, <1>4 DEF Mail, Elems
<1>6. e = inbox[q][i + 1] /\ i + 1 \in DOMAIN inbox[q] /\ i + 1 > 1
  BY <1>1, <1>3, <1>5
<1> QED
  BY <1>6

(* A Commit that is buffered is older than what is still on its way. *)
LEMMA BufferedIsBehind ==
  ASSUME CallInv, NEW q \in Peer, Buffers(q), call[q].group = session
  PROVE  LET x == Head(inbox[q]).epoch
         IN  /\ x < groups[session].currentEpoch
             /\ \A e \in Mail(q)' : IsMls(e) /\ e.group = session =>
                  IF e.name = "e2eeCommit" THEN x < e.epoch ELSE x <= e.epoch
<1>1. inbox[q] \in Seq(Event) /\ Len(inbox[q]) \in Nat /\ DOMAIN inbox[q] = 1..Len(inbox[q])
  BY MailType DEF CallInv, IInv
<1>2. 1 \in DOMAIN inbox[q] /\ Head(inbox[q]) = inbox[q][1]
  BY <1>1, EmptySeq DEF Buffers
<1>3. IsMls(inbox[q][1]) /\ inbox[q][1].group = session
  BY <1>2 DEF Buffers, IsMls
<1>4. inbox[q][1].life = session /\ inbox[q][1].epoch < groups[session].currentEpoch
  BY <1>2, <1>3, LifeIsSession
<1>5. ASSUME NEW e \in Mail(q)', IsMls(e), e.group = session
      PROVE  IF e.name = "e2eeCommit" THEN inbox[q][1].epoch < e.epoch
                                      ELSE inbox[q][1].epoch <= e.epoch
  <2>1. PICK i \in DOMAIN inbox[q] : i > 1 /\ e = inbox[q][i]
    BY TailMail DEF Buffers
  <2>2. inbox[q][i].life = session
    BY <1>5, <2>1, LifeIsSession
  <2>3. Ordered(inbox[q])
    BY DEF CallInv, IInv, MlsInOrder
  <2> QED
    BY <1>2, <1>3, <1>4, <1>5, <2>1, <2>2, <2>3 DEF Ordered
<1> QED
  BY <1>2, <1>4, <1>5

LEMMA SessionGrows ==
  ASSUME RelaySteps
  PROVE  session' = session \/ session' = session + 1
<1>1. QuietStep => session' = session \/ session' = session + 1
  BY DEF QuietStep
<1>2. \A p, c : AcceptStep(p, c) => session' = session
  BY DEF AcceptStep
<1>3. \A p, w : WelcomeStep(p, w) => session' = session
  BY DEF WelcomeStep
<1>4. UNCHANGED relayVars => session' = session
  BY DEF relayVars
<1> QED
  BY <1>1, <1>2, <1>3, <1>4 DEF RelaySteps

LEMMA EarlyKeeps ==
  ASSUME CallInv, CallInv', RelaySteps, NEW q \in Peer, EarlyBehind(q), EarlyMoves(q)
  PROVE  EarlyBehind(q)'
<1>1. /\ session \in Nat /\ session' \in Nat
      /\ InCall(q) => call[q].group \in 1..session /\ call[q].group \in Group
      /\ call[q] \in ClientRecord /\ call'[q] \in ClientRecord
  BY Handling DEF CallInv, CallShape, IInv, TypeOK
<1>2. session' = session \/ session' > session
  BY <1>1, SessionGrows
<1> SUFFICES ASSUME InCall(q)', call'[q].group = session', NEW x \in call'[q].early
             PROVE  /\ x < groups'[session'].currentEpoch
                    /\ \A e \in Mail(q)' : IsMls(e) /\ e.group = session' =>
                         IF e.name = "e2eeCommit" THEN x < e.epoch ELSE x <= e.epoch
  BY DEF EarlyBehind
<1>3. InCall(q) /\ call'[q].group = call[q].group
  BY <1>1 DEF EarlyMoves, KeepsEarly, Buffers, ClientRecord
<1>4. session' = session /\ call[q].group = session /\ session \in Group
  BY <1>1, <1>2, <1>3
<1>5. /\ \A g \in Group : groups[g].currentEpoch <= groups'[g].currentEpoch
      /\ \A e \in Mail(q)' : IsMls(e) =>
           \/ e \in Mail(q)
           \/ e.name = "e2eeCommit" /\ e.epoch = groups[e.group].currentEpoch
           \/ e.name = "e2eeWelcome" /\ e.epoch + 1 = groups[e.group].currentEpoch
  BY <1>4, RelayMoves
<1>6. /\ groups[session].currentEpoch \in Nat /\ groups'[session].currentEpoch \in Nat
      /\ x \in Nat
  BY <1>1, <1>4 DEF CallInv, IInv, TypeOK, GroupState, ClientRecord
<1>7. CASE x \in call[q].early
  <2>1. /\ x < groups[session].currentEpoch
        /\ \A e \in Mail(q) : IsMls(e) /\ e.group = session =>
             IF e.name = "e2eeCommit" THEN x < e.epoch ELSE x <= e.epoch
    BY <1>3, <1>4, <1>7 DEF EarlyBehind
  <2>2. ASSUME NEW e \in Mail(q)', IsMls(e), e.group = session, e \notin Mail(q)
        PROVE  IF e.name = "e2eeCommit" THEN x < e.epoch ELSE x <= e.epoch
    <3>1. e.epoch \in Nat
      <4>1. inbox'[q] \in Seq(Event)
        BY DEF CallInv, IInv, TypeOK
      <4>2. e \in Event
        BY <4>1, LenProperties, ElementOfSeq DEF Mail, Elems
      <4> QED
        BY <2>2, <4>2 DEF Event, IsMls, RosterEvent, RosterNames, KeyPackageEvent, CommitEvent,
                          WelcomeEvent
    <3> QED
      BY <1>5, <1>6, <2>1, <2>2, <3>1
  <2> QED
    BY <1>4, <1>5, <1>6, <2>1, <2>2
<1>8. CASE x \notin call[q].early
  <2>1. Buffers(q) /\ x = Head(inbox[q]).epoch
    BY <1>1, <1>8 DEF EarlyMoves, KeepsEarly, Buffers, ClientRecord
  <2>2. /\ x < groups[session].currentEpoch
        /\ \A e \in Mail(q)' : IsMls(e) /\ e.group = session =>
             IF e.name = "e2eeCommit" THEN x < e.epoch ELSE x <= e.epoch
    BY <1>4, <2>1, BufferedIsBehind
  <2> QED
    BY <1>4, <1>5, <1>6, <2>2
<1> QED
  BY <1>7, <1>8

(* The Commits e2ee_call.rs buffers until the Welcome comes are of epochs the *)
(* relay closed, behind everything that is still on its way to the client.   *)
THEOREM EarlyInvariant ==
  ASSUME MlsIsPayload
  PROVE  CallSpec => [](\A p \in Peer : EarlyBehind(p))
<1>1. CallInit => \A p \in Peer : EarlyBehind(p)
  BY DEF CallInit, EarlyBehind, InCall, NoCall
<1>2. CallInv /\ CallInv' /\ (\A p \in Peer : EarlyBehind(p)) /\ [CallNext]_vars
      => (\A p \in Peer : EarlyBehind(p))'
  BY CallStepIsRelayStep, StepEarly, EarlyKeeps
<1> QED
  BY <1>1, <1>2, CallInvariant, PTL DEF CallSpec

(* receive_welcome, e2ee_call.rs: in the room's session none of the Commits a *)
(* client kept while it waited is newer than the Welcome it gets, so nothing  *)
(* is left to replay.                                                         *)
THEOREM EarlyIsStale ==
  ASSUME MlsIsPayload
  PROVE  CallSpec => []EarlyCommitsAreStale
<1>1. CallInv /\ (\A p \in Peer : EarlyBehind(p)) => EarlyCommitsAreStale
  <2> SUFFICES ASSUME CallInv, \A p \in Peer : EarlyBehind(p),
                      NEW p \in Peer, NEW i \in DOMAIN inbox[p], InCall(p),
                      inbox[p][i].name = "e2eeWelcome",
                      inbox[p][i].group = call[p].group, inbox[p][i].group = session,
                      NEW x \in call[p].early \cup
                        {inbox[p][j].epoch : j \in {k \in 1..(i - 1) :
                           inbox[p][k].name = "e2eeCommit" /\ inbox[p][k].group = inbox[p][i].group}}
               PROVE  x <= inbox[p][i].epoch
    BY DEF EarlyCommitsAreStale
  <2>1. inbox[p] \in Seq(Event) /\ Len(inbox[p]) \in Nat /\ DOMAIN inbox[p] = 1..Len(inbox[p])
    BY MailType DEF CallInv, IInv
  <2>2. CASE x \in call[p].early
    BY <2>2 DEF EarlyBehind, IsMls, Mail, Elems
  <2>3. CASE x \notin call[p].early
    <3>1. PICK j \in 1..(i - 1) : /\ x = inbox[p][j].epoch /\ inbox[p][j].name = "e2eeCommit"
                                  /\ inbox[p][j].group = session
      BY <2>3
    <3>2. j \in DOMAIN inbox[p] /\ j < i
      BY <2>1, <3>1
    <3>3. inbox[p][i].life = session /\ inbox[p][j].life = session
      BY <3>1, <3>2, LifeIsSession DEF IsMls
    <3>4. Ordered(inbox[p])
      BY DEF CallInv, IInv, MlsInOrder
    <3> QED
      BY <3>1, <3>2, <3>3, <3>4 DEF Ordered, IsMls
  <2> QED
    BY <2>2, <2>3
<1> QED
  BY <1>1, CallInvariant, EarlyInvariant, PTL

-----------------------------------------------------------------------------
(* Until a socket is lost *)

SocketsUp == \A p \in Peer : status[p] # "orphan" /\ (status[p] = "here" => p \in wire)

OneSession == \A p \in InRoom : sid[p] = session /\ (InCall(p) => call[p].group = session)

(* Of two people one sees the other, and whoever founded a group alone is *)
(* seen by the others, who founded none.                                  *)
InSight ==
  \A p, q \in InRoom : p # q =>
    /\ p \in seen[q] \/ q \in seen[p]
    /\ Len(call[q].log) = 1 => q \in seen[p] /\ Len(call[p].log) # 1

NothingLost == drops = 0 => SocketsUp /\ OneSession /\ InSight

(* A call of the same group, and no founder of it who was none before. *)
SameGroup(c, d) == d.group = c.group /\ (Len(d.log) = 1 => Len(c.log) = 1)

(* What a step does to q, who stays in the room. *)
StayMoves(q) ==
  /\ sid'[q] = sid[q]
  /\ \A r \in InRoom : r \in seen[q] => r \in seen'[q]
  /\ \/ call'[q] = NoCall
     \/ InCall(q) /\ SameGroup(call[q], call'[q])
     \/ call'[q].group = sid[q] /\ (Len(call'[q].log) = 1 => seen[q] = {q})

LEMMA SameCallSameGroup ==
  ASSUME NEW c
  PROVE  SameGroup(c, c)
BY DEF SameGroup

LEMMA FailedSameGroup ==
  ASSUME NEW c \in ClientRecord
  PROVE  SameGroup(c, Failed(c))
BY DEF SameGroup, Failed, ClientRecord

LEMMA NotedSameGroup ==
  ASSUME NEW c \in ClientRecord, NEW q, NEW m
  PROVE  LET noted == [c EXCEPT !.names[q] = {m}]
         IN  SameGroup(c, noted) /\ SameGroup(c, Failed(noted))
BY DEF SameGroup, Failed, ClientRecord

LEMMA EarlySameGroup ==
  ASSUME NEW c \in ClientRecord, NEW n
  PROVE  SameGroup(c, [c EXCEPT !.early = @ \cup {n}])
BY DEF SameGroup, ClientRecord

LEMMA JoinedSameGroup ==
  ASSUME NEW c \in ClientRecord, NEW p, NEW log \in Seq(Entry), Len(log) >= 2
  PROVE  /\ SameGroup(c, Joined(p, c, log))
         /\ SameGroup(c, [Joined(p, c, log) EXCEPT !.early = {}])
<1>1. Joined(p, c, log).log = log /\ Joined(p, c, log).group = c.group
  BY DEF Joined, ClientRecord
<1>2. /\ [Joined(p, c, log) EXCEPT !.early = {}].log = log
      /\ [Joined(p, c, log) EXCEPT !.early = {}].group = c.group
  BY DEF Joined, ClientRecord
<1>3. Len(log) # 1
  <2>1. Len(log) \in Nat
    BY LenProperties
  <2>2. \A n \in Nat : n >= 2 => n # 1
    OBVIOUS
  <2> QED
    BY <2>1, <2>2
<1> QED
  BY <1>1, <1>2, <1>3 DEF SameGroup

LEMMA StartedAlone ==
  ASSUME NEW p \in Peer, NEW n \in 1..MaxStarts, NEW s, NEW alone \in BOOLEAN
  PROVE  LET c == Started(p, n, s, alone)
         IN  /\ c.group = s
             /\ Len(c.log) = 1 => alone
             /\ c.state # "out"
<1>1. Len(<<>>) = 0
  BY EmptySeq
<1> QED
  BY <1>1 DEF Started

(* Nobody who is still in the room is taken off a roster. *)
LEMMA SeenStays ==
  ASSUME CallInv, NEW p \in Peer, NEW e, Take(p, e), NEW r \in InRoom, r \in seen[p]
  PROVE  r \in SeenAfter(p, e)
<1>1. e.name \in {"peerLeft", "peerKicked"} => status[e.peer] \in Departed
  BY HeadIsMail DEF Take, FitEvent
<1>2. status[r] \notin Departed
  BY DEF InRoom, Departed
<1> QED
  BY <1>1, <1>2 DEF SeenAfter

LEMMA HandleStays ==
  ASSUME CallInv, NEW p \in Peer, inbox[p] # <<>>, Handle(p, Head(inbox[p])), NEW q \in Peer
  PROVE  StayMoves(q)
<1> DEFINE e == Head(inbox[p])
           c == call[p]
           noted == [c EXCEPT !.names[e.peer] = {e.payload}]
           buffered == [c EXCEPT !.early = @ \cup {e.epoch}]
           welcomed == [Joined(p, c, Welcomed(e)) EXCEPT !.early = {}]
<1>1. Take(p, e) /\ InCall(p)
  <2>1. Take(p, e)
    BY DEF Handle, HandleRoster, HandlePeerLeft, HandleKeyPackage, HandleCommit, HandleWelcome,
           HandleRejoined
  <2> QED
    BY <2>1 DEF Take
<1>2. /\ call \in [Peer -> ClientRecord] /\ c \in ClientRecord
      /\ seen \in [Peer -> SUBSET Peer]
      /\ starts[p] \in 1..MaxStarts
      /\ InCall(q) \/ call[q] = NoCall
  BY <1>1, Handling DEF CallInv, CallShape, ClientFits, FitCall, InCall
<1>3. sid'[q] = sid[q] /\ \A r \in InRoom : r \in seen[q] => r \in seen'[q]
  <2>1. seen' = [seen EXCEPT ![p] = SeenAfter(p, e)] /\ sid' = sid
    BY <1>1 DEF Take
  <2>2. \A r \in InRoom : r \in seen[p] => r \in SeenAfter(p, e)
    BY <1>1, SeenStays
  <2> HIDE DEF e
  <2> QED
    BY <1>2, <2>1, <2>2
<1>4. ASSUME NEW d, call' = [call EXCEPT ![p] = d],
             SameGroup(c, d) \/ (d.group = sid[p] /\ (Len(d.log) = 1 => seen[p] = {p}))
      PROVE  StayMoves(q)
  <2>1. CASE q = p
    BY <1>1, <1>2, <1>3, <1>4, <2>1 DEF StayMoves
  <2>2. CASE q # p
    BY <1>2, <1>3, <1>4, <2>2, SameCallSameGroup DEF StayMoves
  <2> QED
    BY <2>1, <2>2
<1>5. Restart(p) => StayMoves(q)
  <2> DEFINE alone == seen[p] = {p}
             d == Started(p, starts[p] + 1, sid[p], alone)
  <2> SUFFICES ASSUME Restart(p) PROVE StayMoves(q)
    OBVIOUS
  <2>1. call' = [call EXCEPT ![p] = d] /\ starts[p] + 1 \in 1..MaxStarts
    BY <1>2, CallAssumption DEF Restart
  <2>2. alone \in BOOLEAN
    OBVIOUS
  <2> HIDE DEF alone
  <2>3. d.group = sid[p] /\ (Len(d.log) = 1 => alone)
    BY <2>1, <2>2, StartedAlone
  <2> USE DEF alone
  <2> HIDE DEF d
  <2> QED
    BY <1>4, <2>1, <2>3
<1>6. ASSUME NEW d, NEW t, Calls(p, d, t), SameGroup(c, d) PROVE StayMoves(q)
  BY <1>4, <1>6 DEF Calls
<1>7. /\ SameGroup(c, c) /\ SameGroup(c, Failed(c)) /\ SameGroup(c, noted)
      /\ SameGroup(c, Failed(noted)) /\ SameGroup(c, buffered)
  <2> HIDE DEF c
  <2> QED
    BY <1>2, SameCallSameGroup, FailedSameGroup, NotedSameGroup, EarlySameGroup
<1>8. CASE HandleRoster(p, e) \/ HandlePeerLeft(p, e) \/ HandleRejoined(p, e)
  <2>1. Restart(p) \/ \E t : Calls(p, c, t) \/ Calls(p, Failed(c), t)
    BY <1>8 DEF HandleRoster, HandlePeerLeft, HandleRejoined
  <2> QED
    BY <1>5, <1>6, <1>7, <2>1
<1>9. CASE HandleKeyPackage(p, e)
  <2>1. \E t : Calls(p, Failed(c), t) \/ Calls(p, noted, t) \/ Calls(p, Failed(noted), t)
    BY <1>9 DEF HandleKeyPackage
  <2> HIDE DEF noted
  <2> QED
    BY <1>6, <1>7, <2>1
<1>10. CASE HandleCommit(p, e)
  <2> DEFINE joined == Joined(p, c, e.payload)
  <2>1. \/ Restart(p)
        \/ \E t : Calls(p, c, t) \/ Calls(p, Failed(c), t) \/ Calls(p, joined, t)
                  \/ Calls(p, buffered, t)
    BY <1>10 DEF HandleCommit
  <2>2. e.payload \in Seq(Entry) /\ Len(e.payload) >= 2
    BY <1>10, HeadIsMail, CommitFits DEF HandleCommit, FitEvent
  <2>3. SameGroup(c, joined)
    BY <1>2, <2>2, JoinedSameGroup
  <2> HIDE DEF joined, buffered
  <2> QED
    BY <1>5, <1>6, <1>7, <2>1, <2>3
<1>11. CASE HandleWelcome(p, e)
  <2>1. \E t : Calls(p, Failed(c), t) \/ Calls(p, welcomed, t)
    BY <1>11 DEF HandleWelcome
  <2>2. Welcomed(e) \in Seq(Entry) /\ Len(Welcomed(e)) >= 2
    BY <1>11, HeadWelcomed DEF HandleWelcome
  <2>3. SameGroup(c, welcomed)
    BY <1>2, <2>2, JoinedSameGroup
  <2> HIDE DEF welcomed
  <2> QED
    BY <1>6, <1>7, <2>1, <2>3
<1> QED
  BY <1>8, <1>9, <1>10, <1>11 DEF Handle

LEMMA CallStands ==
  ASSUME CallInv, NEW q \in Peer, sid' = sid, seen' = seen,
         \/ call'[q] = NoCall \/ call'[q] = call[q]
         \/ InCall(q) /\ SameGroup(call[q], call'[q])
  PROVE  StayMoves(q)
<1>1. InCall(q) \/ call[q] = NoCall
  BY DEF CallInv, ClientFits, FitCall, InCall
<1> QED
  BY <1>1, SameCallSameGroup DEF StayMoves

LEMMA AnsweringStays ==
  ASSUME CallInv, NEW p \in Peer, HearAnswer(p) \/ SendWelcome(p) \/ AnswerFails(p), NEW q \in Peer
  PROVE  StayMoves(q)
<1>1. task[p] # Idle
  BY DEF HearAnswer, SendWelcome, AnswerFails, Idle
<1>2. /\ InCall(p) /\ call[p] \in ClientRecord /\ FitTask(call[p], task[p], accepted)
      /\ call \in [Peer -> ClientRecord]
  BY <1>1, Waiting, Handling DEF CallInv, CallShape
<1>3. CASE HearAnswer(p)
  <2>1. sid' = sid /\ seen' = seen
    BY <1>3 DEF HearAnswer, Asks
  <2>2. CASE task[p].step = "accepted"
    <3> DEFINE joined == Joined(p, call[p], task[p].log)
    <3>1. task[p].log \in Seq(Entry) /\ Len(task[p].log) >= 2
      <4>1. Len(call[p].log) \in Nat
        BY <1>2, LenProperties DEF ClientRecord
      <4> QED
        BY <1>2, <2>2, <4>1 DEF FitTask, Task
    <3>2. SameGroup(call[p], joined)
      BY <1>2, <3>1, JoinedSameGroup
    <3>3. call' = [call EXCEPT ![p] = joined]
      BY <1>3, <2>2 DEF HearAnswer
    <3> HIDE DEF joined
    <3> QED
      BY <1>2, <2>1, <3>2, <3>3, CallStands
  <2>3. CASE task[p].step # "accepted"
    BY <1>2, <1>3, <2>1, <2>3, CallStands DEF HearAnswer
  <2> QED
    BY <2>2, <2>3
<1>4. CASE SendWelcome(p)
  <2>1. sid' = sid /\ seen' = seen /\ (call' = call \/ call' = [call EXCEPT ![p] = Failed(@)])
    BY <1>4 DEF SendWelcome, Asks
  <2>2. SameGroup(call[p], Failed(call[p]))
    BY <1>2, FailedSameGroup
  <2> QED
    BY <1>2, <2>1, <2>2, CallStands
<1>5. CASE AnswerFails(p)
  <2>1. /\ sid' = sid /\ seen' = seen
        /\ \/ call' = [call EXCEPT ![p] = NoCall]
           \/ call' = [call EXCEPT ![p] = Failed(call[p])]
    BY <1>5 DEF AnswerFails, FailsE2ee
  <2>2. SameGroup(call[p], Failed(call[p]))
    BY <1>2, FailedSameGroup
  <2>3. call'[q] = NoCall \/ call'[q] = call[q] \/ (q = p /\ call'[q] = Failed(call[p]))
    BY <1>2, <2>1
  <2> QED
    BY <1>2, <2>1, <2>2, <2>3, CallStands
<1> QED
  BY <1>3, <1>4, <1>5

(* While no socket is lost none fails a request, and nobody drops or comes back. *)
LEMMA NobodyDrops ==
  ASSUME CallInv, SocketsUp, drops = 0, drops' = 0, NEW p \in Peer
  PROVE  /\ ~ RequestFails(p) /\ ~ Notice(p) /\ ~ Drop(p) /\ ~ Reconnect(p) /\ ~ Expire(p)
         /\ InRoom = Active
<1>1. InRoom = Active
  BY DEF InRoom, Active, SocketsUp
<1>2. ~ RequestFails(p)
  <2> SUFFICES ASSUME p \notin wire, task[p] # Idle PROVE FALSE
    BY DEF RequestFails
  <2>1. InCall(p)
    BY Waiting
  <2>2. status[p] \in {"here", "orphan", "closing"}
    BY <2>1 DEF CallInv, ClientFits, FitSeat
  <2> QED
    BY <2>2 DEF CallInv, Wired, SocketsUp
<1>3. ~ Drop(p)
  BY DEF Drop
<1> QED
  BY <1>1, <1>2, <1>3 DEF SocketsUp, Notice, OrphanPeer, Reconnect, Resume, Active, Expire, Evict

(* A request that fails on a live socket is counted. *)
LEMMA NobodyGivesUp ==
  ASSUME CallInv, fails' = fails, NEW p \in Peer
  PROVE  ~ AnswerFails(p)
<1>1. fails \in Nat
  BY CallAssumption DEF CallInv, CallShape
<1> QED
  BY <1>1 DEF AnswerFails

(* Then everybody who is not coming in stays as they were, or goes. *)
LEMMA OthersStay ==
  ASSUME CallInv, SocketsUp, drops = 0, drops' = 0,
         NEW p \in Peer, Runs(p) \/ Befalls(p), ~ Enter(p)
  PROVE  /\ session' = session
         /\ \A q \in Peer : q \in InRoom' => q \in InRoom
         /\ SocketsUp'
         /\ \A q \in Peer : StayMoves(q)
<1>1. /\ status \in [Peer -> Status] /\ call \in [Peer -> ClientRecord]
  BY DEF CallInv, IInv, TypeOK, CallShape
<1>2. CASE inbox[p] # <<>> /\ Handle(p, Head(inbox[p]))
  <2>1. Receive(p)
    BY <1>2 DEF Handle, HandleRoster, HandlePeerLeft, HandleKeyPackage, HandleCommit, HandleWelcome,
           HandleRejoined, Take
  <2>2. UNCHANGED <<status, wire, session>>
    BY <2>1 DEF Receive
  <2> QED
    BY <1>2, <2>2, HandleStays DEF SocketsUp, InRoom
<1>3. CASE AskToJoin(p) \/ SendCommit(p)
  <2>1. UNCHANGED <<status, wire, session, sid, seen, call>>
    BY <1>3 DEF AskToJoin, SendCommit, Asks, RelayE2eeJoin, RelayE2eeCommit
  <2> QED
    BY <2>1, CallStands DEF SocketsUp, InRoom
<1>4. CASE HearAnswer(p) \/ SendWelcome(p) \/ AnswerFails(p)
  <2>1. UNCHANGED <<status, wire, session>>
    BY <1>4 DEF HearAnswer, SendWelcome, AnswerFails, RelayE2eeJoin, RelayE2eeWelcome, relayVars
  <2> QED
    BY <1>4, <2>1, AnsweringStays DEF SocketsUp, InRoom
<1>5. CASE Stop(p) \/ Exit(p)
  <2>1. /\ status' = [status EXCEPT ![p] = "gone"] /\ wire' = wire \ {p} /\ session' = session
        /\ sid' = sid /\ seen' = seen /\ call' = [call EXCEPT ![p] = NoCall]
    BY <1>1, <1>5 DEF Stop, SocketLost, Exit, Leave
  <2>2. SocketsUp' /\ \A q \in Peer : q \in InRoom' => q \in InRoom
    BY <1>1, <2>1 DEF SocketsUp, InRoom
  <2> QED
    BY <1>1, <2>1, <2>2, CallStands
<1>6. CASE Expel(p)
  <2>1. /\ status' = [status EXCEPT ![p] = Dismissed(p)] /\ UNCHANGED <<wire, session>>
        /\ sid' = sid /\ seen' = seen
        /\ \A q \in Peer : call'[q] = NoCall \/ call'[q] = call[q]
    BY <1>1, <1>6 DEF Expel, Kick
  <2>2. Dismissed(p) \in {"closing", "gone"}
    BY DEF Dismissed
  <2>3. SocketsUp' /\ \A q \in Peer : q \in InRoom' => q \in InRoom
    BY <1>1, <2>1, <2>2 DEF SocketsUp, InRoom
  <2> QED
    BY <2>1, <2>3, CallStands
<1> QED
  BY <1>2, <1>3, <1>4, <1>5, <1>6, NobodyDrops DEF Runs, Befalls

(* Who stays keeps what it saw of the others. *)
LEMMA StayingKeepsSight ==
  ASSUME OneSession, InSight, session' = session, \A q \in Peer : q \in InRoom' => q \in InRoom,
         \A q \in Peer : StayMoves(q)
  PROVE  OneSession' /\ InSight'
<1>1. OneSession'
  <2> SUFFICES ASSUME NEW p \in InRoom'
               PROVE  sid'[p] = session' /\ (InCall(p)' => call'[p].group = session')
    BY DEF OneSession
  <2>1. p \in Peer /\ p \in InRoom /\ StayMoves(p)
    BY DEF InRoom
  <2>2. InCall(p)' => call'[p] # NoCall
    BY DEF InCall, NoCall
  <2> QED
    BY <2>1, <2>2 DEF OneSession, StayMoves, SameGroup
<1>2. InSight'
  <2> SUFFICES ASSUME NEW p \in InRoom', NEW q \in InRoom', p # q
               PROVE  /\ p \in seen'[q] \/ q \in seen'[p]
                      /\ Len(call'[q].log) = 1 => q \in seen'[p] /\ Len(call'[p].log) # 1
    BY DEF InSight
  <2>1. /\ p \in InRoom /\ q \in InRoom /\ StayMoves(p) /\ StayMoves(q)
    BY DEF InRoom
  <2>2. /\ p \in seen[q] => p \in seen'[q]
        /\ q \in seen[p] => q \in seen'[p]
    BY <2>1 DEF StayMoves
  <2>3. /\ p \in seen[q] \/ q \in seen[p]
        /\ Len(call[q].log) = 1 => q \in seen[p] /\ Len(call[p].log) # 1
        /\ Len(call[p].log) = 1 => p \in seen[q]
    BY <2>1 DEF InSight
  <2>4. Len(NoCall.log) # 1
    BY EmptySeq DEF NoCall
  <2>5. \A r \in {p, q} : Len(call'[r].log) = 1 => Len(call[r].log) = 1 \/ seen[r] = {r}
    BY <2>1, <2>4 DEF StayMoves, SameGroup
  <2> QED
    BY <2>2, <2>3, <2>5
<1> QED
  BY <1>1, <1>2

(* The newcomer sees everybody who is there, and founds a group if nobody is. *)
LEMMA EnteringKeepsSight ==
  ASSUME CallInv, SocketsUp, OneSession, InSight, NEW p \in Peer, Enter(p)
  PROVE  SocketsUp' /\ OneSession' /\ InSight'
<1> DEFINE others == {q \in Peer : status'[q] = "here"} \ {p}
           started == Started(p, 1, session', others = {})
<1>1. /\ status \in [Peer -> Status] /\ wire \subseteq Peer /\ session \in Nat
      /\ sid \in [Peer -> Nat] /\ seen \in [Peer -> SUBSET Peer]
  BY DEF CallInv, IInv, TypeOK, CallShape
<1>2. /\ status[p] = "unborn" /\ Mint({}) /\ wire' = wire \cup {p}
      /\ status' = [q \in Peer |-> IF q = p THEN "here"
                                   ELSE IF q \in {} \cup Others(p) THEN Dismissed(q) ELSE status[q]]
  BY DEF Enter, Join
<1>3. /\ sid' = [sid EXCEPT ![p] = session'] /\ seen' = [seen EXCEPT ![p] = others \cup {p}]
      /\ call' = [q \in Peer |-> IF q = p THEN started
                                 ELSE IF status'[q] = "gone" THEN NoCall ELSE call[q]]
  BY DEF Enter
<1>4. \A q \in Peer : q # p /\ status'[q] \in {"here", "orphan"} =>
        status[q] = "here" /\ status'[q] = "here" /\ q \in wire
  BY <1>2 DEF SocketsUp, Dismissed
<1>5. SocketsUp'
  BY <1>2, <1>4 DEF SocketsUp
<1>6. \A q \in Peer : q \in InRoom' /\ q # p => q \in others /\ q \in InRoom /\ q \in Active
  BY <1>4 DEF InRoom, Active
<1>7. others # {} => session' = session
  BY <1>2, <1>4 DEF Mint, Active
<1>8. /\ started.group = session'
      /\ Len(started.log) = 1 => others = {}
  <2>1. 1 \in 1..MaxStarts /\ (others = {}) \in BOOLEAN
    BY CallAssumption
  <2> DEFINE alone == others = {}
  <2>2. alone \in BOOLEAN
    OBVIOUS
  <2> HIDE DEF alone
  <2>3. LET c == Started(p, 1, session', alone)
        IN  c.group = session' /\ (Len(c.log) = 1 => alone)
    BY <2>1, <2>2, StartedAlone
  <2> QED
    BY <2>3 DEF alone
<1> HIDE DEF started
<1>9. OneSession'
  <2> SUFFICES ASSUME NEW q \in Peer, q \in InRoom'
               PROVE  sid'[q] = session' /\ (InCall(q)' => call'[q].group = session')
    BY DEF OneSession, InRoom
  <2>1. CASE q = p
    BY <1>1, <1>3, <1>8, <2>1
  <2>2. CASE q # p
    <3>1. q \in InRoom /\ session' = session /\ sid'[q] = sid[q]
      BY <1>1, <1>3, <1>6, <1>7, <2>2
    <3>2. call'[q] = NoCall \/ call'[q] = call[q]
      BY <1>3, <2>2
    <3>3. ~ (InCall(q)' /\ call'[q] = NoCall)
      BY DEF InCall, NoCall
    <3> QED
      BY <3>1, <3>2, <3>3 DEF OneSession, InCall
  <2> QED
    BY <2>1, <2>2
<1>10. InSight'
  <2> SUFFICES ASSUME NEW r \in Peer, NEW q \in Peer, r \in InRoom', q \in InRoom', r # q
               PROVE  /\ r \in seen'[q] \/ q \in seen'[r]
                      /\ Len(call'[q].log) = 1 => q \in seen'[r] /\ Len(call'[r].log) # 1
    BY DEF InSight, InRoom
  <2>1. seen'[p] = others \cup {p} /\ call'[p] = started
    BY <1>1, <1>3
  <2>2. CASE r = p
    <3>1. q \in others
      BY <1>6, <2>2
    <3> QED
      BY <1>8, <2>1, <2>2, <3>1
  <2>3. CASE q = p
    <3>1. r \in others
      BY <1>6, <2>3
    <3> QED
      BY <1>8, <2>1, <2>3, <3>1
  <2>4. CASE r # p /\ q # p
    <3>1. r \in InRoom /\ q \in InRoom /\ seen'[r] = seen[r] /\ seen'[q] = seen[q]
      BY <1>1, <1>3, <1>6, <2>4
    <3>2. /\ status'[q] = "here" /\ status'[r] = "here"
      BY <1>6, <2>4
    <3>3. call'[q] = call[q] /\ call'[r] = call[r]
      BY <1>3, <2>4, <3>2
    <3> QED
      BY <3>1, <3>3 DEF InSight
  <2> QED
    BY <2>2, <2>3, <2>4
<1> QED
  BY <1>5, <1>9, <1>10

LEMMA NothingLostKeeps ==
  ASSUME CallInv, NothingLost, [CallNext]_vars
  PROVE  NothingLost'
<1>1. drops \in Nat
  BY CallAssumption DEF CallInv, CallShape
<1>2. CASE UNCHANGED vars
  BY <1>2 DEF vars, relayVars, callVars, NothingLost, SocketsUp, OneSession, InSight, InRoom, InCall
<1>3. ASSUME NEW p \in Peer, Runs(p) \/ Befalls(p), drops' = 0
      PROVE  SocketsUp' /\ OneSession' /\ InSight'
  <2>1. drops' = drops \/ drops' = drops + 1
    BY <1>3 DEF Runs, Befalls, Handle, HandleRoster, HandlePeerLeft, HandleKeyPackage, HandleCommit,
       HandleWelcome, HandleRejoined, Take, AskToJoin, SendCommit, HearAnswer, SendWelcome, Asks,
       RequestFails, AnswerFails, Stop, Notice, callVars, Enter, Drop, Reconnect, Exit, Expel, Expire
  <2>2. SocketsUp /\ OneSession /\ InSight /\ drops = 0
    BY <1>1, <1>3, <2>1 DEF NothingLost
  <2>3. CASE Enter(p)
    BY <2>2, <2>3, EnteringKeepsSight
  <2>4. CASE ~ Enter(p)
    BY <1>3, <2>2, <2>4, OthersStay, StayingKeepsSight
  <2> QED
    BY <2>3, <2>4
<1> QED
  BY <1>2, <1>3 DEF CallNext, NothingLost

(* Until a socket is lost, addPeer (Room.ts) shows everyone to everyone in one *)
(* order, so that only the first in a room founds its group.                  *)
THEOREM NothingLostInvariant ==
  ASSUME MlsIsPayload
  PROVE  CallSpec => []NothingLost
<1>1. CallInit => NothingLost
  BY DEF CallInit, Init, NothingLost, SocketsUp, OneSession, InSight, InRoom
<1>2. CallInv /\ NothingLost /\ [CallNext]_vars => NothingLost'
  BY NothingLostKeeps
<1> QED
  BY <1>1, <1>2, CallInvariant, PTL DEF CallSpec

-----------------------------------------------------------------------------
(* What the clients agree on *)

(* Every variable keeps its type, in particular a call whose tree is known    *)
(* keeps no early Commits.                                                    *)
THEOREM CallTypeCorrect ==
  ASSUME MlsIsPayload
  PROVE  CallSpec => []CallTypeOK
<1>1. CallInv => CallTypeOK
  <2> SUFFICES ASSUME CallInv PROVE CallTypeOK
    OBVIOUS
  <2>1. \A p \in Peer : FitSeat(p) /\ FitCall(call[p], session, accepted)
    BY DEF CallInv, ClientFits
  <2>2. TypeOK /\ CallShape
    BY DEF CallInv, IInv
  <2>3. /\ \A p \in Peer : away[p] \subseteq seen[p] \ {p}
        /\ \A p \in Peer : ~ Awaiting(call[p]) => call[p].early = {}
    BY <2>1 DEF FitSeat, FitCall
  <2> QED
    BY <2>2, <2>3 DEF CallShape, CallTypeOK, ClientRecord
<1> QED
  BY <1>1, CallInvariant, PTL

(* With the clients of the app around it, the relay still decides one Commit  *)
(* for each epoch, in order (acceptE2eeCommit, Room.ts).                      *)
THEOREM ClientsDecideInOrder ==
  ASSUME MlsIsPayload
  PROVE  CallSpec => DecidesInOrder
<1>1. CallInit => Order!Init
  BY DEF CallInit, Init, Order!Init
<1>2. CallInv /\ [CallNext]_vars => [Order!Next]_accepted
  <2> SUFFICES ASSUME CallInv, [CallNext]_vars PROVE [Order!Next]_accepted
    OBVIOUS
  <2>1. RelaySteps
    BY CallStepIsRelayStep
  <2>2. CASE UNCHANGED relayVars
    BY <2>2 DEF relayVars
  <2>3. CASE ~ UNCHANGED relayVars
    BY <2>1, <2>3, StepDecidesInOrder DEF RelaySteps, CallInv
  <2> QED
    BY <2>2, <2>3
<1> QED
  BY <1>1, <1>2, CallInvariant, PTL DEF CallSpec, DecidesInOrder, Order!Spec

(* Whoever has a tree of two or more Commits in the room's session holds what *)
(* the relay accepted in that session.                                        *)
LEMMA HeldIsAccepted ==
  ASSUME CallInv, NEW p \in Peer, Len(call[p].log) >= 2, call[p].group = session
  PROVE  \E a \in accepted : /\ a.life = session /\ a.group = session
                             /\ a.payload = call[p].log /\ Len(call[p].log) = a.epoch + 2
                             /\ a.epoch \in Nat /\ a.epoch < groups[session].currentEpoch
<1>1. Supported(accepted, session, call[p].log)
  BY DEF CallInv, ClientFits, FitCall
<1>2. PICK a \in accepted : /\ a.group = session /\ a.payload = call[p].log
                            /\ Len(call[p].log) = a.epoch + 2
  BY <1>1 DEF Supported
<1>3. a.group <= a.life /\ a.life \in Nat /\ a.epoch \in Nat /\ session \in Nat
  BY DEF CallInv, AcceptedFit, IInv, TypeOK
<1>4. a.life <= session /\ (a.life = session => a.epoch < groups[a.group].currentEpoch)
  BY DEF CallInv, IInv, RelayInv, HistoryAgrees
<1>5. a.life = session
  BY <1>2, <1>3, <1>4
<1> QED
  BY <1>2, <1>3, <1>4, <1>5

(* Whoever has a tree is in a call, of a session of the room. *)
LEMMA SeatedHasLog ==
  ASSUME CallInv, NEW p \in Seated
  PROVE  /\ p \in Peer /\ p \in InRoom /\ InCall(p)
         /\ Len(call[p].log) = 1 \/ Len(call[p].log) >= 2
         /\ call[p].group \in Group /\ call[p].group \in 1..session
<1>1. p \in Peer /\ p \in InRoom /\ InCall(p) /\ ~ Awaiting(call[p])
  BY DEF Seated, InRoom, HasTree
<1>2. call[p].log \in Seq(Entry)
  BY <1>1 DEF CallInv, CallShape, ClientRecord
<1>3. Len(call[p].log) \in Nat /\ Len(call[p].log) # 0
  BY <1>1, <1>2, AwaitingLen
<1>4. \A n \in Nat : n # 0 => n = 1 \/ n >= 2
  OBVIOUS
<1> QED
  BY <1>1, <1>3, <1>4, Handling

(* submit_e2ee_commit, room.rs: a client applies its own Commit only when the *)
(* relay accepted it, so nobody is ahead of the relay.                        *)
THEOREM NoneAhead ==
  ASSUME MlsIsPayload
  PROVE  CallSpec => []NobodyAhead
<1>1. CallInv => NobodyAhead
  <2> SUFFICES ASSUME CallInv, NEW p \in Seated, call[p].group = session
               PROVE  Epoch(call[p].log) <= groups[session].currentEpoch
    BY DEF NobodyAhead
  <2>1. p \in Peer /\ session \in Group /\ (Len(call[p].log) = 1 \/ Len(call[p].log) >= 2)
    BY SeatedHasLog
  <2>2. groups[session].currentEpoch \in Nat
    BY <2>1 DEF CallInv, IInv, TypeOK, GroupState
  <2>3. CASE Len(call[p].log) = 1
    BY <2>2, <2>3 DEF Epoch
  <2>4. CASE Len(call[p].log) >= 2
    BY <2>1, <2>2, <2>4, HeldIsAccepted DEF Epoch
  <2> QED
    BY <2>1, <2>3, <2>4
<1> QED
  BY <1>1, CallInvariant, PTL

(* E2EE.md, "confirm or discard the pending Commit without splitting the      *)
(* group": two people in the same epoch of the room's session hold the same   *)
(* group, and so do two founders as long as no socket was lost.               *)
THEOREM GroupsAgree ==
  ASSUME MlsIsPayload
  PROVE  CallSpec => []Agreement
<1>1. CallInv /\ NothingLost => Agreement
  <2> SUFFICES ASSUME CallInv, NothingLost, NEW p \in Seated, NEW q \in Seated,
                      call[p].group = call[q].group, Len(call[p].log) = Len(call[q].log),
                      drops = 0 \/ (call[p].group = session /\ Len(call[p].log) > 1)
               PROVE  call[p].log = call[q].log
    BY DEF Agreement
  <2>1. /\ p \in Peer /\ p \in InRoom /\ InCall(p)
        /\ q \in Peer /\ q \in InRoom
        /\ Len(call[p].log) = 1 \/ Len(call[p].log) >= 2
    BY SeatedHasLog
  <2>2. call[p].group = session
    BY <2>1 DEF NothingLost, OneSession
  <2>3. CASE Len(call[p].log) = 1
    <3>1. InSight
      BY <2>1, <2>3 DEF NothingLost
    <3> QED
      BY <2>1, <2>3, <3>1 DEF InSight
  <2>4. CASE Len(call[p].log) >= 2
    <3>1. PICK a \in accepted : /\ a.life = session /\ a.group = session
                                /\ a.payload = call[p].log /\ Len(call[p].log) = a.epoch + 2
                                /\ a.epoch \in Nat
      BY <2>1, <2>2, <2>4, HeldIsAccepted
    <3>2. PICK b \in accepted : /\ b.life = session /\ b.group = session
                                /\ b.payload = call[q].log /\ Len(call[q].log) = b.epoch + 2
                                /\ b.epoch \in Nat
      BY <2>1, <2>2, <2>4, HeldIsAccepted
    <3>3. a = b
      <4>1. OneCommitPerEpoch
        BY DEF CallInv, IInv
      <4>2. \A m, n \in Nat : m + 2 = n + 2 => m = n
        OBVIOUS
      <4>3. a.epoch = b.epoch
        BY <3>1, <3>2, <4>2
      <4> QED
        BY <3>1, <3>2, <4>1, <4>3 DEF OneCommitPerEpoch
    <3> QED
      BY <3>1, <3>2, <3>3
  <2> QED
    BY <2>1, <2>3, <2>4
<1> QED
  BY <1>1, CallInvariant, NothingLostInvariant, PTL
=============================================================================
