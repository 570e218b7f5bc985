---------------------------- MODULE SfuRoomProofs ----------------------------
(***************************************************************************)
(* The theorems about SfuRoom, for any number of clients, sockets, codes   *)
(* and rooms.                                                              *)
(***************************************************************************)
EXTENDS SfuRoom, SequenceTheorems, TLAPS

(* What names a request or a room names one that has arrived. *)
Known ==
  /\ \A p \in Join : where[p] # None => req[p] # None /\ req[where[p]] # None
  /\ \A p \in inside \cup orphans : where[p] # None
  /\ \A c \in Code : registry[c] # None => req[registry[c]] # None

(* Who waits has arrived, has entered no room yet, and waits in one place. *)
Queued ==
  /\ \A k \in DOMAIN ready : /\ req[ready[k].join] # None
                             /\ req[ready[k].room] # None
                             /\ where[ready[k].join] = None
  /\ \A c \in Code : \A k \in DOMAIN creating[c] : /\ req[creating[c][k]] # None
                                                   /\ where[creating[c][k]] = None
  /\ \A k, l \in DOMAIN ready : k # l => ready[k].join # ready[l].join
  /\ \A c, d \in Code : \A k \in DOMAIN creating[c], l \in DOMAIN creating[d] :
       <<c, k>> # <<d, l>> => creating[c][k] # creating[d][l]
  /\ \A c \in Code : \A k \in DOMAIN creating[c], l \in DOMAIN ready :
       creating[c][k] # ready[l].join

(* A request that waits for its room to be created has founded none. *)
Unfounded ==
  \A c \in Code : \A k \in DOMAIN creating[c] :
    /\ \A p \in Join : where[p] # creating[c][k]
    /\ \A l \in DOMAIN ready : ready[l].room # creating[c][k]
    /\ \A d \in Code : registry[d] # creating[c][k]

(* A registered room has someone in it, or someone about to go on into it. *)
Occupied ==
  \A c \in Code : registry[c] # None =>
    \/ Members(registry[c]) # {}
    \/ \E k \in DOMAIN ready : ready[k].room = registry[c]

(* The inductive invariant. *)
RoomInv ==
  /\ TypeOK
  /\ Known
  /\ Queued
  /\ Unfounded
  /\ Occupied
  /\ OneSessionPerAccount
  /\ NoStaleOccupant

(* With clients that wait for their answer: a socket with a join that waits *)
(* has no peer yet, and no other join that waits.                           *)
Answered ==
  /\ \A k \in DOMAIN ready : session[SocketOf[ready[k].join]] = None
  /\ \A c \in Code : \A k \in DOMAIN creating[c] : session[SocketOf[creating[c][k]]] = None
  /\ \A k, l \in DOMAIN ready : k # l => SocketOf[ready[k].join] # SocketOf[ready[l].join]
  /\ \A c, d \in Code : \A k \in DOMAIN creating[c], l \in DOMAIN creating[d] :
       <<c, k>> # <<d, l>> => SocketOf[creating[c][k]] # SocketOf[creating[d][l]]
  /\ \A c \in Code : \A k \in DOMAIN creating[c], l \in DOMAIN ready :
       SocketOf[creating[c][k]] # SocketOf[ready[l].join]

-----------------------------------------------------------------------------
(* Queues and removals *)

(* What a sequence of requests is made of, before and after Append. *)
LEMMA WaitersSeq ==
  ASSUME NEW s \in Seq(Join), NEW r \in Join
  PROVE  /\ Len(s) \in Nat
         /\ DOMAIN s = 1..Len(s)
         /\ \A k \in DOMAIN s : s[k] \in Join
         /\ Append(s, r) \in Seq(Join)
         /\ DOMAIN Append(s, r) = 1..(Len(s) + 1)
         /\ \A k \in DOMAIN s : Append(s, r)[k] = s[k]
         /\ Append(s, r)[Len(s) + 1] = r
BY ElementOfSeq, LenProperties, AppendProperties

(* The rest of the queue, and its head. *)
LEMMA TailOfReady ==
  ASSUME ready \in Seq(Continuation), ready # <<>>, ready' = Tail(ready)
  PROVE  /\ ready' \in Seq(Continuation)
         /\ 1 \in DOMAIN ready
         /\ Head(ready) = ready[1]
         /\ Head(ready) \in Continuation
         /\ \A k \in DOMAIN ready' : /\ k + 1 \in DOMAIN ready
                                     /\ k + 1 # 1
                                     /\ ready'[k] = ready[k + 1]
         /\ \A k \in DOMAIN ready : k # 1 => k - 1 \in DOMAIN ready' /\ ready'[k - 1] = ready[k]
         /\ \A k, l \in DOMAIN ready' : k # l => k + 1 # l + 1
<1>1. /\ Len(ready) \in Nat
      /\ DOMAIN ready = 1..Len(ready)
      /\ Len(ready) > 0
  BY LenProperties, EmptySeq
<1>2. /\ Tail(ready) \in Seq(Continuation)
      /\ Len(Tail(ready)) = Len(ready) - 1
      /\ \A k \in 1..Len(Tail(ready)) : Tail(ready)[k] = ready[k + 1]
      /\ Head(ready) = ready[1]
      /\ Head(ready) \in Continuation
  BY HeadTailProperties
<1>3. DOMAIN Tail(ready) = 1..Len(Tail(ready))
  BY <1>2, LenProperties
<1> QED
  BY <1>1, <1>2, <1>3

(* What a removal does to the registry, the timers and the webhooks. *)
LEMMA RemovedFacts ==
  ASSUME NEW gone, NEW left, NEW at, NEW cancelled, NEW added,
         registry \in [Code -> Join \cup {None}],
         Removed(gone, left, at, cancelled, added)
  PROVE  /\ inside' = left
         /\ registry' \in [Code -> Join \cup {None}]
         /\ \A c \in Code : registry'[c] # None =>
              /\ registry'[c] = registry[c]
              /\ \A p \in gone : at[p] = registry[c] => \E q \in left : at[q] = registry[c]
         /\ timers' \subseteq timers
         /\ \A p \in left : p \in timers /\ p \notin cancelled => p \in timers'
         /\ \A x \in told' : x \in added \/
              /\ x \in told
              /\ \A p \in gone : x = <<CodeOf(at[p]), UserOf(p)>> =>
                   \E q \in left : at[q] = at[p] /\ UserOf(q) = UserOf(p)
<1> DEFINE closed == Emptied(gone, left, at) \cap Registered
<1>1. /\ inside' = left
      /\ registry' = Released(closed)
      /\ timers' = {p \in timers \ cancelled : at[p] \notin closed}
      /\ told' = (told \ SaidGone(gone, left, at)) \cup added
  BY DEF Removed
<1>2. \A c \in Code : registry'[c] = IF registry[c] \in closed THEN None ELSE registry[c]
  BY <1>1 DEF Released
<1>3. \A p \in left : at[p] \notin closed
  BY DEF Emptied
<1>4. \A c \in Code : registry'[c] # None =>
         /\ registry'[c] = registry[c]
         /\ \A p \in gone : at[p] = registry[c] => \E q \in left : at[q] = registry[c]
  <2> SUFFICES ASSUME NEW c \in Code, registry'[c] # None
               PROVE  /\ registry'[c] = registry[c]
                      /\ \A p \in gone : at[p] = registry[c] => \E q \in left : at[q] = registry[c]
    OBVIOUS
  <2>1. registry'[c] = registry[c] /\ registry[c] \notin closed
    BY <1>2
  <2>2. registry[c] # None
    BY <2>1
  <2>3. registry[c] \in Registered
    BY <2>2 DEF Registered
  <2>4. registry[c] \notin Emptied(gone, left, at)
    BY <2>1, <2>3
  <2> QED
    BY <2>1, <2>4 DEF Emptied
<1>5. \A x \in told' : x \in added \/
         /\ x \in told
         /\ \A p \in gone : x = <<CodeOf(at[p]), UserOf(p)>> =>
              \E q \in left : at[q] = at[p] /\ UserOf(q) = UserOf(p)
  <2>1. \A x \in told' : x \in added \/ (x \in told /\ x \notin SaidGone(gone, left, at))
    BY <1>1
  <2> QED
    BY <2>1 DEF SaidGone
<1>6. registry' \in [Code -> Join \cup {None}]
  BY <1>1, <1>2 DEF Released
<1>7. timers' \subseteq timers /\ \A p \in left : p \in timers /\ p \notin cancelled => p \in timers'
  BY <1>1, <1>3
<1> QED
  BY <1>1, <1>4, <1>5, <1>6, <1>7

-----------------------------------------------------------------------------
(* The invariant, step by step *)

LEMMA InitRoomInv == Init => RoomInv
<1> SUFFICES ASSUME Init PROVE RoomInv
  OBVIOUS
<1> USE SfuAssumption
<1>1. TypeOK
  <2>1. \A c \in Code : creating[c] \in Seq(Join)
    BY EmptySeq DEF Init
  <2>2. creating \in [Code -> Seq(Join)]
    BY <2>1 DEF Init
  <2>3. ready \in Seq(Continuation)
    BY EmptySeq DEF Init
  <2> QED
    BY <2>2, <2>3 DEF Init, TypeOK, Conn
<1>2. DOMAIN ready = {} /\ \A c \in Code : DOMAIN creating[c] = {}
  BY EmptySeq DEF Init
<1>3. Known /\ Occupied
  BY DEF Init, Known, Occupied
<1>4. Queued /\ Unfounded
  BY <1>2 DEF Queued, Unfounded
<1>5. OneSessionPerAccount /\ NoStaleOccupant
  BY DEF Init, OneSessionPerAccount, NoStaleOccupant
<1> QED
  BY <1>1, <1>3, <1>4, <1>5 DEF RoomInv

(* Every way out of a room. *)
LEMMA RemovalRoomInv ==
  ASSUME RoomInv, NEW gone \in SUBSET inside, NEW cancelled,
         Removed(gone, inside \ gone, where, cancelled, {}),
         UNCHANGED <<req, creating, ready, where, sock, orphans>>,
         conn' \in [Socket -> Conn],
         session' \in [Socket -> Join \cup {None}]
  PROVE  RoomInv'
<1>1. registry \in [Code -> Join \cup {None}]
  BY DEF RoomInv, TypeOK
<1>2. /\ inside' = inside \ gone
      /\ registry' \in [Code -> Join \cup {None}]
      /\ \A c \in Code : registry'[c] # None =>
           /\ registry'[c] = registry[c]
           /\ \A p \in gone : where[p] = registry[c] => \E q \in inside \ gone : where[q] = registry[c]
      /\ timers' \subseteq timers
      /\ \A x \in told' : x \in told /\
           \A p \in gone : x = <<CodeOf(where[p]), UserOf(p)>> =>
             \E q \in inside \ gone : where[q] = where[p] /\ UserOf(q) = UserOf(p)
  BY <1>1, RemovedFacts
<1>3. TypeOK'
  <2>1. told' \subseteq Code \X User
    BY <1>2 DEF RoomInv, TypeOK
  <2> QED
    BY <1>2, <2>1 DEF RoomInv, TypeOK
<1>4. Known'
  BY <1>2 DEF RoomInv, Known
<1>5. Queued'
  BY DEF RoomInv, Queued
<1>6. Unfounded'
  BY <1>2, SfuAssumption DEF RoomInv, Unfounded, TypeOK
<1>7. Occupied'
  <2> SUFFICES ASSUME NEW c \in Code, registry'[c] # None
               PROVE  \/ \E p \in inside' : where'[p] = registry'[c]
                      \/ \E k \in DOMAIN ready' : ready'[k].room = registry'[c]
    BY DEF Occupied, Members
  <2> QED
    BY <1>2 DEF RoomInv, Occupied, Members
<1>8. OneSessionPerAccount'
  <2>1. Registered' \subseteq Registered
    BY <1>2 DEF Registered
  <2> QED
    BY <2>1, <1>2 DEF RoomInv, OneSessionPerAccount, UserOf
<1>9. NoStaleOccupant'
  <2> SUFFICES ASSUME NEW x \in told'
               PROVE  \E p \in inside' : x = <<CodeOf(where[p]), UserOf(p)>>
    BY DEF NoStaleOccupant, CodeOf, UserOf
  <2>1. PICK p \in inside : x = <<CodeOf(where[p]), UserOf(p)>>
    BY <1>2 DEF RoomInv, NoStaleOccupant
  <2>2. CASE p \in gone
    BY <2>1, <2>2, <1>2
  <2>3. CASE p \notin gone
    BY <2>1, <2>3, <1>2
  <2> QED
    BY <2>2, <2>3
<1> QED
  BY <1>3, <1>4, <1>5, <1>6, <1>7, <1>8, <1>9 DEF RoomInv

(* Steps that only concern sockets, grace periods and timers. *)
LEMMA SocketRoomInv ==
  ASSUME RoomInv,
         UNCHANGED <<req, registry, creating, ready, where, inside, told>>,
         conn' \in [Socket -> Conn],
         session' \in [Socket -> Join \cup {None}],
         sock' \in [Join -> Socket \cup {None}],
         orphans' \subseteq orphans \cup inside,
         timers' \subseteq Join
  PROVE  RoomInv'
<1>1. TypeOK' /\ Known'
  BY DEF RoomInv, TypeOK, Known
<1>2. Queued' /\ Unfounded'
  BY DEF RoomInv, Queued, Unfounded
<1>3. Occupied'
  BY DEF RoomInv, Occupied, Members
<1>4. OneSessionPerAccount' /\ NoStaleOccupant'
  BY DEF RoomInv, OneSessionPerAccount, NoStaleOccupant, UserOf, CodeOf, Registered
<1> QED
  BY <1>1, <1>2, <1>3, <1>4 DEF RoomInv

(* A request that arrives has not been seen before: it waits nowhere. *)
LEMMA AskRoomInv ==
  ASSUME RoomInv, NEW r \in Join, Ask(r), ready = <<>>
  PROVE  RoomInv'
<1>1. PICK a \in Request :
        /\ req[r] = None
        /\ req' = [req EXCEPT ![r] = a]
        /\ \/ /\ registry[a.code] # None
              /\ ready' = <<[join |-> r, room |-> registry[a.code]]>>
              /\ UNCHANGED creating
           \/ /\ registry[a.code] = None
              /\ creating' = [creating EXCEPT ![a.code] = Append(@, r)]
              /\ UNCHANGED ready
        /\ UNCHANGED <<conn, session, registry, where, inside, sock, orphans, timers, told>>
  <2> DEFINE Settles(code, user, key, resume) ==
          /\ req' = [req EXCEPT ![r] = [code |-> code, user |-> user, key |-> key, resume |-> resume]]
          /\ \/ /\ registry[code] # None
                /\ ready' = <<[join |-> r, room |-> registry[code]]>>
                /\ UNCHANGED creating
             \/ /\ registry[code] = None
                /\ creating' = [creating EXCEPT ![code] = Append(@, r)]
                /\ UNCHANGED ready
  <2>0. PICK code \in Code, user \in User :
          \E key \in Keys(SocketOf[r], code) \cup {None} : \E resume \in BOOLEAN :
             (key = None => ~resume) /\ Settles(code, user, key, resume)
    BY DEF Ask
  <2>1. PICK key \in Join \cup {None}, resume \in BOOLEAN : Settles(code, user, key, resume)
    <3> HIDE DEF Settles
    <3> QED
      BY <2>0 DEF Keys
  <2> DEFINE a == [code |-> code, user |-> user, key |-> key, resume |-> resume]
  <2>2. a \in Request /\ a.code = code
    BY DEF Request
  <2>3. req[r] = None /\ UNCHANGED <<conn, session, registry, where, inside, sock, orphans, timers, told>>
    BY DEF Ask, sockets
  <2> QED
    BY <2>1, <2>2, <2>3
<1>2. TypeOK /\ Known /\ Queued /\ Unfounded /\ None \notin Join \cup Request
  BY SfuAssumption DEF RoomInv
<1>3. a.code \in Code /\ DOMAIN ready = {}
  BY EmptySeq DEF Request
<1>4. /\ req' \in [Join -> Request \cup {None}]
      /\ req'[r] = a /\ a # None
      /\ \A x \in Join : req[x] # None => req'[x] = req[x] /\ x # r
  BY <1>1, <1>2 DEF TypeOK
<1>5. where[r] = None /\ (\A p \in Join : where[p] # r) /\ (\A c \in Code : registry[c] # r)
      /\ (\A c \in Code : \A k \in DOMAIN creating[c] : creating[c][k] # r)
  BY <1>1, <1>2 DEF Known, TypeOK, Queued
<1>6. /\ \A p \in inside : UserOf(p)' = UserOf(p) /\ CodeOf(where[p])' = CodeOf(where[p])
  BY <1>1, <1>2, <1>4 DEF Known, TypeOK, UserOf, CodeOf
<1>7. Known'
  BY <1>1, <1>2, <1>4 DEF Known, TypeOK
<1>8. OneSessionPerAccount'
  BY <1>1, <1>6 DEF RoomInv, OneSessionPerAccount, Registered
<1>9. NoStaleOccupant'
  <2>1. \A p \in inside : <<CodeOf(where[p])', UserOf(p)'>> = <<CodeOf(where[p]), UserOf(p)>>
    BY <1>6
  <2>2. \A x \in told : \E p \in inside : x = <<CodeOf(where[p])', UserOf(p)'>>
    BY <2>1 DEF RoomInv, NoStaleOccupant
  <2> QED
    BY <2>2, <1>1 DEF NoStaleOccupant, CodeOf, UserOf
<1>10. CASE /\ registry[a.code] # None
            /\ ready' = <<[join |-> r, room |-> registry[a.code]]>>
            /\ UNCHANGED creating
  <2>1. /\ ready' \in Seq(Continuation)
        /\ DOMAIN ready' = {1}
        /\ ready'[1].join = r
        /\ ready'[1].room = registry[a.code]
    <3>1. [join |-> r, room |-> registry[a.code]] \in Continuation
      BY <1>2, <1>3, <1>10 DEF Continuation, TypeOK
    <3> HIDE DEF Continuation
    <3> QED
      BY <3>1, <1>10
  <2>2. TypeOK'
    BY <1>1, <1>2, <1>4, <1>10, <2>1 DEF TypeOK
  <2>3. Queued'
    BY <1>1, <1>2, <1>3, <1>4, <1>5, <1>10, <2>1 DEF Queued, TypeOK, Known
  <2>4. Unfounded'
    BY <1>1, <1>2, <1>3, <1>10, <2>1 DEF Unfounded
  <2>5. Occupied'
    BY <1>1, <1>3, <1>10, <2>1 DEF RoomInv, Occupied, Members
  <2> QED
    BY <1>7, <1>8, <1>9, <2>2, <2>3, <2>4, <2>5 DEF RoomInv
<1>11. CASE /\ registry[a.code] = None
            /\ creating' = [creating EXCEPT ![a.code] = Append(@, r)]
            /\ UNCHANGED ready
  <2> DEFINE s == creating[a.code]
             n == Len(s) + 1
  <2>1. /\ s \in Seq(Join)
        /\ creating \in [Code -> Seq(Join)]
    BY <1>2, <1>3 DEF TypeOK
  <2>2. /\ Len(s) \in Nat
        /\ DOMAIN s = 1..Len(s)
        /\ Append(s, r) \in Seq(Join)
        /\ DOMAIN Append(s, r) = 1..n
        /\ \A k \in DOMAIN s : Append(s, r)[k] = s[k]
        /\ Append(s, r)[n] = r
    BY <2>1, WaitersSeq
  <2>3. /\ creating'[a.code] = Append(s, r)
        /\ \A c \in Code : c # a.code => creating'[c] = creating[c]
        /\ creating' \in [Code -> Seq(Join)]
    BY <1>3, <1>11, <2>1, <2>2
  <2>4. \A c \in Code : \A k \in DOMAIN creating'[c] :
          \/ k \in DOMAIN creating[c] /\ creating'[c][k] = creating[c][k]
          \/ c = a.code /\ k = n /\ creating'[c][k] = r
    <3> SUFFICES ASSUME NEW c \in Code, NEW k \in DOMAIN creating'[c]
                 PROVE  \/ k \in DOMAIN creating[c] /\ creating'[c][k] = creating[c][k]
                        \/ c = a.code /\ k = n /\ creating'[c][k] = r
      OBVIOUS
    <3>1. CASE c = a.code
      <4>1. k \in 1..(Len(s) + 1)
        BY <3>1, <2>2, <2>3
      <4>2. k \in 1..Len(s) \/ k = Len(s) + 1
        BY <4>1, <2>2
      <4> QED
        BY <4>2, <3>1, <2>2, <2>3
    <3>2. CASE c # a.code
      BY <3>2, <2>3
    <3> QED
      BY <3>1, <3>2
  <2> HIDE DEF n, s
  <2>5. TypeOK'
    BY <1>1, <1>2, <1>4, <1>11, <2>3 DEF TypeOK
  <2>6. Queued'
    BY <1>1, <1>2, <1>3, <1>4, <1>5, <1>11, <2>4 DEF Queued
  <2>7. Unfounded'
    BY <1>1, <1>2, <1>3, <1>5, <1>11, <2>4 DEF Unfounded
  <2>8. Occupied'
    BY <1>1, <1>11 DEF RoomInv, Occupied, Members
  <2> QED
    BY <1>7, <1>8, <1>9, <2>5, <2>6, <2>7, <2>8 DEF RoomInv
<1> QED
  BY <1>1, <1>10, <1>11

(* The room is there: its founder waited, so nobody is in it yet. *)
LEMMA RouterReadyRoomInv ==
  ASSUME RoomInv, NEW c \in Code, RouterReady(c), ready = <<>>
  PROVE  RoomInv'
<1> DEFINE founder == creating[c][1]
           n == Len(creating[c])
<1>1. TypeOK /\ Known /\ Queued /\ Unfounded /\ None \notin Join
  BY SfuAssumption DEF RoomInv
<1>2. creating[c] \in Seq(Join) /\ creating[c] # <<>>
  BY <1>1 DEF TypeOK, RouterReady
<1>3. /\ n \in Nat
      /\ DOMAIN creating[c] = 1..n
      /\ 1 \in 1..n
      /\ \A k \in 1..n : creating[c][k] \in Join
      /\ Head(creating[c]) = founder
  <2>1. Len(creating[c]) > 0
    BY <1>2, EmptySeq, LenProperties
  <2> QED
    BY <1>2, <2>1, WaitersSeq, HeadTailProperties
<1>4. /\ registry' = [registry EXCEPT ![c] = founder]
      /\ ready' = [k \in 1..n |-> [join |-> creating[c][k], room |-> founder]]
      /\ creating' = [creating EXCEPT ![c] = <<>>]
      /\ UNCHANGED <<conn, session, req, where, inside, sock, orphans, timers, told>>
  BY <1>3 DEF RouterReady, Forgotten, sockets
<1>5. DOMAIN ready = {}
  BY EmptySeq
<1>6. /\ DOMAIN ready' = 1..n
      /\ \A k \in 1..n : ready'[k].join = creating[c][k] /\ ready'[k].room = founder
  BY <1>4
<1>7. /\ creating' \in [Code -> Seq(Join)]
      /\ \A d \in Code : d # c => creating'[d] = creating[d]
      /\ DOMAIN creating'[c] = {}
  BY <1>1, <1>4, EmptySeq DEF TypeOK
<1>8. /\ registry' \in [Code -> Join \cup {None}]
      /\ registry'[c] = founder
      /\ \A d \in Code : d # c => registry'[d] = registry[d]
  BY <1>1, <1>3, <1>4 DEF TypeOK
<1>9. /\ req[founder] # None
      /\ \A p \in Join : where[p] # founder
  BY <1>1, <1>3 DEF Queued, Unfounded
<1>10. ready' \in Seq(Continuation)
  <2>1. \A k \in 1..n : [join |-> creating[c][k], room |-> founder] \in Continuation
    BY <1>3 DEF Continuation
  <2>2. ready' \in [1..n -> Continuation]
    <3> HIDE DEF Continuation
    <3> QED
      BY <2>1, <1>4
  <2> QED
    BY <2>2, <1>3, SeqDef, Zenon
<1> HIDE DEF founder, n
<1>11. TypeOK'
  BY <1>1, <1>4, <1>7, <1>8, <1>10 DEF TypeOK
<1>12. Known'
  BY <1>1, <1>4, <1>8, <1>9 DEF Known
<1>13. Queued'
  BY <1>1, <1>3, <1>4, <1>6, <1>7, <1>9 DEF Queued
<1>14. Unfounded'
  BY <1>1, <1>3, <1>4, <1>6, <1>7, <1>8 DEF Unfounded, Queued, founder
<1>15. Occupied'
  <2> SUFFICES ASSUME NEW d \in Code, registry'[d] # None
               PROVE  \/ \E p \in inside : where[p] = registry'[d]
                      \/ \E k \in DOMAIN ready' : ready'[k].room = registry'[d]
    BY <1>4 DEF Occupied, Members
  <2>1. CASE d = c
    BY <2>1, <1>3, <1>6, <1>8
  <2>2. CASE d # c
    BY <2>2, <1>5, <1>8 DEF RoomInv, Occupied, Members
  <2> QED
    BY <2>1, <2>2
<1>16. OneSessionPerAccount'
  <2>1. \A p \in inside : where[p] \in Registered' => where[p] \in Registered
    BY <1>1, <1>8, <1>9 DEF Registered, TypeOK
  <2> QED
    BY <2>1, <1>4 DEF RoomInv, OneSessionPerAccount, UserOf
<1>17. NoStaleOccupant'
  BY <1>4 DEF RoomInv, NoStaleOccupant, CodeOf, UserOf
<1> QED
  BY <1>11, <1>12, <1>13, <1>14, <1>15, <1>16, <1>17 DEF RoomInv

LEMMA RouterFailsRoomInv ==
  ASSUME RoomInv, NEW c \in Code, RouterFails(c)
  PROVE  RoomInv'
<1>1. /\ creating' = [creating EXCEPT ![c] = <<>>]
      /\ UNCHANGED <<conn, session, req, registry, ready, where, inside, sock, orphans, timers, told>>
  BY DEF RouterFails, Forgotten, sockets
<1>2. /\ creating' \in [Code -> Seq(Join)]
      /\ \A d \in Code : d # c => creating'[d] = creating[d]
      /\ creating'[c] = <<>>
      /\ DOMAIN creating'[c] = {}
  BY <1>1, EmptySeq DEF RoomInv, TypeOK
<1>3. TypeOK' /\ Known'
  BY <1>1, <1>2 DEF RoomInv, TypeOK, Known
<1>4. Queued' /\ Unfounded'
  BY <1>1, <1>2 DEF RoomInv, Queued, Unfounded
<1>5. Occupied' /\ OneSessionPerAccount' /\ NoStaleOccupant'
  BY <1>1 DEF RoomInv, Occupied, Members, OneSessionPerAccount, NoStaleOccupant,
              UserOf, CodeOf, Registered
<1> QED
  BY <1>3, <1>4, <1>5 DEF RoomInv

(* The sockets that are hung up keep being sockets. *)
LEMMA HungType ==
  ASSUME NEW gone, conn \in [Socket -> Conn]
  PROVE  Hung(gone) \in [Socket -> Conn]
BY DEF Hung, Conn

(* A join goes on after its await. *)
LEMMA ContinueRoomInv ==
  ASSUME RoomInv, Continue
  PROVE  RoomInv'
<1> DEFINE r == ready[1].join
           room == ready[1].room
<1>1. TypeOK /\ Known /\ Queued /\ Unfounded /\ Occupied /\ None \notin Join \cup Request
  BY SfuAssumption DEF RoomInv
<1>2. /\ ready \in Seq(Continuation)
      /\ ready # <<>>
      /\ ready' = Tail(ready)
      /\ UNCHANGED <<req, creating>>
  BY <1>1 DEF Continue, TypeOK
<1>3. /\ ready' \in Seq(Continuation)
      /\ 1 \in DOMAIN ready
      /\ Head(ready) = ready[1]
      /\ Head(ready) \in Continuation
      /\ \A k \in DOMAIN ready' : /\ k + 1 \in DOMAIN ready
                                  /\ k + 1 # 1
                                  /\ ready'[k] = ready[k + 1]
      /\ \A k \in DOMAIN ready : k # 1 => k - 1 \in DOMAIN ready' /\ ready'[k - 1] = ready[k]
      /\ \A k, l \in DOMAIN ready' : k # l => k + 1 # l + 1
  BY <1>2, TailOfReady
<1>4. r \in Join /\ room \in Join
  BY <1>3 DEF Continuation
<1>5. /\ req[r] # None
      /\ req[room] # None
      /\ where[r] = None
      /\ r \notin inside \cup orphans
  BY <1>1, <1>3, <1>4 DEF Queued, Known
<1>6. \/ Refuse(r, room)
      \/ Resume(r, room)
      \/ Enter(r, room)
  BY <1>3 DEF Continue
<1>7. /\ \A k \in DOMAIN ready' : ready'[k].join # r
      /\ \A c \in Code : \A k \in DOMAIN creating[c] : creating[c][k] # r /\ creating[c][k] # room
  BY <1>1, <1>3 DEF Queued, Unfounded
<1> HIDE DEF r, room
<1>8. ASSUME where' = where
      PROVE  Queued'
  BY <1>1, <1>2, <1>3, <1>8 DEF Queued
<1>9. ASSUME where' = where,
             \A c \in Code : registry'[c] # None => registry'[c] = registry[c]
      PROVE  Unfounded'
  BY <1>1, <1>2, <1>3, <1>9, SfuAssumption DEF Unfounded, TypeOK
<1>10. CASE Refuse(r, room)
  <2>1. /\ registry' = Released({room} \ {where[p] : p \in inside})
        /\ UNCHANGED <<conn, session, where, inside, sock, orphans, timers, told>>
    BY <1>10 DEF Refuse, sockets
  <2>2. /\ registry' \in [Code -> Join \cup {None}]
        /\ \A c \in Code : registry'[c] # None =>
             /\ registry'[c] = registry[c]
             /\ registry[c] = room => \E p \in inside : where[p] = room
    BY <2>1, <1>1 DEF Released, TypeOK
  <2>3. TypeOK' /\ Known'
    BY ZenonT(40), <2>1, <2>2, <1>1, <1>2, <1>3 DEF TypeOK, Known
  <2>4. Queued' /\ Unfounded'
    BY <2>1, <2>2, <1>8, <1>9
  <2>5. Occupied'
    <3> SUFFICES ASSUME NEW c \in Code, registry'[c] # None
                 PROVE  \/ \E p \in inside : where[p] = registry[c]
                        \/ \E k \in DOMAIN ready' : ready'[k].room = registry[c]
      BY <2>1, <2>2 DEF Occupied, Members
    <3>1. CASE registry[c] = room
      BY <3>1, <2>2
    <3>2. CASE registry[c] # room
      <4>1. \/ \E p \in inside : where[p] = registry[c]
            \/ \E k \in DOMAIN ready : ready[k].room = registry[c] /\ k # 1
        BY <3>2, <2>2, <1>1 DEF Occupied, Members, room
      <4> QED
        BY <4>1, <1>3
    <3> QED
      BY <3>1, <3>2
  <2>6. Registered' \subseteq Registered
    BY <2>2 DEF Registered
  <2>7. OneSessionPerAccount' /\ NoStaleOccupant'
    BY <2>1, <2>6, <1>2 DEF RoomInv, OneSessionPerAccount, NoStaleOccupant, UserOf, CodeOf
  <2> QED
    BY <2>3, <2>4, <2>5, <2>7 DEF RoomInv
<1>11. CASE Resume(r, room)
  <2>1. PICK p \in Resumed(r, room) :
          /\ session' = [session EXCEPT ![SocketOf[r]] = p]
          /\ conn' = Hung({p} \ orphans)
          /\ sock' = [sock EXCEPT ![p] = SocketOf[r]]
          /\ orphans' = orphans \ {p}
          /\ timers' = timers \ {p}
          /\ UNCHANGED <<registry, where, inside, told>>
    BY <1>11 DEF Resume
  <2>2. p \in inside /\ p \in Join /\ where[p] = room /\ SocketOf[r] \in Socket
    BY <1>1, <1>4, SfuAssumption DEF Resumed, Previous, Members, TypeOK
  <2>3. conn' \in [Socket -> Conn]
    BY <2>1, <1>1, HungType DEF TypeOK
  <2>4. TypeOK' /\ Known'
    BY <2>1, <2>2, <2>3, <1>1, <1>2, <1>3 DEF TypeOK, Known
  <2>5. Queued' /\ Unfounded'
    BY <2>1, <1>8, <1>9
  <2>6. Occupied'
    <3> SUFFICES ASSUME NEW c \in Code, registry[c] # None
                 PROVE  \/ \E q \in inside : where[q] = registry[c]
                        \/ \E k \in DOMAIN ready' : ready'[k].room = registry[c]
      BY <2>1 DEF Occupied, Members
    <3>1. CASE registry[c] = room
      BY <3>1, <2>2
    <3>2. CASE registry[c] # room
      <4>1. \/ \E q \in inside : where[q] = registry[c]
            \/ \E k \in DOMAIN ready : ready[k].room = registry[c] /\ k # 1
        BY <3>2, <1>1 DEF Occupied, Members, room
      <4> QED
        BY <4>1, <1>3
    <3> QED
      BY <3>1, <3>2
  <2>7. OneSessionPerAccount' /\ NoStaleOccupant'
    BY <2>1, <1>2 DEF RoomInv, OneSessionPerAccount, NoStaleOccupant, UserOf, CodeOf, Registered
  <2> QED
    BY <2>4, <2>5, <2>6, <2>7 DEF RoomInv
<1>12. CASE Enter(r, room)
  <2> DEFINE at == [where EXCEPT ![r] = room]
             gone == Previous(r, room) \cup SameAccount(r)
             left == (inside \ gone) \cup {r}
             added == {<<CodeOf(room), UserOf(r)>>}
  <2>1. /\ session' = [session EXCEPT ![SocketOf[r]] = r]
        /\ conn' = Hung(gone)
        /\ sock' = [sock EXCEPT ![r] = SocketOf[r]]
        /\ where' = at
        /\ Removed(gone, left, at, gone, added)
        /\ orphans' = orphans
    BY <1>12 DEF Enter
  <2>2. /\ at \in [Join -> Join \cup {None}]
        /\ at[r] = room
        /\ \A p \in Join : p # r => at[p] = where[p]
        /\ \A p \in inside : p \in Join /\ p # r /\ at[p] = where[p]
        /\ SocketOf[r] \in Socket
    BY <1>1, <1>4, <1>5, SfuAssumption DEF TypeOK
  <2>3. gone \subseteq inside
    BY DEF Previous, Members, SameAccount
  <2>4. /\ CodeOf(room) \in Code
        /\ UserOf(r) \in User
    BY <1>1, <1>4, <1>5 DEF TypeOK, Request, CodeOf, UserOf
  <2> HIDE DEF at, gone, left, added
  <2>5. /\ inside' = left
        /\ registry' \in [Code -> Join \cup {None}]
        /\ \A c \in Code : registry'[c] # None =>
             /\ registry'[c] = registry[c]
             /\ \A p \in gone : at[p] = registry[c] => \E q \in left : at[q] = registry[c]
        /\ timers' \subseteq timers
        /\ \A x \in told' : x \in added \/
             /\ x \in told
             /\ \A p \in gone : x = <<CodeOf(at[p]), UserOf(p)>> =>
                  \E q \in left : at[q] = at[p] /\ UserOf(q) = UserOf(p)
    <3>1. registry \in [Code -> Join \cup {None}]
      BY <1>1 DEF TypeOK
    <3> QED
      BY <2>1, <3>1, RemovedFacts
  <2>6. conn' \in [Socket -> Conn]
    BY <2>1, <1>1, HungType DEF TypeOK
  <2>7. TypeOK'
    <3>1. inside' \subseteq Join
      BY <2>5, <1>1, <1>4 DEF TypeOK, left
    <3>2. told' \subseteq Code \X User
      BY <2>4, <2>5, <1>1 DEF TypeOK, added
    <3>3. where' \in [Join -> Join \cup {None}]
      BY <2>1, <2>2
    <3>4. /\ session' \in [Socket -> Join \cup {None}]
          /\ sock' \in [Join -> Socket \cup {None}]
      BY <2>1, <2>2, <1>1, <1>4 DEF TypeOK
    <3> QED
      BY <2>1, <2>5, <2>6, <3>1, <3>2, <3>3, <3>4, <1>1, <1>2, <1>3 DEF TypeOK
  <2>8. Known'
    <3>1. \A p \in Join : where'[p] # None => req[p] # None /\ req[where'[p]] # None
      BY <2>1, <2>2, <1>1, <1>5 DEF Known
    <3>2. \A p \in inside' \cup orphans' : where'[p] # None
      <4>1. \A p \in orphans : p \in Join /\ p # r
        BY <1>1, <1>5 DEF TypeOK
      <4>2. room # None
        BY <1>1, <1>4
      <4> QED
        BY <2>1, <2>2, <2>5, <4>1, <4>2, <1>1 DEF Known, left
    <3>3. \A c \in Code : registry'[c] # None => req[registry'[c]] # None
      BY <2>5, <1>1 DEF Known
    <3> QED
      BY <3>1, <3>2, <3>3, <1>2 DEF Known
  <2>9. Queued'
    <3>1. \A k \in DOMAIN ready' : where'[ready'[k].join] = None
      <4>1. \A k \in DOMAIN ready' : ready'[k].join \in Join
        <5> SUFFICES ASSUME NEW k \in DOMAIN ready' PROVE ready'[k].join \in Join
          OBVIOUS
        <5>1. ready'[k] \in Continuation
          BY <1>3, ElementOfSeq, LenProperties
        <5> QED
          BY <5>1 DEF Continuation
      <4> QED
        BY <4>1, <2>1, <2>2, <1>1, <1>3, <1>7 DEF Queued
    <3>2. \A c \in Code : \A k \in DOMAIN creating[c] : where'[creating[c][k]] = None
      <4>1. \A c \in Code : \A k \in DOMAIN creating[c] : creating[c][k] \in Join
        BY <1>1, WaitersSeq DEF TypeOK
      <4> QED
        BY <4>1, <2>1, <2>2, <1>1, <1>7 DEF Queued
    <3> QED
      BY <3>1, <3>2, <1>1, <1>2, <1>3 DEF Queued
  <2>10. Unfounded'
    <3>1. \A c \in Code : \A k \in DOMAIN creating[c] : \A p \in Join : where'[p] # creating[c][k]
      BY <2>1, <2>2, <1>1, <1>7 DEF Unfounded
    <3>2. \A c \in Code : \A k \in DOMAIN creating[c] : creating[c][k] \in Join
      BY <1>1, WaitersSeq DEF TypeOK
    <3>3. \A c \in Code : \A k \in DOMAIN creating[c] : \A d \in Code : registry'[d] # creating[c][k]
      BY <2>5, <3>2, <1>1 DEF Unfounded
    <3> QED
      BY <3>1, <3>3, <1>1, <1>2, <1>3 DEF Unfounded
  <2>11. Occupied'
    <3> SUFFICES ASSUME NEW c \in Code, registry'[c] # None
                 PROVE  \/ \E q \in left : at[q] = registry[c]
                        \/ \E k \in DOMAIN ready' : ready'[k].room = registry[c]
      BY <2>1, <2>5 DEF Occupied, Members
    <3>1. CASE registry[c] = room
      BY <3>1, <2>2 DEF left
    <3>2. CASE registry[c] # room
      <4>1. \/ \E p \in inside : where[p] = registry[c]
            \/ \E k \in DOMAIN ready : ready[k].room = registry[c] /\ k # 1
        BY <3>2, <2>5, <1>1 DEF Occupied, Members, room
      <4>2. ASSUME NEW p \in inside, where[p] = registry[c]
            PROVE  \E q \in left : at[q] = registry[c]
        <5>1. CASE p \in gone
          BY <5>1, <4>2, <2>2, <2>5
        <5>2. CASE p \notin gone
          BY <5>2, <4>2, <2>2 DEF left
        <5> QED
          BY <5>1, <5>2
      <4> QED
        BY <4>1, <4>2, <1>3
    <3> QED
      BY <3>1, <3>2
  <2>12. OneSessionPerAccount'
    <3>1. Registered' \subseteq Registered
      BY <2>5 DEF Registered
    <3> SUFFICES ASSUME NEW p \in left, NEW q \in left,
                        at[p] \in Registered, at[q] \in Registered,
                        UserOf(p) = UserOf(q), UserOf(p) \notin Guest
                 PROVE  p = q
      BY <3>1, <2>1, <2>5, <1>2 DEF OneSessionPerAccount, UserOf
    <3>2. ASSUME NEW x \in left, x # r, at[x] \in Registered, UserOf(x) = UserOf(r),
                 UserOf(r) \notin Guest
          PROVE  FALSE
      <4>1. x \in inside /\ x \notin gone /\ where[x] \in Registered
        BY <3>2, <2>2 DEF left
      <4>2. x \in SameAccount(r)
        BY <4>1, <3>2 DEF SameAccount
      <4> QED
        BY <4>1, <4>2 DEF gone
    <3>3. CASE p = r \/ q = r
      BY <3>2, <3>3
    <3>4. CASE p # r /\ q # r
      <4>1. p \in inside /\ q \in inside /\ at[p] = where[p] /\ at[q] = where[q]
        BY <3>4, <2>2 DEF left
      <4> QED
        BY <4>1 DEF RoomInv, OneSessionPerAccount
    <3> QED
      BY <3>3, <3>4
  <2>13. NoStaleOccupant'
    <3> SUFFICES ASSUME NEW x \in told'
                 PROVE  \E p \in left : x = <<CodeOf(at[p]), UserOf(p)>>
      BY <2>1, <2>5, <1>2 DEF NoStaleOccupant, CodeOf, UserOf
    <3>1. CASE x \in added
      BY <3>1, <2>2 DEF added, left
    <3>2. CASE x \notin added
      <4>1. /\ x \in told
            /\ \A p \in gone : x = <<CodeOf(at[p]), UserOf(p)>> =>
                 \E q \in left : at[q] = at[p] /\ UserOf(q) = UserOf(p)
        BY <3>2, <2>5
      <4>2. PICK p \in inside : x = <<CodeOf(where[p]), UserOf(p)>>
        BY <4>1 DEF RoomInv, NoStaleOccupant
      <4>3. x = <<CodeOf(at[p]), UserOf(p)>>
        BY <4>2, <2>2
      <4>4. CASE p \in gone
        <5>1. PICK q \in left : at[q] = at[p] /\ UserOf(q) = UserOf(p)
          BY <4>1, <4>3, <4>4
        <5> QED
          BY <4>3, <5>1
      <4>5. CASE p \notin gone
        BY <4>3, <4>5 DEF left
      <4> QED
        BY <4>4, <4>5
    <3> QED
      BY <3>1, <3>2
  <2> QED
    BY <2>7, <2>8, <2>9, <2>10, <2>11, <2>12, <2>13 DEF RoomInv
<1> QED
  BY <1>6, <1>10, <1>11, <1>12

LEMMA NextRoomInv == RoomInv /\ [Next]_vars => RoomInv'
<1> SUFFICES ASSUME RoomInv, [Next]_vars PROVE RoomInv'
  OBVIOUS
<1>1. TypeOK /\ conn \in [Socket -> Conn] /\ session \in [Socket -> Join \cup {None}]
  BY DEF RoomInv, TypeOK
<1>2. CASE Continue
  BY <1>2, ContinueRoomInv
<1>3. ASSUME ready = <<>>, NEW s \in Socket, Connect(s) \/ SocketCloses(s)
      PROVE  RoomInv'
  <2>1. /\ UNCHANGED <<session, req, registry, creating, ready, where, inside, sock, orphans, timers, told>>
        /\ conn' \in [Socket -> Conn]
    BY <1>1, <1>3 DEF Connect, SocketCloses, rooms, Conn
  <2> QED
    BY <2>1, SocketRoomInv DEF RoomInv, TypeOK
<1>4. ASSUME ready = <<>>, NEW s \in Socket, SocketClosed(s)
      PROVE  RoomInv'
  <2>1. /\ UNCHANGED <<session, req, registry, creating, ready, where, inside, sock, told>>
        /\ conn' \in [Socket -> Conn]
        /\ orphans' \subseteq orphans \cup inside
        /\ timers' \subseteq timers \cup inside
    BY <1>1, <1>4 DEF SocketClosed, Timed, rooms, Conn
  <2> QED
    BY <2>1, SocketRoomInv DEF RoomInv, TypeOK
<1>5. ASSUME ready = <<>>, NEW s \in Socket, Leave(s)
      PROVE  RoomInv'
  <2>1. session' \in [Socket -> Join \cup {None}]
    BY <1>1, <1>5 DEF Leave
  <2> QED
    BY <2>1, <1>1, <1>5, RemovalRoomInv DEF Leave
<1>6. ASSUME ready = <<>>, NEW s \in Socket, NEW p \in Join, RemoveOrphan(s, p)
      PROVE  RoomInv'
  BY <1>1, <1>6, RemovalRoomInv DEF RemoveOrphan, sockets
<1>7. ASSUME ready = <<>>, NEW r \in Join, Ask(r)
      PROVE  RoomInv'
  BY <1>7, AskRoomInv
<1>8. ASSUME ready = <<>>, NEW p \in Join, GraceEnds(p)
      PROVE  RoomInv'
  BY <1>1, <1>8, RemovalRoomInv DEF GraceEnds, sockets
<1>9. ASSUME ready = <<>>, NEW c \in Code, RouterReady(c) \/ RouterFails(c)
      PROVE  RoomInv'
  BY <1>9, RouterReadyRoomInv, RouterFailsRoomInv
<1>10. ASSUME ready = <<>>, NEW codes \in SUBSET Code, NEW user \in User, KickUser(codes, user)
       PROVE  RoomInv'
  <2> DEFINE gone == {p \in inside : where[p] \in {registry[c] : c \in codes} /\ UserOf(p) = user}
  <2>1. /\ conn' = Hung(gone)
        /\ Removed(gone, inside \ gone, where, {}, {})
        /\ UNCHANGED <<session, req, creating, ready, where, sock, orphans>>
    BY <1>10 DEF KickUser
  <2>2. gone \in SUBSET inside
    OBVIOUS
  <2> HIDE DEF gone
  <2>3. conn' \in [Socket -> Conn]
    BY <2>1, <1>1, HungType
  <2> QED
    BY <2>1, <2>2, <2>3, <1>1, RemovalRoomInv
<1>11. ASSUME ready = <<>>, NEW lost \in SUBSET Join, WorkerDies(lost)
       PROVE  RoomInv'
  <2>1. conn' \in [Socket -> Conn]
    BY <1>1, <1>11, HungType DEF WorkerDies
  <2> QED
    BY <2>1, <1>1, <1>11, RemovalRoomInv DEF WorkerDies
<1>12. CASE UNCHANGED vars
  <2>1. UNCHANGED <<conn, session, req, registry, creating, ready, where, inside,
                    sock, orphans, timers, told>>
    BY <1>12 DEF vars
  <2> QED
    BY <2>1, SocketRoomInv DEF RoomInv, TypeOK
<1> QED
  BY <1>2, <1>3, <1>4, <1>5, <1>6, <1>7, <1>8, <1>9, <1>10, <1>11, <1>12 DEF Next

(* The registry, its queues and its peers always fit together. *)
THEOREM RoomInvariant == Spec => []RoomInv
BY InitRoomInv, NextRoomInv, PTL DEF Spec

(* The types hold, and no room is created while its code is registered. *)
THEOREM TypeCorrect == Spec => []TypeOK
<1>1. RoomInv => TypeOK
  BY DEF RoomInv
<1> QED
  BY <1>1, RoomInvariant, PTL

(* An account has one session in the registered rooms. *)
THEOREM OneSession == Spec => []OneSessionPerAccount
<1>1. RoomInv => OneSessionPerAccount
  BY DEF RoomInv
<1> QED
  BY <1>1, RoomInvariant, PTL

(* A registered room is empty only until the joins that wait have gone on. *)
THEOREM NoEmptyRoom == Spec => []EmptyRoomIsClosed
<1>1. RoomInv => EmptyRoomIsClosed
  BY EmptySeq DEF RoomInv, Occupied, EmptyRoomIsClosed
<1> QED
  BY <1>1, RoomInvariant, PTL

(* Laravel never believes someone to be in a room who has left it. *)
THEOREM WebhooksFollow == Spec => []NoStaleOccupant
<1>1. RoomInv => NoStaleOccupant
  BY DEF RoomInv
<1> QED
  BY <1>1, RoomInvariant, PTL

-----------------------------------------------------------------------------
(* Clients that wait for their answer: every peer can leave *)

PatientInv == Answered /\ EveryPeerCanLeave

Alive(state) == state \in {"open", "closing"}

(* A socket that is not closed is not closed when it is hung up. *)
LEMMA HungAlive ==
  ASSUME NEW gone, NEW s \in Socket, Alive(conn[s])
  PROVE  Alive(Hung(gone)[s])
BY DEF Alive, Hung

LEMMA InitPatient == Init => PatientInv
<1>1. Init => DOMAIN ready = {} /\ \A c \in Code : DOMAIN creating[c] = {}
  BY EmptySeq DEF Init
<1> QED
  BY <1>1 DEF Init, PatientInv, Answered, EveryPeerCanLeave

(* Every way out of a room. *)
LEMMA RemovalPatient ==
  ASSUME RoomInv, PatientInv, NEW gone \in SUBSET inside, NEW cancelled,
         Removed(gone, inside \ gone, where, cancelled, {}),
         UNCHANGED <<req, creating, ready, where, sock, orphans>>,
         \A p \in (inside \ gone) \cap orphans : p \notin cancelled,
         \A p \in (inside \ gone) \ orphans : session'[sock[p]] = session[sock[p]],
         \A s \in Socket : session[s] = None => session'[s] = None,
         \A s \in Socket : Alive(conn[s]) => Alive(conn'[s])
  PROVE  PatientInv'
<1>1. /\ registry \in [Code -> Join \cup {None}]
      /\ SocketOf \in [Join -> Socket]
      /\ ready \in Seq(Continuation)
      /\ creating \in [Code -> Seq(Join)]
      /\ sock \in [Join -> Socket \cup {None}]
      /\ inside \subseteq Join
  BY SfuAssumption DEF RoomInv, TypeOK
<1>2. /\ inside' = inside \ gone
      /\ \A p \in inside \ gone : p \in timers /\ p \notin cancelled => p \in timers'
  BY <1>1, RemovedFacts
<1>3. Answered'
  <2>1. \A k \in DOMAIN ready : SocketOf[ready[k].join] \in Socket
    <3>1. \A k \in DOMAIN ready : ready[k] \in Continuation
      BY <1>1, ElementOfSeq, LenProperties
    <3> QED
      BY <3>1, <1>1 DEF Continuation
  <2>2. \A c \in Code : \A k \in DOMAIN creating[c] : SocketOf[creating[c][k]] \in Socket
    BY <1>1, WaitersSeq
  <2> QED
    BY <2>1, <2>2 DEF PatientInv, Answered
<1>4. EveryPeerCanLeave'
  <2> SUFFICES ASSUME NEW p \in inside \ gone
               PROVE  IF p \in orphans THEN p \in timers'
                      ELSE /\ sock[p] # None
                           /\ Alive(conn'[sock[p]])
                           /\ session'[sock[p]] = p
    BY <1>2 DEF EveryPeerCanLeave, Alive
  <2>1. IF p \in orphans THEN p \in timers
        ELSE sock[p] # None /\ Alive(conn[sock[p]]) /\ session[sock[p]] = p
    BY DEF PatientInv, EveryPeerCanLeave, Alive
  <2> QED
    BY <2>1, <1>1, <1>2
<1> QED
  BY <1>3, <1>4 DEF PatientInv

(* The requests in the queues are requests, and their sockets are sockets. *)
LEMMA QueueType ==
  ASSUME TypeOK
  PROVE  /\ \A k \in DOMAIN ready : ready[k].join \in Join /\ SocketOf[ready[k].join] \in Socket
         /\ \A c \in Code : \A k \in DOMAIN creating[c] :
              creating[c][k] \in Join /\ SocketOf[creating[c][k]] \in Socket
<1>1. SocketOf \in [Join -> Socket] /\ ready \in Seq(Continuation) /\ creating \in [Code -> Seq(Join)]
  BY SfuAssumption DEF TypeOK
<1>2. \A k \in DOMAIN ready : ready[k] \in Continuation
  BY <1>1, ElementOfSeq, LenProperties
<1>3. \A c \in Code : \A k \in DOMAIN creating[c] : creating[c][k] \in Join
  BY <1>1, WaitersSeq
<1> QED
  BY <1>1, <1>2, <1>3 DEF Continuation

(* A request is added for a socket that has none that waits, and no peer. *)
LEMMA AskPatient ==
  ASSUME RoomInv, PatientInv, ~Impatient, NEW r \in Join, Ask(r), ready = <<>>
  PROVE  PatientInv'
<1> DEFINE s == SocketOf[r]
<1>1. /\ session[s] = None
      /\ \A q \in Join : SocketOf[q] = s => ~Waiting(q)
      /\ UNCHANGED <<conn, session, registry, where, inside, sock, orphans, timers, told>>
  BY DEF Ask, sockets
<1>2. PICK code \in Code :
        \/ ready' = <<[join |-> r, room |-> registry[code]]>> /\ creating' = creating
        \/ creating' = [creating EXCEPT ![code] = Append(@, r)] /\ ready' = ready
  BY DEF Ask
<1>3. DOMAIN ready = {}
  BY EmptySeq
<1>4. TypeOK
  BY DEF RoomInv
<1>5. \A c \in Code : \A k \in DOMAIN creating[c] :
         creating[c][k] \in Join /\ SocketOf[creating[c][k]] # s
  BY <1>1, <1>4, QueueType DEF Waiting
<1>6. EveryPeerCanLeave'
  BY <1>1 DEF PatientInv, EveryPeerCanLeave
<1>7. CASE ready' = <<[join |-> r, room |-> registry[code]]>> /\ creating' = creating
  <2>1. /\ DOMAIN ready' = {1}
        /\ ready'[1].join = r
    BY <1>7
  <2>2. Answered'
    BY <2>1, <1>1, <1>5, <1>7 DEF PatientInv, Answered
  <2> QED
    BY <2>2, <1>6 DEF PatientInv
<1>8. CASE creating' = [creating EXCEPT ![code] = Append(@, r)] /\ ready' = ready
  <2> DEFINE q == creating[code]
             n == Len(q) + 1
  <2>1. /\ DOMAIN q = 1..Len(q)
        /\ Len(q) \in Nat
        /\ DOMAIN Append(q, r) = 1..n
        /\ \A k \in DOMAIN q : Append(q, r)[k] = q[k]
        /\ Append(q, r)[n] = r
    <3>1. q \in Seq(Join)
      BY <1>4 DEF TypeOK
    <3> QED
      BY <3>1, WaitersSeq
  <2>2. /\ creating'[code] = Append(q, r)
        /\ \A c \in Code : c # code => creating'[c] = creating[c]
    BY <1>4, <1>8 DEF TypeOK
  <2>3. \A c \in Code : \A k \in DOMAIN creating'[c] :
          \/ k \in DOMAIN creating[c] /\ creating'[c][k] = creating[c][k]
          \/ c = code /\ k = n /\ creating'[c][k] = r
    <3> SUFFICES ASSUME NEW c \in Code, NEW k \in DOMAIN creating'[c]
                 PROVE  \/ k \in DOMAIN creating[c] /\ creating'[c][k] = creating[c][k]
                        \/ c = code /\ k = n /\ creating'[c][k] = r
      OBVIOUS
    <3>1. CASE c = code
      <4>1. k \in 1..Len(q) \/ k = Len(q) + 1
        BY <3>1, <2>1, <2>2
      <4> QED
        BY <4>1, <3>1, <2>1, <2>2
    <3>2. CASE c # code
      BY <3>2, <2>2
    <3> QED
      BY <3>1, <3>2
  <2> HIDE DEF n, q
  <2>4. Answered'
    BY <2>3, <1>1, <1>3, <1>5, <1>8 DEF PatientInv, Answered
  <2> QED
    BY <2>4, <1>6 DEF PatientInv
<1> QED
  BY <1>2, <1>7, <1>8

LEMMA RouterPatient ==
  ASSUME RoomInv, PatientInv, NEW c \in Code, ready = <<>>, RouterReady(c) \/ RouterFails(c)
  PROVE  PatientInv'
<1>1. /\ creating' = [creating EXCEPT ![c] = <<>>]
      /\ UNCHANGED <<conn, session, inside, sock, orphans, timers>>
  BY DEF RouterReady, RouterFails, Forgotten, sockets
<1>2. /\ \A d \in Code : d # c => creating'[d] = creating[d]
      /\ DOMAIN creating'[c] = {}
      /\ DOMAIN ready = {}
  BY <1>1, EmptySeq DEF RoomInv, TypeOK
<1>3. \/ ready' = ready
      \/ /\ DOMAIN ready' = DOMAIN creating[c]
         /\ \A k \in DOMAIN creating[c] : ready'[k].join = creating[c][k]
  BY DEF RouterReady, RouterFails
<1>4. Answered'
  BY <1>1, <1>2, <1>3 DEF PatientInv, Answered
<1>5. EveryPeerCanLeave'
  BY <1>1 DEF PatientInv, EveryPeerCanLeave
<1> QED
  BY <1>4, <1>5 DEF PatientInv

(* A socket opens, closes, or is closed: its peer's grace period starts. *)
LEMMA SocketPatient ==
  ASSUME RoomInv, PatientInv, NEW s \in Socket,
         Connect(s) \/ SocketCloses(s) \/ SocketClosed(s)
  PROVE  PatientInv'
<1> DEFINE dropped == {p \in inside : p = session[s] /\ sock[p] = s}
<1>1. /\ UNCHANGED <<session, creating, ready, inside, sock>>
      /\ \A t \in Socket : t # s => conn'[t] = conn[t]
      /\ \/ Alive(conn'[s]) /\ UNCHANGED <<orphans, timers>>
         \/ orphans' = orphans \cup dropped /\ timers' = timers \cup dropped
  BY DEF Connect, SocketCloses, SocketClosed, Timed, rooms, Alive, RoomInv, TypeOK
<1>2. Answered'
  BY <1>1 DEF PatientInv, Answered
<1>3. EveryPeerCanLeave'
  <2> SUFFICES ASSUME NEW p \in inside
               PROVE  IF p \in orphans' THEN p \in timers'
                      ELSE sock[p] # None /\ Alive(conn'[sock[p]]) /\ session[sock[p]] = p
    BY <1>1 DEF EveryPeerCanLeave, Alive
  <2>1. IF p \in orphans THEN p \in timers
        ELSE sock[p] # None /\ Alive(conn[sock[p]]) /\ session[sock[p]] = p
    BY DEF PatientInv, EveryPeerCanLeave, Alive
  <2>2. sock[p] \in Socket \cup {None}
    BY DEF RoomInv, TypeOK
  <2>3. CASE p \in orphans
    BY <2>1, <2>3, <1>1
  <2>4. CASE p \notin orphans /\ sock[p] # s
    BY <2>1, <2>2, <2>4, <1>1
  <2>5. CASE p \notin orphans /\ sock[p] = s
    BY <2>1, <2>5, <1>1
  <2> QED
    BY <2>3, <2>4, <2>5
<1> QED
  BY <1>2, <1>3 DEF PatientInv

(* A join goes on: only its own socket gets a peer. *)
LEMMA ContinuePatient ==
  ASSUME RoomInv, PatientInv, Continue
  PROVE  PatientInv'
<1> DEFINE r == ready[1].join
           room == ready[1].room
           s == SocketOf[r]
<1>1. TypeOK /\ Known /\ Queued
  BY DEF RoomInv
<1>2. /\ ready \in Seq(Continuation)
      /\ ready # <<>>
      /\ ready' = Tail(ready)
      /\ creating' = creating
  BY <1>1 DEF Continue, TypeOK
<1>3. /\ 1 \in DOMAIN ready
      /\ Head(ready) = ready[1]
      /\ \A k \in DOMAIN ready' : /\ k + 1 \in DOMAIN ready
                                  /\ k + 1 # 1
                                  /\ ready'[k] = ready[k + 1]
      /\ \A k, l \in DOMAIN ready' : k # l => k + 1 # l + 1
  BY <1>2, TailOfReady
<1>4. r \in Join /\ s \in Socket /\ session[s] = None /\ where[r] = None /\ r \notin orphans
  BY <1>1, <1>3, QueueType DEF PatientInv, Answered, Queued, Known
<1>5. /\ \A k \in DOMAIN ready' : /\ SocketOf[ready'[k].join] # s
                                  /\ session[SocketOf[ready'[k].join]] = None
                                  /\ SocketOf[ready'[k].join] \in Socket
      /\ \A c \in Code : \A k \in DOMAIN creating[c] : /\ SocketOf[creating[c][k]] # s
                                                       /\ SocketOf[creating[c][k]] \in Socket
  BY <1>1, <1>3, QueueType DEF PatientInv, Answered
<1>6. \/ Refuse(r, room)
      \/ Alive(conn[s]) /\ (Resume(r, room) \/ Enter(r, room))
  BY <1>3 DEF Continue, MayEnter, Alive
<1> HIDE DEF r, room, s
<1>7. ASSUME \A t \in Socket : t # s => session'[t] = session[t]
      PROVE  Answered'
  BY <1>2, <1>3, <1>5, <1>7 DEF PatientInv, Answered
<1>8. \A p \in inside : /\ p \in Join
                        /\ sock[p] \in Socket \cup {None}
                        /\ IF p \in orphans THEN p \in timers
                           ELSE sock[p] # None /\ Alive(conn[sock[p]]) /\ session[sock[p]] = p
                        /\ p \notin orphans => sock[p] # s
  <2>1. None \notin Join
    BY SfuAssumption
  <2> QED
    BY <2>1, <1>1, <1>4 DEF PatientInv, EveryPeerCanLeave, Alive, TypeOK
<1>9. CASE Refuse(r, room)
  <2>1. UNCHANGED <<conn, session, inside, sock, orphans, timers>>
    BY <1>9 DEF Refuse, sockets
  <2> QED
    BY <2>1, <1>7 DEF PatientInv, EveryPeerCanLeave
<1>10. CASE Alive(conn[s]) /\ Resume(r, room)
  <2>1. PICK p \in Resumed(r, room) :
          /\ session' = [session EXCEPT ![s] = p]
          /\ conn' = Hung({p} \ orphans)
          /\ sock' = [sock EXCEPT ![p] = s]
          /\ orphans' = orphans \ {p}
          /\ timers' = timers \ {p}
          /\ inside' = inside
    BY <1>10 DEF Resume, s
  <2>2. p \in inside
    BY DEF Resumed, Previous, Members
  <2>3. /\ session'[s] = p
        /\ \A t \in Socket : t # s => session'[t] = session[t]
        /\ sock'[p] = s
        /\ \A q \in Join : q # p => sock'[q] = sock[q]
        /\ \A t \in Socket : Alive(conn[t]) => Alive(conn'[t])
    BY <2>1, <2>2, <1>1, <1>4, <1>8, HungAlive DEF TypeOK
  <2>4. EveryPeerCanLeave'
    <3> SUFFICES ASSUME NEW q \in inside
                 PROVE  IF q \in orphans' THEN q \in timers'
                        ELSE sock'[q] # None /\ Alive(conn'[sock'[q]]) /\ session'[sock'[q]] = q
      BY <2>1 DEF EveryPeerCanLeave, Alive
    <3>1. CASE q = p
      <4>1. s # None
        BY <1>4, SfuAssumption
      <4> QED
        BY <4>1, <3>1, <2>1, <2>3, <1>4, <1>10
    <3>2. CASE q # p
      BY <3>2, <2>1, <2>3, <1>8
    <3> QED
      BY <3>1, <3>2
  <2> QED
    BY <2>3, <2>4, <1>7 DEF PatientInv
<1>11. CASE Alive(conn[s]) /\ Enter(r, room)
  <2> DEFINE at == [where EXCEPT ![r] = room]
             gone == Previous(r, room) \cup SameAccount(r)
             left == (inside \ gone) \cup {r}
             added == {<<CodeOf(room), UserOf(r)>>}
  <2>1. /\ session' = [session EXCEPT ![s] = r]
        /\ conn' = Hung(gone)
        /\ sock' = [sock EXCEPT ![r] = s]
        /\ Removed(gone, left, at, gone, added)
        /\ orphans' = orphans
    BY <1>11 DEF Enter, s
  <2> HIDE DEF at, gone, left, added
  <2>2. /\ inside' = left
        /\ \A p \in left : p \in timers /\ p \notin gone => p \in timers'
    <3>1. registry \in [Code -> Join \cup {None}]
      BY <1>1 DEF TypeOK
    <3> QED
      BY <3>1, <2>1, RemovedFacts
  <2>3. /\ session'[s] = r
        /\ \A t \in Socket : t # s => session'[t] = session[t]
        /\ sock'[r] = s
        /\ \A q \in Join : q # r => sock'[q] = sock[q]
        /\ \A t \in Socket : Alive(conn[t]) => Alive(conn'[t])
    BY <2>1, <1>1, <1>4, HungAlive DEF TypeOK
  <2>4. EveryPeerCanLeave'
    <3> SUFFICES ASSUME NEW q \in left
                 PROVE  IF q \in orphans THEN q \in timers'
                        ELSE sock'[q] # None /\ Alive(conn'[sock'[q]]) /\ session'[sock'[q]] = q
      BY <2>1, <2>2 DEF EveryPeerCanLeave, Alive
    <3>1. CASE q = r
      BY <3>1, <2>3, <1>4, <1>11, SfuAssumption
    <3>2. CASE q # r
      <4>1. q \in inside /\ q \notin gone
        BY <3>2 DEF left
      <4> QED
        BY <4>1, <3>2, <2>2, <2>3, <1>8
    <3> QED
      BY <3>1, <3>2
  <2> QED
    BY <2>3, <2>4, <1>7 DEF PatientInv
<1> QED
  BY <1>6, <1>9, <1>10, <1>11

LEMMA NextPatient == ~Impatient /\ RoomInv /\ PatientInv /\ [Next]_vars => PatientInv'
<1> SUFFICES ASSUME ~Impatient, RoomInv, PatientInv, [Next]_vars PROVE PatientInv'
  OBVIOUS
<1>1. /\ conn \in [Socket -> Conn]
      /\ session \in [Socket -> Join \cup {None}]
      /\ sock \in [Join -> Socket \cup {None}]
      /\ inside \subseteq Join
  BY DEF RoomInv, TypeOK
<1>2. \A p \in inside \ orphans : sock[p] \in Socket /\ session[sock[p]] = p
  BY <1>1 DEF PatientInv, EveryPeerCanLeave
<1>3. CASE Continue
  BY <1>3, ContinuePatient
<1>4. ASSUME NEW s \in Socket, Connect(s) \/ SocketCloses(s) \/ SocketClosed(s)
      PROVE  PatientInv'
  BY <1>4, SocketPatient
<1>5. ASSUME NEW s \in Socket, Leave(s)
      PROVE  PatientInv'
  <2> DEFINE gone == {session[s]} \cap inside
  <2>1. /\ session' = [session EXCEPT ![s] = None]
        /\ Removed(gone, inside \ gone, where, {}, {})
        /\ UNCHANGED <<conn, req, creating, ready, where, sock, orphans>>
    BY <1>5 DEF Leave
  <2>2. \A p \in (inside \ gone) \ orphans : session'[sock[p]] = session[sock[p]]
    BY <2>1, <1>1, <1>2
  <2>3. \A t \in Socket : session[t] = None => session'[t] = None
    BY <2>1, <1>1
  <2>4. gone \in SUBSET inside
    OBVIOUS
  <2> HIDE DEF gone
  <2> QED
    BY <2>1, <2>2, <2>3, <2>4, RemovalPatient
<1>6. ASSUME NEW s \in Socket, NEW p \in Join, RemoveOrphan(s, p)
      PROVE  PatientInv'
  BY <1>6, RemovalPatient DEF RemoveOrphan, sockets
<1>7. ASSUME ready = <<>>, NEW r \in Join, Ask(r)
      PROVE  PatientInv'
  BY <1>7, AskPatient
<1>8. ASSUME NEW p \in Join, GraceEnds(p)
      PROVE  PatientInv'
  BY <1>8, RemovalPatient DEF GraceEnds, sockets
<1>9. ASSUME ready = <<>>, NEW c \in Code, RouterReady(c) \/ RouterFails(c)
      PROVE  PatientInv'
  BY <1>9, RouterPatient
<1>10. ASSUME NEW codes \in SUBSET Code, NEW user \in User, KickUser(codes, user)
       PROVE  PatientInv'
  <2> DEFINE gone == {p \in inside : where[p] \in {registry[c] : c \in codes} /\ UserOf(p) = user}
  <2>1. /\ conn' = Hung(gone)
        /\ Removed(gone, inside \ gone, where, {}, {})
        /\ UNCHANGED <<session, req, creating, ready, where, sock, orphans>>
    BY <1>10 DEF KickUser
  <2>2. gone \in SUBSET inside
    OBVIOUS
  <2> HIDE DEF gone
  <2>3. \A t \in Socket : Alive(conn[t]) => Alive(conn'[t])
    BY <2>1, HungAlive
  <2> QED
    BY <2>1, <2>2, <2>3, RemovalPatient
<1>11. ASSUME NEW lost \in SUBSET Join, WorkerDies(lost)
       PROVE  PatientInv'
  <2>1. \A t \in Socket : Alive(conn[t]) => Alive(conn'[t])
    BY <1>11, HungAlive DEF WorkerDies
  <2> QED
    BY <2>1, <1>11, RemovalPatient DEF WorkerDies
<1>12. CASE UNCHANGED vars
  BY <1>12 DEF vars, PatientInv, Answered, EveryPeerCanLeave
<1> QED
  BY <1>3, <1>4, <1>5, <1>6, <1>7, <1>8, <1>9, <1>10, <1>11, <1>12 DEF Next

(* When no client sends a join while its last one is unanswered, nobody is  *)
(* in a room whom no close event and no timer can take out of it.           *)
THEOREM NobodyStaysForEver ==
  ASSUME ~Impatient
  PROVE  Spec => []EveryPeerCanLeave
<1>1. PatientInv => EveryPeerCanLeave
  BY DEF PatientInv
<1>2. Init => RoomInv /\ PatientInv
  BY InitRoomInv, InitPatient
<1>3. RoomInv /\ PatientInv /\ [Next]_vars => (RoomInv /\ PatientInv)'
  BY NextRoomInv, NextPatient
<1> QED
  BY <1>1, <1>2, <1>3, PTL DEF Spec
=============================================================================
