----------------------------- MODULE SiteProofs -----------------------------
(***************************************************************************)
(* What the site keeps of an account.  A left that arrives late closes no   *)
(* newer access, however the webhooks are lost and reordered, and however   *)
(* many fall in one second.  A renewal is denied to who is still signed in  *)
(* only for a token that the app has not spent for an answer it had.        *)
(* And the parts that share no state, side by side: each is as it is alone. *)
(***************************************************************************)
EXTENDS MCParts, SfuMediaProofs, ClientProofs, EngineProofs, TLAPS

-----------------------------------------------------------------------------
(* The accesses *)

(* What the property needs of the types. *)
MirrorTypes ==
  /\ second \in Nat /\ posted \in Nat
  /\ posts \subseteq [n: Nat, event: {"joined", "left"}, at: Nat]
  /\ accesses \in Seq([joined: Nat, order: Nat, open: BOOLEAN])

(* Numbers are given, and seconds written, no further than now. *)
NothingFromAhead ==
  /\ \A w \in posts : w.n <= posted /\ w.at <= second
  /\ \A i \in DOMAIN accesses : accesses[i].order <= posted

(* Numbers and seconds agree, as far as seconds can tell. *)
PostsInTime == \A w, v \in posts : w.n <= v.n => w.at <= v.at

AccessesInTime ==
  \A w \in posts : \A i \in DOMAIN accesses :
    w.n <= accesses[i].order => w.at <= accesses[i].joined

MirrorInv == MirrorTypes /\ NothingFromAhead /\ PostsInTime /\ AccessesInTime

LEMMA MirrorInvInit == MirrorInit => MirrorInv
BY DEF MirrorInit, MirrorInv, MirrorTypes, NothingFromAhead, PostsInTime, AccessesInTime

(* A row that closes stays a row, of the same second and number. *)
LEMMA RowMayClose ==
  ASSUME NEW r \in [joined: Nat, order: Nat, open: BOOLEAN], NEW stays \in BOOLEAN
  PROVE  LET to == [r EXCEPT !.open = stays]
         IN  /\ to \in [joined: Nat, order: Nat, open: BOOLEAN]
             /\ to.joined = r.joined /\ to.order = r.order
             /\ to.open = stays
OBVIOUS

LEMMA RowsAreRows ==
  ASSUME MirrorTypes, NEW i \in DOMAIN accesses
  PROVE  /\ accesses[i] \in [joined: Nat, order: Nat, open: BOOLEAN]
         /\ accesses[i].joined \in Nat /\ accesses[i].order \in Nat
<1> DEFINE Row == [joined: Nat, order: Nat, open: BOOLEAN]
<1>1. accesses[i] \in Row
  <2> HIDE DEF Row
  <2>1. accesses \in Seq(Row)
    BY DEF MirrorTypes, Row
  <2> QED  BY <2>1
<1> QED  BY <1>1

(* A new webhook is the last, and says the latest second. *)
LEMMA PostKeeps ==
  ASSUME MirrorInv, NEW S \in SUBSET posts, NEW event \in {"joined", "left"}, Post(event, S),
         second' = second, accesses' = accesses
  PROVE  MirrorInv'
<1> DEFINE w == [n |-> posted + 1, event |-> event, at |-> second]
<1>1. posted' = posted + 1 /\ posts' = S \cup {w}
  BY DEF Post
<1>2. MirrorTypes'
  BY <1>1 DEF MirrorInv, MirrorTypes
<1>3. NothingFromAhead'
  <2>1. \A v \in posts' : v.n <= posted' /\ v.at <= second'
    BY <1>1 DEF MirrorInv, MirrorTypes, NothingFromAhead
  <2>2. \A i \in DOMAIN accesses : accesses[i].order <= posted'
    BY <1>1, RowsAreRows DEF MirrorInv, MirrorTypes, NothingFromAhead
  <2> QED  BY <2>1, <2>2 DEF NothingFromAhead
<1>4. PostsInTime'
  BY <1>1 DEF MirrorInv, MirrorTypes, NothingFromAhead, PostsInTime
<1>5. AccessesInTime'
  <2> SUFFICES ASSUME NEW v \in posts', NEW i \in DOMAIN accesses, v.n <= accesses[i].order
               PROVE  v.at <= accesses[i].joined
    BY DEF AccessesInTime
  <2>1. CASE v \in S
    BY <2>1 DEF MirrorInv, AccessesInTime
  <2>2. CASE v = w
    <3>1. accesses[i].order \in Nat
      BY RowsAreRows DEF MirrorInv
    <3> QED  BY <2>2, <3>1 DEF MirrorInv, MirrorTypes, NothingFromAhead
  <2> QED  BY <1>1, <2>1, <2>2
<1> QED  BY <1>2, <1>3, <1>4, <1>5 DEF MirrorInv

(* Fewer webhooks on their way. *)
LEMMA LostKeeps ==
  ASSUME MirrorInv, posts' \subseteq posts, posted' = posted, second' = second,
         accesses' = accesses
  PROVE  MirrorInv'
BY DEF MirrorInv, MirrorTypes, NothingFromAhead, PostsInTime, AccessesInTime

LEMMA RemovedKeeps ==
  ASSUME MirrorInv, NEW S \in SUBSET posts, Removed(S), second' = second, accesses' = accesses
  PROVE  MirrorInv'
BY PostKeeps, LostKeeps DEF Removed

(* open appends a row, and closes some. *)
LEMMA OpenedRows ==
  ASSUME MirrorTypes, NEW at \in Nat, NEW order \in Nat
  PROVE  /\ AccessOpened(at, order) \in Seq([joined: Nat, order: Nat, open: BOOLEAN])
         /\ \A i \in DOMAIN AccessOpened(at, order) :
              \/ /\ i \in DOMAIN accesses
                 /\ AccessOpened(at, order)[i].joined = accesses[i].joined
                 /\ AccessOpened(at, order)[i].order = accesses[i].order
              \/ /\ AccessOpened(at, order)[i].joined = at
                 /\ AccessOpened(at, order)[i].order = order
<1> DEFINE Row == [joined: Nat, order: Nat, open: BOOLEAN]
           rows == [i \in DOMAIN accesses |->
                      [accesses[i] EXCEPT !.open = @ /\ ~Displaced(i, at)]]
           row == [joined |-> at, order |-> order, open |-> TRUE]
<1>1. accesses \in Seq(Row) /\ DOMAIN accesses = 1..Len(accesses) /\ Len(accesses) \in Nat
  BY DEF MirrorTypes
<1>2. \A i \in DOMAIN accesses :
        rows[i] \in Row /\ rows[i].joined = accesses[i].joined /\ rows[i].order = accesses[i].order
  <2> SUFFICES ASSUME NEW i \in DOMAIN accesses
               PROVE  /\ rows[i] \in Row
                      /\ rows[i].joined = accesses[i].joined
                      /\ rows[i].order = accesses[i].order
    OBVIOUS
  <2> DEFINE stays == accesses[i].open /\ ~Displaced(i, at)
  <2>1. stays \in BOOLEAN
    OBVIOUS
  <2>2. rows[i] = [accesses[i] EXCEPT !.open = stays]
    OBVIOUS
  <2> HIDE DEF rows, stays
  <2> QED  BY <2>1, <2>2, RowsAreRows, RowMayClose
<1>3. rows \in Seq(Row) /\ Len(rows) = Len(accesses)
  <2> HIDE DEF Row
  <2>1. rows \in [1..Len(accesses) -> Row]
    BY <1>1, <1>2
  <2> HIDE DEF rows
  <2> QED  BY <1>1, <2>1
<1>4. row \in Row
  OBVIOUS
<1>5. AccessOpened(at, order) = Append(rows, row)
  BY DEF AccessOpened
<1> HIDE DEF rows, row
<1>6. /\ Append(rows, row) \in Seq(Row)
      /\ DOMAIN Append(rows, row) = 1..(Len(accesses) + 1)
      /\ \A i \in 1..Len(accesses) : Append(rows, row)[i] = rows[i]
      /\ Append(rows, row)[Len(accesses) + 1] = row
  <2> HIDE DEF Row
  <2> QED  BY <1>1, <1>3, <1>4
<1>7. row.joined = at /\ row.order = order
  BY DEF row
<1> QED  BY SMTT(40), <1>1, <1>2, <1>5, <1>6, <1>7

(* close only closes, and what it closes opened before. *)
LEMMA ClosedRows ==
  ASSUME MirrorTypes, NEW at \in Nat
  PROVE  /\ AccessClosed(at) \in Seq([joined: Nat, order: Nat, open: BOOLEAN])
         /\ DOMAIN AccessClosed(at) = DOMAIN accesses
         /\ \A i \in DOMAIN accesses :
              /\ AccessClosed(at)[i].joined = accesses[i].joined
              /\ AccessClosed(at)[i].order = accesses[i].order
              /\ AccessClosed(at)[i].open <=> accesses[i].open /\ ~(accesses[i].joined < at)
<1> DEFINE Row == [joined: Nat, order: Nat, open: BOOLEAN]
<1>1. accesses \in Seq(Row) /\ DOMAIN accesses = 1..Len(accesses) /\ Len(accesses) \in Nat
  BY DEF MirrorTypes
<1>2. DOMAIN AccessClosed(at) = DOMAIN accesses
  BY DEF AccessClosed
<1>3. \A i \in DOMAIN accesses :
        /\ AccessClosed(at)[i] \in Row
        /\ AccessClosed(at)[i].joined = accesses[i].joined
        /\ AccessClosed(at)[i].order = accesses[i].order
        /\ AccessClosed(at)[i].open <=> accesses[i].open /\ ~(accesses[i].joined < at)
  <2> SUFFICES ASSUME NEW i \in DOMAIN accesses
               PROVE  /\ AccessClosed(at)[i] \in Row
                      /\ AccessClosed(at)[i].joined = accesses[i].joined
                      /\ AccessClosed(at)[i].order = accesses[i].order
                      /\ AccessClosed(at)[i].open
                           <=> accesses[i].open /\ ~(accesses[i].joined < at)
    OBVIOUS
  <2> DEFINE stays == accesses[i].open /\ ~(accesses[i].joined < at)
             row == AccessClosed(at)[i]
  <2>1. stays \in BOOLEAN
    OBVIOUS
  <2>2. row = [accesses[i] EXCEPT !.open = stays]
    BY DEF AccessClosed, OpenedBefore
  <2> HIDE DEF row
  <2>3. /\ row \in Row
        /\ row.joined = accesses[i].joined /\ row.order = accesses[i].order
        /\ row.open = stays
    <3> HIDE DEF stays
    <3> QED  BY <2>1, <2>2, RowsAreRows, RowMayClose
  <2>4. row.open <=> accesses[i].open /\ ~(accesses[i].joined < at)
    <3> HIDE DEF row
    <3> QED  BY <2>3, Zenon
  <2> QED  BY <2>3, <2>4 DEF row
<1>4. AccessClosed(at) \in Seq(Row)
  <2> HIDE DEF Row
  <2>1. AccessClosed(at) \in [1..Len(accesses) -> Row]
    BY <1>1, <1>3 DEF AccessClosed
  <2> QED  BY <1>1, <2>1
<1> QED  BY <1>2, <1>3, <1>4

(* A row opened with its webhook's number and second, or with today's. *)
LEMMA OpenedKeeps ==
  ASSUME MirrorInv, NEW at \in Nat, NEW order \in Nat,
         at <= second, order <= posted,
         \A v \in posts : v.n <= order => v.at <= at,
         posts' \subseteq posts, posted' = posted, second' = second,
         accesses' = AccessOpened(at, order)
  PROVE  MirrorInv'
<1>1. MirrorTypes
  BY DEF MirrorInv
<1>2. MirrorTypes'
  BY <1>1, OpenedRows DEF MirrorTypes
<1>3. NothingFromAhead'
  BY ZenonT(40), <1>1, OpenedRows DEF MirrorInv, NothingFromAhead
<1>4. PostsInTime'
  BY DEF MirrorInv, PostsInTime
<1>5. AccessesInTime'
  <2> SUFFICES ASSUME NEW w \in posts, NEW i \in DOMAIN AccessOpened(at, order),
                      w.n <= AccessOpened(at, order)[i].order
               PROVE  w.at <= AccessOpened(at, order)[i].joined
    BY DEF AccessesInTime
  <2>1. CASE /\ i \in DOMAIN accesses
             /\ AccessOpened(at, order)[i].joined = accesses[i].joined
             /\ AccessOpened(at, order)[i].order = accesses[i].order
    BY <2>1 DEF MirrorInv, AccessesInTime
  <2>2. CASE /\ AccessOpened(at, order)[i].joined = at
             /\ AccessOpened(at, order)[i].order = order
    BY <2>2
  <2> QED
    <3>1. \A k \in DOMAIN AccessOpened(at, order) :
            \/ /\ k \in DOMAIN accesses
               /\ AccessOpened(at, order)[k].joined = accesses[k].joined
               /\ AccessOpened(at, order)[k].order = accesses[k].order
            \/ /\ AccessOpened(at, order)[k].joined = at
               /\ AccessOpened(at, order)[k].order = order
      BY <1>1, OpenedRows
    <3> QED  BY <2>1, <2>2, <3>1
<1> QED  BY <1>2, <1>3, <1>4, <1>5 DEF MirrorInv

LEMMA ClosedKeeps ==
  ASSUME MirrorInv, NEW at \in Nat, posts' \subseteq posts, posted' = posted, second' = second,
         accesses' = AccessClosed(at)
  PROVE  MirrorInv'
<1>1. MirrorTypes
  BY DEF MirrorInv
<1>2. MirrorTypes'
  BY <1>1, ClosedRows DEF MirrorTypes
<1>3. NothingFromAhead' /\ PostsInTime'
  BY <1>1, ClosedRows DEF MirrorInv, NothingFromAhead, PostsInTime
<1>4. AccessesInTime'
  BY <1>1, ClosedRows DEF MirrorInv, AccessesInTime
<1> QED  BY <1>2, <1>3, <1>4 DEF MirrorInv

LEMMA MirrorInvStep ==
  ASSUME MirrorInv, MirrorNext
  PROVE  MirrorInv'
<1>1. CASE SecondPasses
  BY <1>1 DEF SecondPasses, MirrorInv, MirrorTypes, NothingFromAhead, PostsInTime, AccessesInTime
<1>2. CASE SitsDown
  BY <1>2, PostKeeps DEF SitsDown
<1>3. CASE SitsUp
  BY <1>3, RemovedKeeps DEF SitsUp
<1>4. CASE PostLost
  BY <1>4, LostKeeps DEF PostLost
<1>5. CASE AsksToken
  BY <1>5, LostKeeps DEF AsksToken
<1>6. CASE TokenGiven
  <2>1. CASE token = "free"
    <3>1. second \in Nat /\ posted \in Nat
      BY DEF MirrorInv, MirrorTypes
    <3>2. \A v \in posts : v.at <= second
      BY DEF MirrorInv, NothingFromAhead
    <3> QED  BY <1>6, <2>1, <3>1, <3>2, OpenedKeeps DEF TokenGiven
  <2>2. CASE token /= "free"
    BY <1>6, <2>2, LostKeeps DEF TokenGiven
  <2> QED  BY <2>1, <2>2
<1>7. CASE MemberExpelled
  BY <1>7, RemovedKeeps DEF MemberExpelled
<1>8. ASSUME NEW w \in posts, PostArrives(w) PROVE MirrorInv'
  <2>1. w.n \in Nat /\ w.at \in Nat /\ w.n <= posted /\ w.at <= second
    BY DEF MirrorInv, MirrorTypes, NothingFromAhead
  <2>2. CASE w.event = "joined" /\ ~member
    BY <1>8, <2>2, RemovedKeeps DEF PostArrives
  <2>3. CASE w.event = "joined" /\ member
    <3>1. \A v \in posts : v.n <= w.n => v.at <= w.at
      BY DEF MirrorInv, PostsInTime
    <3> QED  BY <1>8, <2>1, <2>3, <3>1, OpenedKeeps DEF PostArrives
  <2>4. CASE w.event = "left"
    BY <1>8, <2>1, <2>4, ClosedKeeps DEF PostArrives
  <2> QED  BY <1>8, <2>2, <2>3, <2>4 DEF PostArrives
<1> QED  BY <1>1, <1>2, <1>3, <1>4, <1>5, <1>6, <1>7, <1>8 DEF MirrorNext

(* The invariant of Webhook.ts and SfuController.php: numbers and seconds of posts *)
(* and rows agree, as far as seconds can tell.                                    *)
THEOREM MirrorInvariant == MirrorSpec => []MirrorInv
<1>1. MirrorInv /\ UNCHANGED mirrorVars => MirrorInv'
  BY DEF mirrorVars, MirrorInv, MirrorTypes, NothingFromAhead, PostsInTime, AccessesInTime
<1>2. MirrorInv /\ [MirrorNext]_mirrorVars => MirrorInv'
  BY <1>1, MirrorInvStep
<1> QED  BY <1>2, MirrorInvInit, PTL DEF MirrorSpec

-----------------------------------------------------------------------------

LEMMA StepSpares ==
  ASSUME MirrorInv, MirrorNext, NEW w \in posts \ posts', w.event = "left",
         NEW i \in OpenAccesses, accesses[i].order >= w.n
  PROVE  accesses'[i].open
<1>1. accesses[i].open /\ i \in DOMAIN accesses
  BY DEF OpenAccesses
<1>2. CASE accesses' = accesses
  BY <1>1, <1>2
<1>3. ASSUME NEW v \in posts, PostArrives(v), accesses' /= accesses
      PROVE  accesses'[i].open
  <2>1. v = w
    BY <1>3 DEF PostArrives
  <2>2. accesses' = AccessClosed(w.at)
    BY <1>3, <2>1 DEF PostArrives
  <2>3. w.at \in Nat /\ w.n \in Nat
    BY DEF MirrorInv, MirrorTypes
  <2>4. accesses[i].order \in Nat /\ accesses[i].joined \in Nat
    BY <1>1, RowsAreRows DEF MirrorInv
  <2>5. w.at <= accesses[i].joined
    BY <1>1, <2>3, <2>4 DEF MirrorInv, AccessesInTime
  <2>6. AccessClosed(w.at)[i].open <=> accesses[i].open /\ ~(accesses[i].joined < w.at)
    BY <1>1, <2>3, ClosedRows DEF MirrorInv
  <2>7. ~(accesses[i].joined < w.at)
    BY <2>3, <2>4, <2>5
  <2>8. AccessClosed(w.at)[i].open
    BY <1>1, <2>6, <2>7, Zenon
  <2> QED  BY <2>2, <2>8, Zenon
<1>4. ASSUME TokenGiven PROVE FALSE
  BY <1>4 DEF TokenGiven
<1> QED
  BY <1>2, <1>3, <1>4
  DEF MirrorNext, SecondPasses, SitsDown, SitsUp, PostLost, AsksToken, MemberExpelled

(* No left closes an access that is newer than it. *)
THEOREM LateLeftSpares == MirrorSpec => LateLeftSparesNewer
<1>1. MirrorInv /\ [MirrorNext]_mirrorVars
        => [\A w \in posts \ posts' : w.event = "left" =>
              \A i \in OpenAccesses : accesses[i].order >= w.n => accesses'[i].open]_mirrorVars
  BY StepSpares
<1> QED  BY <1>1, MirrorInvariant, PTL DEF MirrorSpec, LateLeftSparesNewer

-----------------------------------------------------------------------------
(* The values of the accesses, of which one is open *)

(* open closes whatever is open and appends a row: one is open. *)
LEMMA OnlyTheLastIsOpen ==
  ASSUME MirrorTypes, MirrorTypeOK, NEW at \in Nat, NEW order \in Nat,
         NEW i \in DOMAIN AccessOpened(at, order), AccessOpened(at, order)[i].open
  PROVE  i = Len(accesses) + 1
<1> DEFINE rows == [j \in DOMAIN accesses |->
                      [accesses[j] EXCEPT !.open = @ /\ ~Displaced(j, at)]]
           row == [joined |-> at, order |-> order, open |-> TRUE]
<1>1. Len(accesses) \in Nat /\ DOMAIN accesses = 1..Len(accesses)
  BY DEF MirrorTypes
<1>2. AccessOpened(at, order) = Append(rows, row)
  BY DEF AccessOpened
<1>3. ASSUME NEW j \in DOMAIN accesses
      PROVE  ~rows[j].open
  <2> DEFINE stays == accesses[j].open /\ ~Displaced(j, at)
  <2>1. rows[j] = [accesses[j] EXCEPT !.open = stays]
    OBVIOUS
  <2>2. ~stays
    <3> SUFFICES ASSUME accesses[j].open PROVE Displaced(j, at)
      OBVIOUS
    <3>1. \A k \in OpenAccesses : k = j
      BY DEF OpenAccesses, MirrorTypeOK
    <3> QED  BY <1>1, <3>1 DEF Displaced, OpenAccesses
  <2>3. stays \in BOOLEAN
    OBVIOUS
  <2> HIDE DEF rows, stays
  <2>4. rows[j].open = stays
    BY <2>1, <2>3, RowsAreRows, RowMayClose
  <2> QED  BY <2>2, <2>4
<1>4. rows \in Seq([joined: Nat, order: Nat, open: BOOLEAN]) /\ Len(rows) = Len(accesses)
  <2> DEFINE Row == [joined: Nat, order: Nat, open: BOOLEAN]
  <2>1. ASSUME NEW j \in DOMAIN accesses PROVE rows[j] \in Row
    <3> DEFINE stays == accesses[j].open /\ ~Displaced(j, at)
    <3>1. stays \in BOOLEAN /\ rows[j] = [accesses[j] EXCEPT !.open = stays]
      OBVIOUS
    <3> HIDE DEF rows, stays
    <3> QED  BY <3>1, RowsAreRows, RowMayClose
  <2> HIDE DEF Row
  <2>2. rows \in [1..Len(accesses) -> Row]
    BY <1>1, <2>1
  <2> HIDE DEF rows
  <2>3. rows \in Seq(Row) /\ Len(rows) = Len(accesses)
    BY <1>1, <2>2
  <2> QED  BY <2>3 DEF Row
<1> HIDE DEF rows, row
<1>5. /\ DOMAIN Append(rows, row) = 1..(Len(accesses) + 1)
      /\ \A j \in 1..Len(accesses) : Append(rows, row)[j] = rows[j]
  <2> DEFINE Row == [joined: Nat, order: Nat, open: BOOLEAN]
  <2>1. rows \in Seq(Row)
    BY <1>4
  <2> HIDE DEF Row
  <2> QED  BY <1>1, <1>4, <2>1
<1>6. i \in 1..(Len(accesses) + 1)
  BY <1>2, <1>5
<1>7. i \notin 1..Len(accesses)
  BY <1>1, <1>2, <1>3, <1>5
<1> QED  BY <1>1, <1>6, <1>7

(* Each webhook has a number of its own. *)
PostsTypeOK ==
  /\ posted \in 0..MaxPosts /\ posts \subseteq Posting
  /\ \A w, v \in posts : w.n = v.n => w = v

AccessesTypeOK ==
  /\ \A i \in DOMAIN accesses : accesses[i].joined <= second /\ accesses[i].order <= posted
  /\ \A i, j \in OpenAccesses : i = j

LEMMA PostsTypesKept ==
  ASSUME MirrorInv, MirrorTypeOK, NEW S \in SUBSET posts, second' = second,
         \/ posts' = S /\ posted' = posted
         \/ \E event \in {"joined", "left"} : Post(event, S)
  PROVE  PostsTypeOK' /\ posted <= posted'
<1>1. posted \in 0..MaxPosts /\ second \in 0..MaxSecond /\ MaxPosts \in Nat /\ MaxSecond \in Nat
  BY MirrorAssumption DEF MirrorTypeOK
<1>2. CASE posts' = S /\ posted' = posted
  BY <1>1, <1>2 DEF MirrorTypeOK, PostsTypeOK
<1>3. ASSUME NEW event \in {"joined", "left"}, Post(event, S)
      PROVE  PostsTypeOK' /\ posted <= posted'
  <2> DEFINE w == [n |-> posted + 1, event |-> event, at |-> second]
  <2>1. posted' = posted + 1 /\ posts' = S \cup {w} /\ posted < MaxPosts
    BY <1>3 DEF Post
  <2>2. w \in Posting
    BY <1>1, <2>1 DEF Posting
  <2>3. \A v \in S : v.n /= w.n
    BY <1>1 DEF MirrorInv, MirrorTypes, NothingFromAhead
  <2>4. posts' \subseteq Posting
    BY <2>1, <2>2 DEF MirrorTypeOK
  <2>5. \A u, v \in posts' : u.n = v.n => u = v
    BY <2>1, <2>3 DEF MirrorTypeOK
  <2> QED  BY <1>1, <2>1, <2>4, <2>5 DEF PostsTypeOK
<1> QED  BY <1>2, <1>3

(* The rows are as they were, or one of them more, the only one open, or closed. *)
LEMMA AccessesTypesKept ==
  ASSUME MirrorInv, MirrorTypeOK, posted' \in Nat, posted <= posted',
         second' \in Nat, second <= second',
         \/ accesses' = accesses
         \/ \E at \in 0..second, order \in 0..posted : accesses' = AccessOpened(at, order)
         \/ \E at \in Nat : accesses' = AccessClosed(at)
  PROVE  AccessesTypeOK'
<1>1. MirrorTypes /\ posted \in Nat /\ second \in Nat
  BY DEF MirrorInv, MirrorTypes
<1>2. \A i \in DOMAIN accesses :
        /\ accesses[i].joined \in Nat /\ accesses[i].order \in Nat
        /\ accesses[i].joined <= second' /\ accesses[i].order <= posted'
  BY <1>1, RowsAreRows DEF MirrorTypeOK
<1>3. CASE accesses' = accesses
  BY <1>2, <1>3 DEF MirrorTypeOK, AccessesTypeOK, OpenAccesses
<1>4. ASSUME NEW at \in Nat, accesses' = AccessClosed(at)
      PROVE  AccessesTypeOK'
  <2>1. /\ DOMAIN accesses' = DOMAIN accesses
        /\ \A i \in DOMAIN accesses :
             /\ accesses'[i].joined = accesses[i].joined
             /\ accesses'[i].order = accesses[i].order
             /\ accesses'[i].open => accesses[i].open
    BY <1>1, <1>4, ClosedRows
  <2> QED  BY <1>2, <2>1 DEF MirrorTypeOK, AccessesTypeOK, OpenAccesses
<1>5. ASSUME NEW at \in 0..second, NEW order \in 0..posted, accesses' = AccessOpened(at, order)
      PROVE  AccessesTypeOK'
  <2>1. at \in Nat /\ order \in Nat /\ at <= second' /\ order <= posted'
    BY <1>1
  <2>2. \A i \in DOMAIN accesses' : accesses'[i].joined <= second' /\ accesses'[i].order <= posted'
    <3> SUFFICES ASSUME NEW i \in DOMAIN accesses'
                 PROVE  accesses'[i].joined <= second' /\ accesses'[i].order <= posted'
      OBVIOUS
    <3>0. \A k \in DOMAIN AccessOpened(at, order) :
            \/ /\ k \in DOMAIN accesses
               /\ AccessOpened(at, order)[k].joined = accesses[k].joined
               /\ AccessOpened(at, order)[k].order = accesses[k].order
            \/ /\ AccessOpened(at, order)[k].joined = at
               /\ AccessOpened(at, order)[k].order = order
      BY <1>1, <2>1, OpenedRows
    <3>1. \/ /\ i \in DOMAIN accesses
             /\ accesses'[i].joined = accesses[i].joined
             /\ accesses'[i].order = accesses[i].order
          \/ accesses'[i].joined = at /\ accesses'[i].order = order
      BY <1>5, <3>0, Zenon
    <3> QED  BY <1>2, <2>1, <3>1
  <2>3. \A i \in DOMAIN accesses' : accesses'[i].open => i = Len(accesses) + 1
    BY <1>1, <1>5, <2>1, OnlyTheLastIsOpen
  <2> QED  BY <2>2, <2>3 DEF AccessesTypeOK, OpenAccesses
<1> QED  BY <1>3, <1>4, <1>5

LEMMA MirrorTypesKept ==
  ASSUME MirrorInv, MirrorTypeOK, [MirrorNext]_mirrorVars
  PROVE  MirrorTypeOK'
<1>0. /\ posted \in 0..MaxPosts /\ second \in 0..MaxSecond
      /\ MaxPosts \in Nat /\ MaxSecond \in Nat
  BY MirrorAssumption DEF MirrorTypeOK
<1>1. ASSUME NEW S \in SUBSET posts, second' = second,
             \/ posts' = S /\ posted' = posted
             \/ \E event \in {"joined", "left"} : Post(event, S),
             \/ accesses' = accesses
             \/ \E at \in 0..second, order \in 0..posted : accesses' = AccessOpened(at, order)
             \/ \E at \in Nat : accesses' = AccessClosed(at),
             member' \in BOOLEAN, sits' \in BOOLEAN, shown' \in BOOLEAN,
             token' \in {"none", "seated", "free", "given"}
      PROVE  MirrorTypeOK'
  <2>1. PostsTypeOK' /\ posted <= posted'
    BY <1>1, PostsTypesKept
  <2>2. posted' \in Nat /\ second' \in Nat /\ second <= second'
    BY <1>0, <1>1, <2>1 DEF PostsTypeOK
  <2>3. AccessesTypeOK'
    BY <1>1, <2>1, <2>2, AccessesTypesKept
  <2> QED  BY <1>0, <1>1, <2>1, <2>3 DEF PostsTypeOK, AccessesTypeOK, MirrorTypeOK
<1>2. posts \in SUBSET posts /\ "joined" \in {"joined", "left"} /\ "left" \in {"joined", "left"}
  OBVIOUS
<1>3. CASE SecondPasses
  <2>1. second' \in 0..MaxSecond /\ second <= second' /\ posted' = posted /\ posted' \in Nat
    BY <1>0, <1>3 DEF SecondPasses
  <2>2. AccessesTypeOK'
    BY <1>0, <1>3, <2>1, AccessesTypesKept DEF SecondPasses
  <2> QED  BY <1>3, <2>1, <2>2 DEF SecondPasses, AccessesTypeOK, MirrorTypeOK
<1>4. CASE SitsDown
  BY <1>1, <1>2, <1>4 DEF SitsDown, MirrorTypeOK
<1>5. ASSUME NEW S \in SUBSET posts, Removed(S)
      PROVE  /\ sits' \in BOOLEAN
             /\ \/ posts' = S /\ posted' = posted
                \/ \E event \in {"joined", "left"} : Post(event, S)
  BY <1>2, <1>5 DEF Removed
<1>6. CASE SitsUp
  BY <1>1, <1>2, <1>5, <1>6 DEF SitsUp, MirrorTypeOK
<1>7. CASE PostLost
  <2>1. PICK w \in posts : posts' = posts \ {w}
    BY <1>7 DEF PostLost
  <2>2. posts \ {w} \in SUBSET posts
    OBVIOUS
  <2> QED  BY <1>1, <1>7, <2>1, <2>2 DEF PostLost, MirrorTypeOK
<1>8. CASE AsksToken
  BY <1>1, <1>2, <1>8 DEF AsksToken, MirrorTypeOK
<1>9. CASE TokenGiven
  <2>1. second \in 0..second /\ posted \in 0..posted
    BY <1>0
  <2> QED  BY <1>1, <1>2, <1>9, <2>1 DEF TokenGiven, MirrorTypeOK
<1>10. CASE MemberExpelled
  BY <1>1, <1>2, <1>5, <1>10 DEF MemberExpelled, MirrorTypeOK
<1>11. ASSUME NEW w \in posts, PostArrives(w)
       PROVE  MirrorTypeOK'
  <2>1. posts \ {w} \in SUBSET posts
    OBVIOUS
  <2>2. w.at \in 0..second /\ w.n \in 0..posted /\ w.at \in Nat
    BY <1>0 DEF MirrorInv, MirrorTypes, NothingFromAhead
  <2>3. UNCHANGED <<second, member, token>>
    BY <1>11 DEF PostArrives
  <2>4. CASE Removed(posts \ {w}) /\ UNCHANGED <<accesses, shown>>
    BY <1>1, <1>5, <2>1, <2>3, <2>4 DEF MirrorTypeOK
  <2>5. CASE /\ accesses' = AccessOpened(w.at, w.n) /\ shown' = TRUE
             /\ posts' = posts \ {w} /\ UNCHANGED <<sits, posted>>
    BY <1>1, <2>1, <2>2, <2>3, <2>5 DEF MirrorTypeOK
  <2>6. CASE /\ accesses' = AccessClosed(w.at) /\ shown' = FALSE
             /\ posts' = posts \ {w} /\ UNCHANGED <<sits, posted>>
    BY <1>1, <2>1, <2>2, <2>3, <2>6 DEF MirrorTypeOK
  <2> QED  BY <1>11, <2>4, <2>5, <2>6 DEF PostArrives
<1>12. CASE UNCHANGED mirrorVars
  BY <1>12 DEF mirrorVars, MirrorTypeOK, OpenAccesses
<1> QED
  BY <1>3, <1>4, <1>6, <1>7, <1>8, <1>9, <1>10, <1>11, <1>12 DEF MirrorNext

(***************************************************************************)
(* SfuController.php: every webhook has a number of its own, no row is of a *)
(* second or a webhook that is still to come, and an account has one access *)
(* open at most, over all the webhooks that are lost or late.               *)
(***************************************************************************)
THEOREM MirrorTypesHold == MirrorSpec => []MirrorTypeOK
<1>1. MirrorInit => MirrorTypeOK
  <2> SUFFICES ASSUME MirrorInit PROVE MirrorTypeOK
    OBVIOUS
  <2>1. DOMAIN accesses = {} /\ posts = {}
    BY DEF MirrorInit
  <2>2. 0 \in 0..MaxSecond /\ 0 \in 0..MaxPosts
    BY MirrorAssumption
  <2> QED  BY <2>1, <2>2 DEF MirrorInit, MirrorTypeOK, OpenAccesses
<1>2. MirrorInv /\ MirrorTypeOK /\ [MirrorNext]_mirrorVars => MirrorTypeOK'
  BY MirrorTypesKept
<1> QED  BY <1>1, <1>2, MirrorInvariant, PTL DEF MirrorSpec

-----------------------------------------------------------------------------
(* The tokens *)

(* Refresh tokens that the app may hold without having been thrown out for it. *)
Accounted == spendable \cup expired \cup neverHeard

Renewing(r) == asker[r].at \in {"asks", "granted", "denied"}

OneRenews == \A r \in Asker : Renewing(r) => turn = r

WithAToken == \A r \in Asker : asker[r].at \notin {"idle", "again"} => asker[r].with /= 0

SignedOutOf(p) == \E bye \in logouts : bye.refresh = p

SpentFor(p) == \E r \in Asker : asker[r].at = "granted" /\ asker[r].spends = p

(* What is held, or saved, can be renewed, or its renewal was granted. *)
HeldIsGood ==
  \A p \in {refresh, saved.refresh} \ {0} : (p \in Accounted \/ SpentFor(p)) /\ ~SignedOutOf(p)

(* So can what is asked with, for who is still signed in with it. *)
AskedIsGood ==
  \A r \in Asker : asker[r].at = "asks" /\ apiToken = asker[r].with =>
    asker[r].spends \in Accounted /\ ~SignedOutOf(asker[r].spends) /\ asker[r].spends /= 0

GrantedIsGood ==
  \A r \in Asker : asker[r].at = "granted" =>
    asker[r].pair \in Accounted /\ ~SignedOutOf(asker[r].pair) /\ asker[r].pair \notin {0, refresh}

TokensInv ==
  /\ TokensTypeOK /\ OneRenews /\ WithAToken
  /\ HeldIsGood /\ AskedIsGood /\ GrantedIsGood /\ NobodyIsThrownOut

LEMMA TokensInvInit == TokensInit => TokensInv
<1> SUFFICES ASSUME TokensInit PROVE TokensInv
  OBVIOUS
<1> USE TokensAssumption DEF TokensInit
<1>1. given \in 0..MaxPairs /\ given \in {0, 1}
  OBVIOUS
<1>2. TokensTypeOK
  BY <1>1 DEF TokensTypeOK, NoRequest
<1>3. \A r \in Asker : asker[r].at = "idle"
  BY DEF NoRequest
<1>4. HeldIsGood
  BY <1>1 DEF HeldIsGood, Accounted, SignedOutOf
<1> QED  BY <1>2, <1>3, <1>4 DEF TokensInv, OneRenews, WithAToken, Renewing, AskedIsGood, GrantedIsGood, NobodyIsThrownOut

(* A request that turns is the only one that does. *)
LEMMA OnlyItTurns ==
  ASSUME TokensTypeOK, NEW r \in Asker, NEW at, NEW with, NEW spends, NEW pair,
         Turns(r, at, with, spends, pair)
  PROVE  /\ asker'[r] = [at |-> at, with |-> with, spends |-> spends, pair |-> pair]
         /\ \A s \in Asker \ {r} : asker'[s] = asker[s]
         /\ DOMAIN asker' = Asker
BY DEF TokensTypeOK, Turns

(* How a request ends, for the screen. *)
LEMMA OverIs ==
  ASSUME NEW r \in Asker, NEW well, NEW holds, NEW kept, Over(r, well, holds, kept)
  PROVE  /\ Turns(r, "idle", 0, 0, 0)
         /\ onScreen' \in {onScreen, "account", "login"}
         /\ \/ apiToken' = holds /\ saved' = kept
            \/ apiToken' = 0 /\ saved' = NothingSaved
BY DEF Over

LEMMA TokensTypes ==
  ASSUME TokensTypeOK, TokensNext
  PROVE  TokensTypeOK'
<1> USE TokensAssumption
<1> DEFINE Ats == {"idle", "sent", "again", "refused", "asks", "granted", "denied"}
<1> DEFINE Asking(n) == [at : Ats, with : 0..n, spends : 0..n, pair : 0..n]
<1>1. ASSUME NEW r \in Asker, NEW at \in Ats, NEW with \in 0..given', NEW spends \in 0..given',
             NEW pair \in 0..given', Turns(r, at, with, spends, pair), given' \in Nat, given <= given'
      PROVE  asker' \in [Asker -> Asking(given')]
  <2>1. asker \in [Asker -> Asking(given)] /\ given \in Nat
    BY DEF TokensTypeOK
  <2>2. Asking(given) \subseteq Asking(given')
    BY <1>1, <2>1
  <2>3. [at |-> at, with |-> with, spends |-> spends, pair |-> pair] \in Asking(given')
    BY <1>1
  <2> HIDE DEF Asking
  <2> QED  BY <1>1, <2>1, <2>2, <2>3 DEF Turns
<1>2. ASSUME NEW r \in Asker
      PROVE  /\ asker[r].at \in Ats /\ asker[r].with \in 0..given
             /\ asker[r].spends \in 0..given /\ asker[r].pair \in 0..given
  BY <1>2 DEF TokensTypeOK
<1>3. given \in Nat /\ NothingSaved \in [token : 0..given, refresh : 0..given]
  BY DEF TokensTypeOK, NothingSaved
<1>0. ASSUME NEW r \in Asker, Turns(r, "idle", 0, 0, 0), given' = given
       PROVE  asker' \in [Asker -> Asking(given')]
  BY <1>1, <1>3, <1>0
<1>4. ASSUME NEW r \in Asker, SendsRequest(r)  PROVE TokensTypeOK'
  <2>1. asker' \in [Asker -> Asking(given')]
    BY <1>4, <1>1, <1>3 DEF SendsRequest, siteVars, TokensTypeOK
  <2> QED  BY <1>4, <2>1 DEF SendsRequest, siteVars, TokensTypeOK
<1>5. ASSUME NEW r \in Asker, IsAnswered(r)  PROVE TokensTypeOK'
  <2>1. PICK well \in BOOLEAN : Over(r, well, apiToken, saved)
    BY <1>5 DEF IsAnswered
  <2>2. asker' \in [Asker -> Asking(given')]
    BY <1>5, <1>0, <2>1, OverIs DEF IsAnswered, siteVars
  <2> QED  BY <1>5, <1>3, <2>1, <2>2, OverIs DEF IsAnswered, siteVars, TokensTypeOK
<1>6. ASSUME NEW r \in Asker, IsRefused(r)  PROVE TokensTypeOK'
  <2>1. asker' \in [Asker -> Asking(given')]
    BY <1>6, <1>1, <1>2, <1>3 DEF IsRefused, siteVars
  <2> QED  BY <1>6, <2>1 DEF IsRefused, siteVars, TokensTypeOK
<1>7. ASSUME NEW r \in Asker, RenewedByAnother(r)  PROVE TokensTypeOK'
  <2>1. asker' \in [Asker -> Asking(given')]
    BY <1>7, <1>1, <1>3 DEF RenewedByAnother, siteVars, TokensTypeOK
  <2> QED  BY <1>7, <2>1 DEF RenewedByAnother, siteVars, TokensTypeOK
<1>8. ASSUME NEW r \in Asker, NothingToRenew(r)  PROVE TokensTypeOK'
  <2>1. Over(r, FALSE, apiToken, saved) /\ given' = given
    BY <1>8 DEF NothingToRenew, siteVars
  <2>2. asker' \in [Asker -> Asking(given')]
    BY <1>0, <2>1, OverIs
  <2> QED  BY ZenonT(40), <1>8, <1>3, <2>1, <2>2, OverIs DEF NothingToRenew, siteVars, TokensTypeOK
<1>9. ASSUME NEW r \in Asker, AsksForPair(r)  PROVE TokensTypeOK'
  <2>1. asker' \in [Asker -> Asking(given')]
    BY <1>9, <1>1, <1>3 DEF AsksForPair, siteVars, TokensTypeOK
  <2> QED  BY <1>9, <2>1 DEF AsksForPair, siteVars, TokensTypeOK
<1>10. ASSUME NEW r \in Asker, Renews(r)  PROVE TokensTypeOK'
  <2>1. given' \in 0..MaxPairs /\ given' = given + 1
    BY <1>10, <1>3 DEF Renews, Issues
  <2>2. asker' \in [Asker -> Asking(given')]
    BY <1>10, <1>1, <1>2, <1>3, <2>1 DEF Renews
  <2>3. 0..given \subseteq 0..given' /\ 1..given \subseteq 1..given' /\ given' \in 1..given'
    BY <1>3, <2>1
  <2>4. /\ access' \subseteq 1..given' /\ spendable' \subseteq 1..given'
        /\ expired' \subseteq 1..given' /\ neverHeard' \subseteq 0..given'
    BY <1>10, <2>3 DEF Renews, Issues, TokensTypeOK
  <2>5. /\ saved' \in [token : 0..given', refresh : 0..given']
        /\ logouts' \subseteq [token : 1..given', refresh : 0..given']
    BY <1>10, <2>3 DEF Renews, TokensTypeOK
  <2> QED  BY <1>10, <2>1, <2>2, <2>3, <2>4, <2>5 DEF Renews, TokensTypeOK
<1>11. ASSUME NEW r \in Asker, Denies(r)  PROVE TokensTypeOK'
  <2>1. asker' \in [Asker -> Asking(given')]
    BY <1>11, <1>1, <1>2, <1>3 DEF Denies, siteVars
  <2> QED  BY <1>11, <2>1 DEF Denies, siteVars, TokensTypeOK
<1>12. ASSUME NEW r \in Asker, TakesPair(r)  PROVE TokensTypeOK'
  <2>1. asker' \in [Asker -> Asking(given')]
    BY <1>12, <1>1, <1>2, <1>3 DEF TakesPair, siteVars
  <2> QED  BY <1>12, <1>2, <2>1 DEF TakesPair, siteVars, TokensTypeOK
<1>13. ASSUME NEW r \in Asker, SessionEnds(r), given' = given
       PROVE  /\ asker' \in [Asker -> Asking(given')] /\ apiToken' \in 0..given /\ refresh' \in 0..given
              /\ saved' \in [token : 0..given, refresh : 0..given]
              /\ onScreen' \in {"opening", "login", "account"}
  <2>1. CASE apiToken = asker[r].with
    <3>1. refresh' = 0 /\ Over(r, FALSE, 0, NothingSaved)
      BY <1>13, <2>1 DEF SessionEnds
    <3>2. asker' \in [Asker -> Asking(given')]
      BY <1>13, <1>0, <3>1, OverIs
    <3>3. /\ apiToken' \in 0..given /\ refresh' \in 0..given
          /\ onScreen' \in {"opening", "login", "account"}
      BY <1>3, <3>1 DEF Over, TokensTypeOK
    <3>4. saved' \in [token : 0..given, refresh : 0..given]
      BY <1>3, <3>1 DEF Over, TokensTypeOK
    <3> QED  BY <3>2, <3>3, <3>4
  <2>2. CASE apiToken /= asker[r].with
    <3>1. refresh' = refresh /\ Over(r, FALSE, apiToken, saved)
      BY <1>13, <2>2 DEF SessionEnds
    <3>2. asker' \in [Asker -> Asking(given')]
      BY <1>13, <1>0, <3>1, OverIs
    <3>3. /\ apiToken' \in 0..given /\ refresh' \in 0..given
          /\ onScreen' \in {"opening", "login", "account"}
      BY <1>3, <3>1 DEF Over, TokensTypeOK
    <3>4. saved' \in [token : 0..given, refresh : 0..given]
      BY <1>3, <3>1 DEF Over, TokensTypeOK
    <3> QED  BY <3>2, <3>3, <3>4
  <2> QED  BY <2>1, <2>2
<1>14. ASSUME NEW r \in Asker, TakesDenial(r)  PROVE TokensTypeOK'
  BY <1>14, <1>13 DEF TakesDenial, siteVars, TokensTypeOK
<1>15. ASSUME NEW rs \in SUBSET Asker, NotHeardOf(rs), given' = given
       PROVE  neverHeard' \subseteq 0..given'
  BY ZenonT(40), <1>2, <1>15 DEF NotHeardOf, TokensTypeOK
<1>16. ASSUME NEW r \in Asker, TakesFailure(r)  PROVE TokensTypeOK'
  <2>1. NotHeardOf({r}) /\ given' = given
    BY <1>16 DEF TakesFailure
  <2>2. neverHeard' \subseteq 0..given'
    BY <1>15, <2>1
  <2> QED  BY <1>16, <1>13, <2>2 DEF TakesFailure, TokensTypeOK
<1>17. ASSUME NEW r \in Asker, HearsNothing(r)  PROVE TokensTypeOK'
  <2>1. Over(r, FALSE, apiToken, saved) /\ NotHeardOf({r}) /\ given' = given
    BY <1>17 DEF HearsNothing
  <2>2. neverHeard' \subseteq 0..given'
    BY <1>15, <2>1
  <2>3. asker' \in [Asker -> Asking(given')]
    BY <1>0, <2>1, OverIs
  <2>4. /\ saved' \in [token : 0..given, refresh : 0..given] /\ apiToken' \in 0..given
        /\ onScreen' \in {"opening", "login", "account"}
    BY <1>3, <2>1 DEF Over, TokensTypeOK
  <2> QED  BY <1>17, <2>2, <2>3, <2>4 DEF HearsNothing, TokensTypeOK
<1>18. ASSUME SignsIn  PROVE TokensTypeOK'
  <2>1. given' \in 0..MaxPairs /\ given' = given + 1
    BY <1>18, <1>3 DEF SignsIn, Issues
  <2>2. asker' \in [Asker -> Asking(given')]
    <3>1. Asking(given) \subseteq Asking(given')
      BY <1>3, <2>1
    <3>2. asker' \in [Asker -> Asking(given)]
      BY <1>18 DEF SignsIn, TokensTypeOK
    <3> HIDE DEF Asking
    <3> QED  BY <3>1, <3>2
  <2>3. 0..given \subseteq 0..given' /\ 1..given \subseteq 1..given' /\ given' \in 1..given'
    BY <1>3, <2>1
  <2>4. /\ access' \subseteq 1..given' /\ spendable' \subseteq 1..given'
        /\ expired' \subseteq 1..given' /\ neverHeard' \subseteq 0..given'
    BY <1>18, <2>3 DEF SignsIn, Issues, TokensTypeOK
  <2>5. /\ saved' \in [token : 0..given', refresh : 0..given']
        /\ logouts' \subseteq [token : 1..given', refresh : 0..given']
    BY <1>18, <2>3 DEF SignsIn, TokensTypeOK
  <2> QED  BY <1>18, <2>1, <2>2, <2>3, <2>4, <2>5 DEF SignsIn, TokensTypeOK
<1>19. ASSUME SignsOut  PROVE TokensTypeOK'
  <2>1. logouts' \subseteq [token : 1..given, refresh : 0..given]
    BY <1>19, <1>3 DEF SignsOut, TokensTypeOK
  <2> QED  BY <1>19, <1>3, <2>1 DEF SignsOut, TokensTypeOK
<1>20. ASSUME NEW bye \in logouts, LogsOut(bye)  PROVE TokensTypeOK'
  BY <1>20 DEF LogsOut, heldVars, TokensTypeOK
<1>21. ASSUME NEW p \in Pair, AccessEnds(p) \/ RefreshEnds(p)  PROVE TokensTypeOK'
  BY <1>21 DEF AccessEnds, RefreshEnds, heldVars, TokensTypeOK
<1>22. ASSUME Dies  PROVE TokensTypeOK'
  <2>1. saved' \in [token : 0..given, refresh : 0..given]
    BY <1>22, <1>2 DEF Dies, TokensTypeOK
  <2>2. neverHeard' \subseteq 0..given'
    BY <1>22, <1>15 DEF Dies
  <2>3. asker' \in [Asker -> Asking(given)]
    BY <1>22, <1>3 DEF Dies, NoRequest
  <2> QED  BY <1>22, <1>3, <2>1, <2>2, <2>3 DEF Dies, TokensTypeOK
<1> QED  BY <1>4, <1>5, <1>6, <1>7, <1>8, <1>9, <1>10, <1>11, <1>12, <1>14, <1>16, <1>17, <1>18,
            <1>19, <1>20, <1>21, <1>22 DEF TokensNext

(* A request moves and renews nothing; it did not before, or gives its turn up. *)
QuietMove(r) ==
  /\ \E at \in {"idle", "sent", "again", "refused"}, with, pair \in 0..given :
       /\ Turns(r, at, with, 0, pair)
       /\ at \in {"sent", "refused"} => with /= 0
  /\ \/ ~Renewing(r) /\ turn' = turn
     \/ Renewing(r) /\ turn' = NoAsker
  /\ logouts' = logouts /\ spendable' = spendable /\ expired' = expired
  /\ neverHeard \subseteq neverHeard'

(* It takes nothing, and says what it has not heard. *)
TakesNothing(r) ==
  /\ refresh' \in {refresh, 0} /\ apiToken' \in {apiToken, 0}
  /\ saved'.refresh \in {saved.refresh, 0}
  /\ asker[r].at = "granted" => asker[r].spends \in neverHeard'

(* Or it takes the pair that it was granted. *)
TakesIts(r) ==
  /\ asker[r].at = "granted"
  /\ refresh' = asker[r].pair /\ saved'.refresh = asker[r].pair

LEMMA QuietMoveKeeps ==
  ASSUME TokensInv, TokensTypeOK', NEW r \in Asker, QuietMove(r), TakesNothing(r) \/ TakesIts(r)
  PROVE  TokensInv'
<1>1. PICK at \in {"idle", "sent", "again", "refused"}, with \in 0..given, pair \in 0..given :
        /\ Turns(r, at, with, 0, pair)
        /\ at \in {"sent", "refused"} => with /= 0
  BY DEF QuietMove
<1>2. /\ asker'[r] = [at |-> at, with |-> with, spends |-> 0, pair |-> pair]
      /\ \A s \in Asker \ {r} : asker'[s] = asker[s]
  BY <1>1, OnlyItTurns DEF TokensInv
<1>3. \A s \in Asker : Renewing(s)' => s /= r /\ Renewing(s) /\ ~Renewing(r)
  BY <1>1, <1>2 DEF Renewing, TokensInv, OneRenews
<1>4. OneRenews'
  BY <1>1, <1>2, <1>3 DEF QuietMove, OneRenews, TokensInv
<1>5. WithAToken'
  BY <1>1, <1>2 DEF WithAToken, TokensInv
<1>6. Accounted \subseteq Accounted' /\ \A p : SignedOutOf(p)' <=> SignedOutOf(p)
  BY DEF QuietMove, Accounted, SignedOutOf
<1>7. CASE TakesNothing(r)
  <2>1. \A p : SpentFor(p) => SpentFor(p)' \/ p \in Accounted'
    BY <1>2, <1>7 DEF SpentFor, TakesNothing, Accounted
  <2>2. HeldIsGood'
    BY <1>6, <1>7, <2>1 DEF TakesNothing, HeldIsGood, TokensInv
  <2>3. AskedIsGood' /\ GrantedIsGood' /\ NobodyIsThrownOut'
    <3>1. AskedIsGood'
      BY <1>2, <1>3, <1>6, <1>7 DEF AskedIsGood, TakesNothing, TokensInv, Renewing, WithAToken
    <3>2. GrantedIsGood'
      BY <1>2, <1>3, <1>6, <1>7 DEF GrantedIsGood, TakesNothing, TokensInv, Renewing
    <3>3. NobodyIsThrownOut'
      BY <1>2, <1>3, <1>7 DEF NobodyIsThrownOut, TakesNothing, QuietMove, TokensInv, Renewing, WithAToken
    <3> QED  BY <3>1, <3>2, <3>3
  <2> QED  BY <1>4, <1>5, <2>2, <2>3 DEF TokensInv
<1>8. CASE TakesIts(r)
  <2>1. \A s \in Asker : ~Renewing(s)'
    BY <1>3, <1>8 DEF TakesIts, Renewing
  <2>2. HeldIsGood'
    BY <1>6, <1>8 DEF TakesIts, HeldIsGood, GrantedIsGood, TokensInv
  <2> QED  BY <1>4, <1>5, <2>1, <2>2 DEF TokensInv, Renewing, AskedIsGood, GrantedIsGood, NobodyIsThrownOut
<1> QED  BY <1>7, <1>8

(* The moves of a request that are quiet. *)
LEMMA RequestsKeep ==
  ASSUME TokensInv, TokensTypeOK', NEW r \in Asker,
         \/ SendsRequest(r) \/ IsAnswered(r) \/ IsRefused(r) \/ RenewedByAnother(r)
         \/ NothingToRenew(r) \/ TakesPair(r) \/ TakesDenial(r) \/ TakesFailure(r)
         \/ HearsNothing(r)
  PROVE  TokensInv'
<1> USE DEF TokensInv
<1>1. SUFFICES QuietMove(r) /\ (TakesNothing(r) \/ TakesIts(r))
  BY QuietMoveKeeps
<1>2. /\ given \in Nat /\ apiToken \in 0..given /\ asker[r].with \in 0..given
      /\ asker[r].pair \in 0..given
  BY DEF TokensTypeOK
<1>3. NothingSaved.refresh = 0
  BY DEF NothingSaved
<1>4. CASE SendsRequest(r)
  BY <1>2, <1>4 DEF SendsRequest, siteVars, QuietMove, TakesNothing, Renewing
<1>5. CASE IsAnswered(r)
  <2>1. PICK well \in BOOLEAN : Over(r, well, apiToken, saved)
    BY <1>5 DEF IsAnswered
  <2>2. Turns(r, "idle", 0, 0, 0) /\ apiToken' \in {apiToken, 0} /\ saved' \in {saved, NothingSaved}
    BY <2>1 DEF Over
  <2> QED  BY <1>2, <1>3, <1>5, <2>2 DEF IsAnswered, siteVars, QuietMove, TakesNothing, Renewing
<1>6. CASE IsRefused(r)
  BY <1>2, <1>6 DEF IsRefused, siteVars, QuietMove, TakesNothing, Renewing, WithAToken
<1>7. CASE RenewedByAnother(r)
  BY <1>2, <1>7 DEF RenewedByAnother, siteVars, QuietMove, TakesNothing, Renewing
<1>8. CASE NothingToRenew(r)
  <2>1. Turns(r, "idle", 0, 0, 0) /\ apiToken' \in {apiToken, 0} /\ saved' \in {saved, NothingSaved}
    BY <1>8 DEF NothingToRenew, Over
  <2> QED  BY <1>2, <1>3, <1>8, <2>1 DEF NothingToRenew, siteVars, QuietMove, TakesNothing, Renewing
<1>9. CASE TakesPair(r)
  BY <1>2, <1>9 DEF TakesPair, siteVars, QuietMove, TakesIts, Renewing
<1>10. SessionEnds(r) => /\ Turns(r, "idle", 0, 0, 0) /\ apiToken' \in {apiToken, 0}
                         /\ saved' \in {saved, NothingSaved} /\ refresh' \in {refresh, 0}
  BY DEF SessionEnds, Over
<1>11. CASE TakesDenial(r)
  BY <1>2, <1>3, <1>10, <1>11 DEF TakesDenial, siteVars, QuietMove, TakesNothing, Renewing
<1>12. CASE TakesFailure(r)
  <2>1. neverHeard \subseteq neverHeard' /\ (asker[r].at = "granted" => asker[r].spends \in neverHeard')
    BY <1>12 DEF TakesFailure, NotHeardOf
  <2> QED  BY <1>2, <1>3, <1>10, <1>12, <2>1 DEF TakesFailure, QuietMove, TakesNothing, Renewing
<1>13. CASE HearsNothing(r)
  <2>1. neverHeard \subseteq neverHeard' /\ (asker[r].at = "granted" => asker[r].spends \in neverHeard')
    BY <1>13 DEF HearsNothing, NotHeardOf
  <2>2. Turns(r, "idle", 0, 0, 0) /\ apiToken' \in {apiToken, 0} /\ saved' \in {saved, NothingSaved}
    BY <1>13 DEF HearsNothing, Over
  <2> QED  BY <1>2, <1>3, <1>13, <2>1, <2>2 DEF HearsNothing, QuietMove, TakesNothing, Renewing
<1> QED  BY <1>4, <1>5, <1>6, <1>7, <1>8, <1>9, <1>11, <1>12, <1>13

(* Asking spends what is held, of which nobody else was granted the renewal. *)
LEMMA AsksForPairKeeps ==
  ASSUME TokensInv, TokensTypeOK', NEW r \in Asker, AsksForPair(r)
  PROVE  TokensInv'
<1> USE DEF TokensInv
<1>1. /\ asker'[r] = [at |-> "asks", with |-> apiToken, spends |-> refresh, pair |-> 0]
      /\ \A s \in Asker \ {r} : asker'[s] = asker[s]
  BY OnlyItTurns DEF AsksForPair
<1>2. \A s \in Asker : ~Renewing(s)
  BY TokensAssumption DEF AsksForPair, TurnIsFree, OneRenews
<1>3. OneRenews' /\ WithAToken'
  BY <1>1, <1>2 DEF AsksForPair, OneRenews, Renewing, WithAToken
<1>4. /\ Accounted' = Accounted /\ \A p : SignedOutOf(p)' <=> SignedOutOf(p)
      /\ \A p : ~SpentFor(p)
  BY <1>2 DEF AsksForPair, siteVars, Accounted, SignedOutOf, SpentFor, Renewing
<1>5. HeldIsGood' /\ AskedIsGood'
  BY <1>1, <1>2, <1>4 DEF AsksForPair, HeldIsGood, AskedIsGood, Renewing
<1>6. GrantedIsGood' /\ NobodyIsThrownOut'
  BY <1>1, <1>2 DEF GrantedIsGood, NobodyIsThrownOut, Renewing
<1> QED  BY <1>3, <1>5, <1>6

(* What is spent was held for the request that is granted its pair. *)
LEMMA RenewsKeeps ==
  ASSUME TokensInv, TokensTypeOK', NEW r \in Asker, Renews(r)
  PROVE  TokensInv'
<1> USE DEF TokensInv
<1>1. /\ asker'[r] = [at |-> "granted", with |-> asker[r].with, spends |-> asker[r].spends, pair |-> given']
      /\ \A s \in Asker \ {r} : asker'[s] = asker[s]
  BY OnlyItTurns DEF Renews
<1>2. \A s \in Asker : Renewing(s) => s = r
  BY DEF Renews, OneRenews, Renewing
<1>3. OneRenews' /\ WithAToken'
  BY <1>1, <1>2 DEF Renews, OneRenews, Renewing, WithAToken
<1>4. given \in Nat /\ given' = given + 1 /\ refresh \in 0..given
      /\ \A bye \in logouts : bye.refresh \in 0..given
  BY DEF Renews, Issues, TokensTypeOK
<1>5. /\ Accounted \ {asker[r].spends} \subseteq Accounted' /\ given' \in Accounted'
      /\ \A p : SignedOutOf(p)' <=> SignedOutOf(p)
  BY DEF Renews, Accounted, SignedOutOf
<1>6. HeldIsGood'
  <2>1. \A p : SpentFor(p) \/ p = asker[r].spends => SpentFor(p)'
    BY <1>1, <1>2 DEF SpentFor, Renews, Renewing
  <2>2. \A p : p \in Accounted \/ SpentFor(p) => p \in Accounted' \/ SpentFor(p)'
    BY <1>5, <2>1
  <2>3. refresh' = refresh /\ saved' = saved
    BY DEF Renews
  <2> QED  BY <1>5, <2>2, <2>3 DEF HeldIsGood
<1>7. GrantedIsGood'
  BY <1>1, <1>2, <1>4, <1>5 DEF GrantedIsGood, Renews, Renewing, SignedOutOf
<1>8. AskedIsGood' /\ NobodyIsThrownOut'
  BY <1>1, <1>2 DEF AskedIsGood, NobodyIsThrownOut, Renewing
<1> QED  BY <1>3, <1>6, <1>7, <1>8

(* A denial is for a token that was good once. *)
LEMMA DeniesKeeps ==
  ASSUME TokensInv, TokensTypeOK', NEW r \in Asker, Denies(r)
  PROVE  TokensInv'
<1> USE DEF TokensInv
<1>1. /\ asker'[r] = [at |-> "denied", with |-> asker[r].with, spends |-> asker[r].spends, pair |-> 0]
      /\ \A s \in Asker \ {r} : asker'[s] = asker[s]
  BY OnlyItTurns DEF Denies
<1>2. \A s \in Asker : Renewing(s) => s = r
  BY DEF Denies, OneRenews, Renewing
<1>3. OneRenews' /\ WithAToken'
  BY <1>1, <1>2 DEF Denies, OneRenews, Renewing, WithAToken
<1>4. Accounted' = Accounted /\ \A p : SignedOutOf(p)' <=> SignedOutOf(p)
  BY DEF Denies, siteVars, Accounted, SignedOutOf
<1>5. HeldIsGood'
  <2>1. \A p : SpentFor(p) => SpentFor(p)'
    BY <1>1, <1>2 DEF SpentFor, Denies, Renewing
  <2> QED  BY <1>4, <2>1 DEF HeldIsGood, Denies
<1>6. NobodyIsThrownOut'
  BY <1>1, <1>2 DEF NobodyIsThrownOut, AskedIsGood, Accounted, Denies, siteVars, Renewing
<1>7. AskedIsGood' /\ GrantedIsGood'
  BY <1>1, <1>2 DEF AskedIsGood, GrantedIsGood, Renewing
<1> QED  BY <1>3, <1>5, <1>6, <1>7

LEMMA SignsInKeeps ==
  ASSUME TokensInv, TokensTypeOK', SignsIn
  PROVE  TokensInv'
<1> USE DEF TokensInv
<1>1. /\ given \in Nat /\ given' = given + 1
      /\ \A bye \in logouts : bye.refresh \in 0..given
      /\ \A r \in Asker : asker[r].with \in 0..given /\ asker[r].pair \in 0..given
  BY DEF SignsIn, Issues, TokensTypeOK
<1>2. /\ Accounted \cup {given'} \subseteq Accounted' /\ asker' = asker /\ apiToken' = given'
      /\ \A p : SignedOutOf(p)' <=> SignedOutOf(p)
  BY DEF SignsIn, Accounted, SignedOutOf
<1>3. OneRenews' /\ WithAToken'
  BY DEF SignsIn, OneRenews, Renewing, WithAToken
<1>4. HeldIsGood'
  BY <1>1, <1>2 DEF SignsIn, HeldIsGood, SignedOutOf
<1>5. AskedIsGood' /\ NobodyIsThrownOut'
  BY <1>1, <1>2 DEF AskedIsGood, NobodyIsThrownOut
<1>6. GrantedIsGood'
  BY <1>1, <1>2 DEF SignsIn, GrantedIsGood
<1> QED  BY <1>3, <1>4, <1>5, <1>6

LEMMA SignsOutKeeps ==
  ASSUME TokensInv, TokensTypeOK', SignsOut
  PROVE  TokensInv'
<1> USE DEF TokensInv
<1>1. /\ Accounted' = Accounted /\ asker' = asker /\ apiToken' = 0 /\ refresh' = 0
      /\ saved'.refresh = 0
      /\ \A p : SignedOutOf(p)' => SignedOutOf(p) \/ p = refresh
  BY DEF SignsOut, Accounted, SignedOutOf, NothingSaved
<1>2. OneRenews' /\ WithAToken'
  BY DEF SignsOut, OneRenews, Renewing, WithAToken
<1>3. HeldIsGood' /\ GrantedIsGood'
  BY <1>1 DEF HeldIsGood, GrantedIsGood
<1>4. AskedIsGood' /\ NobodyIsThrownOut'
  BY <1>1 DEF AskedIsGood, NobodyIsThrownOut, WithAToken
<1> QED  BY <1>2, <1>3, <1>4

(* What the site forgets by itself is not what somebody holds, or is accounted for. *)
LEMMA SiteKeeps ==
  ASSUME TokensInv, TokensTypeOK',
         \/ \E bye \in logouts : LogsOut(bye)
         \/ \E p \in Pair : AccessEnds(p) \/ RefreshEnds(p)
  PROVE  TokensInv'
<1> USE DEF TokensInv
<1>1. /\ asker' = asker /\ turn' = turn /\ apiToken' = apiToken /\ refresh' = refresh
      /\ saved' = saved
      /\ \A p : SignedOutOf(p)' => SignedOutOf(p)
      /\ \A p \in Accounted : p \in Accounted' \/ SignedOutOf(p)
      /\ expired \cup neverHeard \subseteq expired' \cup neverHeard'
  <2>1. CASE \E bye \in logouts : LogsOut(bye)
    BY <2>1 DEF LogsOut, heldVars, Accounted, SignedOutOf
  <2>2. CASE \E p \in Pair : AccessEnds(p) \/ RefreshEnds(p)
    BY <2>2 DEF AccessEnds, RefreshEnds, heldVars, Accounted, SignedOutOf
  <2> QED  BY <2>1, <2>2
<1>2. OneRenews' /\ WithAToken'
  BY <1>1 DEF OneRenews, Renewing, WithAToken
<1>3. HeldIsGood'
  BY <1>1 DEF HeldIsGood, SpentFor
<1>4. AskedIsGood'
  BY <1>1 DEF AskedIsGood
<1>5. GrantedIsGood'
  BY <1>1 DEF GrantedIsGood
<1>6. NobodyIsThrownOut'
  BY <1>1 DEF NobodyIsThrownOut
<1> QED  BY <1>2, <1>3, <1>4, <1>5, <1>6

(* What was granted and not saved has not been heard of. *)
LEMMA DiesKeeps ==
  ASSUME TokensInv, TokensTypeOK', Dies
  PROVE  TokensInv'
<1> USE DEF TokensInv
<1>1. \A r \in Asker : asker'[r].at = "idle"
  BY DEF Dies, NoRequest
<1>2. saved'.refresh = saved.refresh /\ refresh' = saved.refresh
  BY DEF Dies, TokensTypeOK
<1>3. /\ Accounted \subseteq Accounted'
      /\ \A p : SpentFor(p) => p \in Accounted'
      /\ \A p : SignedOutOf(p)' <=> SignedOutOf(p)
  BY DEF Dies, NotHeardOf, Accounted, SpentFor, SignedOutOf
<1>4. HeldIsGood'
  BY <1>2, <1>3 DEF HeldIsGood
<1> QED  BY <1>1, <1>4 DEF OneRenews, WithAToken, Renewing, AskedIsGood, GrantedIsGood, NobodyIsThrownOut

LEMMA TokensInvNext == TokensInv /\ [TokensNext]_tokensVars => TokensInv'
<1> SUFFICES ASSUME TokensInv, [TokensNext]_tokensVars PROVE TokensInv'
  OBVIOUS
<1>1. CASE TokensNext
  <2>1. TokensTypeOK'
    BY <1>1, TokensTypes DEF TokensInv
  <2> QED  BY <1>1, <2>1, RequestsKeep, AsksForPairKeeps, RenewsKeeps, DeniesKeeps, SignsInKeeps,
              SignsOutKeeps, SiteKeeps, DiesKeeps DEF TokensNext
<1>2. CASE UNCHANGED tokensVars
  BY <1>2 DEF tokensVars, heldVars, siteVars, TokensInv, TokensTypeOK, OneRenews, WithAToken,
              Renewing, HeldIsGood, AskedIsGood, GrantedIsGood, NobodyIsThrownOut, Accounted,
              SpentFor, SignedOutOf
<1> QED  BY <1>1, <1>2

(***************************************************************************)
(* However many requests are refused together, whenever people sign out and *)
(* in, tokens end, answers are lost and the app stops: a renewal is denied  *)
(* to who is still signed in with it only if its time was over, or it was   *)
(* spent for an answer that never came (renew and end of api.rs).          *)
(***************************************************************************)
THEOREM RenewedInTurn == TokensSpec => []NobodyIsThrownOut
<1>1. TokensInv => NobodyIsThrownOut
  BY DEF TokensInv
<1> QED  BY <1>1, TokensInvInit, TokensInvNext, PTL DEF TokensSpec

(* api.rs and the tokens of Laravel: the pairs that are held, saved, asked   *)
(* with and signed out are pairs that were given.                            *)
THEOREM TokensTypesHold == TokensSpec => []TokensTypeOK
<1>1. TokensInv => TokensTypeOK
  BY DEF TokensInv
<1> QED  BY <1>1, TokensInvInit, TokensInvNext, PTL DEF TokensSpec

-----------------------------------------------------------------------------
(* The parts together *)

(* One of the parts is looked at. *)
PartKnown ==
  part \in {"producers", "presence", "mirror", "voice", "share", "media", "recovery",
            "governor", "gate", "routers", "session", "keys", "tokens"}

partsVars ==
  <<part, producersVars, presenceVars, mirrorVars, voiceVars, shareVars, mediaVars, recoveryVars,
    governorVars, gateVars, routersVars, sessionVars, mediaKeysVars, tokensVars>>

(***************************************************************************)
(* Of the parts that share no state each goes on as it would alone: what    *)
(* holds of a part in every behaviour of its own holds among the others.    *)
(***************************************************************************)
THEOREM PartsAreTheParts ==
  PartsSpec => /\ ProducersSpec /\ PresenceSpec /\ MirrorSpec /\ VoiceSpec /\ ShareSpec
               /\ MediaSpec /\ RecoverySpec /\ GovernorSpec /\ GateSpec /\ RoutersSpec
               /\ SessionSpec /\ MediaKeysSpec /\ TokensSpec
<1>1. PartsInit => /\ ProducersInit /\ PresenceInit /\ MirrorInit /\ VoiceInit /\ ShareInit
                   /\ MediaInit /\ RecoveryInit /\ GovernorInit /\ GateInit /\ RoutersInit
                   /\ SessionInit /\ MediaKeysInit /\ TokensInit
  BY DEF PartsInit
<1>2. [PartsNext]_partsVars =>
        /\ [ProducersNext]_producersVars /\ [PresenceNext]_presenceVars
        /\ [MirrorNext]_mirrorVars /\ [VoiceNext]_voiceVars /\ [ShareNext]_shareVars
        /\ [MediaNext]_mediaVars /\ [RecoveryNext]_recoveryVars
        /\ [CloseWindow]_governorVars /\ [GateNext]_gateVars /\ [RoutersNext]_routersVars
        /\ [SessionNext]_sessionVars /\ [MediaKeysNext]_mediaKeysVars
        /\ [TokensNext]_tokensVars
  BY Zenon DEF PartsNext, partsVars
<1> QED
  BY <1>1, <1>2, PTL
     DEF PartsSpec, partsVars, ProducersSpec, PresenceSpec, MirrorSpec, VoiceSpec, ShareSpec, MediaSpec,
         RecoverySpec, GovernorSpec, GateSpec, RoutersSpec, SessionSpec, MediaKeysSpec, TokensSpec

(***************************************************************************)
(* The values each part keeps (src/sfu, src/native and src/web): whatever   *)
(* the others do, and whichever part is looked at.                          *)
(***************************************************************************)
THEOREM PartsTypesHold == PartsSpec => []PartsTypeOK
<1>1. /\ ProducersTypeOK /\ PresenceTypeOK /\ MirrorTypeOK /\ VoiceTypeOK /\ ShareTypeOK
      /\ MediaTypeOK /\ RecoveryTypeOK /\ GovernorTypeOK /\ GateTypeOK /\ RoutersTypeOK
      /\ SessionTypeOK /\ MediaKeysTypeOK /\ TokensTypeOK /\ PartKnown
      => PartsTypeOK
  BY Zenon DEF PartsTypeOK, PartKnown
<1>2. PartsSpec => []PartKnown
  <2>1. PartsInit => PartKnown
    BY DEF PartsInit, PartKnown
  <2>2. PartKnown /\ [PartsNext]_partsVars => PartKnown'
    BY DEF PartsNext, PartKnown, partsVars
  <2> QED  BY <2>1, <2>2, PTL DEF PartsSpec, partsVars
<1> QED
  BY <1>1, <1>2, PartsAreTheParts, ProducersTypesHold, PresenceTypesHold, MirrorTypesHold,
     VoiceTypesHold, ShareTypesHold, MediaTypesHold, RecoveryTypesHold, GovernorTypes,
     GateTypesHold, RoutersTypesHold, SessionTypesHold, MediaKeysTypesHold, TokensTypesHold, PTL
=============================================================================
