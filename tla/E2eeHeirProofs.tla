--------------------------- MODULE E2eeHeirProofs ---------------------------
(***************************************************************************)
(* Whom the group of E2eeCall is left with.  As long as no socket is lost,  *)
(* no request fails and nobody is kicked, and each account has one device,  *)
(* who leaves says so behind all it sent, and every Commit is of whoever    *)
(* had the smallest leaf of those in the room.  So a client that was put in *)
(* by somebody who has left, and decides in the end, heard of it after it   *)
(* had its Welcome, and took the ghosts out.                                *)
(***************************************************************************)
EXTENDS E2eeSettledProofs

-----------------------------------------------------------------------------
(* Everybody's place in the group *)

(* Where the leaf of m is. *)
Places(tree, m) == {k \in DOMAIN tree : tree[k] = m}

(* In each tree m has one leaf or none. *)
OnePlace(tree, m) == Places(tree, m) # {} => \E l \in DOMAIN tree : Places(tree, m) = {l}

(* Whoever is in the room keeps the one leaf it got. *)
Rooted(log, room) ==
  \A q \in room : \A i, j \in DOMAIN log :
    i <= j /\ Places(log[i].tree, First(q)) # {} =>
      /\ Places(log[j].tree, First(q)) = Places(log[i].tree, First(q))
      /\ OnePlace(log[i].tree, First(q))

(* A group of those known by ids, as the people of room have seen it grow. *)
Grown(log, ids, room) ==
  /\ \A i \in DOMAIN log : Leaves(log[i].tree) \subseteq ids
  /\ Rooted(log, room)

(* Somebody has a place in a tree when one of its leaves is theirs. *)
LEMMA PlacesAreLeaves ==
  ASSUME NEW tree, NEW m, m # Blank
  PROVE  Places(tree, m) # {} <=> m \in Leaves(tree)
BY DEF Places, Leaves

(* MLS puts a new member in one blank leaf, or in a new one at the end; the *)
(* others stay where they are.                                              *)
LEMMA PlantedPlaces ==
  ASSUME NEW tree \in Seq(Member \cup {Blank}), NEW m \in Member, m \notin Leaves(tree)
  PROVE  /\ OnePlace(Planted(tree, m), m)
         /\ \A n \in Member \ {m} : Places(Planted(tree, m), n) = Places(tree, n)
<1> DEFINE S == Member \cup {Blank}
           blanks == {i \in DOMAIN tree : tree[i] = Blank}
<1>1. /\ Len(tree) \in Nat /\ DOMAIN tree = 1..Len(tree) /\ tree \in [1..Len(tree) -> S]
      /\ m \in S /\ m # Blank /\ \A i \in DOMAIN tree : tree[i] # m
  BY LenProperties, MemberNotBlank DEF Leaves
<1>2. CASE blanks = {}
  <2>1. PICK next : next = Append(tree, m)
    OBVIOUS
  <2>2. /\ next \in Seq(S) /\ Len(next) = Len(tree) + 1
        /\ \A i \in 1..Len(tree) : next[i] = tree[i]
        /\ next[Len(tree) + 1] = m
    BY <1>1, <2>1, AppendProperties
  <2>3. DOMAIN next = DOMAIN tree \cup {Len(tree) + 1} /\ Len(tree) + 1 \notin DOMAIN tree
    <3>1. DOMAIN next = 1..Len(next)
      BY <2>2, LenProperties
    <3> QED
      BY <1>1, <2>2, <3>1
  <2>4. Places(next, m) = {Len(tree) + 1}
    BY <1>1, <2>2, <2>3 DEF Places
  <2>5. \A n \in Member \ {m} : Places(next, n) = Places(tree, n)
    BY <1>1, <2>2, <2>3 DEF Places
  <2>6. Planted(tree, m) = next
    BY <1>2, <2>1 DEF Planted
  <2> QED
    BY <2>3, <2>4, <2>5, <2>6 DEF OnePlace
<1>3. CASE blanks # {}
  <2>1. PICK k \in blanks : Planted(tree, m) = [tree EXCEPT ![k] = m]
    <3>1. \E i \in blanks : \A j \in blanks : i <= j
      <4>1. blanks \in SUBSET Nat
        BY <1>1
      <4> HIDE DEF blanks
      <4> QED
        BY <1>3, <4>1, SomeFirst
    <3>2. PICK k : k = CHOOSE i \in blanks : \A j \in blanks : i <= j
      OBVIOUS
    <3>3. k \in blanks
      BY <3>1, <3>2
    <3> QED
      BY <1>3, <3>2, <3>3 DEF Planted
  <2>2. PICK next : next = [tree EXCEPT ![k] = m]
    OBVIOUS
  <2>3. /\ k \in DOMAIN tree /\ tree[k] = Blank /\ DOMAIN next = DOMAIN tree
        /\ \A i \in DOMAIN tree : next[i] = IF i = k THEN m ELSE tree[i]
    BY <1>1, <2>2
  <2>4. Places(next, m) = {k}
    BY <1>1, <2>3 DEF Places
  <2>5. ASSUME NEW n \in Member \ {m}
        PROVE  Places(next, n) = Places(tree, n)
    <3>1. n # Blank /\ n # m
      BY MemberNotBlank
    <3> QED
      BY <2>3, <3>1 DEF Places
  <2> QED
    BY <2>1, <2>2, <2>3, <2>4, <2>5 DEF OnePlace
<1> QED
  BY <1>2, <1>3

(* A Commit more: those in the room who had a leaf keep it. *)
LEMMA AppendGrown ==
  ASSUME NEW log \in Seq(Entry), Len(log) >= 1, NEW e \in Entry, NEW ids, NEW room,
         Grown(log, ids, room), Leaves(e.tree) \subseteq ids,
         \A q \in room : IF Places(Tree(log), First(q)) # {}
                         THEN Places(e.tree, First(q)) = Places(Tree(log), First(q))
                         ELSE OnePlace(e.tree, First(q))
  PROVE  Grown(Append(log, e), ids, room)
<1>1. PICK n \in Nat : n = Len(log) /\ n >= 1
  BY LenProperties
<1>2. PICK next : next = Append(log, e)
  OBVIOUS
<1>3. /\ next \in Seq(Entry) /\ Len(next) = n + 1 /\ next[n + 1] = e
      /\ \A i \in 1..n : next[i] = log[i]
  BY <1>1, <1>2, AppendProperties
<1>4. DOMAIN next = 1..(n + 1) /\ DOMAIN log = 1..n
  BY <1>1, <1>3, LenProperties
<1>5. Tree(log) = log[n].tree /\ n \in 1..n
  BY <1>1 DEF Tree
<1>6. ASSUME NEW i \in DOMAIN next
      PROVE  Leaves(next[i].tree) \subseteq ids
  <2>1. CASE i = n + 1
    BY <1>3, <2>1
  <2>2. CASE i # n + 1
    <3>1. i \in DOMAIN log
      BY <1>1, <1>4, <2>2
    <3> QED
      BY <1>3, <1>4, <3>1 DEF Grown
  <2> QED
    BY <2>1, <2>2
<1>7. ASSUME NEW q \in room, NEW i \in DOMAIN next, NEW j \in DOMAIN next, i <= j,
             Places(next[i].tree, First(q)) # {}
      PROVE  /\ Places(next[j].tree, First(q)) = Places(next[i].tree, First(q))
             /\ OnePlace(next[i].tree, First(q))
  <2>1. CASE j # n + 1
    <3>1. i \in 1..n /\ j \in 1..n
      BY <1>1, <1>4, <1>7, <2>1
    <3> QED
      BY <1>3, <1>4, <1>7, <3>1 DEF Grown, Rooted
  <2>2. CASE j = n + 1 /\ i # n + 1
    <3>1. i \in 1..n /\ i <= n
      BY <1>1, <1>4, <2>2
    <3>2. /\ Places(log[n].tree, First(q)) = Places(log[i].tree, First(q))
          /\ OnePlace(log[i].tree, First(q)) /\ Places(log[i].tree, First(q)) # {}
      BY <1>3, <1>4, <1>5, <1>7, <3>1 DEF Grown, Rooted
    <3> QED
      BY <1>3, <1>5, <2>2, <3>1, <3>2
  <2>3. CASE j = n + 1 /\ i = n + 1
    <3>1. CASE Places(Tree(log), First(q)) # {}
      <4>1. n <= n
        BY <1>1
      <4>2. OnePlace(Tree(log), First(q))
        BY <1>4, <1>5, <3>1, <4>1 DEF Grown, Rooted
      <4>3. Places(e.tree, First(q)) = Places(Tree(log), First(q))
        BY <3>1
      <4>4. PICK l : Places(e.tree, First(q)) = {l}
        BY <3>1, <4>2, <4>3 DEF OnePlace
      <4>5. l \in DOMAIN e.tree
        BY <4>4 DEF Places
      <4> QED
        BY <1>3, <2>3, <4>4, <4>5 DEF OnePlace
    <3>2. CASE Places(Tree(log), First(q)) = {}
      BY <1>3, <2>3, <3>2
    <3> QED
      BY <3>1, <3>2
  <2> QED
    BY <2>1, <2>2, <2>3
<1> QED
  BY <1>2, <1>6, <1>7 DEF Grown, Rooted

(* Adding somebody who had no leaf. *)
LEMMA AddingGrown ==
  ASSUME NEW log \in Seq(Entry), Len(log) >= 1, NEW by \in Member, NEW m \in Member,
         NEW ids, NEW room, room \subseteq Peer, Grown(log, ids, room), m \in ids,
         m \notin Roll(log), \A q \in room : First(q) \in Member
  PROVE  Grown(CommitAdding(log, by, m), ids, room)
<1>1. PICK e : e = [by |-> by, tree |-> Planted(Tree(log), m)]
  OBVIOUS
<1>2. Tree(log) \in Seq(Member \cup {Blank}) /\ e \in Entry /\ e.tree = Planted(Tree(log), m)
  BY <1>1, TreeType, PlantedType DEF Entry
<1>3. log # <<>>
  BY EmptySeq
<1>4. Roll(log) = Leaves(Tree(log))
  BY <1>2, <1>3, RollOfAppended
<1>5. /\ Leaves(e.tree) = Leaves(Tree(log)) \cup {m} /\ OnePlace(e.tree, m)
      /\ \A n \in Member \ {m} : Places(e.tree, n) = Places(Tree(log), n)
  BY <1>2, <1>4, PlantedLeaves, PlantedPlaces
<1>6. Leaves(Tree(log)) \subseteq ids
  <2>1. Len(log) \in DOMAIN log
    BY LenProperties
  <2> QED
    BY <2>1 DEF Grown, Tree
<1>7. ASSUME NEW q \in room
      PROVE  IF Places(Tree(log), First(q)) # {}
             THEN Places(e.tree, First(q)) = Places(Tree(log), First(q))
             ELSE OnePlace(e.tree, First(q))
  <2>1. CASE First(q) = m
    <3>1. Places(Tree(log), m) = {}
      BY <1>4, MemberNotBlank, PlacesAreLeaves
    <3> QED
      BY <1>5, <2>1, <3>1
  <2>2. CASE First(q) # m
    BY <1>5, <2>2 DEF OnePlace
  <2> QED
    BY <2>1, <2>2
<1>8. CommitAdding(log, by, m) = Append(log, e)
  BY <1>1 DEF CommitAdding
<1> QED
  BY <1>2, <1>5, <1>6, <1>7, <1>8, AppendGrown

(* Taking out nobody who is in the room. *)
LEMMA RemovingGrown ==
  ASSUME NEW log \in Seq(Entry), Len(log) >= 1, NEW by \in Member, NEW out,
         NEW ids, NEW room, Grown(log, ids, room), \A q \in room : First(q) \in Member \ out
  PROVE  Grown(CommitRemoving(log, by, out), ids, room)
<1>1. PICK tree : tree = Tree(log)
  OBVIOUS
<1>2. PICK next : next = [i \in DOMAIN tree |-> IF tree[i] \in out THEN Blank ELSE tree[i]]
  OBVIOUS
<1>3. PICK e : e = [by |-> by, tree |-> next]
  OBVIOUS
<1>4. e \in Entry
  <2> DEFINE S == Member \cup {Blank}
  <2>1. /\ Len(tree) \in Nat /\ DOMAIN tree = 1..Len(tree)
        /\ \A i \in 1..Len(tree) : tree[i] \in S
    BY <1>1, TreeType, LenProperties, ElementOfSeq
  <2>2. Blank \in S
    OBVIOUS
  <2> HIDE DEF S
  <2>3. next \in [1..Len(tree) -> S]
    BY <1>2, <2>1, <2>2
  <2>4. next \in Seq(S)
    BY <2>1, <2>3, FunctionIsSeq
  <2> QED
    BY <1>3, <2>4 DEF Entry, S
<1>5. Leaves(next) \subseteq Leaves(tree) /\ e.tree = next
  BY <1>2, <1>3 DEF Leaves
<1>6. Leaves(tree) \subseteq ids
  <2>1. Len(log) \in DOMAIN log
    BY LenProperties
  <2> QED
    BY <1>1, <2>1 DEF Grown, Tree
<1>7. ASSUME NEW q \in room
      PROVE  IF Places(Tree(log), First(q)) # {}
             THEN Places(e.tree, First(q)) = Places(Tree(log), First(q))
             ELSE OnePlace(e.tree, First(q))
  <2>1. First(q) \notin out /\ First(q) # Blank
    BY MemberNotBlank
  <2>2. Places(next, First(q)) = Places(tree, First(q))
    BY <1>2, <2>1 DEF Places
  <2> QED
    BY <1>1, <1>5, <2>2 DEF OnePlace
<1>8. CommitRemoving(log, by, out) = Append(log, e)
  BY <1>1, <1>2, <1>3 DEF CommitRemoving
<1> QED
  BY <1>4, <1>5, <1>6, <1>7, <1>8, AppendGrown

(* The group its founder is alone in has one leaf. *)
LEMMA CreatedGrown ==
  ASSUME NEW m \in Member, NEW ids, m \in ids, NEW room
  PROVE  Grown(Created(m), ids, room)
<1>1. PICK log : log = Created(m)
  OBVIOUS
<1>2. Len(log) = 1 /\ DOMAIN log = {1} /\ log[1].tree = <<m>>
  BY <1>1 DEF Created
<1>3. PICK tree : tree = <<m>>
  OBVIOUS
<1>4. DOMAIN tree = {1} /\ tree[1] = m
  BY <1>3
<1>5. Leaves(tree) \subseteq {m} /\ \A n : OnePlace(tree, n)
  BY <1>4 DEF Leaves, OnePlace, Places
<1> QED
  BY <1>1, <1>2, <1>3, <1>5 DEF Grown, Rooted

(* A group grows no other way when more come in who never had a leaf. *)
LEMMA GrownAges ==
  ASSUME NEW log, NEW ids, NEW more, NEW room, NEW other, Grown(log, ids, room),
         ids \subseteq more, \A q \in other \ room : First(q) \notin ids /\ First(q) # Blank
  PROVE  Grown(log, more, other)
<1>1. ASSUME NEW q \in other \ room, NEW i \in DOMAIN log
      PROVE  Places(log[i].tree, First(q)) = {}
  BY <1>1, PlacesAreLeaves DEF Grown
<1> QED
  BY <1>1 DEF Grown, Rooted

-----------------------------------------------------------------------------
(* Who decides, when nobody's socket is down *)

(* Identities of which each person has one. *)
Firsts(ids) == ids \subseteq Member /\ \A m \in ids : m = First(m[1])

(* With one device to an account, whoever is on the roster is here and whoever *)
(* is not is gone.                                                             *)
LEMMA PresenceIs ==
  ASSUME OneDevice, NEW ids, Firsts(ids), NEW c, NamesFit(c, ids), Members(c.log) \subseteq ids,
         NEW who, who \subseteq Peer, NEW m \in Members(c.log)
  PROVE  Presence(c, who, {}, m) = IF m[1] \in who THEN "here" ELSE "gone"
<1> DEFINE account == AccountOf[m[1]]
           devices == {r \in who : c.names[r] = {} /\ AccountOf[r] = account}
           leaves == {n \in Members(c.log) : Named(c, n) = {} /\ AccountOf[n[1]] = account}
<1>1. m \in ids /\ m \in Member /\ m[1] \in Peer /\ m = First(m[1])
  BY DEF Firsts, Member
<1>2. ASSUME NEW r \in Peer
      PROVE  c.names[r] = {} \/ c.names[r] = {First(r)}
  BY <1>2 DEF NamesFit, Firsts
<1>3. Named(c, m) \subseteq {m[1]}
  <2>1. ASSUME NEW r \in Peer, c.names[r] = {m}
        PROVE  r = m[1]
    BY <1>2, <2>1 DEF First
  <2> QED
    BY <2>1 DEF Named
<1>4. CASE Named(c, m) # {}
  <2>1. Named(c, m) = {m[1]}
    BY <1>3, <1>4
  <2> QED
    BY <1>4, <2>1 DEF Presence
<1>5. CASE Named(c, m) = {}
  <2>1. c.names[m[1]] = {}
    BY <1>1, <1>2, <1>5 DEF Named
  <2>2. devices = IF m[1] \in who THEN {m[1]} ELSE {}
    <3>1. \A r \in who : AccountOf[r] = account => r = m[1]
      BY <1>1 DEF OneDevice
    <3> QED
      BY <2>1, <3>1
  <2>3. leaves = {m}
    <3>1. ASSUME NEW n \in Members(c.log), AccountOf[n[1]] = account
          PROVE  n = m
      <4>1. n \in ids /\ n[1] \in Peer /\ n = First(n[1])
        BY DEF Firsts, Member
      <4>2. n[1] = m[1]
        BY <1>1, <3>1, <4>1 DEF OneDevice
      <4> QED
        BY <1>1, <4>1, <4>2
    <3> QED
      BY <1>5, <3>1
  <2>4. Presence(c, who, {}, m) = IF devices = {} THEN "gone"
                                 ELSE IF Cardinality(devices \ {}) >= Cardinality(leaves)
                                 THEN "here" ELSE "reconnecting"
    BY <1>5 DEF Presence
  <2>5. \A x : Cardinality({x}) = 1
    BY FS_Singleton
  <2> HIDE DEF devices, leaves
  <2>6. CASE m[1] \in who
    <3>1. devices # {} /\ devices \ {} = {m[1]}
      BY <2>2, <2>6
    <3>2. Cardinality(devices \ {}) = 1 /\ Cardinality(leaves) = 1
      BY <2>3, <2>5, <3>1
    <3> QED
      BY <2>4, <2>6, <3>1, <3>2
  <2>7. CASE m[1] \notin who
    BY <2>2, <2>4, <2>7
  <2> QED
    BY <2>6, <2>7
<1> QED
  BY <1>4, <1>5

(* remove_e2ee_ghosts (room.rs): the ghosts are the members whose people are *)
(* not on the roster.                                                        *)
LEMMA GhostsAre ==
  ASSUME OneDevice, NEW ids, Firsts(ids), NEW c, NamesFit(c, ids), Members(c.log) \subseteq ids,
         NEW who, who \subseteq Peer
  PROVE  Ghosts(c, who, {}) = {m \in Members(c.log) : m[1] \notin who}
BY PresenceIs DEF Ghosts

(* The leaf a member is found at is its place in the tree. *)
LEMMA LeafIsPlace ==
  ASSUME NEW log, NEW m \in Members(log)
  PROVE  LeafOf(log, m) \in Places(Tree(log), m)
BY DEF LeafOf, Places, Members

(* Whoever decides has a smaller leaf than anybody else on the roster, and who *)
(* does not sees somebody whose leaf is smaller.                               *)
LEMMA CommitterLeads ==
  ASSUME OneDevice, NEW ids, Firsts(ids), NEW c, NamesFit(c, ids), Members(c.log) \subseteq ids,
         NEW who, who \subseteq Peer, NEW p \in who, First(p) \in Members(c.log),
         DOMAIN Tree(c.log) \subseteq Nat, OnePlace(Tree(c.log), First(p))
  PROVE  IF IsCommitter(c, who, {}, First(p))
         THEN \A q \in who \ {p} : OnePlace(Tree(c.log), First(q)) =>
                \A l \in Places(Tree(c.log), First(q)) :
                  \E k \in Places(Tree(c.log), First(p)) : k < l
         ELSE \E q \in who \ {p} : \E l \in Places(Tree(c.log), First(q)) :
                \A k \in Places(Tree(c.log), First(p)) : l < k
<1>1. ASSUME NEW m \in Members(c.log)
      PROVE  /\ LeafOf(c.log, m) \in Places(Tree(c.log), m) /\ LeafOf(c.log, m) \in Nat
             /\ OnePlace(Tree(c.log), m) => Places(Tree(c.log), m) = {LeafOf(c.log, m)}
             /\ Tree(c.log)[LeafOf(c.log, m)] = m
             /\ Presence(c, who, {}, m) = IF m[1] \in who THEN "here" ELSE "gone"
             /\ m = First(m[1])
  BY LeafIsPlace, PresenceIs DEF OnePlace, Places, Firsts
<1>2. First(p)[1] = p
  BY DEF First
<1>3. CASE IsCommitter(c, who, {}, First(p))
  <2>1. ASSUME NEW q \in who \ {p}, OnePlace(Tree(c.log), First(q)),
               NEW l \in Places(Tree(c.log), First(q))
        PROVE  \E k \in Places(Tree(c.log), First(p)) : k < l
    <3>1. First(q) \in Members(c.log) /\ First(q)[1] = q /\ First(q) # First(p)
      <4>1. First(q) # Blank
        <5>1. Len(First(q)) = 2 /\ Len(Blank) = 0
          BY EmptySeq DEF First, Blank
        <5> QED
          BY <5>1
      <4> QED
        BY <4>1 DEF Places, Members, First
    <3>2. LeafOf(c.log, First(p)) <= LeafOf(c.log, First(q))
      BY <1>1, <1>3, <3>1 DEF IsCommitter
    <3>3. l = LeafOf(c.log, First(q)) /\ l # LeafOf(c.log, First(p))
      BY <1>1, <2>1, <3>1
    <3>4. LeafOf(c.log, First(p)) \in Places(Tree(c.log), First(p))
      BY <1>1
    <3>5. LeafOf(c.log, First(p)) \in Nat /\ LeafOf(c.log, First(q)) \in Nat
      BY <1>1, <3>1
    <3>6. LeafOf(c.log, First(p)) < l
      BY <3>2, <3>3, <3>5
    <3> QED
      BY <3>4, <3>6
  <2> QED
    BY <1>3, <2>1
<1>4. CASE ~ IsCommitter(c, who, {}, First(p))
  <2>1. PICK n \in Members(c.log) : /\ Presence(c, who, {}, n) = "here"
                                   /\ ~ (LeafOf(c.log, First(p)) <= LeafOf(c.log, n))
    BY <1>1, <1>2, <1>4 DEF IsCommitter
  <2>2. n[1] \in who /\ n = First(n[1])
    BY <1>1, <2>1
  <2>3. LeafOf(c.log, n) < LeafOf(c.log, First(p))
    BY <1>1, <2>1
  <2>4. n[1] # p
    BY <1>1, <2>2, <2>3
  <2> QED
    BY <1>1, <1>4, <2>2, <2>3, <2>4
<1> QED
  BY <1>3, <1>4

-----------------------------------------------------------------------------
(* Who leaves says so last *)

(* The room says that x left. *)
Farewell(e, x) == e.name = "peerLeft" /\ e.peer = x

(* Of whoever is in the roster of who, or sent something of s, and is not in *)
(* the room, s says at last that it left.                                    *)
Farewells(s, who, room) ==
  /\ \A x \in who \ room : \E i \in DOMAIN s : Farewell(s[i], x)
  /\ \A i \in DOMAIN s : s[i].name # "peerLeft" /\ s[i].peer \notin room =>
       \E j \in DOMAIN s : i < j /\ Farewell(s[j], s[i].peer)

(* An event sent last leaves the farewells in order, if whoever leaves by then *)
(* says so by it.                                                              *)
LEMMA FarewellsAppend ==
  ASSUME NEW s \in Seq(Event), NEW e \in Event, NEW who, NEW room, Farewells(s, who, room),
         NEW other, \A x \in room \ other : Farewell(e, x),
         e.name # "peerLeft" => e.peer \in other
  PROVE  Farewells(Append(s, e), who, other)
<1>1. PICK n \in Nat : n = Len(s) /\ DOMAIN s = 1..n
  BY LenProperties
<1>2. PICK t : t = Append(s, e)
  OBVIOUS
<1>3. t \in Seq(Event) /\ Len(t) = n + 1 /\ t[n + 1] = e /\ \A i \in 1..n : t[i] = s[i]
  BY <1>1, <1>2, AppendProperties
<1>4. DOMAIN t = 1..(n + 1) /\ n + 1 \in 1..(n + 1) /\ \A i \in 1..n : i \in 1..(n + 1) /\ i < n + 1
  BY <1>1, <1>3, LenProperties
<1>5. ASSUME NEW x \in who \ other
      PROVE  \E i \in DOMAIN t : Farewell(t[i], x)
  <2>1. CASE x \in room
    BY <1>3, <1>4, <2>1
  <2>2. CASE x \notin room
    BY <1>1, <1>3, <1>4, <2>2 DEF Farewells
  <2> QED
    BY <2>1, <2>2
<1>6. ASSUME NEW i \in DOMAIN t, t[i].name # "peerLeft", t[i].peer \notin other
      PROVE  \E j \in DOMAIN t : i < j /\ Farewell(t[j], t[i].peer)
  <2>1. i \in 1..n /\ t[i] = s[i]
    <3>1. i # n + 1
      BY <1>3, <1>6
    <3> QED
      BY <1>1, <1>3, <1>4, <3>1
  <2>2. CASE t[i].peer \in room
    <3>1. Farewell(t[n + 1], t[i].peer)
      BY <1>3, <1>6, <2>2
    <3> QED
      BY <1>4, <2>1, <3>1
  <2>3. CASE t[i].peer \notin room
    <3>1. PICK j \in 1..n : i < j /\ Farewell(s[j], s[i].peer)
      BY <1>1, <1>6, <2>1, <2>3 DEF Farewells
    <3> QED
      BY <1>3, <1>4, <2>1, <3>1
  <2> QED
    BY <2>2, <2>3
<1> QED
  BY <1>2, <1>5, <1>6 DEF Farewells

(* Handling the first event leaves the farewells of those not handled in order. *)
LEMMA FarewellsTail ==
  ASSUME NEW s \in Seq(Event), s # <<>>, NEW who, NEW room, Farewells(s, who, room),
         NEW other, IF Head(s).name = "peerLeft" THEN other \subseteq who \ {Head(s).peer}
                    ELSE other \subseteq who \cup {Head(s).peer}
  PROVE  Farewells(Tail(s), other, room)
<1>1. PICK n \in Nat : n = Len(s) /\ DOMAIN s = 1..n
  BY LenProperties
<1>2. PICK t : t = Tail(s)
  OBVIOUS
<1>3. /\ Head(s) = s[1] /\ 1 \in 1..n
      /\ DOMAIN t = 1..(n - 1)
      /\ \A i \in 1..(n - 1) : t[i] = s[i + 1]
  BY <1>1, <1>2, HeadTailProperties, EmptySeq, LenProperties
<1>4. ASSUME NEW i \in 1..n, i # 1
      PROVE  i - 1 \in 1..(n - 1) /\ t[i - 1] = s[i]
  <2>1. i - 1 \in 1..(n - 1) /\ (i - 1) + 1 = i
    BY <1>1, <1>4
  <2> QED
    BY <1>3, <2>1
<1>5. ASSUME NEW x \in other \ room
      PROVE  \E i \in DOMAIN t : Farewell(t[i], x)
  <2>1. CASE x \in who
    <3>1. PICK i \in 1..n : Farewell(s[i], x)
      BY <1>1, <2>1 DEF Farewells
    <3>2. i # 1
      BY <1>3, <3>1 DEF Farewell
    <3> QED
      BY <1>3, <1>4, <3>1, <3>2
  <2>2. CASE x \notin who
    <3>1. s[1].name # "peerLeft" /\ x = s[1].peer
      BY <1>3, <2>2
    <3>2. PICK j \in 1..n : 1 < j /\ Farewell(s[j], x)
      BY <1>1, <1>3, <3>1 DEF Farewells
    <3> QED
      BY <1>3, <1>4, <3>2
  <2> QED
    BY <2>1, <2>2
<1>6. ASSUME NEW i \in 1..(n - 1), t[i].name # "peerLeft", t[i].peer \notin room
      PROVE  \E j \in 1..(n - 1) : i < j /\ Farewell(t[j], t[i].peer)
  <2>1. i + 1 \in 1..n /\ t[i] = s[i + 1] /\ i \in Nat
    BY <1>1, <1>3
  <2>2. PICK j \in 1..n : i + 1 < j /\ Farewell(s[j], t[i].peer)
    BY <1>1, <1>6, <2>1 DEF Farewells
  <2>3. j # 1 /\ i < j - 1
    BY <1>1, <2>1, <2>2
  <2> QED
    BY <1>4, <2>2, <2>3
<1> QED
  BY <1>2, <1>3, <1>5, <1>6 DEF Farewells

(* Fewer have to say farewell when more are in the room. *)
LEMMA FarewellsMore ==
  ASSUME NEW s, NEW who, NEW room, Farewells(s, who, room), NEW other, room \subseteq other
  PROVE  Farewells(s, who, other)
BY DEF Farewells

(* A farewell that is owed is somewhere in the inbox. *)
LEMMA FarewellInMail ==
  ASSUME NEW s, NEW who, NEW room, Farewells(s, who, room)
  PROVE  /\ \A x \in who \ room : \E e \in Elems(s) : Farewell(e, x)
         /\ \A e \in Elems(s) : e.peer \notin room => \E f \in Elems(s) : Farewell(f, e.peer)
<1>1. ASSUME NEW e \in Elems(s), e.peer \notin room
      PROVE  \E f \in Elems(s) : Farewell(f, e.peer)
  <2>1. CASE e.name = "peerLeft"
    BY <1>1, <2>1 DEF Farewell
  <2>2. CASE e.name # "peerLeft"
    BY <1>1, <2>2 DEF Farewells, Elems
  <2> QED
    BY <2>1, <2>2
<1> QED
  BY <1>1 DEF Farewells, Elems

(* What is in an inbox after one more event. *)
LEMMA AppendElems ==
  ASSUME NEW s \in Seq(Event), NEW e \in Event
  PROVE  Elems(Append(s, e)) = Elems(s) \cup {e}
<1>1. PICK n \in Nat : n = Len(s) /\ DOMAIN s = 1..n
  BY LenProperties
<1>2. PICK t : t = Append(s, e)
  OBVIOUS
<1>3. t \in Seq(Event) /\ Len(t) = n + 1 /\ t[n + 1] = e /\ \A i \in 1..n : t[i] = s[i]
  BY <1>1, <1>2, AppendProperties
<1>4. DOMAIN t = 1..n \cup {n + 1}
  <2>1. DOMAIN t = 1..(n + 1)
    BY <1>3, LenProperties
  <2> QED
    BY <1>1, <2>1
<1> QED
  BY <1>1, <1>2, <1>3, <1>4 DEF Elems

(* What is in an inbox before its first event is taken. *)
LEMMA TailElems ==
  ASSUME NEW s \in Seq(Event), s # <<>>
  PROVE  Elems(s) = {Head(s)} \cup Elems(Tail(s))
<1>1. PICK n \in Nat : n = Len(s) /\ DOMAIN s = 1..n
  BY LenProperties
<1>2. PICK t : t = Tail(s)
  OBVIOUS
<1>3. /\ Head(s) = s[1] /\ 1 \in 1..n
      /\ DOMAIN t = 1..(n - 1)
      /\ \A i \in 1..(n - 1) : t[i] = s[i + 1]
  BY <1>1, <1>2, HeadTailProperties, EmptySeq, LenProperties
<1>4. ASSUME NEW i \in 1..n, i # 1
      PROVE  s[i] \in Elems(t)
  <2>1. i - 1 \in 1..(n - 1) /\ (i - 1) + 1 = i
    BY <1>1, <1>4
  <2> QED
    BY <1>3, <2>1 DEF Elems
<1>5. \A i \in 1..(n - 1) : i + 1 \in 1..n
  BY <1>1
<1>6. {s[i] : i \in 1..n} = {s[1]} \cup {t[i] : i \in 1..(n - 1)}
  BY <1>3, <1>4, <1>5 DEF Elems
<1>7. Elems(s) = {Head(s)} \cup Elems(t)
  BY <1>1, <1>3, <1>6 DEF Elems
<1> QED
  BY <1>2, <1>7

-----------------------------------------------------------------------------
(* Until something fails or somebody is kicked *)

(* What nobody hears then, of others or of itself. *)
Alarms == {"peerConnectionLost", "peerReconnected", "sessionRejoined", "peerKicked"}

(* People come and go, and everyone in the room sees itself. *)
CalmRoom ==
  /\ \A p \in Peer : status[p] \in {"unborn", "here", "gone"} /\ away[p] = {}
  /\ \A p \in InRoom : p \in seen[p]
  /\ \A p \in Peer : \A e \in Mail(p) : e.peer # p /\ e.name \notin Alarms

(* Nothing goes wrong, before this step or in it. *)
Undisturbed == Intact /\ kicks = 0 /\ kicks' = 0 /\ CalmRoom

Handles(p) == inbox[p] # <<>> /\ Handle(p, Head(inbox[p]))

(* p asks for something, or hears the answer. *)
Requests(p) == AskToJoin(p) \/ SendCommit(p) \/ HearAnswer(p) \/ SendWelcome(p)

(* Until a socket is lost, a request fails or somebody is kicked, people enter, *)
(* leave, handle an event or make a request.                                    *)
LEMMA CalmSteps ==
  ASSUME CallInv, Undisturbed, NEW p \in Peer, Runs(p) \/ Befalls(p)
  PROVE  Enter(p) \/ Exit(p) \/ Handles(p) \/ Requests(p)
<1>1. /\ ~ RequestFails(p) /\ ~ AnswerFails(p) /\ ~ Notice(p) /\ ~ Drop(p) /\ ~ Reconnect(p)
      /\ ~ Expire(p)
  BY NobodyDrops, NobodyGivesUp DEF Undisturbed, Intact
<1>2. ~ Expel(p)
  BY DEF Expel, Undisturbed
<1>3. ~ Stop(p)
  BY DEF Stop, Undisturbed, CalmRoom
<1> QED
  BY <1>1, <1>2, <1>3 DEF Runs, Befalls, Handles, Requests

(* The event loop of a client (room.rs) does one thing at a time: it asks, or *)
(* it handles an event.                                                       *)
LEMMA OneAtATime ==
  ASSUME CallInv, NEW p \in Peer
  PROVE  /\ Requests(p) => InCall(p) /\ task[p] # Idle /\ ~ Enter(p) /\ ~ Exit(p) /\ ~ Handles(p)
         /\ Requests(p) \/ Handles(p) => status' = status /\ InRoom' = InRoom
         /\ Handles(p) => InCall(p) /\ task[p] = Idle /\ ~ Enter(p) /\ ~ Exit(p)
         /\ Enter(p) => ~ Exit(p) /\ ~ InCall(p) /\ status[p] = "unborn"
<1>1. /\ InCall(p) => status[p] \in {"here", "orphan", "closing"}
      /\ status \in [Peer -> Status]
  BY DEF CallInv, ClientFits, FitSeat, IInv, TypeOK
<1>2. Enter(p) => status[p] = "unborn"
  BY DEF Enter, Join
<1>3. Exit(p) => status[p] = "here" /\ status'[p] = "gone"
  BY <1>1 DEF Exit, Leave, Hears
<1>4. Handles(p) => InCall(p) /\ task[p] = Idle /\ status' = status
  BY HandleMoves DEF Handles, Take, Receive
<1>5. Requests(p) => InCall(p) /\ task[p] # Idle /\ status' = status
  <2> SUFFICES ASSUME Requests(p) PROVE InCall(p) /\ task[p] # Idle /\ status' = status
    OBVIOUS
  <2>1. task[p] # Idle
    BY DEF Requests, AskToJoin, SendCommit, HearAnswer, SendWelcome, Idle
  <2>2. status' = status
    BY DEF Requests, AskToJoin, SendCommit, HearAnswer, SendWelcome, relayVars,
           RelayE2eeJoin, RelayE2eeCommit, RelayE2eeWelcome
  <2> QED
    BY <2>1, <2>2, Waiting
<1>6. status' = status => InRoom' = InRoom
  BY DEF InRoom
<1> QED
  BY <1>1, <1>2, <1>3, <1>4, <1>5, <1>6

(* The roster's news are one event each. *)
LEMMA AboutIs ==
  ASSUME NEW name \in RosterNames, NEW p \in Peer
  PROVE  About(name, <<p>>) = <<[name |-> name, peer |-> p]>>
<1>1. name \in Told
  BY CallAssumption DEF TellableNames
<1>2. About(name, <<p>>) = [i \in DOMAIN <<p>> |-> [name |-> name, peer |-> <<p>>[i]]]
  BY <1>1 DEF About
<1>3. PICK t : t = About(name, <<p>>)
  OBVIOUS
<1>4. t \in Seq(Event)
  BY <1>3, AboutOne
<1>5. PICK one : one = <<p>>
  OBVIOUS
<1>6. DOMAIN one = 1..1 /\ one[1] = p
  BY <1>5
<1>7. DOMAIN t = 1..1 /\ t[1] = [name |-> name, peer |-> p]
  BY <1>2, <1>3, <1>5, <1>6
<1>8. PICK e : e = [name |-> name, peer |-> p]
  OBVIOUS
<1>9. Len(t) = 1
  BY <1>4, <1>7, LenProperties
<1>10. e \in Event
  BY <1>4, <1>7, <1>8, <1>9, ElementOfSeq
<1>11. <<e>> \in Seq(Event) /\ Len(<<e>>) = 1 /\ <<e>>[1] = e
  BY <1>10
<1>12. \A i \in 1..1 : t[i] = <<e>>[i]
  BY <1>7, <1>8, <1>11
<1>13. t = <<e>>
  BY <1>4, <1>9, <1>11, <1>12, SeqEqual
<1> QED
  BY <1>3, <1>8, <1>13

(* The event a step of p puts into the inbox of q. *)
News(p, q, e) ==
  /\ e \in Event /\ e.peer = p
  /\ \/ Enter(p) /\ q # p /\ e.name = "peerJoined"
     \/ Exit(p) /\ q # p /\ e.name = "peerLeft"
     \/ AskToJoin(p) /\ q # p /\ e.name = "e2eeJoinRequested" /\ e.payload = Own(p) /\ InCall(p)
     \/ /\ SendCommit(p) /\ q # p /\ e.name = "e2eeCommit"
        /\ e.group = call[p].group /\ e.payload = task[p].log /\ task[p].step = "commit"
     \/ /\ SendWelcome(p) /\ e.name = "e2eeWelcome" /\ e.life = session
        /\ e.group = call[p].group /\ e.epoch = Epoch(call[p].log) - 1
        /\ task[p].step = "welcome" /\ q \in task[p].welcome

(* A step of p is nothing that q's inbox would have to change for. *)
Spared(p, q) == ~ (Exit(p) /\ q \in InRoom') /\ ~ (q = p /\ (Enter(p) \/ Handles(p)))

MailMoves(p, q) ==
  \/ inbox'[q] = inbox[q] /\ Spared(p, q)
  \/ status[q] = "here" /\ \E e \in Event : News(p, q, e) /\ inbox'[q] = Append(inbox[q], e)
  \/ q = p /\ Handles(p) /\ inbox'[p] = Tail(inbox[p])
  \/ q = p /\ Enter(p) /\ inbox'[p] = <<>>

(* What the relay sends on behalf of p is at most one event about p, at the end *)
(* of each inbox.                                                               *)
LEMMA SentMoves ==
  ASSUME TypeOK, NEW p \in Peer, NEW to, NEW e \in Event, inbox' = Sent(to, <<e>>),
         NEW q \in Peer, q \in to => News(p, q, e), ~ Exit(p), ~ Enter(p), ~ Handles(p)
  PROVE  MailMoves(p, q)
<1>1. inbox'[q] = IF q \in to /\ Hears(q) THEN inbox[q] \o <<e>> ELSE inbox[q]
  BY DEF Sent
<1>2. inbox[q] \in Seq(Event)
  BY MailType
<1>3. Append(inbox[q], e) = inbox[q] \o <<e>>
  BY <1>2, AppendIsConcat
<1> QED
  BY <1>1, <1>3 DEF MailMoves, Spared, Hears

(* addPeer (Room.ts) tells the others of a newcomer and nothing else. *)
LEMMA EnterMail ==
  ASSUME CallInv, Undisturbed, OneDevice, NEW p \in Peer, Enter(p), NEW q \in Peer
  PROVE  MailMoves(p, q)
<1>1. TypeOK
  BY DEF CallInv, IInv
<1>2. PICK left \in [1..Cardinality({} \cup Others(p)) -> {} \cup Others(p)] :
        inbox' = [r \in Peer |->
                    IF r = p THEN About("peerLeft", left)
                    ELSE IF Hears(r) /\ r \notin {} \cup Others(p)
                    THEN inbox[r] \o About("peerLeft", left) \o About("peerJoined", <<p>>)
                    ELSE inbox[r]]
  BY DEF Enter, Join
<1>3. Others(p) = {}
  BY NobodyReplaced
<1>4. PICK news : news = About("peerLeft", left)
  OBVIOUS
<1>5. news \in Seq(Event) /\ Elems(news) = {}
  <2>1. {} \cup Others(p) \in SUBSET Peer
    BY <1>3
  <2>2. /\ news \in Seq(Event)
        /\ Elems(news) \subseteq {[name |-> "peerLeft", peer |-> o] : o \in {} \cup Others(p)}
    BY <1>4, <2>1, AboutSome
  <2> QED
    BY <1>3, <2>2
<1>6. news = <<>>
  <2>1. Len(news) \in Nat /\ DOMAIN news = 1..Len(news)
    BY <1>5, LenProperties
  <2>2. DOMAIN news = {}
    BY <1>5 DEF Elems
  <2>3. Len(news) = 0
    BY <2>1, <2>2
  <2> QED
    BY <1>5, <2>3, EmptySeq
<1>7. PICK e : e = [name |-> "peerJoined", peer |-> p] /\ About("peerJoined", <<p>>) = <<e>>
  BY AboutIs DEF RosterNames
<1>8. e \in Event /\ e.name = "peerJoined" /\ e.peer = p
  BY <1>7 DEF Event, RosterEvent, RosterNames
<1>9. ~ Exit(p)
  BY DEF Exit, Enter, Join, Leave, Hears
<1>10. CASE q = p
  BY <1>2, <1>4, <1>6, <1>10 DEF MailMoves, Spared
<1>11. CASE q # p
  <2>1. inbox[q] \in Seq(Event)
    BY <1>1, MailType
  <2>2. Append(inbox[q], e) = inbox[q] \o <<e>> /\ inbox[q] \o <<>> = inbox[q]
    BY <1>8, <2>1, AppendIsConcat, ConcatEmptySeq
  <2>3. inbox'[q] = IF Hears(q) THEN Append(inbox[q], e) ELSE inbox[q]
    BY <1>2, <1>3, <1>4, <1>6, <1>7, <1>11, <2>2
  <2>4. News(p, q, e)
    BY <1>8, <1>11 DEF News
  <2> QED
    BY <1>8, <1>9, <1>11, <2>3, <2>4 DEF MailMoves, Spared, Hears
<1> QED
  BY <1>10, <1>11

(* removePeer (Room.ts) tells the others of whoever leaves and nothing else. *)
LEMMA ExitMail ==
  ASSUME CallInv, Undisturbed, NEW p \in Peer, Exit(p), NEW q \in Peer
  PROVE  MailMoves(p, q)
<1>1. TypeOK
  BY DEF CallInv, IInv
<1>2. PICK e : e = [name |-> "peerLeft", peer |-> p] /\ About("peerLeft", <<p>>) = <<e>>
  BY AboutIs DEF RosterNames
<1>3. e \in Event /\ e.name = "peerLeft" /\ e.peer = p
  BY <1>2 DEF Event, RosterEvent, RosterNames
<1>4. inbox'[q] = IF q \in Peer \ {p} /\ Hears(q) THEN inbox[q] \o <<e>> ELSE inbox[q]
  BY <1>2 DEF Exit, Leave, Sent
<1>5. q \in InRoom' => q # p /\ Hears(q)
  BY <1>1 DEF Exit, Leave, InRoom, TypeOK, Hears, Undisturbed, Intact, SocketsUp
<1>8. ~ Enter(p) /\ ~ Handles(p)
  BY OneAtATime
<1>6. CASE q \in Peer \ {p} /\ Hears(q)
  <2>1. inbox[q] \in Seq(Event)
    BY <1>1, MailType
  <2>2. Append(inbox[q], e) = inbox[q] \o <<e>>
    BY <1>3, <2>1, AppendIsConcat
  <2>3. News(p, q, e)
    BY <1>3, <1>6 DEF News
  <2> QED
    BY <1>3, <1>4, <1>6, <2>2, <2>3 DEF MailMoves, Spared, Hears
<1>7. CASE ~ (q \in Peer \ {p} /\ Hears(q))
  BY <1>4, <1>5, <1>7, <1>8 DEF MailMoves, Spared
<1> QED
  BY <1>6, <1>7

(* Whatever p does, an inbox gets news of p alone, or loses its first event. *)
LEMMA MailGoes ==
  ASSUME MlsIsPayload, OneDevice, CallInv, Undisturbed,
         NEW p \in Peer, Runs(p) \/ Befalls(p), NEW q \in Peer
  PROVE  MailMoves(p, q)
<1>1. TypeOK
  BY DEF CallInv, IInv
<1>2. Requests(p) => ~ Exit(p) /\ ~ Enter(p) /\ ~ Handles(p)
  BY OneAtATime
<1>3. CASE Exit(p)
  BY <1>3, ExitMail
<1>4. CASE Enter(p)
  BY <1>4, EnterMail
<1>5. CASE Handles(p)
  <2>1. inbox' = [inbox EXCEPT ![p] = Tail(@)]
    BY <1>5, HandleMoves DEF Handles, Take, Receive
  <2>2. ~ Exit(p) /\ ~ Enter(p)
    BY <1>5, OneAtATime
  <2> QED
    BY <1>1, <1>5, <2>1, <2>2 DEF TypeOK, MailMoves, Spared
<1>6. CASE HearAnswer(p)
  BY <1>2, <1>6 DEF HearAnswer, relayVars, MailMoves, Spared, Requests
<1>7. CASE AskToJoin(p)
  <2>1. PICK e : /\ e = [name |-> "e2eeJoinRequested", peer |-> p,
                         group |-> call[p].group, payload |-> Own(p)]
                 /\ inbox' = inbox \/ inbox' = Sent(Peer \ {p}, <<e>>)
    BY <1>7 DEF AskToJoin, RelayE2eeJoin
  <2>2. InCall(p) /\ call[p].group \in Group /\ Own(p) \in Payload
    BY <1>7, Waiting, Handling DEF AskToJoin, Idle, MlsIsPayload
  <2>3. e \in Event
    BY <2>1, <2>2 DEF Event, KeyPackageEvent
  <2>4. q \in Peer \ {p} => News(p, q, e)
    BY <1>7, <2>1, <2>2, <2>3 DEF News
  <2>5. PICK to : to = Peer \ {p}
    OBVIOUS
  <2>6. inbox' = Sent(to, <<e>>) => MailMoves(p, q)
    BY <1>1, <1>2, <1>7, <2>3, <2>4, <2>5, SentMoves DEF Requests
  <2> QED
    BY <1>2, <1>7, <2>1, <2>5, <2>6 DEF MailMoves, Spared, Requests
<1>8. CASE SendCommit(p)
  <2>1. PICK c : /\ RelayE2eeCommit(p, c) /\ task[p].step = "commit"
                 /\ c = [group |-> call[p].group, epoch |-> Epoch(call[p].log),
                         payload |-> task[p].log]
    BY <1>8 DEF SendCommit
  <2>2. CASE CommitAnswer(p, c) # "accepted"
    BY <1>2, <1>8, <2>1, <2>2 DEF RelayE2eeCommit, MailMoves, Spared, Requests
  <2>3. CASE CommitAnswer(p, c) = "accepted"
    <3>1. PICK e : e = CommitNews(p, c)
      OBVIOUS
    <3>2. c \in AnyCommit
      BY <2>1, Submitted DEF AnyCommit, MlsIsPayload
    <3>3. e \in CommitEvent
      BY <1>1, <3>1, <3>2 DEF CommitEvent, CommitNews, AnyCommit, TypeOK
    <3>4. e \in Event
      BY <3>3 DEF Event
    <3>5. inbox' = Sent(Peer \ {p}, <<e>>)
      BY <2>1, <2>3, <3>1 DEF RelayE2eeCommit, CommitNews
    <3>6. q \in Peer \ {p} => News(p, q, e)
      BY <1>8, <2>1, <3>1, <3>4 DEF News, CommitNews
    <3>7. PICK to : to = Peer \ {p}
      OBVIOUS
    <3> QED
      BY <1>1, <1>2, <1>8, <3>4, <3>5, <3>6, <3>7, SentMoves DEF Requests
  <2> QED
    BY <2>2, <2>3
<1>9. CASE SendWelcome(p)
  <2>1. CASE inbox' = inbox
    BY <1>2, <1>9, <2>1 DEF MailMoves, Spared, Requests
  <2>2. CASE inbox' # inbox
    <3>1. PICK r \in task[p].welcome :
            RelayE2eeWelcome(p, [group |-> call[p].group, epoch |-> Epoch(call[p].log) - 1,
                                 target |-> r])
      BY <1>9, <2>2 DEF SendWelcome, WelcomeFor, relayVars
    <3>2. PICK e : /\ e = [name |-> "e2eeWelcome", peer |-> p, life |-> session,
                           group |-> call[p].group, epoch |-> Epoch(call[p].log) - 1]
                   /\ inbox' = Sent({r}, <<e>>)
      BY <3>1 DEF RelayE2eeWelcome
    <3>3. /\ FitTask(call[p], task[p], accepted) /\ call[p].group \in Group /\ session \in Nat
          /\ Len(call[p].log) \in Nat
      BY <1>9, Waiting, Handling DEF SendWelcome, Idle
    <3>4. Epoch(call[p].log) - 1 \in Nat
      BY <1>9, <3>3 DEF SendWelcome, FitTask, Epoch
    <3>5. e \in Event
      BY <3>2, <3>3, <3>4 DEF Event, WelcomeEvent
    <3>6. q \in {r} => News(p, q, e)
      BY <1>9, <3>1, <3>2, <3>5 DEF News, SendWelcome
    <3>7. PICK to : to = {r}
      OBVIOUS
    <3> QED
      BY <1>1, <1>2, <1>9, <3>2, <3>5, <3>6, <3>7, SentMoves DEF Requests
  <2> QED
    BY <2>1, <2>2
<1> QED
  BY <1>3, <1>4, <1>5, <1>6, <1>7, <1>8, <1>9, CalmSteps DEF Requests

-----------------------------------------------------------------------------
(* What is staged then *)

(* Everybody who ever came in, by the one identity each has. *)
Born == {m \in Member : status[m[1]] # "unborn" /\ m[2] = 1}

(* KeyPackages are of those identities, and what they say of whom is noted so. *)
Identified ==
  /\ \A p \in Peer : starts[p] <= 1 /\ NamesFit(call[p], Born)
  /\ \A p \in Peer : \A e \in Mail(p) : e.name = "e2eeJoinRequested" =>
       e.payload = First(e.peer) /\ status[e.peer] # "unborn"

(* p, who decides, puts q in. *)
Adds(p, c, who, q, t) ==
  /\ IsCommitter(c, who, {}, Own(p)) /\ First(q) \notin Roll(c.log)
  /\ t = Submit(CommitAdding(c.log, Own(p), First(q)), {q}, {})

(* p, who decides, takes the ghosts out and goes on with those of next. *)
Clears(p, c, who, next, t) ==
  /\ Cleans(p, c, who, {}) /\ t = StageRemoveGhosts(p, c, who, {}, next)
  /\ \A q \in next : First(q) \notin Roll(c.log)

(* Nothing is staged, and no Welcome either. *)
Rests(t) == t.step \notin {"commit", "accepted", "refused", "welcome"}

(* p stages a Commit, to put one of news in now or next. *)
StagedFor(p, c, who, news, t) ==
  \/ \E q \in news : Adds(p, c, who, q, t)
  \/ \E next \in SUBSET news : Clears(p, c, who, next, t)

(* It does in the call it has then. *)
Proposes(p, news) == StagedFor(p, call'[p], seen'[p], news, task'[p])

(* Everybody who came in has one identity. *)
LEMMA BornFirsts == Firsts(Born)
<1> SUFFICES ASSUME NEW m \in Born PROVE m = First(m[1])
  BY DEF Firsts, Born
<1>1. m \in Peer \X (1..MaxStarts) /\ m[2] = 1
  BY DEF Born, Member
<1>2. m = <<m[1], m[2]>>
  BY <1>1
<1> QED
  BY <1>1, <1>2 DEF First

(* The first identity of a peer is of those born once the peer came in. *)
LEMMA FirstBorn ==
  ASSUME NEW q \in Peer
  PROVE  /\ First(q) \in Member /\ First(q)[1] = q /\ First(q)[2] = 1
         /\ First(q) \in Born <=> status[q] # "unborn"
<1>1. 1 \in 1..MaxStarts
  BY CallAssumption
<1>2. First(q) \in Member /\ First(q)[1] = q /\ First(q)[2] = 1
  BY <1>1, OwnMember DEF First
<1> QED
  BY <1>2 DEF Born

(* Who has a tree does not wait for a Welcome. *)
LEMMA TreeIsTaken ==
  ASSUME NEW p, HasTree(p)
  PROVE  ~ Awaiting(call[p]) /\ Roll(call[p].log) = Members(call[p].log)
BY DEF HasTree, Awaiting, Roll

(* What the roster of p is after the first event of its inbox. *)
LEMMA RosterThen ==
  ASSUME CallInv, Undisturbed, NEW p \in Peer, inbox[p] # <<>>, NEW e, e = Head(inbox[p]),
         Handle(p, e)
  PROVE  /\ e \in Mail(p) /\ e \in Event /\ e.peer \in Peer /\ e.peer # p /\ e.name \notin Alarms
         /\ away'[p] = {} /\ seen'[p] = SeenAfter(p, e) /\ AwayAfter(p, e) = {} /\ away[p] = {}
         /\ \A r \in Peer \ {p} : seen'[r] = seen[r] /\ away'[r] = away[r]
<1>1. e \in Event /\ FitEvent(p, e) /\ e \in Mail(p)
  <2>1. inbox[p] \in Seq(Event)
    BY MailType DEF CallInv, IInv
  <2> QED
    BY <2>1, HeadIsMail, TailElems DEF Mail
<1>2. e.peer \in Peer /\ e.peer # p /\ e.name \notin Alarms /\ away[p] = {}
  BY <1>1 DEF FitEvent, Undisturbed, CalmRoom
<1>3. AwayAfter(p, e) = {}
  BY <1>2 DEF AwayAfter, Alarms
<1>4. Take(p, e)
  BY HandleMoves
<1> QED
  BY <1>1, <1>2, <1>3, <1>4 DEF Take, CallInv, CallShape

(* A client stages a Commit when it is asked to put somebody in, or told that *)
(* somebody left and finds ghosts; a client with a tree that stages nothing   *)
(* then has none to take out, or does not decide.                             *)
LEMMA HandleStages ==
  ASSUME CallInv, Undisturbed, Identified, NEW p \in Peer, inbox[p] # <<>>,
         NEW e, e = Head(inbox[p]), Handle(p, e)
  PROVE  /\ \/ Rests(task'[p])
            \/ /\ HasTree(p) /\ call'[p].log = call[p].log
               /\ \/ e.name = "e2eeJoinRequested" /\ Proposes(p, {e.peer})
                  \/ e.name = "peerLeft" /\ Proposes(p, {})
         /\ e.name = "peerLeft" /\ HasTree(p) =>
              /\ call'[p] = call[p]
              /\ \/ ~ Cleans(p, call[p], seen'[p], {})
                 \/ Clears(p, call[p], seen'[p], {}, task'[p])
<1>1. /\ e \in Mail(p) /\ e.peer \in Peer /\ e.name \notin Alarms
      /\ away'[p] = {} /\ seen'[p] = SeenAfter(p, e) /\ AwayAfter(p, e) = {} /\ away[p] = {}
  BY RosterThen
<1>2. call[p] \in ClientRecord /\ Rests(Idle)
  BY DEF CallInv, CallShape, Rests, Idle
<1>3. \A d, t : Calls(p, d, t) => call'[p] = d /\ task'[p] = t
  BY CallsMove
<1>4. CASE HandleRoster(p, e)
  <2>1. task'[p] = Idle /\ e.name # "peerLeft"
    BY <1>3, <1>4 DEF HandleRoster
  <2> QED
    BY <1>2, <2>1
<1>5. CASE HandleCommit(p, e)
  <2>1. e.name # "peerLeft" /\ (task'[p] = Idle \/ Restart(p))
    BY <1>3, <1>5 DEF HandleCommit
  <2>2. Restart(p) => task'[p] = Idle \/ task'[p] = [step |-> "join"]
    BY DEF Restart, CallInv, CallShape
  <2>3. Rests([step |-> "join"])
    BY DEF Rests
  <2> QED
    BY <1>2, <2>1, <2>2, <2>3
<1>6. CASE HandleWelcome(p, e)
  <2>1. task'[p] = Idle /\ e.name # "peerLeft"
    BY <1>3, <1>6 DEF HandleWelcome
  <2> QED
    BY <1>2, <2>1
<1>7. CASE HandleRejoined(p, e)
  BY <1>1, <1>7 DEF HandleRejoined, Alarms
<1>8. CASE HandlePeerLeft(p, e)
  <2> DEFINE c == call[p]
  <2>1. e.name = "peerLeft"
    BY <1>1, <1>8 DEF HandlePeerLeft, Alarms
  <2>2. CASE ~ HasTree(p)
    <3>1. task'[p] = Idle
      BY <1>3, <1>8, <2>2 DEF HandlePeerLeft, HasTree
    <3> QED
      BY <1>2, <2>2, <3>1
  <2>3. CASE HasTree(p) /\ Cleans(p, c, seen'[p], {})
    <3>1. call'[p] = c /\ task'[p] = StageRemoveGhosts(p, c, seen'[p], {}, {})
      BY <1>1, <1>3, <1>8, <2>3, TreeIsTaken DEF HandlePeerLeft
    <3>2. Clears(p, c, seen'[p], {}, task'[p])
      BY <2>3, <3>1 DEF Clears
    <3> QED
      BY <2>1, <2>3, <3>1, <3>2 DEF Proposes, StagedFor
  <2>4. CASE HasTree(p) /\ ~ Cleans(p, c, seen'[p], {})
    <3>1. call'[p] = c /\ task'[p] = Idle
      BY <1>1, <1>3, <1>8, <2>4, TreeIsTaken DEF HandlePeerLeft
    <3> QED
      BY <1>2, <2>4, <3>1
  <2> QED
    BY <2>2, <2>3, <2>4
<1>9. CASE HandleKeyPackage(p, e)
  <2> DEFINE noted == [call[p] EXCEPT !.names[e.peer] = {e.payload}]
  <2>1. e.name = "e2eeJoinRequested" /\ seen'[p] = seen[p] /\ e.payload = First(e.peer)
    BY <1>1, <1>9 DEF HandleKeyPackage, SeenAfter, Identified
  <2>2. noted.log = call[p].log /\ noted.names[e.peer] = {First(e.peer)}
    BY <1>1, <1>2, <2>1 DEF ClientRecord
  <2>3. CASE task'[p] = Idle
    BY <1>2, <2>1, <2>3
  <2>4. CASE task'[p] # Idle
    <3>1. HasTree(p) /\ e.payload \notin Members(noted.log) /\ call'[p] = noted
      BY <1>3, <1>9, <2>4 DEF HandleKeyPackage
    <3>2. First(e.peer) \notin Roll(noted.log)
      BY <2>1, <2>2, <3>1, TreeIsTaken
    <3>3. CASE Cleans(p, noted, seen[p], {})
      <4>1. task'[p] = StageRemoveGhosts(p, noted, seen[p], {}, {e.peer})
        BY <1>1, <1>3, <1>9, <2>4, <3>1, <3>3 DEF HandleKeyPackage
      <4>2. Clears(p, noted, seen[p], {e.peer}, task'[p])
        BY <3>2, <3>3, <4>1 DEF Clears
      <4>3. Proposes(p, {e.peer})
        BY <2>1, <3>1, <4>2 DEF Proposes, StagedFor
      <4> QED
        BY <2>1, <2>2, <3>1, <4>3
    <3>4. CASE ~ Cleans(p, noted, seen[p], {})
      <4>1. task'[p] = StageAdd(p, noted, seen[p], {}, e.peer)
        BY <1>1, <1>3, <1>9, <2>4, <3>1, <3>4 DEF HandleKeyPackage
      <4>2. IsCommitter(noted, seen[p], {}, Own(p))
        BY <2>4, <4>1 DEF StageAdd
      <4>3. (CHOOSE m \in noted.names[e.peer] : TRUE) = First(e.peer)
        BY <2>2
      <4>4. task'[p] = Submit(CommitAdding(noted.log, Own(p), First(e.peer)), {e.peer}, {})
        BY <4>1, <4>2, <4>3 DEF StageAdd
      <4>5. Adds(p, noted, seen[p], e.peer, task'[p])
        BY <3>2, <4>2, <4>4 DEF Adds
      <4>6. Proposes(p, {e.peer})
        BY <2>1, <3>1, <4>5 DEF Proposes, StagedFor
      <4> QED
        BY <2>1, <2>2, <3>1, <4>6
    <3> QED
      BY <3>3, <3>4
  <2> QED
    BY <2>3, <2>4
<1> QED
  BY <1>4, <1>5, <1>6, <1>7, <1>8, <1>9 DEF Handle

-----------------------------------------------------------------------------
(* The Commits of whoever has the smallest leaf *)

(* The tree the last Commit of log was made on. *)
Before(log) == log[Len(log) - 1].tree

(* The last Commit is of r, whose leaf was the smallest of the room's. *)
Led(log, r, room) ==
  /\ Len(log) >= 2
  /\ \A q \in room \ {r} : \A l \in Places(Before(log), First(q)) :
       \E k \in Places(Before(log), First(r)) : k < l

(* The last Commit is of r and put x in. *)
JustPut(log, r, x) ==
  Len(log) >= 2 /\ log[Len(log)].by[1] = r /\ First(x) \notin Leaves(Before(log))

(* The tree a Commit was made in is that of the log before it. *)
LEMMA AppendBefore ==
  ASSUME NEW log \in Seq(Entry), Len(log) >= 1, NEW e \in Entry
  PROVE  LET next == Append(log, e)
         IN  Len(next) >= 2 /\ Before(next) = Tree(log) /\ next[Len(next)] = e
<1>1. PICK n \in Nat : n = Len(log) /\ n >= 1
  BY LenProperties
<1>2. PICK next : next = Append(log, e)
  OBVIOUS
<1>3. /\ Len(next) = n + 1 /\ next[n + 1] = e /\ \A i \in 1..n : next[i] = log[i]
  BY <1>1, <1>2, AppendProperties
<1>4. (n + 1) - 1 = n /\ n \in 1..n /\ n + 1 >= 2
  BY <1>1
<1>5. Len(next) >= 2 /\ Before(next) = Tree(log) /\ next[Len(next)] = e
  BY <1>1, <1>3, <1>4 DEF Before, Tree
<1> QED
  BY <1>2, <1>5

(* Of a Commit that puts somebody in: the tree it was made in, and its author. *)
LEMMA AddingBefore ==
  ASSUME NEW log \in Seq(Entry), Len(log) >= 1, NEW by \in Member, NEW m \in Member
  PROVE  LET next == CommitAdding(log, by, m)
         IN  Len(next) >= 2 /\ Before(next) = Tree(log) /\ next[Len(next)].by = by
<1>1. PICK e : e = [by |-> by, tree |-> Planted(Tree(log), m)]
  OBVIOUS
<1>2. e \in Entry /\ e.by = by
  BY <1>1, TreeType, PlantedType DEF Entry
<1>3. CommitAdding(log, by, m) = Append(log, e)
  BY <1>1 DEF CommitAdding
<1> QED
  BY <1>2, <1>3, AppendBefore

(* Of a Commit that takes ghosts out: the tree it was made in. *)
LEMMA RemovingBefore ==
  ASSUME NEW log \in Seq(Entry), Len(log) >= 1, NEW by \in Member, NEW out
  PROVE  LET next == CommitRemoving(log, by, out)
         IN  Len(next) >= 2 /\ Before(next) = Tree(log)
<1>1. PICK n \in Nat : n = Len(log) /\ n >= 1
  BY LenProperties
<1>2. PICK next : next = CommitRemoving(log, by, out)
  OBVIOUS
<1>3. next \in Seq(Entry) /\ Len(next) = n + 1
  BY <1>1, <1>2, RemovingType
<1>4. PICK e : next = Append(log, e)
  BY <1>2 DEF CommitRemoving
<1>5. e \in Entry
  <2>1. next[n + 1] = e
    BY <1>1, <1>4
  <2>2. n + 1 \in 1..Len(next)
    BY <1>1, <1>3
  <2> QED
    BY <1>3, <2>1, <2>2, ElementOfSeq
<1>6. Len(next) >= 2 /\ Before(next) = Tree(log)
  BY <1>4, <1>5, AppendBefore
<1> QED
  BY <1>2, <1>6

(* p can stage in call c and the roster of who, of the identities ids. *)
ReadyToStage(p, c, who, ids, room) ==
  /\ c.log \in Seq(Entry) /\ Len(c.log) >= 1
  /\ Firsts(ids) /\ NamesFit(c, ids)
  /\ room \in SUBSET Peer /\ p \in room
  /\ Grown(c.log, ids, room) /\ Own(p) = First(p) /\ First(p) \in Roll(c.log)
  /\ who \in SUBSET Peer /\ \A q \in room : First(q) \in Roll(c.log) => q \in who

(* A task fit for the peers of room. *)
StagesWell(p, c, t, room) ==
  /\ Led(t.log, p, room)
  /\ Roll(t.log) \subseteq Roll(c.log) \cup {First(x) : x \in t.welcome}
  /\ \A x \in t.welcome : JustPut(t.log, p, x)
  /\ \A x \in t.next : First(x) \notin Roll(c.log)

(* What p stages is a Commit of whoever has the smallest leaf in the room, *)
(* and keeps everybody in it where they are.                               *)
LEMMA ProposalFits ==
  ASSUME OneDevice, NEW p \in Peer, NEW c, NEW who, NEW ids, NEW room,
         ReadyToStage(p, c, who, ids, room),
         NEW news \in SUBSET Peer, \A q \in news : First(q) \in ids, NEW t,
         StagedFor(p, c, who, news, t)
  PROVE  /\ t.step = "commit" /\ t.welcome \cup t.next \subseteq news
         /\ Grown(t.log, ids, room) /\ StagesWell(p, c, t, room)
<1> SUFFICES ASSUME c.log \in Seq(Entry), Len(c.log) >= 1,
                    Firsts(ids), NamesFit(c, ids), room \in SUBSET Peer, p \in room,
                    Grown(c.log, ids, room), Own(p) = First(p), First(p) \in Roll(c.log),
                    who \in SUBSET Peer, \A q \in room : First(q) \in Roll(c.log) => q \in who,
                    \/ \E q \in news : Adds(p, c, who, q, t)
                    \/ \E next \in SUBSET news : Clears(p, c, who, next, t)
             PROVE  /\ t.step = "commit" /\ t.welcome \cup t.next \subseteq news
                    /\ Grown(t.log, ids, room) /\ Led(t.log, p, room)
                    /\ Roll(t.log) \subseteq Roll(c.log) \cup {First(x) : x \in t.welcome}
                    /\ \A x \in t.welcome : JustPut(t.log, p, x)
                    /\ \A x \in t.next : First(x) \notin Roll(c.log)
  BY DEF ReadyToStage, StagedFor, StagesWell
<1>1. \A q \in Peer : First(q) \in Member /\ First(q)[1] = q
  BY FirstBorn
<1>2. /\ Roll(c.log) = Members(c.log) /\ Roll(c.log) = Leaves(Tree(c.log))
      /\ Members(c.log) \subseteq ids
      /\ DOMAIN Tree(c.log) \subseteq Nat
  <2>1. c.log # <<>> /\ Len(c.log) \in DOMAIN c.log
    BY LenProperties, EmptySeq
  <2>2. Tree(c.log) \in Seq(Member \cup {Blank})
    BY TreeType
  <2>3. DOMAIN Tree(c.log) = 1..Len(Tree(c.log)) /\ Len(Tree(c.log)) \in Nat
    BY <2>2, LenProperties
  <2> QED
    BY <2>1, <2>3 DEF Roll, Members, Leaves, Grown, Tree
<1>3. ASSUME NEW q \in room
      PROVE  OnePlace(Tree(c.log), First(q))
  <2>1. Len(c.log) \in DOMAIN c.log /\ Len(c.log) <= Len(c.log)
    BY LenProperties
  <2> QED
    BY <2>1 DEF Grown, Rooted, OnePlace, Tree
<1>4. p \in who
  OBVIOUS
<1>5. ASSUME IsCommitter(c, who, {}, First(p))
      PROVE  \A q \in room \ {p} : \A l \in Places(Tree(c.log), First(q)) :
               \E k \in Places(Tree(c.log), First(p)) : k < l
  <2> SUFFICES ASSUME NEW q \in room \ {p}, NEW l \in Places(Tree(c.log), First(q))
               PROVE  \E k \in Places(Tree(c.log), First(p)) : k < l
    OBVIOUS
  <2>1. First(q) \in Roll(c.log)
    BY <1>1, <1>2, MemberNotBlank, PlacesAreLeaves
  <2>2. q \in who \ {p}
    BY <2>1
  <2> QED
    <3>1. /\ First(p) \in Members(c.log) /\ OnePlace(Tree(c.log), First(p))
          /\ OnePlace(Tree(c.log), First(q)) /\ who \subseteq Peer
      BY <1>2, <1>3
    <3>2. \A r \in who \ {p} : OnePlace(Tree(c.log), First(r)) =>
            \A i \in Places(Tree(c.log), First(r)) :
              \E k \in Places(Tree(c.log), First(p)) : k < i
      BY <1>2, <1>4, <1>5, <3>1, CommitterLeads
    <3> QED
      BY <2>2, <3>1, <3>2
<1>6. CASE \E q \in news : Adds(p, c, who, q, t)
  <2>1. PICK q \in news : Adds(p, c, who, q, t)
    BY <1>6
  <2>2. /\ t.step = "commit" /\ t.welcome = {q} /\ t.next = {}
        /\ t.log = CommitAdding(c.log, First(p), First(q)) /\ First(q) \notin Roll(c.log)
        /\ IsCommitter(c, who, {}, First(p))
    BY <2>1 DEF Adds, Submit
  <2>3. Roll(t.log) = Roll(c.log) \cup {First(q)}
    BY <1>1, <2>2, AddingRoll
  <2>4. /\ Len(t.log) >= 2 /\ Before(t.log) = Tree(c.log) /\ t.log[Len(t.log)].by = First(p)
    BY <1>1, <2>2, AddingBefore
  <2>5. Grown(t.log, ids, room)
    BY <1>1, <2>2, AddingGrown
  <2>6. Led(t.log, p, room)
    BY <1>5, <2>2, <2>4 DEF Led
  <2>7. JustPut(t.log, p, q)
    BY <1>1, <1>2, <2>2, <2>4 DEF JustPut
  <2> QED
    BY <2>2, <2>3, <2>5, <2>6, <2>7
<1>7. CASE \E next \in SUBSET news : Clears(p, c, who, next, t)
  <2>1. PICK next \in SUBSET news : Clears(p, c, who, next, t)
    BY <1>7
  <2>2. PICK out : out = Ghosts(c, who, {})
    OBVIOUS
  <2>3. /\ t.step = "commit" /\ t.welcome = {} /\ t.next = next
        /\ t.log = CommitRemoving(c.log, First(p), out)
        /\ \A x \in next : First(x) \notin Roll(c.log)
        /\ IsCommitter(c, who, {}, First(p))
    BY <2>1, <2>2 DEF Clears, Cleans, StageRemoveGhosts, Submit
  <2>4. out = {m \in Members(c.log) : m[1] \notin who}
    BY <1>2, <2>2, GhostsAre
  <2>5. Roll(t.log) = Roll(c.log) \ out
    BY <1>1, <2>3, RemovingRoll
  <2>6. Len(t.log) >= 2 /\ Before(t.log) = Tree(c.log)
    BY <1>1, <2>3, RemovingBefore
  <2>7. Grown(t.log, ids, room)
    <3>1. \A q \in room : First(q) \in Member \ out
      BY <1>1, <1>2, <2>4
    <3> QED
      BY <1>1, <2>3, <3>1, RemovingGrown
  <2>8. Led(t.log, p, room)
    BY <1>5, <2>3, <2>6 DEF Led
  <2> QED
    BY <2>3, <2>5, <2>7, <2>8
<1> QED
  BY <1>6, <1>7

-----------------------------------------------------------------------------
(* People come and go, and say so *)

(* Those whom what p waits for is about. *)
Concerns(t) ==
  IF t.step \in {"commit", "accepted", "refused"} THEN t.welcome \cup t.next
  ELSE IF t.step = "welcome" THEN t.welcome ELSE {}

(* They are in the room, or p is about to hear that they left. *)
ConcernsFit(p) ==
  \A x \in Concerns(task[p]) : x # p /\ (x \in InRoom \/ \E e \in Mail(p) : Farewell(e, x))

(* Whoever p has seen or heard of and is not in the room any more said so. *)
Parted == \A p \in InRoom : Farewells(inbox[p], seen[p], InRoom)

(* Who is in the room, and on the rosters, after each step. *)
LEMMA RoomMoves ==
  ASSUME OneDevice, CallInv, Undisturbed, NEW p \in Peer, Runs(p) \/ Befalls(p)
  PROVE  /\ Enter(p) => /\ InRoom' = InRoom \cup {p} /\ status[p] = "unborn"
                        /\ status'[p] = "here" /\ \A q \in Peer \ {p} : status'[q] = status[q]
         /\ Exit(p) => /\ InRoom' = InRoom \ {p} /\ status[p] = "here"
                       /\ status'[p] = "gone" /\ \A q \in Peer \ {p} : status'[q] = status[q]
         /\ ~ Enter(p) /\ ~ Exit(p) => status' = status /\ InRoom' = InRoom
         /\ \A q \in Peer : q # p \/ ~ (Enter(p) \/ Handles(p)) =>
              seen'[q] = seen[q] /\ away'[q] = away[q]
         /\ away' = away \/ Handles(p)
<1>1. status \in [Peer -> Status]
  BY DEF CallInv, IInv, TypeOK
<1>2. CASE Enter(p)
  <2>1. /\ status[p] = "unborn" /\ status'[p] = "here"
        /\ \A q \in Peer \ {p} : status'[q] = status[q]
    BY <1>2, EnterMoves DEF Enter, Join
  <2>2. /\ \A r \in Peer \ {p} : seen'[r] = seen[r] /\ away'[r] = away[r]
        /\ away' = away
    BY <1>2, NewcomerSees DEF Enter, Undisturbed, Intact
  <2>3. InRoom' = InRoom \cup {p}
    BY <2>1 DEF InRoom
  <2>4. ~ Exit(p)
    BY <2>1 DEF Exit, Leave, Hears
  <2> QED
    BY <1>2, <2>1, <2>2, <2>3, <2>4
<1>3. CASE Exit(p)
  <2>1. /\ status[p] = "here" /\ status' = [status EXCEPT ![p] = "gone"]
        /\ seen' = seen /\ away' = away
    BY <1>3 DEF Exit, Leave, Hears
  <2>2. /\ status'[p] = "gone" /\ \A q \in Peer \ {p} : status'[q] = status[q]
    BY <1>1, <2>1
  <2>3. InRoom' = InRoom \ {p}
    BY <2>2 DEF InRoom
  <2>4. ~ Enter(p)
    BY <2>1 DEF Enter, Join
  <2> QED
    BY <1>3, <2>1, <2>2, <2>3, <2>4
<1>4. CASE Handles(p)
  <2>1. \A r \in Peer \ {p} : seen'[r] = seen[r] /\ away'[r] = away[r]
    BY <1>4, RosterThen DEF Handles
  <2>2. status' = status /\ InRoom' = InRoom /\ ~ Enter(p) /\ ~ Exit(p)
    BY <1>4, OneAtATime
  <2> QED
    BY <1>4, <2>1, <2>2
<1>5. CASE Requests(p)
  <2>1. seen' = seen /\ away' = away
    BY <1>5 DEF Requests, AskToJoin, SendCommit, HearAnswer, SendWelcome, Asks
  <2>2. status' = status /\ InRoom' = InRoom /\ ~ Enter(p) /\ ~ Exit(p)
    BY <1>5, OneAtATime
  <2> QED
    BY <2>1, <2>2
<1> QED
  BY <1>2, <1>3, <1>4, <1>5, CalmSteps

(* What an inbox holds after a step. *)
LEMMA MailThen ==
  ASSUME CallInv, NEW p \in Peer, NEW q \in Peer, MailMoves(p, q)
  PROVE  \/ Mail(q)' = Mail(q) /\ Spared(p, q)
         \/ status[q] = "here" /\ \E e \in Event : News(p, q, e) /\ Mail(q)' = Mail(q) \cup {e}
         \/ /\ q = p /\ Handles(p)
            /\ Mail(p) = {Head(inbox[p])} \cup Mail(p)'
         \/ q = p /\ Enter(p) /\ Mail(p)' = {}
<1>1. inbox[q] \in Seq(Event)
  BY MailType DEF CallInv, IInv
<1>2. CASE inbox'[q] = inbox[q] /\ Spared(p, q)
  BY <1>2 DEF Mail
<1>3. CASE status[q] = "here" /\ \E e \in Event : News(p, q, e) /\ inbox'[q] = Append(inbox[q], e)
  <2>1. PICK e \in Event : News(p, q, e) /\ inbox'[q] = Append(inbox[q], e)
    BY <1>3
  <2>2. Mail(q)' = Mail(q) \cup {e}
    BY <1>1, <2>1, AppendElems DEF Mail
  <2> QED
    BY <1>3, <2>1, <2>2
<1>4. CASE q = p /\ Handles(p) /\ inbox'[p] = Tail(inbox[p])
  <2>1. inbox[p] # <<>>
    BY <1>4 DEF Handles
  <2> QED
    BY <1>1, <1>4, <2>1, TailElems DEF Mail
<1>5. CASE q = p /\ Enter(p) /\ inbox'[p] = <<>>
  <2>1. Elems(<<>>) = {}
    BY EmptySeq DEF Elems
  <2> QED
    BY <1>5, <2>1 DEF Mail
<1> QED
  BY <1>2, <1>3, <1>4, <1>5 DEF MailMoves, Spared

(* Nobody is sent news of itself. *)
LEMMA NewsOfOthers ==
  ASSUME NEW p \in Peer, NEW q \in Peer, NEW e, News(p, q, e), ConcernsFit(p)
  PROVE  q # p /\ e.peer = p /\ e.name \notin Alarms
<1>1. e.name \in {"peerJoined", "peerLeft", "e2eeJoinRequested", "e2eeCommit", "e2eeWelcome"}
  BY DEF News
<1>2. q # p
  BY DEF News, ConcernsFit, Concerns
<1> QED
  BY <1>1, <1>2 DEF Alarms, News

(* Nobody becomes a stranger to itself, and no alarm is sent, until a socket is *)
(* lost or somebody is kicked.                                                  *)
LEMMA CalmKeeps ==
  ASSUME MlsIsPayload, OneDevice, CallInv, Undisturbed,
         NEW p \in Peer, Runs(p) \/ Befalls(p), ConcernsFit(p)
  PROVE  CalmRoom'
<1>1. ASSUME NEW q \in Peer
      PROVE  status'[q] \in {"unborn", "here", "gone"} /\ away'[q] = {}
  <2>1. status'[q] \in {"unborn", "here", "gone"}
    BY RoomMoves DEF Undisturbed, CalmRoom
  <2>2. CASE Handles(p)
    <3>1. away'[p] = {} /\ \A r \in Peer \ {p} : away'[r] = away[r]
      BY <2>2, RosterThen DEF Handles
    <3> QED
      BY <2>1, <3>1 DEF Undisturbed, CalmRoom
  <2>3. CASE ~ Handles(p)
    BY <2>1, <2>3, RoomMoves DEF Undisturbed, CalmRoom
  <2> QED
    BY <2>2, <2>3
<1>2. ASSUME NEW q \in InRoom'
      PROVE  q \in seen'[q]
  <2>1. q \in Peer
    BY DEF InRoom
  <2>2. CASE q = p /\ Enter(p)
    BY <2>2, NewcomerSees DEF Undisturbed, Intact
  <2>3. CASE ~ (q = p /\ Enter(p))
    <3>1. q \in InRoom
      BY <2>3, RoomMoves
    <3>2. CASE q = p /\ Handles(p)
      <4>1. PICK e : e = Head(inbox[p])
        OBVIOUS
      <4>2. seen'[p] = SeenAfter(p, e) /\ e.peer # p
        BY <3>2, <4>1, RosterThen DEF Handles
      <4> QED
        BY <3>1, <3>2, <4>2 DEF SeenAfter, Undisturbed, CalmRoom
    <3>3. CASE ~ (q = p /\ Handles(p))
      <4>1. seen'[q] = seen[q]
        BY <2>1, <2>3, <3>3, RoomMoves
      <4> QED
        BY <2>1, <3>1, <4>1 DEF Undisturbed, CalmRoom
    <3> QED
      BY <3>2, <3>3
  <2> QED
    BY <2>2, <2>3
<1>3. ASSUME NEW q \in Peer, NEW e \in Mail(q)'
      PROVE  e.peer # q /\ e.name \notin Alarms
  <2>1. CASE e \in Mail(q)
    BY <2>1 DEF Undisturbed, CalmRoom
  <2>2. CASE e \notin Mail(q)
    <3>1. MailMoves(p, q)
      BY MailGoes
    <3>2. News(p, q, e)
      BY <1>3, <2>2, <3>1, MailThen
    <3> QED
      BY <3>2, NewsOfOthers
  <2> QED
    BY <2>1, <2>2
<1> QED
  BY <1>1, <1>2, <1>3 DEF CalmRoom

(* removePeer (Room.ts) sends peerLeft behind all that the peer had sent, and *)
(* nothing overtakes it.                                                      *)
LEMMA PartedKeeps ==
  ASSUME MlsIsPayload, OneDevice, CallInv, Undisturbed, Parted,
         NEW p \in Peer, Runs(p) \/ Befalls(p), ConcernsFit(p)
  PROVE  Parted'
<1> SUFFICES ASSUME NEW q \in InRoom' PROVE Farewells(inbox'[q], seen'[q], InRoom')
  BY DEF Parted
<1>1. q \in Peer /\ MailMoves(p, q) /\ inbox[q] \in Seq(Event)
  BY MailGoes, MailType DEF InRoom, CallInv, IInv
<1>2. CASE q = p /\ Enter(p)
  <2>1. ~ Handles(p) /\ ~ SendWelcome(p)
    BY <1>2, OneAtATime DEF Requests
  <2>2. inbox'[p] = <<>>
    BY <1>1, <1>2, <2>1 DEF MailMoves, Spared, News
  <2>3. seen'[p] \subseteq InRoom'
    <3>1. seen'[p] = ({r \in Peer : status'[r] = "here"} \ {p}) \cup {p}
      BY <1>2 DEF Enter, CallInv, CallShape
    <3> QED
      BY <1>2, <3>1 DEF InRoom
  <2>4. DOMAIN inbox'[p] = {}
    BY <2>2, EmptySeq
  <2> QED
    BY <1>2, <2>3, <2>4 DEF Farewells
<1>3. CASE ~ (q = p /\ Enter(p))
  <2>1. q \in InRoom /\ Farewells(inbox[q], seen[q], InRoom)
    BY <1>3, RoomMoves DEF Parted
  <2>2. CASE inbox'[q] = inbox[q] /\ Spared(p, q)
    <3>1. InRoom \subseteq InRoom' /\ seen'[q] = seen[q]
      BY <1>1, <2>2, RoomMoves DEF Spared
    <3> QED
      BY <2>1, <2>2, <3>1, FarewellsMore
  <2>3. CASE \E e \in Event : News(p, q, e) /\ inbox'[q] = Append(inbox[q], e)
    <3>1. PICK e \in Event : News(p, q, e) /\ inbox'[q] = Append(inbox[q], e)
      BY <2>3
    <3>2. q # p /\ e.peer = p
      BY <1>1, <3>1, NewsOfOthers
    <3>3. seen'[q] = seen[q]
      BY <1>1, <3>2, RoomMoves
    <3>4. PICK room : room = InRoom
      OBVIOUS
    <3>5. PICK other : other = InRoom'
      OBVIOUS
    <3>6. (\A x \in room \ other : Farewell(e, x)) /\ (e.name # "peerLeft" => e.peer \in other)
      <4>1. CASE Exit(p)
        <5>1. e.name = "peerLeft"
          BY <3>1, <4>1, OneAtATime DEF News, Requests
        <5>2. room \ other \subseteq {p}
          BY <3>4, <3>5, <4>1, RoomMoves
        <5> QED
          BY <3>2, <5>1, <5>2 DEF Farewell
      <4>2. CASE ~ Exit(p)
        <5>1. room \subseteq other
          BY <3>4, <3>5, <4>2, RoomMoves
        <5>2. p \in other
          <6>1. CASE Enter(p)
            BY <3>5, <6>1, RoomMoves
          <6>2. CASE ~ Enter(p)
            <7>1. InCall(p)
              BY <3>1, <4>2, <6>2, OneAtATime DEF News, Requests
            <7>2. p \in InRoom
              BY <7>1 DEF CallInv, ClientFits, FitSeat, Undisturbed, CalmRoom, InRoom
            <7> QED
              BY <3>4, <5>1, <7>2
          <6> QED
            BY <6>1, <6>2
        <5> QED
          BY <3>2, <5>1, <5>2
      <4> QED
        BY <4>1, <4>2
    <3>7. Farewells(Append(inbox[q], e), seen[q], other)
      BY <1>1, <2>1, <3>4, <3>6, FarewellsAppend
    <3> QED
      BY <3>1, <3>3, <3>5, <3>7
  <2>4. CASE q = p /\ Handles(p) /\ inbox'[p] = Tail(inbox[p])
    <3>1. PICK e : e = Head(inbox[p])
      OBVIOUS
    <3>2. seen'[p] = SeenAfter(p, e) /\ e.name \notin Alarms /\ inbox[p] # <<>>
      BY <2>4, <3>1, RosterThen DEF Handles
    <3>3. PICK other : other = seen'[p]
      OBVIOUS
    <3>4. IF e.name = "peerLeft" THEN other \subseteq seen[p] \ {e.peer}
          ELSE other \subseteq seen[p] \cup {e.peer}
      BY <3>2, <3>3 DEF SeenAfter, Alarms
    <3>5. Farewells(Tail(inbox[p]), other, InRoom)
      BY <1>1, <2>1, <2>4, <3>1, <3>2, <3>4, FarewellsTail
    <3>6. InRoom' = InRoom
      BY <2>4, OneAtATime
    <3> QED
      BY <2>4, <3>3, <3>5, <3>6
  <2> QED
    BY <1>1, <1>3, <2>2, <2>3, <2>4 DEF MailMoves, Spared
<1> QED
  BY <1>2, <1>3

-----------------------------------------------------------------------------
(* Whose call a step changes *)

(* Whoever is in a call is in the room and its session, and as it came. *)
LEMMA CallerIsHere ==
  ASSUME CallInv, Undisturbed, Identified, NEW p \in Peer, InCall(p)
  PROVE  /\ p \in InRoom /\ status[p] = "here" /\ InSession(p) /\ Own(p) = First(p)
         /\ starts[p] = 1
<1>1. status[p] = "here" /\ p \in InRoom
  BY DEF CallInv, ClientFits, FitSeat, Undisturbed, CalmRoom, InRoom
<1>2. InSession(p)
  BY <1>1 DEF Undisturbed, Intact, OneSession, InSession
<1>3. starts[p] = 1
  <2>1. starts[p] \in 1..MaxStarts /\ starts[p] <= 1 /\ MaxStarts \in Nat
    BY CallAssumption DEF CallInv, ClientFits, FitSeat, Identified
  <2> QED
    BY <2>1
<1> QED
  BY <1>1, <1>2, <1>3 DEF Own, First

(* Who is not in the call has neither a group nor a task. *)
LEMMA OutOfCall ==
  ASSUME CallInv, NEW q \in Peer, ~ InCall(q)
  PROVE  call[q] = NoCall /\ task[q] = Idle
BY Waiting DEF CallInv, ClientFits, FitCall, InCall

(* Nobody else's call changes. *)
LEMMA OthersRest ==
  ASSUME OneDevice, CallInv, Undisturbed, NEW p \in Peer, Runs(p) \/ Befalls(p),
         NEW q \in Peer, q # p
  PROVE  /\ call'[q] = call[q] /\ task'[q] = task[q] /\ starts'[q] = starts[q]
         /\ InCall(q)' <=> InCall(q)
         /\ HasTree(q)' <=> HasTree(q)
<1>1. call \in [Peer -> ClientRecord] /\ task \in [Peer -> Task]
      /\ starts \in [Peer -> 0..MaxStarts]
  BY DEF CallInv, CallShape
<1>2. call'[q] = call[q] /\ task'[q] = task[q] /\ starts'[q] = starts[q]
  <2>1. CASE Enter(p)
    <3>1. status'[q] = "gone" => ~ InCall(q)
      BY <2>1, RoomMoves DEF CallInv, ClientFits, FitSeat
    <3>2. status'[q] = "gone" => call[q] = NoCall /\ task[q] = Idle
      BY <3>1, OutOfCall
    <3> QED
      BY <1>1, <2>1, <3>2 DEF Enter
  <2>2. CASE Exit(p)
    BY <1>1, <2>2 DEF Exit
  <2>3. CASE Handles(p)
    BY <2>3, HandleMoves DEF Handles, HandlerMoves, OthersAsTheyWere
  <2>4. CASE Requests(p)
    BY <1>1, <2>4 DEF Requests, AskToJoin, SendCommit, HearAnswer, SendWelcome, Asks
  <2> QED
    BY <2>1, <2>2, <2>3, <2>4, CalmSteps
<1> QED
  BY <1>2 DEF InCall, HasTree, Own, Awaiting

(* Who comes in has a group of its own or none, and nothing staged. *)
LEMMA EnterCalls ==
  ASSUME CallInv, NEW p \in Peer, Enter(p)
  PROVE  /\ starts'[p] = 1 /\ Rests(task'[p]) /\ First(p) \in Member
         /\ call'[p].log = <<>> \/ call'[p].log = Created(First(p))
         /\ call'[p].names = [q \in Peer |-> IF q = p THEN {First(p)} ELSE {}]
<1>1. PICK alone \in BOOLEAN : call'[p] = Started(p, 1, session', alone)
  <2>1. PICK alone : alone = ({q \in Peer : status'[q] = "here"} \ {p} = {})
    OBVIOUS
  <2> QED
    BY <2>1 DEF Enter
<1>2. /\ call'[p].log = IF alone THEN Created(First(p)) ELSE <<>>
      /\ call'[p].names = [q \in Peer |-> IF q = p THEN {First(p)} ELSE {}]
  BY <1>1 DEF Started, First
<1>3. starts'[p] = 1
  BY DEF Enter, CallInv, CallShape
<1>4. task[p] = Idle
  <2>1. ~ InCall(p)
    BY OneAtATime
  <2> QED
    BY <2>1, OutOfCall
<1>5. task'[p] = [step |-> "enter"] \/ task'[p] = Idle
  BY <1>4 DEF Enter
<1>6. Rests(Idle) /\ Rests([step |-> "enter"])
  BY DEF Rests, Idle
<1> QED
  BY <1>2, <1>3, <1>5, <1>6, FirstBorn

(* Who leaves has none, and nobody who does anything else starts again. *)
LEMMA PeerGoesOn ==
  ASSUME CallInv, Undisturbed, NEW p \in Peer, Runs(p) \/ Befalls(p), ~ Enter(p)
  PROVE  /\ Exit(p) => call'[p] = NoCall /\ task'[p] = Idle
         /\ starts'[p] = starts[p] /\ session' = session
         /\ Handles(p) => \E e \in Mail(p) :
              e = Head(inbox[p]) /\ (StaysPut(p, e) \/ Applies(p, e) \/ TakesWelcome(p, e))
         /\ Requests(p) => call'[p].names = call[p].names /\ call'[p].group = call[p].group
         /\ Requests(p) /\ ~ HearAnswer(p) => call'[p].log = call[p].log
         /\ AskToJoin(p) \/ SendWelcome(p) => task'[p] = Idle
         /\ ~ SendCommit(p) => accepted' = accepted
<1>1. call \in [Peer -> ClientRecord] /\ task \in [Peer -> Task]
      /\ starts \in [Peer -> 0..MaxStarts]
  BY DEF CallInv, CallShape
<1>2. CASE Exit(p)
  <2>1. ~ Handles(p) /\ ~ Requests(p)
    BY <1>2, OneAtATime
  <2>2. ~ AskToJoin(p) /\ ~ SendWelcome(p) /\ ~ SendCommit(p)
    BY <2>1 DEF Requests
  <2> QED
    BY <1>1, <1>2, <2>1, <2>2 DEF Exit, Leave
<1>3. CASE Handles(p)
  <2>1. ~ Requests(p) /\ ~ Exit(p) /\ InCall(p)
    BY <1>3, OneAtATime
  <2>2. ~ AskToJoin(p) /\ ~ SendWelcome(p) /\ ~ SendCommit(p)
    BY <2>1 DEF Requests
  <2>3. PICK e : e = Head(inbox[p])
    OBVIOUS
  <2>4. inbox[p] # <<>> /\ Handle(p, e)
    BY <1>3, <2>3 DEF Handles
  <2>5. p \in InRoom
    BY <2>1 DEF CallInv, ClientFits, FitSeat, Undisturbed, CalmRoom, InRoom
  <2>6. StaysPut(p, e) \/ Applies(p, e) \/ TakesWelcome(p, e)
    BY <2>3, <2>4, <2>5, StayerStays DEF Undisturbed
  <2>7. e \in Mail(p) /\ accepted' = accepted /\ session' = session
    <3>1. Take(p, e)
      BY <2>3, <2>4, HandleMoves
    <3>2. Receive(p)
      BY <3>1 DEF Take
    <3> QED
      BY <2>3, <2>4, <3>2, HeadGoes DEF Receive
  <2> QED
    BY <1>3, <2>1, <2>2, <2>3, <2>6, <2>7 DEF StaysPut, Applies, TakesWelcome
<1>4. CASE Requests(p)
  <2>1. ~ Handles(p) /\ ~ Exit(p)
    BY <1>4, OneAtATime
  <2>2. starts' = starts /\ session' = session
    BY <1>4 DEF Requests, AskToJoin, SendCommit, HearAnswer, SendWelcome, Asks, relayVars,
                RelayE2eeJoin, RelayE2eeCommit, RelayE2eeWelcome
  <2>3. ~ SendCommit(p) => accepted' = accepted
    BY <1>4 DEF Requests, AskToJoin, HearAnswer, SendWelcome, relayVars,
                RelayE2eeJoin, RelayE2eeWelcome
  <2>4. AskToJoin(p) \/ SendWelcome(p) => task'[p] = Idle
    BY <1>1 DEF AskToJoin, SendWelcome, Asks
  <2>5. ~ HearAnswer(p) => /\ call'[p].names = call[p].names /\ call'[p].log = call[p].log
                           /\ call'[p].group = call[p].group
    <3>1. ~ HearAnswer(p) => call' = call \/ call' = [call EXCEPT ![p] = Failed(@)]
      BY <1>4 DEF Requests, AskToJoin, SendCommit, SendWelcome
    <3>2. /\ Failed(call[p]).names = call[p].names /\ Failed(call[p]).log = call[p].log
          /\ Failed(call[p]).group = call[p].group
      BY <1>1 DEF Failed, ClientRecord
    <3> QED
      BY <1>1, <3>1, <3>2
  <2>6. HearAnswer(p) => call'[p].names = call[p].names /\ call'[p].group = call[p].group
    BY AnswerMoves DEF Undisturbed, Intact
  <2> QED
    BY <1>4, <2>1, <2>2, <2>3, <2>4, <2>5, <2>6
<1> QED
  BY <1>2, <1>3, <1>4, CalmSteps

(* KeyPackages say whose they are and nobody begins anew, in every step. *)
LEMMA IdentifiedKeeps ==
  ASSUME MlsIsPayload, OneDevice, CallInv, CallInv', Undisturbed, Identified,
         NEW p \in Peer, Runs(p) \/ Befalls(p), ConcernsFit(p)
  PROVE  Identified'
<1>1. Born \subseteq Born'
  BY BornStays DEF Born, Member
<1>2. ASSUME NEW q \in Peer, NEW c, NamesFit(c, Born)
      PROVE  NamesFit(c, Born')
  BY <1>1, <1>2 DEF NamesFit
<1>3. ASSUME NEW q \in Peer
      PROVE  starts'[q] <= 1
  <2>1. CASE q # p
    BY <2>1, OthersRest DEF Identified
  <2>2. CASE q = p /\ Enter(p)
    <3>1. starts'[p] = 1
      BY <2>2, EnterCalls
    <3> QED
      BY <2>2, <3>1
  <2>3. CASE q = p /\ ~ Enter(p)
    BY <2>3, PeerGoesOn DEF Identified
  <2> QED
    BY <2>1, <2>2, <2>3
<1>4. ASSUME NEW q \in Peer
      PROVE  NamesFit(call'[q], Born')
  <2>1. CASE q # p
    <3>1. call'[q] = call[q] /\ NamesFit(call[q], Born)
      BY <2>1, OthersRest DEF Identified
    <3> QED
      BY <3>1, <1>2
  <2>2. CASE q = p /\ Enter(p)
    <3>1. call'[p].names = [r \in Peer |-> IF r = p THEN {First(p)} ELSE {}]
      BY <2>2, EnterCalls
    <3>2. First(p) \in Born' /\ First(p)[1] = p
      BY <2>2, FirstBorn, RoomMoves DEF Born
    <3> QED
      BY <2>2, <3>1, <3>2 DEF NamesFit
  <2>3. CASE q = p /\ Exit(p)
    <3>1. call'[p] = NoCall
      BY <2>3, PeerGoesOn, OneAtATime
    <3> QED
      BY <2>3, <3>1 DEF NamesFit, NoCall
  <2>4. CASE q = p /\ Handles(p)
    <3>1. PICK e \in Mail(p) : StaysPut(p, e) \/ Applies(p, e) \/ TakesWelcome(p, e)
      BY <2>4, PeerGoesOn, OneAtATime
    <3>2. \/ call'[p].names = call[p].names
          \/ /\ e.name = "e2eeJoinRequested"
             /\ call'[p].names = [call[p].names EXCEPT ![e.peer] = {e.payload}]
      BY <3>1 DEF StaysPut, Notes, Applies, TakesWelcome
    <3>3. NamesFit(call[p], Born) /\ call[p].names \in [Peer -> SUBSET Member]
      BY DEF Identified, CallInv, CallShape, ClientRecord
    <3>4. CASE call'[p].names = call[p].names
      BY <1>2, <2>4, <3>3, <3>4 DEF NamesFit
    <3>5. CASE /\ e.name = "e2eeJoinRequested"
               /\ call'[p].names = [call[p].names EXCEPT ![e.peer] = {e.payload}]
      <4>1. e.peer \in Peer /\ e.payload = First(e.peer) /\ status[e.peer] # "unborn"
        BY <3>1, <3>5 DEF Identified, CallInv, MailFits, FitEvent
      <4>2. First(e.peer) \in Born /\ First(e.peer)[1] = e.peer
        BY <4>1, FirstBorn
      <4>3. NamesFit(call'[p], Born)
        BY <3>3, <3>5, <4>1, <4>2 DEF NamesFit
      <4> QED
        BY <1>2, <2>4, <4>3
    <3> QED
      BY <3>2, <3>4, <3>5
  <2>5. CASE q = p /\ Requests(p)
    <3>1. call'[p].names = call[p].names /\ NamesFit(call[p], Born)
      BY <2>5, PeerGoesOn, OneAtATime DEF Identified
    <3>2. NamesFit(call'[p], Born)
      BY <3>1 DEF NamesFit
    <3> QED
      BY <1>2, <2>5, <3>2
  <2> QED
    BY <2>1, <2>2, <2>3, <2>4, <2>5, CalmSteps
<1>5. ASSUME NEW q \in Peer, NEW e \in Mail(q)', e.name = "e2eeJoinRequested"
      PROVE  e.payload = First(e.peer) /\ status'[e.peer] # "unborn"
  <2>1. MailMoves(p, q)
    BY MailGoes
  <2>2. CASE e \in Mail(q)
    <3>1. e.payload = First(e.peer) /\ status[e.peer] # "unborn" /\ e.peer \in Peer
      BY <1>5, <2>2 DEF Identified, CallInv, MailFits, FitEvent
    <3> QED
      BY <3>1, BornStays
  <2>3. CASE e \notin Mail(q)
    <3>1. News(p, q, e)
      BY <1>5, <2>1, <2>3, MailThen
    <3>2. e.payload = Own(p) /\ InCall(p) /\ e.peer = p
      BY <1>5, <3>1 DEF News
    <3>3. Own(p) = First(p) /\ status[p] # "unborn"
      BY <3>2, CallerIsHere
    <3> QED
      BY <3>2, <3>3, BornStays
  <2> QED
    BY <2>2, <2>3
<1> QED
  BY <1>3, <1>4, <1>5 DEF Identified

-----------------------------------------------------------------------------
(* Every group is one that grew *)

(* What StayInv and PlacedInv say while no socket was lost. *)
Sound ==
  /\ Enrolled /\ Once /\ LeavesKept
  /\ \A p \in Peer : Meets(p) /\ Spares(p) /\ Placed(p)

(* Whatever group there is, is one that those in the room saw grow. *)
AllGrown ==
  /\ \A a \in accepted : Grown(a.payload, Born, InRoom)
  /\ \A p \in Peer : /\ Grown(call[p].log, Born, InRoom)
                     /\ Pending(p) => Grown(task[p].log, Born, InRoom)

Stages(p) ==
  /\ ConcernsFit(p)
  /\ Pending(p) => StagesWell(p, call[p], task[p], InRoom)
  /\ task[p].step = "welcome" => \A x \in task[p].welcome : JustPut(call[p].log, p, x)

(* No group at all is fit for any room. *)
LEMMA EmptyGrown ==
  ASSUME NEW ids, NEW room
  PROVE  Grown(<<>>, ids, room)
<1>1. DOMAIN <<>> = {}
  BY EmptySeq
<1> QED
  BY <1>1 DEF Grown, Rooted

(* Time passes. *)
LEMMA GroupsAge ==
  ASSUME OneDevice, CallInv, Undisturbed, NEW p \in Peer, Runs(p) \/ Befalls(p),
         NEW log, Grown(log, Born, InRoom)
  PROVE  Grown(log, Born', InRoom')
<1>1. PICK more : more = Born'
  OBVIOUS
<1>2. PICK other : other = InRoom'
  OBVIOUS
<1>3. Born \subseteq more
  BY <1>1, BornStays DEF Born, Member
<1>4. ASSUME NEW q \in other \ InRoom
      PROVE  First(q) \notin Born /\ First(q) # Blank
  <2>1. q = p /\ status[p] = "unborn"
    BY <1>2, RoomMoves
  <2> QED
    BY <2>1, FirstBorn, MemberNotBlank
<1>5. Grown(log, more, other)
  BY <1>3, <1>4, GrownAges
<1> QED
  BY <1>1, <1>2, <1>5

(* What p stages, in a step in which nobody comes or goes. *)
LEMMA ProposesFits ==
  ASSUME OneDevice, CallInv, CallInv', CalmRoom, CalmRoom', Identified', Sound', OneSession',
         NEW p \in Peer, InCall(p)', status' = status, Own(p) = First(p),
         HasTree(p)', Grown(call'[p].log, Born', InRoom'),
         NEW news \in SUBSET Peer, \A q \in news : status[q] # "unborn", Proposes(p, news)
  PROVE  /\ task'[p].step = "commit" /\ task'[p].welcome \cup task'[p].next \subseteq news
         /\ Grown(task'[p].log, Born', InRoom')
         /\ StagesWell(p, call'[p], task'[p], InRoom')
<1>1. PICK c : c = call'[p]
  OBVIOUS
<1>2. PICK who : who = seen'[p]
  OBVIOUS
<1>3. PICK t : t = task'[p]
  OBVIOUS
<1>4. PICK ids : ids = Born'
  OBVIOUS
<1>5. PICK room : room = InRoom'
  OBVIOUS
<1>6. /\ c.log \in Seq(Entry) /\ Len(c.log) \in Nat /\ Len(c.log) # 0
      /\ who \in SUBSET Peer /\ c.log # <<>>
  <2>1. CallInv' /\ InCall(p)' => call'[p].log \in Seq(Entry) /\ Len(call'[p].log) \in Nat
    BY LenProperties DEF CallInv, CallShape, ClientRecord
  <2>2. seen'[p] \in SUBSET Peer
    BY DEF CallInv, CallShape
  <2>3. c.log # <<>>
    BY <1>1 DEF HasTree, Awaiting
  <2> QED
    BY <1>1, <1>2, <2>1, <2>2, <2>3, EmptySeq
<1>7. Len(c.log) >= 1
  BY <1>6
<1>8. Firsts(ids) /\ NamesFit(c, ids)
  <2>1. Born' = Born
    BY DEF Born
  <2> QED
    BY <1>1, <1>4, <2>1, BornFirsts DEF Identified
<1>9. room \in SUBSET Peer /\ p \in room
  <2>1. status'[p] = "here"
    BY DEF CallInv, ClientFits, FitSeat, CalmRoom
  <2> QED
    BY <1>5, <2>1 DEF InRoom
<1>10. InSession(p)'
  BY <1>5, <1>9 DEF OneSession, InSession
<1>11. First(p) \in Roll(c.log)
  BY <1>1, <1>5, <1>9, <1>10 DEF Sound, Placed, HasTree
<1>12. ASSUME NEW q \in room, First(q) \in Roll(c.log)
       PROVE  q \in who
  <2>1. CASE q = p
    BY <1>2, <1>5, <1>12, <2>1 DEF CalmRoom
  <2>2. CASE q # p
    <3>1. Knows(p, q)'
      BY <1>1, <1>12 DEF Knows
    <3> QED
      BY <1>2, <1>5, <1>10, <1>12, <2>2, <3>1 DEF Sound, Meets
  <2> QED
    BY <2>1, <2>2
<1>13. \A q \in news : First(q) \in ids
  BY <1>4, FirstBorn DEF Born
<1>14. StagedFor(p, c, who, news, t)
  BY <1>1, <1>2, <1>3 DEF Proposes
<1>15. Grown(c.log, ids, room)
  BY <1>1, <1>4, <1>5
<1>16. ReadyToStage(p, c, who, ids, room)
  BY <1>6, <1>7, <1>8, <1>9, <1>11, <1>12, <1>15 DEF ReadyToStage
<1>17. /\ t.step = "commit" /\ t.welcome \cup t.next \subseteq news
       /\ Grown(t.log, ids, room) /\ StagesWell(p, c, t, room)
  BY <1>13, <1>14, <1>16, ProposalFits
<1> QED
  BY <1>1, <1>3, <1>4, <1>5, <1>17

(* What p goes on with after an answer. *)
LEMMA AnswerStages ==
  ASSUME CallInv, Undisturbed, Identified, NEW p \in Peer, HearAnswer(p), Stages(p)
  PROVE  \/ Rests(task'[p])
         \/ /\ task[p].step = "accepted" /\ task'[p].step = "welcome"
            /\ task'[p].welcome = task[p].welcome /\ call'[p].log = task[p].log
         \/ Proposes(p, task[p].next) /\ task[p].next \in SUBSET Peer
<1> DEFINE t == task[p]
           c == IF t.step = "accepted" THEN Joined(p, call[p], t.log) ELSE call[p]
<1>1. /\ t.step \in {"accepted", "refused"} /\ call'[p] = c /\ task'[p] = After(p, c, t)
      /\ seen' = seen /\ away' = away /\ starts' = starts
  BY DEF HearAnswer, Asks, CallInv, CallShape
<1>2. t # Idle
  BY <1>1 DEF Idle
<1>3. /\ InCall(p) /\ Pending(p) /\ call'[p].names = call[p].names
      /\ IF t.step = "accepted" THEN call'[p].log = t.log ELSE call'[p].log = call[p].log
  BY AnswerMoves DEF Undisturbed, Intact
<1>4. /\ FitTask(call[p], t, accepted) /\ call[p] \in ClientRecord
  BY DEF CallInv, ClientFits, CallShape
<1>5. StagesWell(p, call[p], t, InRoom)
  BY <1>3 DEF Stages
<1>6. CASE t.step = "accepted" /\ t.welcome # {}
  <2>1. task'[p] = [t EXCEPT !.step = "welcome"]
    BY <1>1, <1>6 DEF After
  <2>2. t \in Task
    BY <1>4 DEF FitTask
  <2>3. task'[p].step = "welcome" /\ task'[p].welcome = t.welcome
    BY <1>6, <2>1, <2>2 DEF Task
  <2> QED
    BY <1>3, <1>6, <2>3
<1>7. CASE ~ (t.step = "accepted" /\ t.welcome # {}) /\ t.next = {}
  <2>1. task'[p] = Idle
    BY <1>1, <1>7 DEF After
  <2> QED
    BY <2>1 DEF Rests, Idle
<1>8. CASE ~ (t.step = "accepted" /\ t.welcome # {}) /\ t.next # {}
  <2>1. PICK q : q = CHOOSE x \in t.next : TRUE
    OBVIOUS
  <2>2. q \in t.next /\ t.next \in SUBSET Peer /\ call[p].names[q] # {}
    BY <1>1, <1>4, <1>8, <2>1 DEF FitTask, Task
  <2>3. task'[p] = StageAdd(p, c, seen[p], away[p], q)
    BY <1>1, <1>8, <2>1 DEF After
  <2>4. away[p] = {}
    BY DEF Undisturbed, CalmRoom
  <2>5. CASE ~ IsCommitter(c, seen[p], {}, Own(p))
    <3>1. task'[p] = Idle
      BY <2>3, <2>4, <2>5 DEF StageAdd
    <3> QED
      BY <3>1 DEF Rests, Idle
  <2>6. CASE IsCommitter(c, seen[p], {}, Own(p))
    <3>1. c.names[q] = {First(q)}
      <4>1. NamesFit(call[p], Born)
        BY DEF Identified
      <4>2. call[p].names[q] \subseteq {m \in Born : m[1] = q} /\ call[p].names[q] # {}
        BY <2>2, <4>1 DEF NamesFit
      <4>3. \A m \in Born : m[1] = q => m = First(q)
        BY BornFirsts DEF Firsts
      <4>4. call[p].names[q] = {First(q)}
        BY <4>2, <4>3
      <4> QED
        BY <1>1, <1>3, <4>4
    <3>2. (CHOOSE m \in c.names[q] : TRUE) = First(q)
      BY <3>1
    <3>3. task'[p] = Submit(CommitAdding(c.log, Own(p), First(q)), {q}, {})
      BY <2>3, <2>4, <2>6, <3>2 DEF StageAdd
    <3>4. First(q) \notin Roll(c.log)
      <4>1. First(q) \notin Roll(call[p].log)
        BY <1>5, <2>2 DEF StagesWell
      <4>2. CASE t.step = "accepted"
        <5>1. t.welcome = {}
          BY <1>8, <4>2
        <5>2. Roll(t.log) \subseteq Roll(call[p].log)
          BY <1>5, <5>1 DEF StagesWell
        <5>3. c.log = t.log
          BY <1>1, <1>3, <4>2
        <5> QED
          BY <4>1, <5>2, <5>3
      <4>3. CASE t.step # "accepted"
        BY <4>1, <4>3
      <4> QED
        BY <4>2, <4>3
    <3>5. Adds(p, call'[p], seen'[p], q, task'[p])
      BY <1>1, <2>6, <3>3, <3>4 DEF Adds
    <3>6. Proposes(p, t.next)
      BY <2>2, <3>5 DEF Proposes, StagedFor
    <3> QED
      BY <2>2, <3>6
  <2> QED
    BY <2>5, <2>6
<1> QED
  BY <1>6, <1>7, <1>8

(* Who hears that its Commit was accepted has a tree, with the identity it *)
(* began with.                                                             *)
LEMMA AnswererHasTree ==
  ASSUME CallInv, CallInv', Undisturbed, CalmRoom', Sound', OneSession', Identified, Identified',
         NEW p \in Peer, HearAnswer(p)
  PROVE  HasTree(p)' /\ InCall(p)' /\ Own(p) = First(p)
<1>1. /\ InCall(p) /\ starts' = starts /\ Len(call[p].log) \in Nat /\ Len(call[p].log) >= 1
      /\ IF task[p].step = "accepted"
         THEN call'[p].log = task[p].log /\ Len(task[p].log) = Len(call[p].log) + 1
         ELSE call'[p].log = call[p].log
  BY AnswerMoves DEF Undisturbed, Intact
<1>2. Len(call'[p].log) >= 1 /\ call'[p].log # <<>>
  <2>1. Len(call'[p].log) >= 1
    BY <1>1
  <2>2. Len(<<>>) = 0
    BY EmptySeq
  <2> QED
    BY <2>1, <2>2
<1>3. InCall(p)'
  BY <1>2 DEF CallInv, ClientFits, FitCall, NoCall, InCall
<1>4. Own(p) = First(p) /\ starts[p] = 1
  BY <1>1, CallerIsHere
<1>5. p \in InRoom' /\ InSession(p)'
  <2>1. status'[p] = "here"
    BY <1>3 DEF CallInv, ClientFits, FitSeat, CalmRoom
  <2>2. p \in InRoom'
    BY <2>1 DEF InRoom
  <2> QED
    BY <1>3, <2>2 DEF OneSession, InSession
<1>6. First(p) \in Roll(call'[p].log)
  BY <1>2, <1>5 DEF Sound, Placed, Awaiting
<1>7. Own(p)' = First(p)
  BY <1>1, <1>4 DEF Own, First
<1> QED
  BY <1>2, <1>3, <1>4, <1>6, <1>7 DEF HasTree, Roll, Awaiting

(* A step of a client is one of those while nothing goes wrong. *)
Going == CallInv' /\ CalmRoom' /\ OneSession' /\ Identified' /\ Sound'

(* A handler or an answer stages what fits, or nothing. *)
LEMMA StagingFits ==
  ASSUME OneDevice, CallInv, Undisturbed, Identified, Going,
         NEW p \in Peer, Handles(p) \/ HearAnswer(p), Stages(p),
         Grown(call'[p].log, Born', InRoom')
  PROVE  \/ Rests(task'[p])
         \/ /\ HearAnswer(p) /\ task[p].step = "accepted" /\ task'[p].step = "welcome"
            /\ task'[p].welcome = task[p].welcome /\ call'[p].log = task[p].log
         \/ /\ task'[p].step = "commit"
            /\ Grown(task'[p].log, Born', InRoom')
            /\ StagesWell(p, call'[p], task'[p], InRoom')
            /\ \A x \in task'[p].welcome \cup task'[p].next :
                 \/ HearAnswer(p) /\ x \in task[p].next
                 \/ /\ Handles(p) /\ x = Head(inbox[p]).peer
                    /\ Head(inbox[p]).name = "e2eeJoinRequested"
<1>1. InCall(p) /\ status' = status
  <2>1. HearAnswer(p) => Requests(p)
    BY DEF Requests
  <2> QED
    BY <2>1, OneAtATime
<1>2. Own(p) = First(p)
  BY <1>1, CallerIsHere
<1>3. ASSUME NEW news \in SUBSET Peer, \A q \in news : status[q] # "unborn",
             Proposes(p, news), HasTree(p)'
      PROVE  /\ task'[p].step = "commit" /\ task'[p].welcome \cup task'[p].next \subseteq news
             /\ Grown(task'[p].log, Born', InRoom')
             /\ StagesWell(p, call'[p], task'[p], InRoom')
  <2>1. InCall(p)'
    BY <1>3 DEF HasTree, Awaiting, Going, CallInv, ClientFits, FitCall, NoCall, InCall
  <2> QED
    BY <1>1, <1>2, <1>3, <2>1, ProposesFits DEF Going, Undisturbed
<1>4. CASE HearAnswer(p)
  <2>1. HasTree(p)'
    BY <1>4, AnswererHasTree DEF Going
  <2>2. CASE Proposes(p, task[p].next) /\ task[p].next \in SUBSET Peer
    <3>1. FitTask(call[p], task[p], accepted) /\ NamesFit(call[p], Born)
      BY DEF CallInv, ClientFits, Identified
    <3>2. task[p].step \in {"accepted", "refused"}
      BY <1>4 DEF HearAnswer
    <3>3. \A q \in task[p].next : status[q] # "unborn"
      <4>1. \A q \in task[p].next : call[p].names[q] # {}
        BY <3>1, <3>2 DEF FitTask
      <4> QED
        BY <2>2, <3>1, <4>1 DEF NamesFit, Born
    <3> QED
      BY <1>3, <1>4, <2>1, <2>2, <3>3
  <2> QED
    BY <1>4, <2>2, AnswerStages
<1>5. CASE Handles(p)
  <2>1. PICK e : e = Head(inbox[p])
    OBVIOUS
  <2>2. inbox[p] # <<>> /\ Handle(p, e)
    BY <1>5, <2>1 DEF Handles
  <2>3. \/ Rests(task'[p])
        \/ /\ HasTree(p) /\ call'[p].log = call[p].log
           /\ \/ e.name = "e2eeJoinRequested" /\ Proposes(p, {e.peer})
              \/ e.name = "peerLeft" /\ Proposes(p, {})
    BY <2>1, <2>2, HandleStages
  <2>4. e \in Mail(p) /\ e.peer \in Peer
    BY <2>1, <2>2, RosterThen
  <2>5. ~ Rests(task'[p]) => HasTree(p)'
    <3>1. starts'[p] = starts[p]
      BY <1>5, OneAtATime, PeerGoesOn, CalmSteps DEF Handles, Runs
    <3> QED
      BY <2>3, <3>1 DEF HasTree, Awaiting, Own
  <2>6. CASE e.name = "e2eeJoinRequested" /\ Proposes(p, {e.peer}) /\ HasTree(p)'
    <3>1. status[e.peer] # "unborn"
      BY <2>4, <2>6 DEF Identified
    <3>2. PICK news : news = {e.peer}
      OBVIOUS
    <3>3. news \in SUBSET Peer /\ \A q \in news : status[q] # "unborn"
      BY <2>4, <3>1, <3>2
    <3>4. Proposes(p, news) /\ HasTree(p)'
      BY <2>6, <3>2
    <3> QED
      BY <1>3, <1>5, <2>1, <2>6, <3>2, <3>3, <3>4
  <2>7. CASE Proposes(p, {}) /\ HasTree(p)'
    <3>1. PICK news : news = {}
      OBVIOUS
    <3>2. news \in SUBSET Peer /\ \A q \in news : status[q] # "unborn"
      BY <3>1
    <3>3. Proposes(p, news) /\ HasTree(p)'
      BY <2>7, <3>1
    <3> QED
      BY <1>3, <3>1, <3>2, <3>3
  <2> QED
    BY <2>3, <2>5, <2>6, <2>7
<1> QED
  BY <1>4, <1>5

(* What p holds after a step: what it held, what it staged, or what the relay *)
(* accepted, unless it has just founded a group.                              *)
LEMMA HeldThen ==
  ASSUME OneDevice, CallInv, Undisturbed, NEW p \in Peer, Runs(p) \/ Befalls(p)
  PROVE  \/ call'[p].log = call[p].log \/ call'[p].log = <<>>
         \/ Enter(p) /\ call'[p].log = Created(First(p))
         \/ HearAnswer(p) /\ Pending(p) /\ call'[p].log = task[p].log
         \/ \E a \in accepted : call'[p].log = a.payload
<1>1. CASE Enter(p)
  BY <1>1, EnterCalls
<1>2. CASE Exit(p)
  <2>1. call'[p] = NoCall
    BY <1>2, OneAtATime, PeerGoesOn
  <2> QED
    BY <2>1 DEF NoCall
<1>3. CASE Handles(p)
  <2>1. PICK e \in Mail(p) : /\ e = Head(inbox[p])
                             /\ StaysPut(p, e) \/ Applies(p, e) \/ TakesWelcome(p, e)
    BY <1>3, OneAtATime, PeerGoesOn
  <2>2. inbox[p] # <<>> /\ InCall(p)
    BY <1>3, OneAtATime DEF Handles
  <2>3. /\ e.name = "e2eeCommit" => \E a \in accepted : a.payload = e.payload
        /\ e.name = "e2eeWelcome" => \E a \in accepted : a.payload = Welcomed(e)
    BY <2>1, <2>2, HeadNames
  <2> QED
    BY <2>1, <2>3 DEF StaysPut, SameLog, Applies, NextCommit, TakesWelcome
<1>4. CASE HearAnswer(p)
  BY <1>4, AnswerMoves DEF Undisturbed, Intact
<1>5. CASE Requests(p) /\ ~ HearAnswer(p)
  BY <1>5, OneAtATime, PeerGoesOn
<1> QED
  BY <1>1, <1>2, <1>3, <1>4, <1>5, CalmSteps

(* A Commit sent and answered is still the one p staged. *)
LEMMA SentIsStaged ==
  ASSUME CallInv, NEW p \in Peer, SendCommit(p)
  PROVE  /\ Pending(p) /\ Pending(p)' /\ task'[p].log = task[p].log
         /\ task'[p].welcome = task[p].welcome /\ task'[p].next = task[p].next
         /\ task[p].step = "commit" /\ task'[p].step \in {"accepted", "refused"}
<1>1. task[p].step = "commit" /\ task[p] \in Task /\ task \in [Peer -> Task]
  BY DEF SendCommit, CallInv, CallShape
<1>2. PICK step \in {"accepted", "refused"} : task'[p] = [task[p] EXCEPT !.step = step]
  BY <1>1 DEF SendCommit, Asks
<1>3. /\ task'[p].log = task[p].log /\ task'[p].welcome = task[p].welcome
      /\ task'[p].next = task[p].next /\ task'[p].step = step
  BY <1>1, <1>2 DEF Task
<1> QED
  BY <1>1, <1>2, <1>3 DEF Pending

(* Everybody in the room keeps the one leaf it got, in every step. *)
LEMMA AllGrownKeeps ==
  ASSUME MlsIsPayload, OneDevice, CallInv, Undisturbed, Identified, Going, AllGrown,
         NEW p \in Peer, Runs(p) \/ Befalls(p), Stages(p)
  PROVE  AllGrown'
<1>1. ASSUME NEW log, Grown(log, Born, InRoom)
      PROVE  Grown(log, Born', InRoom')
  BY <1>1, GroupsAge
<1>2. ASSUME NEW a \in accepted'
      PROVE  Grown(a.payload, Born', InRoom')
  <2>1. CASE a \in accepted
    BY <1>1, <2>1 DEF AllGrown
  <2>2. CASE a \notin accepted
    <3>1. Closes(p, a)
      BY <2>2, WhoCloses
    <3>2. SendCommit(p) /\ a.payload = task'[p].log
      BY <3>1 DEF Closes
    <3>3. Pending(p) /\ a.payload = task[p].log
      BY <3>2, SentIsStaged
    <3> QED
      BY <1>1, <3>3 DEF AllGrown
  <2> QED
    BY <2>1, <2>2
<1>3. Grown(call'[p].log, Born', InRoom')
  <2>1. CASE Enter(p) /\ call'[p].log = Created(First(p))
    <3>1. First(p) \in Member /\ First(p) \in Born'
      BY <2>1, FirstBorn, RoomMoves DEF Born
    <3> QED
      BY <2>1, <3>1, CreatedGrown
  <2>2. CASE call'[p].log = <<>>
    BY <2>2, EmptyGrown
  <2> QED
    BY <1>1, <2>1, <2>2, HeldThen DEF AllGrown
<1>4. ASSUME Pending(p)'
      PROVE  Grown(task'[p].log, Born', InRoom')
  <2>1. ~ Rests(task'[p]) /\ task'[p].step # "welcome" /\ task'[p] # Idle
    BY <1>4 DEF Pending, Rests, Idle
  <2>2. CASE Handles(p) \/ HearAnswer(p)
    BY <1>3, <2>1, <2>2, StagingFits
  <2>3. CASE SendCommit(p)
    BY <1>1, <2>3, SentIsStaged DEF AllGrown
  <2>4. ~ Enter(p)
    BY <2>1, EnterCalls
  <2>5. ~ Exit(p)
    BY <2>1, <2>4, PeerGoesOn
  <2>6. ~ AskToJoin(p) /\ ~ SendWelcome(p)
    BY <2>1, <2>4, PeerGoesOn
  <2> QED
    BY <2>2, <2>3, <2>4, <2>5, <2>6, CalmSteps DEF Requests
<1>5. ASSUME NEW q \in Peer
      PROVE  /\ Grown(call'[q].log, Born', InRoom')
             /\ Pending(q)' => Grown(task'[q].log, Born', InRoom')
  <2>1. CASE q = p
    BY <1>3, <1>4, <2>1
  <2>2. CASE q # p
    <3>1. call'[q] = call[q] /\ task'[q] = task[q]
      BY <2>2, OthersRest
    <3> QED
      BY <1>1, <3>1 DEF AllGrown, Pending
  <2> QED
    BY <2>1, <2>2
<1> QED
  BY <1>2, <1>5 DEF AllGrown

-----------------------------------------------------------------------------
(* What is staged and what is heard *)

(* A Commit of whoever had the smallest leaf has it among newcomers too. *)
LEMMA LedAges ==
  ASSUME OneDevice, CallInv, Undisturbed, NEW p \in Peer, Runs(p) \/ Befalls(p),
         NEW log \in Seq(Entry), Grown(log, Born, InRoom), NEW r, Led(log, r, InRoom)
  PROVE  Led(log, r, InRoom')
<1>1. PICK other : other = InRoom'
  OBVIOUS
<1>2. PICK n \in Nat : n = Len(log) /\ n >= 2 /\ DOMAIN log = 1..n
  BY LenProperties DEF Led
<1>3. n - 1 \in DOMAIN log
  BY <1>2
<1>4. ASSUME NEW q \in other \ InRoom
      PROVE  Places(Before(log), First(q)) = {}
  <2>1. q = p /\ status[p] = "unborn"
    BY <1>1, RoomMoves
  <2>2. First(p) \notin Born /\ First(p) # Blank
    BY <2>1, FirstBorn, MemberNotBlank
  <2>3. First(p) \notin Leaves(Before(log))
    BY <1>2, <1>3, <2>2 DEF Grown, Before
  <2> QED
    BY <2>1, <2>2, <2>3, PlacesAreLeaves
<1>5. Led(log, r, other)
  BY <1>4 DEF Led
<1> QED
  BY <1>1, <1>5

(* Mail only grows, but for what p takes off and a newcomer's. *)
LEMMA MailLasts ==
  ASSUME MlsIsPayload, OneDevice, CallInv, Undisturbed, NEW p \in Peer, Runs(p) \/ Befalls(p),
         NEW q \in Peer, q # p \/ Requests(p)
  PROVE  /\ Mail(q) \subseteq Mail(q)'
         /\ Exit(p) /\ q \in InRoom' => \E e \in Mail(q)' : Farewell(e, p)
<1>1. MailMoves(p, q)
  BY MailGoes
<1>2. Requests(p) => ~ Enter(p) /\ ~ Exit(p) /\ ~ Handles(p)
  BY OneAtATime
<1>3. Mail(q) \subseteq Mail(q)'
  BY <1>1, <1>2, MailThen
<1>4. ASSUME Exit(p), q \in InRoom'
      PROVE  \E e \in Mail(q)' : Farewell(e, p)
  <2>1. ~ Enter(p) /\ ~ Handles(p) /\ ~ Requests(p)
    BY <1>4, OneAtATime
  <2>2. PICK e \in Event : News(p, q, e) /\ Mail(q)' = Mail(q) \cup {e}
    BY <1>1, <1>4, <2>1, MailThen DEF Spared
  <2>3. Farewell(e, p)
    BY <2>1, <2>2 DEF News, Farewell, Requests
  <2> QED
    BY <2>2, <2>3
<1> QED
  BY <1>3, <1>4

(* What p has not handled stays on its way. *)
LEMMA UnheardStays ==
  ASSUME CallInv, NEW p \in Peer, Handles(p)
  PROVE  /\ Head(inbox[p]) \in Mail(p)
         /\ \A f \in Mail(p) : f # Head(inbox[p]) => f \in Mail(p)'
<1>1. PICK e : e = Head(inbox[p])
  OBVIOUS
<1>2. inbox[p] # <<>> /\ Handle(p, e)
  BY <1>1 DEF Handles
<1>3. Take(p, e)
  BY <1>1, <1>2, HandleMoves
<1>4. Receive(p)
  BY <1>3 DEF Take
<1>5. e \in Mail(p) /\ Mail(p) \subseteq Mail(p)' \cup {e}
  BY <1>1, <1>2, <1>4, HeadGoes
<1> QED
  BY <1>1, <1>5

(* Whom q waits for stays, or says that it leaves. *)
LEMMA ConcernsLast ==
  ASSUME MlsIsPayload, OneDevice, CallInv, Undisturbed, Identified,
         NEW p \in Peer, Runs(p) \/ Befalls(p), NEW q \in Peer, q # p \/ Requests(p),
         ConcernsFit(q), NEW x \in Concerns(task[q])
  PROVE  x # q /\ (x \in InRoom' \/ \E e \in Mail(q)' : Farewell(e, x))
<1>1. x # q /\ (x \in InRoom \/ \E e \in Mail(q) : Farewell(e, x))
  BY DEF ConcernsFit
<1>2. Mail(q) \subseteq Mail(q)' /\ (Exit(p) /\ q \in InRoom' => \E e \in Mail(q)' : Farewell(e, p))
  BY MailLasts
<1>3. CASE x \in InRoom /\ x \notin InRoom'
  <2>1. Exit(p) /\ x = p /\ InRoom' = InRoom \ {p}
    BY <1>3, RoomMoves
  <2>2. task[q] # Idle
    BY DEF Concerns, Idle
  <2>3. InCall(q)
    BY <2>2, OutOfCall
  <2>4. q \in InRoom /\ q # p
    BY <2>1, <2>3, <1>1, CallerIsHere
  <2> QED
    BY <1>1, <1>2, <2>1, <2>4
<1> QED
  BY <1>1, <1>2, <1>3

(* Nothing staged is nothing to fit. *)
LEMMA RestingStages ==
  ASSUME NEW p \in Peer, Rests(task'[p])
  PROVE  Stages(p)'
BY DEF Stages, Rests, Pending, Concerns, ConcernsFit

(* What anybody holds is a log of Commits, and so is what it staged. *)
LEMMA LogsAreLogs ==
  ASSUME CallInv, NEW q \in Peer
  PROVE  /\ call[q].log \in Seq(Entry)
         /\ Pending(q) \/ task[q].step = "welcome" =>
              task[q].log \in Seq(Entry) /\ task[q].welcome \in SUBSET Peer
                /\ task[q].next \in SUBSET Peer
<1>1. call[q] \in ClientRecord /\ task[q] \in Task
  BY DEF CallInv, CallShape
<1> QED
  BY <1>1 DEF ClientRecord, Task, Pending

(* Somebody else's step. *)
LEMMA OthersStage ==
  ASSUME MlsIsPayload, OneDevice, CallInv, Undisturbed, Identified, AllGrown,
         NEW p \in Peer, Runs(p) \/ Befalls(p), NEW r \in Peer, r # p, Stages(r)
  PROVE  Stages(r)'
<1>1. call'[r] = call[r] /\ task'[r] = task[r]
  BY OthersRest
<1>2. ConcernsFit(r)
  BY DEF Stages
<1>3. ASSUME NEW x \in Concerns(task[r])
      PROVE  x # r /\ (x \in InRoom' \/ \E e \in Mail(r)' : Farewell(e, x))
  BY <1>2, <1>3, ConcernsLast
<1>4. ConcernsFit(r)'
  BY <1>1, <1>3 DEF ConcernsFit
<1>5. ASSUME Pending(r)'
      PROVE  StagesWell(r, call[r], task[r], InRoom')
  <2>1. Pending(r)
    BY <1>1, <1>5 DEF Pending
  <2>2. StagesWell(r, call[r], task[r], InRoom) /\ Grown(task[r].log, Born, InRoom)
    BY <2>1 DEF Stages, AllGrown
  <2>3. task[r].log \in Seq(Entry)
    BY <2>1, LogsAreLogs
  <2>4. Led(task[r].log, r, InRoom)
    BY <2>2 DEF StagesWell
  <2>5. Led(task[r].log, r, InRoom')
    BY <2>2, <2>3, <2>4, LedAges
  <2> QED
    BY <2>2, <2>5 DEF StagesWell
<1>6. task[r].step = "welcome" => \A x \in task[r].welcome : JustPut(call[r].log, r, x)
  BY DEF Stages
<1> QED
  BY <1>1, <1>4, <1>5, <1>6 DEF Stages

(* What p stages in a handler or after an answer is about those in the room, *)
(* or who are about to be said to have left.                                 *)
LEMMA StagingStages ==
  ASSUME MlsIsPayload, OneDevice, CallInv, Undisturbed, Identified, Going, AllGrown, AllGrown',
         Parted, NEW p \in Peer, Runs(p) \/ Befalls(p), Stages(p), Handles(p) \/ HearAnswer(p)
  PROVE  Stages(p)'
<1>1. Grown(call'[p].log, Born', InRoom')
  BY DEF AllGrown
<1>2. ConcernsFit(p) /\ Requests(p) = HearAnswer(p)
  <2>1. HearAnswer(p) => Requests(p)
    BY DEF Requests
  <2>2. Handles(p) => ~ Requests(p)
    BY OneAtATime
  <2>3. HearAnswer(p) \in BOOLEAN /\ Requests(p) \in BOOLEAN
    BY DEF HearAnswer, Requests
  <2> QED
    BY <2>1, <2>2, <2>3 DEF Stages
<1>3. ASSUME HearAnswer(p), NEW x \in Concerns(task[p])
      PROVE  x # p /\ (x \in InRoom' \/ \E e \in Mail(p)' : Farewell(e, x))
  BY <1>2, <1>3, ConcernsLast
<1>4. HearAnswer(p) => task[p].step \in {"accepted", "refused"} /\ Pending(p)
  BY DEF HearAnswer, Pending
<1>5. \/ Rests(task'[p])
      \/ /\ HearAnswer(p) /\ task[p].step = "accepted" /\ task'[p].step = "welcome"
         /\ task'[p].welcome = task[p].welcome /\ call'[p].log = task[p].log
      \/ /\ task'[p].step = "commit"
         /\ StagesWell(p, call'[p], task'[p], InRoom')
         /\ \A x \in task'[p].welcome \cup task'[p].next :
              \/ HearAnswer(p) /\ x \in task[p].next
              \/ Handles(p) /\ x = Head(inbox[p]).peer /\ Head(inbox[p]).name = "e2eeJoinRequested"
  BY <1>1, StagingFits
<1>6. CASE Rests(task'[p])
  BY <1>6, RestingStages
<1>7. CASE /\ HearAnswer(p) /\ task[p].step = "accepted" /\ task'[p].step = "welcome"
           /\ task'[p].welcome = task[p].welcome /\ call'[p].log = task[p].log
  <2>1. Concerns(task'[p]) \subseteq Concerns(task[p])
    BY <1>7 DEF Concerns
  <2>2. ConcernsFit(p)'
    BY <1>3, <1>7, <2>1 DEF ConcernsFit
  <2>3. \A x \in task[p].welcome : JustPut(task[p].log, p, x)
    BY <1>4, <1>7 DEF Stages, StagesWell
  <2> QED
    BY <1>7, <2>2, <2>3 DEF Stages, Pending
<1>8. CASE /\ task'[p].step = "commit"
           /\ StagesWell(p, call'[p], task'[p], InRoom')
           /\ \A x \in task'[p].welcome \cup task'[p].next :
                \/ HearAnswer(p) /\ x \in task[p].next
                \/ /\ Handles(p) /\ x = Head(inbox[p]).peer
                   /\ Head(inbox[p]).name = "e2eeJoinRequested"
  <2>1. ASSUME NEW x \in Concerns(task'[p])
        PROVE  x # p /\ (x \in InRoom' \/ \E e \in Mail(p)' : Farewell(e, x))
    <3>1. x \in task'[p].welcome \cup task'[p].next
      BY <1>8, <2>1 DEF Concerns
    <3>2. CASE HearAnswer(p) /\ x \in task[p].next
      <4>1. x \in Concerns(task[p])
        BY <1>4, <3>2 DEF Concerns
      <4> QED
        BY <1>3, <3>2, <4>1
    <3>3. CASE Handles(p) /\ x = Head(inbox[p]).peer /\ Head(inbox[p]).name = "e2eeJoinRequested"
      <4>1. PICK e : e = Head(inbox[p])
        OBVIOUS
      <4>2. e \in Mail(p) /\ (\A f \in Mail(p) : f # e => f \in Mail(p)') /\ InCall(p)
            /\ InRoom' = InRoom
        BY <3>3, <4>1, UnheardStays, OneAtATime
      <4>3. x # p
        BY <3>3, <4>1, <4>2 DEF Undisturbed, CalmRoom
      <4>4. ASSUME x \notin InRoom
            PROVE  \E f \in Mail(p)' : Farewell(f, x)
        <5>1. p \in InRoom
          BY <4>2, CallerIsHere
        <5>2. Farewells(inbox[p], seen[p], InRoom) /\ e \in Elems(inbox[p])
          BY <4>2, <5>1 DEF Parted, Mail
        <5>3. \E f \in Elems(inbox[p]) : Farewell(f, x)
          BY <3>3, <4>1, <4>4, <5>2, FarewellInMail
        <5>4. PICK f \in Mail(p) : Farewell(f, x)
          BY <5>3 DEF Mail
        <5>5. f # e
          BY <3>3, <4>1, <5>4 DEF Farewell
        <5> QED
          BY <4>2, <5>4, <5>5
      <4> QED
        BY <4>2, <4>3, <4>4
    <3> QED
      BY <1>8, <3>1, <3>2, <3>3
  <2>2. ConcernsFit(p)'
    BY <2>1 DEF ConcernsFit
  <2> QED
    BY <1>8, <2>2 DEF Stages
<1> QED
  BY <1>5, <1>6, <1>7, <1>8

(* What is staged stays fit. *)
LEMMA StagesKeeps ==
  ASSUME MlsIsPayload, OneDevice, CallInv, Undisturbed, Identified, Going, AllGrown, AllGrown',
         Parted, NEW p \in Peer, Runs(p) \/ Befalls(p), NEW r \in Peer, Stages(r)
  PROVE  Stages(r)'
<1>1. CASE r # p
  BY <1>1, OthersStage
<1>2. CASE r = p /\ (Handles(p) \/ HearAnswer(p))
  BY <1>2, StagingStages
<1>3. CASE r = p /\ (Enter(p) \/ Exit(p) \/ AskToJoin(p) \/ SendWelcome(p))
  <2>1. CASE Enter(p)
    BY <1>3, <2>1, EnterCalls, RestingStages
  <2>2. CASE ~ Enter(p)
    <3>1. task'[p] = Idle
      BY <1>3, <2>2, PeerGoesOn
    <3>2. Rests(task'[p])
      BY <3>1 DEF Rests, Idle
    <3> QED
      BY <1>3, <3>2, RestingStages
  <2> QED
    BY <2>1, <2>2
<1>4. CASE r = p /\ SendCommit(p)
  <2>1. Requests(p)
    BY <1>4 DEF Requests
  <2>2. ~ Enter(p) /\ ~ Handles(p) /\ ~ Exit(p) /\ InRoom' = InRoom
    BY <2>1, OneAtATime
  <2>3. /\ Pending(p) /\ Pending(p)' /\ task'[p].log = task[p].log
        /\ task'[p].welcome = task[p].welcome /\ task'[p].next = task[p].next
        /\ task[p].step = "commit" /\ task'[p].step \in {"accepted", "refused"}
    BY <1>4, SentIsStaged
  <2>4. call'[p].log = call[p].log
    <3>1. ~ HearAnswer(p)
      BY <1>4 DEF SendCommit, HearAnswer
    <3> QED
      BY <2>1, <2>2, <3>1, PeerGoesOn
  <2>5. Concerns(task'[p]) = Concerns(task[p])
    BY <2>3 DEF Concerns
  <2>6. ConcernsFit(p)
    BY <1>4 DEF Stages
  <2>7. ASSUME NEW x \in Concerns(task[p])
        PROVE  x # p /\ (x \in InRoom' \/ \E e \in Mail(p)' : Farewell(e, x))
    BY <2>1, <2>6, <2>7, ConcernsLast
  <2>8. ConcernsFit(p)'
    BY <2>5, <2>7 DEF ConcernsFit
  <2>9. StagesWell(p, call[p], task[p], InRoom)
    BY <1>4, <2>3 DEF Stages
  <2>10. StagesWell(p, call'[p], task'[p], InRoom')
    BY <2>2, <2>3, <2>4, <2>9 DEF StagesWell
  <2> QED
    BY <1>4, <2>3, <2>8, <2>10 DEF Stages
<1> QED
  BY <1>1, <1>2, <1>3, <1>4, CalmSteps DEF Requests

-----------------------------------------------------------------------------
(* Who is heard *)

(* The Commits on their way to p are of whoever had the smallest leaf, and its *)
(* Welcomes of whoever put it in.                                              *)
LeadersHeard(p) ==
  InSession(p) => \A e \in Mail(p) :
    /\ IsOurs(e) => Led(e.payload, e.peer, InRoom)
    /\ e.name = "e2eeWelcome" /\ e.group = session => JustPut(Welcomed(e), e.peer, p)

(* A Welcome carries the one Commit of its epoch. *)
LEMMA WelcomedIs ==
  ASSUME NEW acc, \A a, b \in acc :
           a.life = b.life /\ a.group = b.group /\ a.epoch = b.epoch => a = b,
         NEW e, NEW b \in acc, b.life = e.life /\ b.group = e.group /\ b.epoch = e.epoch
  PROVE  (CHOOSE a \in acc : a.life = e.life /\ a.group = e.group /\ a.epoch = e.epoch) = b
OBVIOUS

(* Who was in the room before stays in its session. *)
LEMMA SameSession ==
  ASSUME MlsIsPayload, OneDevice, CallInv, Undisturbed, Identified,
         NEW p \in Peer, Runs(p) \/ Befalls(p), NEW r \in Peer, InSession(r)', r # p \/ ~ Enter(p)
  PROVE  session' = session /\ InSession(r) /\ InCall(r)
<1>1. session' = session
  <2>1. CASE Enter(p)
    BY <2>1, NewSessionIsOfOne
  <2>2. CASE ~ Enter(p)
    BY <2>2, PeerGoesOn
  <2> QED
    BY <2>1, <2>2
<1>2. InCall(r)
  <2>1. CASE r # p
    BY <2>1, OthersRest DEF InSession
  <2>2. CASE r = p
    <3>1. ~ Exit(p)
      <4>1. Exit(p) => call'[p] = NoCall
        BY <2>2, PeerGoesOn
      <4>2. call'[p] # NoCall
        BY <2>2 DEF InSession, InCall, NoCall
      <4> QED
        BY <4>1, <4>2
    <3>2. Handles(p) \/ Requests(p)
      BY <2>2, <3>1, CalmSteps
    <3> QED
      BY <2>2, <3>2, OneAtATime
  <2> QED
    BY <2>1, <2>2
<1> QED
  BY <1>1, <1>2, CallerIsHere

(* What is still on its way was said by whom it has to come from. *)
LEMMA OldIsLed ==
  ASSUME OneDevice, CallInv, CallInv', Undisturbed, AllGrown,
         NEW p \in Peer, Runs(p) \/ Befalls(p), session' = session, accepted \subseteq accepted',
         NEW r \in Peer, InSession(r), LeadersHeard(r), NEW e \in Mail(r)
  PROVE  /\ IsOurs(e)' => Led(e.payload, e.peer, InRoom')
         /\ e.name = "e2eeWelcome" /\ e.group = session' => JustPut(Welcomed(e)', e.peer, r)
<1>1. ASSUME IsOurs(e)'
      PROVE  Led(e.payload, e.peer, InRoom')
  <2>1. IsOurs(e) /\ e.name = "e2eeCommit"
    BY <1>1 DEF IsOurs
  <2>2. Announced(accepted, e)
    BY <2>1 DEF CallInv, MailFits, FitEvent
  <2>3. e.payload \in Seq(Entry)
    BY <2>2, CommitFits
  <2>4. Grown(e.payload, Born, InRoom)
    BY <2>2 DEF Announced, AllGrown
  <2>5. Led(e.payload, e.peer, InRoom)
    BY <2>1 DEF LeadersHeard
  <2>6. PICK log \in Seq(Entry) : log = e.payload
    BY <2>3
  <2> QED
    BY <2>4, <2>5, <2>6, LedAges
<1>2. ASSUME e.name = "e2eeWelcome", e.group = session'
      PROVE  JustPut(Welcomed(e)', e.peer, r)
  <2>1. PICK i \in DOMAIN inbox[r] : e = inbox[r][i]
    BY DEF Mail, Elems
  <2>2. PICK a \in accepted : a.life = e.life /\ a.group = e.group /\ a.epoch = e.epoch
    BY <1>2, <2>1 DEF CallInv, IInv, WelcomeFollowsCommit
  <2>3. a \in accepted'
    BY <2>2
  <2>4. OneCommitPerEpoch /\ OneCommitPerEpoch'
    BY DEF CallInv, IInv
  <2>5. Welcomed(e) = a.payload
    <3>1. (CHOOSE b \in accepted : b.life = e.life /\ b.group = e.group /\ b.epoch = e.epoch) = a
      BY <2>2, <2>4, WelcomedIs DEF OneCommitPerEpoch
    <3> QED
      BY <3>1 DEF Welcomed
  <2>6. Welcomed(e)' = a.payload
    <3>1. (CHOOSE b \in accepted' : b.life = e.life /\ b.group = e.group /\ b.epoch = e.epoch) = a
      BY <2>2, <2>3, <2>4, WelcomedIs DEF OneCommitPerEpoch
    <3> QED
      BY <3>1 DEF Welcomed
  <2>7. JustPut(Welcomed(e), e.peer, r)
    BY <1>2 DEF LeadersHeard
  <2> QED
    BY <2>5, <2>6, <2>7
<1> QED
  BY <1>1, <1>2

(* What is said now too. *)
LEMMA NewsIsLed ==
  ASSUME CallInv, CallInv', Undisturbed, NEW p \in Peer, Runs(p) \/ Befalls(p), Stages(p),
         session' = session, NEW r \in Peer, NEW e, News(p, r, e)
  PROVE  /\ IsOurs(e)' => Led(e.payload, e.peer, InRoom')
         /\ e.name = "e2eeWelcome" /\ e.group = session' => JustPut(Welcomed(e)', e.peer, r)
<1>1. ASSUME IsOurs(e)'
      PROVE  Led(e.payload, e.peer, InRoom')
  <2>1. SendCommit(p) /\ e.payload = task[p].log /\ e.peer = p
    BY <1>1 DEF News, IsOurs
  <2>2. Pending(p) /\ InRoom' = InRoom
    BY <2>1, SentIsStaged, OneAtATime DEF Requests
  <2> QED
    BY <2>1, <2>2 DEF Stages, StagesWell
<1>2. ASSUME e.name = "e2eeWelcome", e.group = session'
      PROVE  JustPut(Welcomed(e)', e.peer, r)
  <2>1. /\ SendWelcome(p) /\ e.peer = p /\ e.life = session /\ e.group = call[p].group
        /\ e.epoch = Epoch(call[p].log) - 1 /\ task[p].step = "welcome" /\ r \in task[p].welcome
    BY <1>2 DEF News
  <2>2. Len(call[p].log) >= 2
    BY <2>1 DEF CallInv, ClientFits, FitTask
  <2>3. PICK a \in accepted : /\ a.life = session /\ a.group = session
                              /\ a.payload = call[p].log /\ Len(call[p].log) = a.epoch + 2
                              /\ a.epoch \in Nat
    BY <1>2, <2>1, <2>2, HeldIsAccepted
  <2>4. a.life = e.life /\ a.group = e.group /\ a.epoch = e.epoch
    <3>1. \A m \in Nat : m + 2 - 1 - 1 = m
      OBVIOUS
    <3>2. Epoch(call[p].log) - 1 = a.epoch
      BY <2>3, <3>1 DEF Epoch
    <3> QED
      BY <1>2, <2>1, <2>3, <3>2
  <2>5. accepted' = accepted
    <3>1. ~ SendCommit(p) /\ ~ Enter(p)
      BY <2>1, OneAtATime DEF Requests, SendCommit, SendWelcome
    <3> QED
      BY <3>1, PeerGoesOn
  <2>6. OneCommitPerEpoch
    BY DEF CallInv, IInv
  <2>7. (CHOOSE b \in accepted : b.life = e.life /\ b.group = e.group /\ b.epoch = e.epoch) = a
    BY <2>4, <2>6, WelcomedIs DEF OneCommitPerEpoch
  <2>8. Welcomed(e)' = call[p].log
    BY <2>3, <2>5, <2>7 DEF Welcomed
  <2> QED
    BY <2>1, <2>8 DEF Stages
<1> QED
  BY <1>1, <1>2

(* Commits and Welcomes on their way stay those of whoever had the smallest *)
(* leaf, in every step.                                                     *)
LEMMA LeadersKeep ==
  ASSUME MlsIsPayload, OneDevice, CallInv, CallInv', Undisturbed, Identified, AllGrown,
         accepted \subseteq accepted',
         NEW p \in Peer, Runs(p) \/ Befalls(p), Stages(p), NEW r \in Peer, LeadersHeard(r)
  PROVE  LeadersHeard(r)'
<1>1. MailMoves(p, r)
  BY MailGoes
<1>2. CASE r = p /\ Enter(p)
  <2>1. ~ Exit(p) /\ ~ Handles(p) /\ ~ Requests(p)
    BY <1>2, OneAtATime
  <2>2. Mail(r)' = {}
    BY <1>1, <1>2, <2>1, MailThen DEF Spared, News, Requests
  <2> QED
    BY <2>2 DEF LeadersHeard
<1>3. ASSUME r # p \/ ~ Enter(p), InSession(r)', NEW e \in Mail(r)'
      PROVE  /\ IsOurs(e)' => Led(e.payload, e.peer, InRoom')
             /\ e.name = "e2eeWelcome" /\ e.group = session' => JustPut(Welcomed(e)', e.peer, r)
  <2>1. session' = session /\ InSession(r)
    BY <1>3, SameSession
  <2>2. e \in Mail(r) \/ News(p, r, e)
    BY <1>1, <1>3, MailThen
  <2>3. CASE e \in Mail(r)
    BY <2>1, <2>3, OldIsLed
  <2>4. CASE News(p, r, e)
    BY <2>1, <2>4, NewsIsLed
  <2> QED
    BY <2>2, <2>3, <2>4
<1> QED
  BY <1>2, <1>3 DEF LeadersHeard

-----------------------------------------------------------------------------
(* Whoever was put in by somebody who has left *)

(* The leaf of p was put in by nobody else who is in the room. *)
Orphan(p, log, room) ==
  \E k \in DOMAIN log :
    /\ First(p) \in Leaves(log[k].tree)
    /\ k > 1 => First(p) \notin Leaves(log[k - 1].tree)
    /\ log[k].by[1] \notin room \ {p}

(* The leaf of somebody in the room is smaller than that of p. *)
Outranked(p, tree, room) ==
  \E q \in room : \E l \in Places(tree, First(q)) : \A k \in Places(tree, First(p)) : l < k

AllIn(log, room) == \A m \in Roll(log) : m[1] \in room

(* p has to hear that somebody left. *)
Goodbyes(p) == \E e \in Mail(p) : e.name = "peerLeft"

(* p takes the ghosts out yet, has done so, or need not. *)
Heir(p) ==
  p \in InRoom /\ HasTree(p) /\ Orphan(p, call[p].log, InRoom) =>
    \/ Goodbyes(p)
    \/ Outranked(p, Tree(call[p].log), InRoom)
    \/ task[p].step \in {"commit", "accepted"} /\ AllIn(task[p].log, InRoom)
    \/ AllIn(call[p].log, InRoom)

(* Whoever had the smallest leaf outranks the others before its Commit, and after. *)
LEMMA LedOutranks ==
  ASSUME NEW log \in Seq(Entry), NEW ids, NEW room, Grown(log, ids, room),
         NEW p \in room, NEW q \in room, q # p, Led(log, q, room), First(p) # Blank,
         First(p) \in Leaves(Before(log))
  PROVE  Outranked(p, Before(log), room) /\ Outranked(p, Tree(log), room)
<1>1. PICK n \in Nat : n = Len(log) /\ n >= 2 /\ DOMAIN log = 1..n
  BY LenProperties DEF Led
<1>2. n - 1 \in DOMAIN log /\ n \in DOMAIN log /\ n - 1 <= n
  BY <1>1
<1>3. PICK old, new : old = Before(log) /\ new = Tree(log) /\ old = log[n - 1].tree
                      /\ new = log[n].tree
  BY <1>1 DEF Before, Tree
<1>4. Places(old, First(p)) # {}
  BY <1>3, PlacesAreLeaves
<1>5. /\ Places(new, First(p)) = Places(old, First(p)) /\ OnePlace(old, First(p))
      /\ Places(old, First(q)) # {} => Places(new, First(q)) = Places(old, First(q))
  BY <1>2, <1>3, <1>4 DEF Grown, Rooted
<1>6. PICK l : Places(old, First(p)) = {l}
  BY <1>4, <1>5 DEF OnePlace
<1>7. PICK k \in Places(old, First(q)) : k < l
  BY <1>3, <1>6 DEF Led
<1>8. k \in Places(new, First(q)) /\ Places(new, First(p)) = {l}
  BY <1>5, <1>6, <1>7
<1> QED
  BY <1>3, <1>6, <1>7, <1>8 DEF Outranked

(* Whoever outranks p does so after another Commit. *)
LEMMA OutrankedStays ==
  ASSUME NEW log \in Seq(Entry), NEW ids, NEW room, Grown(log, ids, room), Len(log) >= 2,
         NEW p \in room, First(p) # Blank,
         First(p) \in Leaves(Before(log)), Outranked(p, Before(log), room)
  PROVE  Outranked(p, Tree(log), room)
<1>1. PICK n \in Nat : n = Len(log) /\ n >= 2 /\ DOMAIN log = 1..n
  BY LenProperties
<1>2. n - 1 \in DOMAIN log /\ n \in DOMAIN log /\ n - 1 <= n
  BY <1>1
<1>3. PICK old, new : old = Before(log) /\ new = Tree(log) /\ old = log[n - 1].tree
                      /\ new = log[n].tree
  BY <1>1 DEF Before, Tree
<1>4. PICK q \in room :
        \E l \in Places(old, First(q)) : \A k \in Places(old, First(p)) : l < k
  BY <1>3 DEF Outranked
<1>5. Places(old, First(p)) # {} /\ Places(old, First(q)) # {}
  <2>1. Places(old, First(p)) # {}
    BY <1>3, PlacesAreLeaves
  <2> QED
    BY <1>4, <2>1
<1>6. /\ Places(new, First(p)) = Places(old, First(p))
      /\ Places(new, First(q)) = Places(old, First(q))
  BY <1>2, <1>3, <1>5 DEF Grown, Rooted
<1> QED
  BY <1>3, <1>4, <1>6 DEF Outranked

(* Who was just put in was put in by whoever did that. *)
LEMMA JustPutIsBy ==
  ASSUME NEW log \in Seq(Entry), NEW ids, NEW room, Grown(log, ids, room),
         NEW p \in room, First(p) # Blank, NEW r, JustPut(log, r, p), Orphan(p, log, room)
  PROVE  r \notin room \ {p}
<1>1. PICK n \in Nat : n = Len(log) /\ n >= 2 /\ DOMAIN log = 1..n
  BY LenProperties DEF JustPut
<1>2. PICK k \in 1..n : First(p) \in Leaves(log[k].tree) /\ log[k].by[1] \notin room \ {p}
  BY <1>1 DEF Orphan
<1>3. CASE k <= n - 1
  <2>1. n - 1 \in DOMAIN log /\ k \in DOMAIN log
    BY <1>1, <1>3
  <2>2. Places(log[k].tree, First(p)) # {}
    BY <1>2, PlacesAreLeaves
  <2>3. Places(log[n - 1].tree, First(p)) = Places(log[k].tree, First(p))
    BY <1>3, <2>1, <2>2 DEF Grown, Rooted
  <2>4. First(p) \in Leaves(log[n - 1].tree)
    BY <2>2, <2>3, PlacesAreLeaves
  <2> QED
    BY <1>1, <2>4 DEF JustPut, Before
<1>4. CASE k = n
  BY <1>1, <1>2, <1>4 DEF JustPut
<1> QED
  BY <1>1, <1>2, <1>3, <1>4

(* Whose leaf is there already is put in by no further Commit. *)
LEMMA OrphanBefore ==
  ASSUME NEW log \in Seq(Entry), NEW next \in Seq(Entry), Continues(log, next), Len(log) >= 1,
         NEW p, NEW room, First(p) \in Leaves(Tree(log)), Orphan(p, next, room)
  PROVE  Orphan(p, log, room)
<1>1. PICK n \in Nat : n = Len(log) /\ n >= 1 /\ DOMAIN log = 1..n
  BY LenProperties
<1>2. Len(next) = n + 1 /\ DOMAIN next = 1..(n + 1) /\ SubSeq(next, 1, n) = log
  BY <1>1, LenProperties DEF Continues
<1>3. \A i \in 1..n : next[i] = log[i]
  <2>1. \A i \in 1..n : SubSeq(next, 1, n)[i] = next[i]
    BY <1>1, <1>2
  <2> QED
    BY <1>2, <2>1
<1>4. PICK k \in 1..(n + 1) : /\ First(p) \in Leaves(next[k].tree)
                              /\ k > 1 => First(p) \notin Leaves(next[k - 1].tree)
                              /\ next[k].by[1] \notin room \ {p}
  BY <1>2 DEF Orphan
<1>5. CASE k = n + 1
  <2>1. k > 1 /\ k - 1 = n /\ n \in 1..n
    BY <1>1, <1>5
  <2>2. next[n] = log[n]
    BY <1>3, <2>1
  <2> QED
    BY <1>1, <1>4, <2>1, <2>2 DEF Tree
<1>6. CASE k \in 1..n
  <2>1. next[k] = log[k] /\ k \in DOMAIN log
    BY <1>1, <1>3, <1>6
  <2>2. k > 1 => k - 1 \in 1..n
    BY <1>1, <1>6
  <2>3. k > 1 => next[k - 1] = log[k - 1]
    BY <1>3, <2>2
  <2> QED
    BY <1>4, <2>1, <2>3 DEF Orphan
<1> QED
  BY <1>1, <1>4, <1>5, <1>6

(* A Commit made in the state log is made on its tree. *)
LEMMA ContinuesBefore ==
  ASSUME NEW log \in Seq(Entry), NEW next \in Seq(Entry), Continues(log, next), Len(log) >= 1
  PROVE  Before(next) = Tree(log) /\ Len(next) >= 2
<1>1. PICK n \in Nat : n = Len(log) /\ n >= 1
  BY LenProperties
<1>2. Len(next) = n + 1 /\ SubSeq(next, 1, n) = log
  BY <1>1 DEF Continues
<1>3. n \in 1..n /\ n + 1 - 1 = n /\ n + 1 >= 2
  BY <1>1
<1>4. SubSeq(next, 1, n)[n] = next[n]
  BY <1>1, <1>2, <1>3
<1> QED
  BY <1>1, <1>2, <1>3, <1>4 DEF Before, Tree

(* What whoever has a group in a call holds. *)
LEMMA TreeHolds ==
  ASSUME CallInv, Undisturbed, Identified, NEW p \in Peer, HasTree(p)
  PROVE  /\ InCall(p) /\ p \in InRoom /\ First(p) \in Member /\ First(p) # Blank
         /\ call[p].log \in Seq(Entry) /\ Len(call[p].log) >= 1
         /\ Roll(call[p].log) = Members(call[p].log)
         /\ First(p) \in Roll(call[p].log) /\ First(p) \in Leaves(Tree(call[p].log))
<1>1. ~ Awaiting(call[p]) /\ Roll(call[p].log) = Members(call[p].log)
  BY TreeIsTaken
<1>2. InCall(p)
  BY <1>1, OutOfCall DEF NoCall, Awaiting
<1>3. p \in InRoom /\ Own(p) = First(p)
  BY <1>2, CallerIsHere
<1>4. call[p].log \in Seq(Entry)
  BY LogsAreLogs
<1>5. Len(call[p].log) >= 1
  BY <1>1, <1>4, AwaitingLen
<1>6. First(p) \in Members(call[p].log)
  BY <1>3 DEF HasTree
<1>7. Leaves(Tree(call[p].log)) = Members(call[p].log)
  BY DEF Leaves, Members
<1> QED
  BY <1>1, <1>2, <1>3, <1>4, <1>5, <1>6, <1>7, FirstBorn, MemberNotBlank

(* Somebody p heard of is not in the room: p hears that it left. *)
LEMMA GoneSaidSo ==
  ASSUME NEW p, Farewells(inbox[p], seen[p], InRoom), NEW e \in Mail(p), e.peer \notin InRoom
  PROVE  \E f \in Mail(p) : Farewell(f, e.peer)
<1>1. PICK s : s = inbox[p]
  OBVIOUS
<1>2. PICK room : room = InRoom
  OBVIOUS
<1>3. Farewells(s, seen[p], room) /\ e \in Elems(s)
  BY <1>1, <1>2 DEF Mail
<1>4. \E f \in Elems(s) : Farewell(f, e.peer)
  BY <1>2, <1>3, FarewellInMail
<1> QED
  BY <1>1, <1>4 DEF Mail

(* Who is late with a Commit is behind somebody with a smaller leaf. *)
LEMMA BehindIsRelieved ==
  ASSUME CallInv, Undisturbed, Identified, AllGrown, Parted, NEW p \in Peer, HasTree(p),
         LeadersHeard(p), SendCommit(p), task'[p].step = "refused"
  PROVE  Goodbyes(p) \/ Outranked(p, Tree(call[p].log), InRoom)
<1>1. PICK log \in Seq(Entry) : log = call[p].log /\ Len(log) >= 1
  BY TreeHolds
<1>2. /\ InCall(p) /\ p \in InRoom /\ InSession(p) /\ status[p] = "here" /\ First(p) # Blank
      /\ First(p) \in Leaves(Tree(log))
  BY <1>1, TreeHolds, CallerIsHere
<1>3. PICK c : c = [group |-> call[p].group, epoch |-> Epoch(call[p].log), payload |-> task[p].log]
  OBVIOUS
<1>4. c.group = session /\ c.epoch = Epoch(log)
  BY <1>1, <1>2, <1>3 DEF InSession
<1>5. CommitAnswer(p, c) # "accepted"
  BY <1>3, SentIsStaged DEF SendCommit, Asks, CallInv, CallShape
<1>6. PICK n \in Nat : n = Epoch(log) /\ n + 1 = Len(log)
  <2>1. \A k \in Nat : k >= 1 => k - 1 \in Nat /\ k - 1 + 1 = k
    OBVIOUS
  <2>2. Len(log) \in Nat
    BY LenProperties
  <2> QED
    BY <1>1, <2>1, <2>2 DEF Epoch
<1> session \in Group /\ groups[session].currentEpoch \in Nat
  <2>1. session \in 1..session
    BY <1>2 DEF InSession, CallInv, ClientFits, FitCall, InCall
  <2>2. session \in 1..MaxSession
    BY <2>1, RelayAssumption DEF CallInv, IInv, TypeOK
  <2>3. session \in Group
    BY <2>2, CallAssumption
  <2> QED
    BY <2>3 DEF CallInv, IInv, TypeOK, GroupState
<1>7. n < groups[session].currentEpoch
  <2>1. n # groups[session].currentEpoch
    BY <1>4, <1>5, <1>6 DEF CommitAnswer
  <2>2. groups[session].currentEpoch \in Nat
    OBVIOUS
  <2>3. CASE n = 0
    BY <2>1, <2>2, <2>3
  <2>4. CASE n >= 1
    <3>1. Len(log) >= 2
      BY <1>6, <2>4
    <3>2. PICK a \in accepted : a.group = session /\ Len(log) = a.epoch + 2
      BY <1>1, <1>2, <3>1 DEF CallInv, ClientFits, FitCall, Supported, InSession
    <3>3. a.epoch \in Nat /\ a.epoch < groups[session].currentEpoch
      BY <3>2, OfTheSession
    <3> QED
      BY <1>6, <2>1, <2>2, <3>2, <3>3
  <2> QED
    BY <2>3, <2>4
<1>8. PICK a \in accepted : Ours(a) /\ a.epoch = n
  <2>1. n \in 0..(groups[session].currentEpoch - 1)
    BY <1>7
  <2> QED
    BY <2>1 DEF CallInv, IInv, RelayInv, HistoryAgrees, Ours
<1>9. PICK e \in Mail(p) : IsOurs(e) /\ e.epoch = n
  <2>1. task[p].step = "commit"
    BY DEF SendCommit
  <2>2. Due(p, a.epoch) /\ ~ Confirmed(p, a)
    BY <1>2, <2>1 DEF Due, Confirmed
  <2>3. Epoch(call[p].log) <= a.epoch
    BY <1>1, <1>6, <1>8
  <2>4. KeptUp(p)
    BY DEF Undisturbed, Intact
  <2> QED
    BY <1>2, <1>8, <2>2, <2>3, <2>4 DEF KeptUp, OnItsWay
<1>10. Continues(log, e.payload) /\ e.payload \in Seq(Entry)
  <2>1. Announced(accepted, e) /\ IsMls(e) /\ e.group = session
    BY <1>9 DEF IsOurs, CallInv, MailFits, FitEvent, IsMls
  <2>2. e.life = session
    BY <2>1, OursIsSettled
  <2>3. PICK b \in accepted : Ours(b) /\ b.epoch = n /\ b.payload = e.payload
    BY <1>9, <2>1, <2>2 DEF Announced, Ours
  <2>4. ~ Awaiting(call[p])
    BY DEF HasTree
  <2>5. Chained /\ OneFounder
    BY DEF Undisturbed, Intact
  <2>6. Continues(call[p].log, b.payload)
    BY <1>1, <1>2, <1>6, <2>3, <2>4, <2>5, NextContinues
  <2> QED
    BY <1>1, <2>1, <2>3, <2>6, CommitFits
<1>11. PICK next \in Seq(Entry) : next = e.payload /\ Before(next) = Tree(log)
  BY <1>1, <1>10, ContinuesBefore
<1>12. Led(next, e.peer, InRoom) /\ e.peer # p
  BY <1>2, <1>9, <1>11 DEF LeadersHeard, Undisturbed, CalmRoom
<1>13. Grown(next, Born, InRoom)
  BY <1>9, <1>11 DEF AllGrown, IsOurs, CallInv, MailFits, FitEvent, Announced
<1>14. CASE e.peer \in InRoom
  <2>1. Outranked(p, Before(next), InRoom)
    BY <1>2, <1>11, <1>12, <1>13, <1>14, LedOutranks
  <2> QED
    BY <1>1, <1>11, <2>1
<1>15. CASE e.peer \notin InRoom
  <2>1. Farewells(inbox[p], seen[p], InRoom)
    BY <1>2 DEF Parted
  <2> QED
    BY <1>15, <2>1, GoneSaidSo DEF Goodbyes, Farewell
<1> QED
  BY <1>14, <1>15

(* Somebody else's step. *)
LEMMA OthersInherit ==
  ASSUME MlsIsPayload, OneDevice, CallInv, Undisturbed, Identified,
         NEW p \in Peer, Runs(p) \/ Befalls(p), NEW r \in Peer, r # p, Heir(r)
  PROVE  Heir(r)'
<1> SUFFICES ASSUME r \in InRoom', HasTree(r)', Orphan(r, call'[r].log, InRoom')
             PROVE  \/ Goodbyes(r)'
                    \/ Outranked(r, Tree(call[r].log), InRoom')
                    \/ task[r].step \in {"commit", "accepted"} /\ AllIn(task[r].log, InRoom')
                    \/ AllIn(call[r].log, InRoom')
  BY OthersRest DEF Heir
<1>1. HasTree(r) /\ call'[r].log = call[r].log
  BY OthersRest
<1>2. Mail(r) \subseteq Mail(r)' /\ (Exit(p) /\ r \in InRoom' => \E e \in Mail(r)' : Farewell(e, p))
  BY MailLasts
<1>3. CASE Exit(p)
  BY <1>2, <1>3 DEF Goodbyes, Farewell
<1>4. CASE ~ Exit(p)
  <2>1. InRoom \subseteq InRoom' /\ r \in InRoom
    BY <1>4, RoomMoves
  <2>2. Orphan(r, call[r].log, InRoom)
    BY <1>1, <2>1 DEF Orphan
  <2>3. \/ Goodbyes(r)
        \/ Outranked(r, Tree(call[r].log), InRoom)
        \/ task[r].step \in {"commit", "accepted"} /\ AllIn(task[r].log, InRoom)
        \/ AllIn(call[r].log, InRoom)
    BY <1>1, <2>1, <2>2 DEF Heir
  <2> QED
    BY <1>2, <2>1, <2>3 DEF Goodbyes, Outranked, AllIn
<1> QED
  BY <1>3, <1>4

(* A newcomer that has a group is alone in it. *)
LEMMA NewcomerInherits ==
  ASSUME CallInv, OneDevice, Undisturbed, NEW p \in Peer, Runs(p) \/ Befalls(p), Enter(p)
  PROVE  Heir(p)'
<1>1. call'[p].log = <<>> \/ call'[p].log = Created(First(p))
  BY EnterCalls
<1>2. CASE call'[p].log = <<>>
  BY <1>2 DEF Heir, HasTree, Awaiting
<1>3. CASE call'[p].log = Created(First(p))
  <2>1. First(p) \in Member /\ First(p)[1] = p
    BY FirstBorn
  <2>2. Roll(call'[p].log) \subseteq {First(p)}
    BY <1>3, <2>1, CreatedRoll
  <2>3. AllIn(call'[p].log, InRoom')
    BY <2>1, <2>2, RoomMoves DEF AllIn
  <2> QED
    BY <2>3 DEF Heir
<1> QED
  BY <1>1, <1>2, <1>3

(* A request that changes nothing p holds, or an answer that it was refused. *)
LEMMA AskerInherits ==
  ASSUME MlsIsPayload, OneDevice, CallInv, Undisturbed, Identified, AllGrown, Parted,
         NEW p \in Peer, Runs(p) \/ Befalls(p), Requests(p), Heir(p), LeadersHeard(p),
         call'[p].log = call[p].log, ~ (HearAnswer(p) /\ task[p].step = "accepted")
  PROVE  Heir(p)'
<1>1. /\ ~ Enter(p) /\ ~ Exit(p) /\ ~ Handles(p) /\ InRoom' = InRoom
  BY OneAtATime
<1>2. starts'[p] = starts[p]
  BY <1>1, PeerGoesOn
<1>3. HasTree(p)' <=> HasTree(p)
  BY <1>2 DEF HasTree, Own, Awaiting, Members, Tree
<1>4. Mail(p) \subseteq Mail(p)'
  BY MailLasts
<1> SUFFICES ASSUME p \in InRoom, HasTree(p), Orphan(p, call[p].log, InRoom)
             PROVE  \/ Goodbyes(p)
                    \/ Outranked(p, Tree(call[p].log), InRoom)
                    \/ task'[p].step \in {"commit", "accepted"} /\ AllIn(task'[p].log, InRoom)
                    \/ AllIn(call[p].log, InRoom)
  BY <1>1, <1>3, <1>4 DEF Heir, Goodbyes
<1>5. \/ Goodbyes(p)
      \/ Outranked(p, Tree(call[p].log), InRoom)
      \/ task[p].step \in {"commit", "accepted"} /\ AllIn(task[p].log, InRoom)
      \/ AllIn(call[p].log, InRoom)
  BY DEF Heir
<1>6. CASE SendCommit(p)
  <2>1. task'[p].log = task[p].log /\ task'[p].step \in {"accepted", "refused"}
    BY <1>6, SentIsStaged
  <2>2. CASE task'[p].step = "refused"
    BY <1>6, <2>2, BehindIsRelieved
  <2> QED
    BY <1>5, <2>1, <2>2
<1>7. CASE ~ SendCommit(p)
  <2>1. task[p].step \notin {"commit", "accepted"}
    BY <1>7 DEF Requests, AskToJoin, SendWelcome, HearAnswer
  <2> QED
    BY <1>5, <2>1
<1> QED
  BY <1>6, <1>7

(* Who takes over the Commit it made was put in before, and keeps its leaf. *)
LEMMA AuthorInherits ==
  ASSUME MlsIsPayload, OneDevice, CallInv, Undisturbed, Identified, Sound, AllGrown, Parted,
         NEW p \in Peer, Runs(p) \/ Befalls(p), HearAnswer(p), Heir(p), Stages(p),
         task[p].step = "accepted", call'[p].log = task[p].log
  PROVE  Heir(p)'
<1>1. Requests(p) /\ Pending(p)
  BY DEF Requests, Pending
<1>2. InRoom' = InRoom /\ InCall(p)
  BY <1>1, OneAtATime
<1>3. Mail(p) \subseteq Mail(p)'
  BY <1>1, MailLasts
<1>4. PICK room : room = InRoom
  OBVIOUS
<1>5. PICK log \in Seq(Entry) : log = call[p].log
  BY LogsAreLogs
<1>6. PICK next \in Seq(Entry) : next = task[p].log
  BY <1>1, LogsAreLogs
<1>7. Len(log) >= 1 /\ Continues(log, next)
  <2>1. Len(log) >= 1
    BY <1>1, <1>5 DEF CallInv, ClientFits, FitTask, Pending
  <2>2. Staged(p)
    BY DEF Undisturbed, Intact
  <2> QED
    BY <1>1, <1>5, <1>6, <2>1, <2>2 DEF Staged
<1>8. HasTree(p)
  <2>1. ~ Awaiting(call[p])
    BY <1>5, <1>7, AwaitingLen
  <2>2. p \in InRoom /\ InSession(p) /\ Own(p) = First(p)
    BY <1>2, CallerIsHere
  <2>3. First(p) \in Roll(call[p].log)
    BY <2>1, <2>2 DEF Sound, Placed
  <2> QED
    BY <2>1, <2>2, <2>3 DEF HasTree, Roll, Awaiting
<1>9. p \in room /\ First(p) # Blank /\ First(p) \in Leaves(Tree(log))
  BY <1>4, <1>5, <1>8, TreeHolds
<1>10. Before(next) = Tree(log) /\ Len(next) >= 2
  BY <1>7, ContinuesBefore
<1>11. Grown(next, Born, room)
  BY <1>1, <1>4, <1>6 DEF AllGrown
<1> SUFFICES ASSUME Orphan(p, next, room)
             PROVE  Goodbyes(p) \/ Outranked(p, Tree(next), room) \/ AllIn(next, room)
  BY <1>2, <1>3, <1>4, <1>6 DEF Heir, Goodbyes
<1>12. Orphan(p, log, room)
  BY <1>7, <1>9, OrphanBefore
<1>13. \/ Goodbyes(p) \/ Outranked(p, Tree(log), room)
       \/ AllIn(next, room) \/ AllIn(log, room)
  BY <1>4, <1>5, <1>6, <1>8, <1>9, <1>12 DEF Heir
<1>14. CASE Outranked(p, Tree(log), room)
  <2>1. Outranked(p, Before(next), room) /\ First(p) \in Leaves(Before(next))
    BY <1>9, <1>10, <1>14
  <2> QED
    BY <1>9, <1>10, <1>11, <2>1, OutrankedStays
<1>15. CASE AllIn(log, room)
  <2>1. Roll(next) \subseteq Roll(log) \cup {First(x) : x \in task[p].welcome}
    BY <1>1, <1>5, <1>6 DEF Stages, StagesWell
  <2>2. CASE \A x \in task[p].welcome : x \in room
    <3>1. \A x \in task[p].welcome : First(x)[1] = x
      BY DEF First
    <3> QED
      BY <1>15, <2>1, <2>2, <3>1 DEF AllIn
  <2>3. CASE \E x \in task[p].welcome : x \notin room
    <3>1. PICK x \in task[p].welcome : x \notin room
      BY <2>3
    <3>2. x \in Concerns(task[p])
      BY DEF Concerns
    <3>3. \E e \in Mail(p) : Farewell(e, x)
      BY <1>4, <3>1, <3>2 DEF Stages, ConcernsFit
    <3> QED
      BY <3>3 DEF Farewell, Goodbyes
  <2> QED
    BY <2>2, <2>3
<1> QED
  BY <1>13, <1>14, <1>15

(* Somebody p sees is not in the room: p still has to hear that it left. *)
LEMMA SeenSaysSo ==
  ASSUME Parted', NEW p \in Peer, p \in InRoom', NEW x \in seen'[p], x \notin InRoom'
  PROVE  Goodbyes(p)'
<1>1. PICK s : s = inbox'[p]
  OBVIOUS
<1>2. PICK who : who = seen'[p]
  OBVIOUS
<1>3. PICK room : room = InRoom'
  OBVIOUS
<1>4. Farewells(s, who, room) /\ x \in who /\ x \notin room
  BY <1>1, <1>2, <1>3 DEF Parted
<1>5. \E f \in Elems(s) : Farewell(f, x)
  BY <1>4, FarewellInMail
<1> QED
  BY <1>1, <1>5 DEF Goodbyes, Mail, Farewell

(* Whoever of the room has a leaf in a group has one. *)
LEMMA GrownHasOne ==
  ASSUME NEW log \in Seq(Entry), Len(log) >= 1, NEW ids, NEW room, Grown(log, ids, room),
         NEW q \in room, First(q) # Blank, First(q) \in Members(log)
  PROVE  /\ OnePlace(Tree(log), First(q)) /\ Places(Tree(log), First(q)) # {}
         /\ Members(log) \subseteq ids /\ DOMAIN Tree(log) \subseteq Nat
<1>1. PICK n \in DOMAIN log : n = Len(log) /\ n \in Nat
  BY LenProperties
<1>2. Tree(log) = log[n].tree /\ Leaves(Tree(log)) = Members(log)
  BY <1>1 DEF Tree, Leaves, Members
<1>3. Places(Tree(log), First(q)) # {}
  BY <1>2, PlacesAreLeaves
<1>4. OnePlace(Tree(log), First(q))
  <2>1. Rooted(log, room) /\ n <= n /\ Places(log[n].tree, First(q)) # {}
    BY <1>1, <1>2, <1>3 DEF Grown
  <2>2. OnePlace(log[n].tree, First(q))
    BY <1>1, <2>1 DEF Rooted
  <2> QED
    BY <1>2, <2>2
<1>5. Leaves(Tree(log)) \subseteq ids
  BY <1>1, <1>2 DEF Grown
<1>6. DOMAIN Tree(log) \subseteq Nat
  BY TreeType
<1> QED
  BY <1>2, <1>3, <1>4, <1>5, <1>6

(* Who hears that somebody left takes the ghosts out, has none, or does not decide. *)
LEMMA ListenerInherits ==
  ASSUME OneDevice, CallInv, Undisturbed, Identified, Going, AllGrown, Parted',
         NEW p \in Peer, Handles(p), HasTree(p), Head(inbox[p]).name = "peerLeft"
  PROVE  Heir(p)'
<1>1. PICK e : e = Head(inbox[p])
  OBVIOUS
<1>2. inbox[p] # <<>> /\ Handle(p, e) /\ e.name = "peerLeft"
  BY <1>1 DEF Handles
<1>3. PICK who : who = seen'[p]
  OBVIOUS
<1>4. /\ call'[p] = call[p]
      /\ \/ ~ Cleans(p, call[p], who, {})
         \/ Clears(p, call[p], who, {}, task'[p])
  BY <1>1, <1>2, <1>3, HandleStages
<1>5. PICK c, log : c = call[p] /\ log = c.log
  OBVIOUS
<1>6. /\ p \in InRoom' /\ First(p) \in Member /\ log \in Seq(Entry) /\ Len(log) >= 1
      /\ Roll(log) = Members(log) /\ First(p) \in Members(log) /\ Own(p) = First(p)
  BY <1>5, TreeHolds, OneAtATime, CallerIsHere
<1>7. PICK room : room = InRoom' /\ room \subseteq Peer
  BY DEF InRoom
<1>8. p \in who /\ who \subseteq Peer
  BY <1>3, <1>6 DEF Going, CalmRoom, CallInv, CallShape
<1>9. /\ OnePlace(Tree(log), First(p)) /\ Members(log) \subseteq Born
      /\ DOMAIN Tree(log) \subseteq Nat
  <2>1. p \in InRoom /\ First(p) # Blank /\ Grown(log, Born, InRoom)
    BY <1>5, TreeHolds DEF AllGrown
  <2> QED
    BY <1>6, <2>1, GrownHasOne
<1>10. PICK ids : ids = Born
  OBVIOUS
<1>11. Firsts(ids) /\ NamesFit(c, ids) /\ Members(c.log) \subseteq ids
  BY <1>5, <1>9, <1>10, BornFirsts DEF Identified
<1>12. Ghosts(c, who, {}) = {m \in Members(c.log) : m[1] \notin who}
  BY <1>8, <1>11, GhostsAre
<1>13. ASSUME NEW x \in who, x \notin room
       PROVE  Goodbyes(p)'
  BY <1>3, <1>6, <1>7, <1>13, SeenSaysSo
<1> SUFFICES ASSUME who \subseteq room
             PROVE  \/ Outranked(p, Tree(log), room)
                    \/ task'[p].step \in {"commit", "accepted"} /\ AllIn(task'[p].log, room)
                    \/ AllIn(log, room)
  BY <1>4, <1>5, <1>7, <1>13 DEF Heir
<1>14. CASE ~ IsCommitter(c, who, {}, First(p))
  <2>1. /\ First(p) \in Members(c.log) /\ DOMAIN Tree(c.log) \subseteq Nat
        /\ OnePlace(Tree(c.log), First(p))
    BY <1>5, <1>6, <1>9
  <2>2. \E q \in who \ {p} : \E l \in Places(Tree(c.log), First(q)) :
          \A k \in Places(Tree(c.log), First(p)) : l < k
    BY <1>8, <1>11, <1>14, <2>1, CommitterLeads
  <2> QED
    BY <1>5, <2>2 DEF Outranked
<1>15. CASE Ghosts(c, who, {}) = {}
  BY <1>5, <1>6, <1>12, <1>15 DEF AllIn
<1>16. CASE Clears(p, c, who, {}, task'[p])
  <2>1. PICK t : t = task'[p] /\ t = StageRemoveGhosts(p, c, who, {}, {})
    BY <1>16 DEF Clears
  <2>2. t.step = "commit"
    BY <2>1 DEF StageRemoveGhosts, Submit
  <2>3. Roll(t.log) = Roll(c.log) \ Ghosts(c, who, {})
    BY <1>5, <1>6, <2>1, CleanedRoll
  <2>4. AllIn(t.log, room)
    BY <1>5, <1>6, <1>12, <2>3 DEF AllIn
  <2> QED
    BY <2>1, <2>2, <2>4
<1> QED
  BY <1>4, <1>5, <1>6, <1>14, <1>15, <1>16 DEF Cleans

(* Who applies a Commit hears that somebody decides before it, or that it left. *)
LEMMA FollowerInherits ==
  ASSUME CallInv, Undisturbed, Identified, AllGrown, Parted,
         NEW p \in Peer, LeadersHeard(p), Handles(p), NEW e, e = Head(inbox[p]), Applies(p, e)
  PROVE  Heir(p)'
<1>1. e \in Mail(p) /\ (\A f \in Mail(p) : f # e => f \in Mail(p)') /\ InRoom' = InRoom
      /\ InCall(p)
  BY UnheardStays, OneAtATime
<1>2. HasTree(p) /\ Continues(call[p].log, e.payload) /\ call'[p].log = e.payload
      /\ e.name = "e2eeCommit" /\ e.group = call[p].group
  BY DEF Applies, NextCommit
<1>3. PICK log \in Seq(Entry) : /\ log = call[p].log /\ Len(log) >= 1 /\ p \in InRoom
                                /\ First(p) # Blank /\ First(p) \in Leaves(Tree(log))
  BY <1>2, TreeHolds
<1>4. InSession(p) /\ IsOurs(e)
  BY <1>1, <1>2, CallerIsHere DEF IsOurs, InSession
<1>5. Announced(accepted, e)
  BY <1>1, <1>2 DEF CallInv, MailFits, FitEvent
<1>6. PICK next \in Seq(Entry) : next = e.payload
  BY <1>5, CommitFits
<1>7. Before(next) = Tree(log) /\ Len(next) >= 2
  BY <1>2, <1>3, <1>6, ContinuesBefore
<1>8. Grown(next, Born, InRoom)
  BY <1>5, <1>6 DEF AllGrown, Announced
<1>9. Led(next, e.peer, InRoom) /\ e.peer # p
  BY <1>1, <1>4, <1>6 DEF LeadersHeard, Undisturbed, CalmRoom
<1>10. CASE e.peer \in InRoom
  <2>1. Outranked(p, Tree(next), InRoom)
    BY <1>3, <1>7, <1>8, <1>9, <1>10, LedOutranks
  <2> QED
    BY <1>1, <1>2, <1>6, <2>1 DEF Heir
<1>11. CASE e.peer \notin InRoom
  <2>1. Farewells(inbox[p], seen[p], InRoom)
    BY <1>3 DEF Parted
  <2>2. PICK f \in Mail(p) : Farewell(f, e.peer)
    BY <1>1, <1>11, <2>1, GoneSaidSo
  <2>3. f # e
    BY <1>2, <2>2 DEF Farewell
  <2> QED
    BY <1>1, <2>2, <2>3 DEF Heir, Goodbyes, Farewell
<1> QED
  BY <1>10, <1>11

(* Who takes a Welcome of somebody who has left hears so after it. *)
LEMMA WelcomedInherits ==
  ASSUME OneDevice, CallInv, Undisturbed, Identified, Going, AllGrown', Parted,
         NEW p \in Peer, LeadersHeard(p), Handles(p), NEW e, e = Head(inbox[p]),
         TakesWelcome(p, e)
  PROVE  Heir(p)'
<1>1. e \in Mail(p) /\ (\A f \in Mail(p) : f # e => f \in Mail(p)') /\ InRoom' = InRoom
      /\ InCall(p)
  BY UnheardStays, OneAtATime
<1>2. e.name = "e2eeWelcome" /\ e.group = call[p].group /\ call'[p].log = Welcomed(e)
  BY DEF TakesWelcome
<1>3. p \in InRoom /\ InSession(p) /\ e.peer # p
  BY <1>1, CallerIsHere DEF Undisturbed, CalmRoom
<1>4. First(p) # Blank
  BY FirstBorn, MemberNotBlank
<1>5. PICK log \in Seq(Entry) : log = call'[p].log
  <2>1. call' \in [Peer -> ClientRecord]
    BY DEF Going, CallInv, CallShape
  <2> QED
    BY <2>1 DEF ClientRecord
<1>6. PICK room : room = InRoom'
  OBVIOUS
<1>7. Grown(log, Born', room) /\ p \in room
  BY <1>1, <1>3, <1>5, <1>6 DEF AllGrown
<1>8. JustPut(log, e.peer, p)
  BY <1>1, <1>2, <1>3, <1>5 DEF LeadersHeard, InSession
<1> SUFFICES ASSUME Orphan(p, log, room)
             PROVE  Goodbyes(p)'
  BY <1>5, <1>6 DEF Heir
<1>9. PICK ids : ids = Born'
  OBVIOUS
<1>10. Grown(log, ids, room)
  BY <1>7, <1>9
<1>11. e.peer \notin room \ {p}
  BY <1>4, <1>7, <1>8, <1>10, JustPutIsBy
<1>12. Farewells(inbox[p], seen[p], InRoom) /\ e.peer \notin InRoom
  BY <1>1, <1>3, <1>6, <1>11 DEF Parted
<1>13. PICK f \in Mail(p) : Farewell(f, e.peer)
  BY <1>1, <1>12, GoneSaidSo
<1>14. f # e
  BY <1>2, <1>13 DEF Farewell
<1> QED
  BY <1>1, <1>13, <1>14 DEF Goodbyes, Farewell

(* Any other event leaves p where it is. *)
LEMMA IdlerInherits ==
  ASSUME CallInv, Undisturbed, Identified,
         NEW p \in Peer, Heir(p), Handles(p), NEW e, e = Head(inbox[p]), StaysPut(p, e),
         e.name # "peerLeft"
  PROVE  Heir(p)'
<1>1. (\A f \in Mail(p) : f # e => f \in Mail(p)') /\ InRoom' = InRoom /\ task[p] = Idle
  BY UnheardStays, OneAtATime
<1>2. call'[p].log = call[p].log /\ starts'[p] = starts[p]
  BY DEF StaysPut, SameLog
<1>3. HasTree(p)' <=> HasTree(p)
  BY <1>2 DEF HasTree, Own, Awaiting, Members, Tree
<1>4. task[p].step \notin {"commit", "accepted"}
  BY <1>1 DEF Idle
<1>5. Goodbyes(p) => Goodbyes(p)'
  BY <1>1 DEF Goodbyes
<1> QED
  BY <1>1, <1>2, <1>3, <1>4, <1>5 DEF Heir

(* Whoever was put in by somebody who left does not miss the ghosts, in every *)
(* step.                                                                      *)
LEMMA HeirKeeps ==
  ASSUME MlsIsPayload, OneDevice, CallInv, Undisturbed, Identified, Sound, Going,
         AllGrown, AllGrown', Parted, Parted', NEW p \in Peer, Runs(p) \/ Befalls(p),
         \A q \in Peer : Stages(q) /\ LeadersHeard(q), NEW r \in Peer, Heir(r)
  PROVE  Heir(r)'
<1>1. CASE r # p
  BY <1>1, OthersInherit
<1>2. CASE r = p /\ Enter(p)
  BY <1>2, NewcomerInherits
<1>3. CASE r = p /\ Exit(p)
  <2>1. p \notin InRoom'
    BY <1>3, RoomMoves
  <2> QED
    BY <1>3, <2>1 DEF Heir
<1>4. CASE r = p /\ Requests(p)
  <2>1. CASE HearAnswer(p) /\ task[p].step = "accepted"
    <3>1. Staged(p)
      BY DEF Undisturbed, Intact
    <3>2. call'[p].log = task[p].log
      BY <2>1, <3>1, AnswerMoves
    <3> QED
      BY <1>4, <2>1, <3>2, AuthorInherits
  <2>2. CASE ~ (HearAnswer(p) /\ task[p].step = "accepted")
    <3>1. call'[p].log = call[p].log
      <4>1. CASE HearAnswer(p)
        <5>1. Staged(p)
          BY DEF Undisturbed, Intact
        <5> QED
          BY <2>2, <4>1, <5>1, AnswerMoves
      <4>2. CASE ~ HearAnswer(p)
        <5>1. ~ Enter(p)
          BY <1>4, OneAtATime
        <5> QED
          BY <1>4, <4>2, <5>1, PeerGoesOn
      <4> QED
        BY <4>1, <4>2
    <3> QED
      BY <1>4, <2>2, <3>1, AskerInherits
  <2> QED
    BY <2>1, <2>2
<1>5. CASE r = p /\ Handles(p)
  <2>1. ~ Enter(p)
    BY <1>5, OneAtATime
  <2>2. PICK e \in Mail(p) :
          e = Head(inbox[p]) /\ (StaysPut(p, e) \/ Applies(p, e) \/ TakesWelcome(p, e))
    BY <1>5, <2>1, PeerGoesOn
  <2>3. CASE StaysPut(p, e) /\ e.name # "peerLeft"
    BY <1>5, <2>2, <2>3, IdlerInherits
  <2>4. CASE StaysPut(p, e) /\ e.name = "peerLeft"
    <3>1. CASE HasTree(p)
      BY <1>5, <2>2, <2>4, <3>1, ListenerInherits
    <3>2. CASE ~ HasTree(p)
      <4>1. call'[p].log = call[p].log /\ starts'[p] = starts[p]
        BY <2>4 DEF StaysPut, SameLog
      <4>2. ~ HasTree(p)'
        BY <3>2, <4>1 DEF HasTree, Own, Awaiting, Members, Tree
      <4> QED
        BY <1>5, <4>2 DEF Heir
    <3> QED
      BY <3>1, <3>2
  <2>5. CASE Applies(p, e)
    BY <1>5, <2>2, <2>5, FollowerInherits
  <2>6. CASE TakesWelcome(p, e)
    BY <1>5, <2>2, <2>6, WelcomedInherits
  <2> QED
    BY <2>2, <2>3, <2>4, <2>5, <2>6
<1> QED
  BY <1>1, <1>2, <1>3, <1>4, <1>5, CalmSteps

-----------------------------------------------------------------------------
(* The invariant *)

(* What holds of the clients until a socket is lost, a request fails or somebody *)
(* is kicked.                                                                    *)
HeirInv ==
  Unbroken /\ kicks = 0 =>
    /\ CalmRoom /\ Identified /\ AllGrown /\ Parted
    /\ \A p \in Peer : Stages(p) /\ LeadersHeard(p) /\ Heir(p)

(* Nobody is kicked before a state without kicks. *)
LEMMA KicksGrow ==
  ASSUME CallInv, NEW p \in Peer, Runs(p) \/ Befalls(p), kicks' = 0
  PROVE  kicks = 0
<1>1. kicks \in Nat
  BY DEF CallInv, CallShape
<1>2. kicks' = kicks \/ kicks' = kicks + 1
  <2>1. CASE Runs(p)
    BY <2>1 DEF Runs, Handle, HandleRoster, HandlePeerLeft, HandleKeyPackage, HandleCommit,
                HandleWelcome, HandleRejoined, Take, AskToJoin, SendCommit, HearAnswer,
                SendWelcome, Asks, RequestFails, FailsE2ee, Stop, Notice, callVars
  <2>2. CASE Befalls(p)
    BY <2>2 DEF Befalls, Enter, Drop, Reconnect, Exit, Expel, Expire, AnswerFails, FailsE2ee
  <2> QED
    BY <2>1, <2>2
<1> QED
  BY <1>1, <1>2

(* The invariant holds before anybody came in. *)
LEMMA HeirInit ==
  ASSUME CallInit
  PROVE  HeirInv
<1>1. /\ InRoom = {} /\ accepted = {}
      /\ \A p \in Peer : /\ status[p] = "unborn" /\ away[p] = {} /\ call[p] = NoCall
                         /\ task[p] = Idle /\ inbox[p] = <<>> /\ starts[p] = 0
  BY DEF CallInit, Init, InRoom
<1>2. \A p \in Peer : Mail(p) = {}
  BY <1>1 DEF Mail, Elems
<1>3. CalmRoom
  BY <1>1, <1>2 DEF CalmRoom
<1>4. Identified
  <2>1. \A ids : NamesFit(NoCall, ids)
    BY DEF NamesFit, NoCall
  <2> QED
    BY <1>1, <1>2, <2>1 DEF Identified
<1>5. AllGrown
  <2>1. NoCall.log = <<>> /\ \A p \in Peer : ~ Pending(p)
    BY <1>1 DEF NoCall, Pending, Idle
  <2> QED
    BY <1>1, <2>1, EmptyGrown DEF AllGrown
<1>6. Parted
  BY <1>1 DEF Parted
<1>7. ASSUME NEW p \in Peer
      PROVE  Stages(p) /\ LeadersHeard(p) /\ Heir(p)
  BY <1>1, <1>2 DEF Stages, ConcernsFit, Concerns, Pending, Idle, LeadersHeard, Heir
<1> QED
  BY <1>3, <1>4, <1>5, <1>6, <1>7 DEF HeirInv

(* A step of a client keeps all of it. *)
LEMMA HeirStep ==
  ASSUME MlsIsPayload, OneDevice, CallInv, CallInv', Undisturbed, Sound, Sound', OneSession',
         Identified, AllGrown, Parted, NEW p \in Peer, Runs(p) \/ Befalls(p),
         \A q \in Peer : Stages(q) /\ LeadersHeard(q) /\ Heir(q)
  PROVE  /\ CalmRoom' /\ Identified' /\ AllGrown' /\ Parted'
         /\ \A q \in Peer : Stages(q)' /\ LeadersHeard(q)' /\ Heir(q)'
<1>1. ConcernsFit(p) /\ Stages(p)
  BY DEF Stages
<1>2. CalmRoom'
  BY <1>1, CalmKeeps
<1>3. Identified'
  BY <1>1, IdentifiedKeeps
<1>4. Going
  BY <1>2, <1>3 DEF Going
<1>5. AllGrown'
  BY <1>1, <1>4, AllGrownKeeps
<1>6. Parted'
  BY <1>1, PartedKeeps
<1>7. accepted \subseteq accepted'
  <2>1. CASE Enter(p)
    BY <2>1, EnterMoves
  <2>2. CASE SendCommit(p)
    BY <2>2 DEF SendCommit, RelayE2eeCommit
  <2>3. CASE ~ Enter(p) /\ ~ SendCommit(p)
    BY <2>3, PeerGoesOn
  <2> QED
    BY <2>1, <2>2, <2>3
<1>8. \A q \in Peer : Stages(q)'
  BY <1>4, <1>5, StagesKeeps
<1>9. \A q \in Peer : LeadersHeard(q)'
  BY <1>1, <1>7, LeadersKeep
<1>10. \A q \in Peer : Heir(q)'
  BY <1>4, <1>5, <1>6, HeirKeeps
<1> QED
  BY <1>2, <1>3, <1>5, <1>6, <1>8, <1>9, <1>10

(* Nothing changes. *)
LEMMA HeirStands ==
  ASSUME UNCHANGED vars, HeirInv
  PROVE  HeirInv'
<1>1. UNCHANGED <<status, session, accepted, inbox, seen, away, call, task, starts, drops, fails, kicks>>
  BY DEF vars, relayVars, callVars
<1>2. InRoom' = InRoom /\ Born' = Born
  BY <1>1 DEF InRoom, Born
<1>3. ASSUME NEW p \in Peer
      PROVE  /\ Mail(p)' = Mail(p) /\ Own(p)' = Own(p)
             /\ (Pending(p)' <=> Pending(p)) /\ (InSession(p)' <=> InSession(p))
             /\ (HasTree(p)' <=> HasTree(p))
  BY <1>1 DEF Mail, Pending, InSession, InCall, HasTree, Own
<1>4. \A e : (IsOurs(e)' <=> IsOurs(e)) /\ Welcomed(e)' = Welcomed(e)
  BY <1>1 DEF IsOurs, Welcomed
<1>5. CalmRoom => CalmRoom'
  BY <1>1, <1>2, <1>3 DEF CalmRoom
<1>6. Identified => Identified'
  BY <1>1, <1>2, <1>3 DEF Identified
<1>7. AllGrown => AllGrown'
  BY <1>1, <1>2, <1>3 DEF AllGrown
<1>8. Parted => Parted'
  BY <1>1, <1>2 DEF Parted
<1>9. ASSUME NEW p \in Peer
      PROVE  /\ Stages(p) => Stages(p)'
             /\ LeadersHeard(p) => LeadersHeard(p)'
             /\ Heir(p) => Heir(p)'
  <2>1. Stages(p) => Stages(p)'
    BY <1>1, <1>2, <1>3 DEF Stages, ConcernsFit
  <2>2. LeadersHeard(p) => LeadersHeard(p)'
    BY <1>1, <1>2, <1>3, <1>4 DEF LeadersHeard
  <2>3. Heir(p) => Heir(p)'
    BY <1>1, <1>2, <1>3 DEF Heir, Goodbyes
  <2> QED
    BY <2>1, <2>2, <2>3
<1> QED
  BY <1>1, <1>5, <1>6, <1>7, <1>8, <1>9 DEF HeirInv, Unbroken

(* Every step of the clients, the relay and the people keeps the invariant. *)
LEMMA HeirInvKeeps ==
  ASSUME MlsIsPayload, OneDevice, CallInv, NothingLost, SettledInv, StayInv, PlacedInv, HeirInv,
         [CallNext]_vars
  PROVE  HeirInv'
<1>1. CASE UNCHANGED vars
  BY <1>1, HeirStands
<1>2. ASSUME NEW p \in Peer, Runs(p) \/ Befalls(p), Unbroken', kicks' = 0
      PROVE  /\ CalmRoom' /\ Identified' /\ AllGrown' /\ Parted'
             /\ \A q \in Peer : Stages(q)' /\ LeadersHeard(q)' /\ Heir(q)'
  <2>1. Unbroken /\ kicks = 0
    BY <1>2, TroubleGrows, KicksGrow DEF Unbroken
  <2>2. CallInv' /\ NothingLost' /\ SettledInv' /\ StayInv' /\ PlacedInv'
    BY CallStepKeeps, NothingLostKeeps, SettledKeeps, StayKeeps, PlacedInvKeeps
  <2>3. Sound /\ Sound' /\ OneSession'
    BY <1>2, <2>1, <2>2 DEF Sound, Unbroken, NothingLost, StayInv, PlacedInv
  <2>4. Intact
    BY <1>2, <2>1 DEF Intact, Unbroken, NothingLost, SettledInv
  <2>5. Undisturbed
    BY <1>2, <2>1, <2>4 DEF Undisturbed, HeirInv
  <2> QED
    BY <1>2, <2>1, <2>2, <2>3, <2>5, HeirStep DEF HeirInv
<1>3. CASE ~ UNCHANGED vars
  <2>1. PICK p \in Peer : Runs(p) \/ Befalls(p)
    BY <1>3 DEF CallNext
  <2> QED
    BY <1>2, <2>1 DEF HeirInv
<1> QED
  BY <1>1, <1>3

(* Until a socket is lost, a request fails or somebody is kicked, whoever is on *)
(* the roster of a client that is not in the room any more said so behind all   *)
(* it sent, every Commit is of whoever had the smallest leaf then               *)
(* (is_committer), and whoever was put in by somebody who has left still hears  *)
(* of it, or takes the ghosts out, or need not (remove_e2ee_ghosts, room.rs).   *)
THEOREM HeirInvariant ==
  ASSUME MlsIsPayload, OneDevice
  PROVE  CallSpec => []HeirInv
<1>1. CallInit => HeirInv
  BY HeirInit
<1>2. CallInv /\ NothingLost /\ SettledInv /\ StayInv /\ PlacedInv /\ HeirInv /\ [CallNext]_vars
        => HeirInv'
  BY HeirInvKeeps
<1> QED
  BY <1>1, <1>2, CallInvariant, NothingLostInvariant, SettledInvariant, StayInvariant,
     PlacedInvariant, PTL DEF CallSpec

(* Whoever has the smallest leaf in the room, and nobody to hear of, has its *)
(* group to itself and those in the room.                                    *)
LEMMA NobodyOutranked ==
  ASSUME NEW log, NEW p \in InRoom, DOMAIN Tree(log) \subseteq Nat,
         \A q \in InRoom : Own(q) = First(q),
         \A q \in InRoom : First(q) # Blank /\ (First(q) \in Members(log) =>
                             OnePlace(Tree(log), First(q))),
         First(p) \in Members(log),
         \A q \in InRoom : Own(q) \in Members(log) => LeafOf(log, Own(p)) <= LeafOf(log, Own(q))
  PROVE  ~ Outranked(p, Tree(log), InRoom)
<1> SUFFICES ASSUME Outranked(p, Tree(log), InRoom)
             PROVE  FALSE
  OBVIOUS
<1>1. PICK q \in InRoom :
        \E l \in Places(Tree(log), First(q)) : \A k \in Places(Tree(log), First(p)) : l < k
  BY DEF Outranked
<1>2. PICK l \in Places(Tree(log), First(q)) : \A k \in Places(Tree(log), First(p)) : l < k
  BY <1>1
<1>3. First(q) \in Members(log)
  <2>1. First(q) \in Leaves(Tree(log))
    BY <1>2, PlacesAreLeaves
  <2> QED
    BY <2>1 DEF Leaves, Members
<1>4. LeafOf(log, First(p)) \in Places(Tree(log), First(p))
      /\ LeafOf(log, First(q)) \in Places(Tree(log), First(q))
  BY <1>3, LeafIsPlace
<1>5. LeafOf(log, First(q)) = l
  BY <1>2, <1>3, <1>4 DEF OnePlace
<1>6. l < LeafOf(log, First(p)) /\ LeafOf(log, First(p)) <= l
  BY <1>2, <1>3, <1>4, <1>5
<1>7. l \in Nat /\ LeafOf(log, First(p)) \in Nat
  BY <1>2, <1>4 DEF Places
<1> QED
  BY <1>6, <1>7

(* The leaf the Commit number k of log put in the tree. *)
LEMMA PutsInOrphans ==
  ASSUME NEW log \in Seq(Entry), NEW k \in DOMAIN log, NEW p, NEW room,
         PutsIn(log, k, First(p)), log[k].by[1] \notin room \ {p}
  PROVE  Orphan(p, log, room)
<1>1. PICK n \in Nat : n = Len(log) /\ DOMAIN log = 1..n
  BY LenProperties
<1>2. ASSUME NEW i \in 1..n
      PROVE  Members(SubSeq(log, 1, i)) = Leaves(log[i].tree)
  <2>1. Len(SubSeq(log, 1, i)) = i /\ i \in 1..i
    BY <1>1, <1>2
  <2>2. SubSeq(log, 1, i)[i] = log[i]
    BY <1>1, <1>2, <2>1
  <2> QED
    BY <2>1, <2>2 DEF Members, Tree, Leaves
<1>3. k \in 1..n /\ (k > 1 => k - 1 \in 1..n)
  BY <1>1
<1> QED
  BY <1>2, <1>3 DEF PutsIn, Orphan

(* remove_e2ee_ghosts (room.rs), "takes out of the group every leaf whose     *)
(* device is no longer in the room": with one device to an account, once      *)
(* nothing is on its way, whoever has the smallest leaf in the room and       *)
(* founded the group, or was put in by somebody who has left, holds a group   *)
(* of those in the room alone; unless a socket was lost, a request failed or  *)
(* somebody was kicked.                                                       *)
THEOREM GhostsTakenOut ==
  ASSUME MlsIsPayload, OneDevice
  PROVE  CallSpec => []HeirTakesGhostsOut
<1>1. CallInv /\ NothingLost /\ StayInv /\ HeirInv => HeirTakesGhostsOut
  <2> SUFFICES ASSUME CallInv, NothingLost, StayInv, HeirInv, Calm, kicks = 0,
                      NEW p \in Active, NEW k \in DOMAIN call[p].log, LeadsGroup(p),
                      PutsIn(call[p].log, k, Own(p)),
                      call[p].log[k].by[1] \notin Active \ {p}
               PROVE  NoGhostIn(call[p].log)
    BY DEF HeirTakesGhostsOut
  <2>1. Unbroken /\ Quiet
    BY DEF Calm
  <2>2. CalmRoom /\ AllGrown /\ Heir(p) /\ Once
    BY <2>1 DEF HeirInv, StayInv, Active
  <2>3. Active = InRoom
    BY <2>2 DEF CalmRoom, Active, InRoom
  <2>4. /\ \A q \in InRoom : Own(q) = First(q) /\ First(q) \in Member /\ First(q) # Blank
        /\ p \in Peer /\ p \in InRoom
    BY <2>2, <2>3, FirstBorn, MemberNotBlank DEF Once, Own, First, InRoom
  <2>5. PICK log \in Seq(Entry) : log = call[p].log
    BY <2>4, LogsAreLogs
  <2>6. HasTree(p) /\ First(p) \in Members(log) /\ Len(log) >= 1
    <3>1. HasTree(p)
      BY DEF LeadsGroup
    <3> QED
      BY <2>4, <2>5, <3>1, AwaitingLen DEF HasTree
  <2>7. Grown(log, Born, InRoom)
    BY <2>2, <2>4, <2>5 DEF AllGrown
  <2>8. Members(log) \subseteq Born /\ DOMAIN Tree(log) \subseteq Nat
    BY <2>4, <2>5, <2>6, <2>7, GrownHasOne
  <2>9. \A q \in InRoom : First(q) \in Members(log) => OnePlace(Tree(log), First(q))
    BY <2>4, <2>5, <2>6, <2>7, GrownHasOne
  <2>10. \A q \in InRoom : Own(q) \in Members(log) => LeafOf(log, Own(p)) <= LeafOf(log, Own(q))
    BY <2>3, <2>5 DEF LeadsGroup
  <2>11. ~ Outranked(p, Tree(log), InRoom)
    BY <2>4, <2>6, <2>8, <2>9, <2>10, NobodyOutranked
  <2>12. Orphan(p, log, InRoom)
    BY <2>3, <2>4, <2>5, PutsInOrphans
  <2>13. ~ Goodbyes(p) /\ task[p] = Idle
    BY <2>1, <2>4 DEF Quiet, Active, Goodbyes, Mail, Elems
  <2>14. AllIn(log, InRoom)
    BY <2>2, <2>4, <2>5, <2>6, <2>11, <2>12, <2>13 DEF Heir, Idle
  <2>15. ASSUME NEW m \in Members(log)
         PROVE  m \in {Own(q) : q \in Active}
    <3>1. m[1] \in InRoom
      BY <2>5, <2>6, <2>14 DEF AllIn, Roll
    <3>2. m = First(m[1])
      BY <2>8, BornFirsts DEF Firsts
    <3> QED
      BY <2>3, <2>4, <3>1, <3>2
  <2> QED
    BY <2>5, <2>15 DEF NoGhostIn
<1> QED
  BY <1>1, CallInvariant, NothingLostInvariant, StayInvariant, HeirInvariant, PTL
=============================================================================
