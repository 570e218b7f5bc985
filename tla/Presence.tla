------------------------------ MODULE Presence ------------------------------
(***************************************************************************)
(* Who is present in one channel of a server: the SFU's subscriptions       *)
(* (SubscriptionController, Subscriptions and app of sfu/src) and the app   *)
(* that keeps the list (native/shared/core/src/realtime.rs).                *)
(*                                                                         *)
(* A socket belongs to one account and is used once.  A subscription waits  *)
(* for Laravel, which allows it or not; meanwhile everything else may       *)
(* happen.  In the app the answer is told by the task that asked and the    *)
(* events by the relay, each when it gets its turn.  Channels do not touch  *)
(* each other, so there is one; nobody is invisible.                        *)
(***************************************************************************)
EXTENDS Naturals, FiniteSets, SequencesExt

CONSTANTS
  Socket,    \* the sockets that will ever be open
  AccountOf, \* the account each of them identified with
  MaxRequests \* bound: what a socket asks for

ASSUME PresenceAssumption == IsFiniteSet(Socket) /\ MaxRequests \in Nat

VARIABLES
  conn,       \* conn[s]: its readyState, "gone" once its close was handled
  asked,      \* how often each socket asked for something
  asking,     \* the subscriptions that wait for Laravel
  subscribed, \* Subscriptions: the sockets of the channel
  wire,       \* wire[s]: what was sent to s and the app has not told, in order
  online,     \* online[s]: the list of the app
  promised    \* history: that list, had all that was sent been told in order

presenceVars == <<conn, asked, asking, subscribed, wire, online, promised>>

Account == {AccountOf[s] : s \in Socket}

Ready == {s \in Socket : conn[s] = "open"}

(* presence: an account is in it once, by however many sockets. *)
PresenceIn(members) == {AccountOf[s] : s \in members}

(* countFor. *)
CountFor(members, a) == Cardinality({s \in members : AccountOf[s] = a})

PresenceInit ==
  /\ conn = [s \in Socket |-> "open"]
  /\ asked = [s \in Socket |-> 0]
  /\ asking = {} /\ subscribed = {}
  /\ wire = [s \in Socket |-> <<>>]
  /\ online = [s \in Socket |-> {}]
  /\ promised = online

Applied(list, m) ==
  IF m[1] = "here" THEN m[2] ELSE IF m[1] = "joining" THEN list \cup m[2] ELSE list \ m[2]

(* One message to a socket, or none. *)
Send(messages) ==
  /\ wire' = [s \in Socket |-> wire[s] \o messages[s]]
  /\ promised' = [s \in Socket |-> IF messages[s] = <<>> THEN promised[s]
                                   ELSE Applied(promised[s], Head(messages[s]))]

Nothing == [s \in Socket |-> <<>>]

(* Broadcaster.send. *)
Broadcast(members, except, event, a) ==
  [s \in Socket |-> IF s \in (members \cap Ready) \ {except} THEN << <<event, {a}>> >> ELSE <<>>]

-----------------------------------------------------------------------------
(* The SFU *)

Ask(s) ==
  /\ conn[s] = "open" /\ asked[s] < MaxRequests /\ s \notin asking
  /\ asked' = [asked EXCEPT ![s] = @ + 1]
  /\ asking' = asking \cup {s}
  /\ UNCHANGED <<conn, subscribed, wire, online, promised>>

(* Mutant of StillThere: the socket is not looked at after the wait. *)
StillThereAnyway(s) == TRUE

StillThere(s) == conn[s] = "open"

(* Mutant of FirstOf: everybody hears of the second machine of a person. *)
FirstOfMany(members, s) == CountFor(members, AccountOf[s]) > 1

FirstOf(members, s) == CountFor(members, AccountOf[s]) = 1

(* The answer is the list as it is now; only the first socket is announced. *)
Subscribe(s) ==
  LET members == subscribed \cup {s}
  IN /\ s \in asking
     /\ asking' = asking \ {s}
     /\ \/ UNCHANGED <<subscribed, wire, promised>>
        \/ /\ StillThere(s)
           /\ subscribed' = members
           /\ Send([(IF s \notin subscribed /\ FirstOf(members, s)
                     THEN Broadcast(members, s, "joining", AccountOf[s]) ELSE Nothing)
                    EXCEPT ![s] = << <<"here", PresenceIn(members)>> >>])
     /\ UNCHANGED <<conn, asked, online>>

LastOf(members, s) == CountFor(members, AccountOf[s]) = 0

Unsubscribed(s) ==
  LET members == subscribed \ {s}
  IN /\ subscribed' = members
     /\ Send(IF LastOf(members, s) THEN Broadcast(members, s, "leaving", AccountOf[s])
             ELSE Nothing)

(* unsubscribe says so even of a person who was not there. *)
Unsubscribe(s) ==
  /\ conn[s] = "open" /\ asked[s] < MaxRequests
  /\ asked' = [asked EXCEPT ![s] = @ + 1]
  /\ Unsubscribed(s)
  /\ UNCHANGED <<conn, asking, online>>

(* The heartbeat or the network ends it; its close comes later. *)
Falls(s) ==
  /\ conn[s] = "open"
  /\ conn' = [conn EXCEPT ![s] = "closing"]
  /\ wire' = [wire EXCEPT ![s] = <<>>]
  /\ UNCHANGED <<asked, asking, subscribed, online, promised>>

(* release, dropSubscriptions. *)
Release(s) ==
  /\ conn[s] = "closing"
  /\ conn' = [conn EXCEPT ![s] = "gone"]
  /\ IF s \in subscribed THEN Unsubscribed(s) ELSE UNCHANGED <<subscribed, wire, promised>>
  /\ UNCHANGED <<asked, asking, online>>

-----------------------------------------------------------------------------
(* The app *)

(* The app tells the i-th thing it was sent. *)
Tells(s, i) ==
  /\ online' = [online EXCEPT ![s] = Applied(@, wire[s][i])]
  /\ wire' = [wire EXCEPT ![s] = RemoveAt(@, i)]
  /\ UNCHANGED <<conn, asked, asking, subscribed, promised>>

(* join: presence.here, told by the task that asked, when it gets its turn. *)
TellHere(s) == \E i \in DOMAIN wire[s] : wire[s][i][1] = "here" /\ Tells(s, i)

(* relay: the events, in order. *)
Relay(s) ==
  \E i \in DOMAIN wire[s] :
    /\ wire[s][i][1] /= "here"
    /\ \A j \in 1..(i - 1) : wire[s][j][1] = "here"
    /\ Tells(s, i)

PresenceNext ==
  \E s \in Socket : \/ Ask(s) \/ Subscribe(s) \/ Unsubscribe(s) \/ Falls(s) \/ Release(s)
                    \/ TellHere(s) \/ Relay(s)

PresenceSpec == PresenceInit /\ [][PresenceNext]_presenceVars

-----------------------------------------------------------------------------
(* Properties *)

PresenceTypeOK ==
  /\ conn \in [Socket -> {"open", "closing", "gone"}]
  /\ asked \in [Socket -> 0..MaxRequests]
  /\ asking \subseteq Socket /\ subscribed \subseteq Socket
  /\ wire \in [Socket -> Seq({"here", "joining", "leaving"} \X SUBSET Account)]
  /\ online \in [Socket -> SUBSET Account] /\ promised \in [Socket -> SUBSET Account]
  /\ \A s \in Socket \ Ready : wire[s] = <<>>

(***************************************************************************)
(* No socket whose close was handled is subscribed: "deixaria a pessoa na   *)
(* presença do canal até o SFU reiniciar".                                  *)
(***************************************************************************)
GoneHoldsNothing == \A s \in subscribed : conn[s] /= "gone"

(***************************************************************************)
(* Whoever listens was sent the list and every change of it since: told in  *)
(* order, that is who is present, over two machines of a person, sockets    *)
(* that fall and waits for Laravel.                                         *)
(***************************************************************************)
ListenersAreTold ==
  \A s \in subscribed \cap Ready : promised[s] = PresenceIn(subscribed)

-----------------------------------------------------------------------------
(* What the documents say and the model refutes: no run checks it *)

(* "sai como presence.here antes de qualquer presence.joining": when all is *)
(* told, the list of the app is who is present.                             *)
OnlineIsPresence ==
  \A s \in subscribed \cap Ready :
    s \notin asking /\ wire[s] = <<>> => online[s] = PresenceIn(subscribed)
=============================================================================
