----------------------------- MODULE VoiceMirror -----------------------------
(***************************************************************************)
(* Who Laravel thinks is in a voice channel: the webhooks of the SFU        *)
(* (Webhook.ts), what Laravel does with each (SfuController.php) and the    *)
(* accesses it keeps of a person (ChannelAccess.php).                      *)
(*                                                                         *)
(* Every webhook is a request of its own: it is lost, or arrives after a    *)
(* later one.  It says in whole seconds when it was sent.  A transaction of *)
(* the database is a step.  One account and one channel; the guests of a    *)
(* room by code have a table of the same shape.                            *)
(***************************************************************************)
EXTENDS Naturals, Sequences

CONSTANTS
  StaleAfter, \* STALE_HOURS, in seconds
  MaxSecond,  \* bound: the clock
  MaxPosts    \* bound: webhooks sent

ASSUME MirrorAssumption ==
  StaleAfter \in Nat \ {0} /\ MaxSecond \in Nat /\ MaxPosts \in Nat

VARIABLES
  second,
  member,   \* the account is a member of the server
  token,    \* the token of the voice: what its request read, or that it was given
  sits,     \* the SFU has the account in the room
  posted,   \* how many webhooks were sent
  posts,    \* those on their way
  accesses, \* the rows of channel_accesses, by id; order: the webhooks sent before
  shown     \* the last VoiceStateUpdated said that the account came in

mirrorVars == <<second, member, token, sits, posted, posts, accesses, shown>>

Posting == [n: 1..MaxPosts, event: {"joined", "left"}, at: 0..MaxSecond]

MirrorInit ==
  /\ second = 0 /\ member = TRUE /\ token = "none"
  /\ sits = FALSE /\ posted = 0 /\ posts = {}
  /\ accesses = <<>> /\ shown = FALSE

SecondPasses ==
  /\ second < MaxSecond
  /\ second' = second + 1
  /\ UNCHANGED <<member, token, sits, posted, posts, accesses, shown>>

-----------------------------------------------------------------------------
(* The SFU *)

(* Webhook::send, beside those in S. *)
Post(event, S) ==
  /\ posted < MaxPosts
  /\ posted' = posted + 1
  /\ posts' = S \cup {[n |-> posted', event |-> event, at |-> second]}

(* join, of a session that is not resumed: it takes the place of another. *)
SitsDown ==
  /\ token = "given"
  /\ token' = "none"
  /\ sits' = TRUE
  /\ Post("joined", posts)
  /\ UNCHANGED <<second, member, accesses, shown>>

(* removePeer, of the last session of the account. *)
Removed(S) ==
  /\ sits' = FALSE
  /\ IF sits THEN Post("left", S) ELSE posts' = S /\ UNCHANGED posted

SitsUp ==
  /\ sits /\ Removed(posts)
  /\ UNCHANGED <<second, member, token, accesses, shown>>

(* A request is lost, or refused in 3 s. *)
PostLost ==
  /\ \E w \in posts : posts' = posts \ {w}
  /\ UNCHANGED <<second, member, token, sits, posted, accesses, shown>>

-----------------------------------------------------------------------------
(* Laravel *)

OpenAccesses == {i \in DOMAIN accesses : accesses[i].open}

(* The previous access, and whatever of anybody's has been open for a day. *)
Displaced(i, at) ==
  \/ \A j \in OpenAccesses : j <= i
  \/ accesses[i].joined + StaleAfter < at

(* open *)
AccessOpened(at, order) ==
  Append([i \in DOMAIN accesses |->
            [accesses[i] EXCEPT !.open = @ /\ ~Displaced(i, at)]],
         [joined |-> at, order |-> order, open |-> TRUE])

(* Mutant of OpenedBefore: also what opened in the second of the left. *)
OpenedUntil(joined, at) == joined <= at

OpenedBefore(joined, at) == joined < at

(* close *)
AccessClosed(at) ==
  [i \in DOMAIN accesses |->
     [accesses[i] EXCEPT !.open = @ /\ ~OpenedBefore(accesses[i].joined, at)]]

(* voiceToken asks the SFU, afresh, who is in the room. *)
AsksToken ==
  /\ member /\ token = "none"
  /\ token' = IF sits THEN "seated" ELSE "free"
  /\ UNCHANGED <<second, member, sits, posted, posts, accesses, shown>>

(* To come back is no new access. *)
TokenGiven ==
  /\ token \in {"seated", "free"}
  /\ token' = "given"
  /\ accesses' = IF token = "free" THEN AccessOpened(second, posted) ELSE accesses
  /\ UNCHANGED <<second, member, sits, posted, posts, shown>>

(* Expelled or banned: taken out of the rooms of the server. *)
MemberExpelled ==
  /\ member /\ member' = FALSE
  /\ Removed(posts)
  /\ UNCHANGED <<second, token, accesses, shown>>

(* events; whoever was expelled after asking for the token is taken out. *)
PostArrives(w) ==
  /\ w \in posts
  /\ \/ /\ w.event = "joined" /\ ~member
        /\ Removed(posts \ {w})
        /\ UNCHANGED <<accesses, shown>>
     \/ /\ w.event = "joined" /\ member
        /\ accesses' = AccessOpened(w.at, w.n) /\ shown' = TRUE
        /\ posts' = posts \ {w}
        /\ UNCHANGED <<sits, posted>>
     \/ /\ w.event = "left"
        /\ accesses' = AccessClosed(w.at) /\ shown' = FALSE
        /\ posts' = posts \ {w}
        /\ UNCHANGED <<sits, posted>>
  /\ UNCHANGED <<second, member, token>>

MirrorNext ==
  \/ SecondPasses \/ SitsDown \/ SitsUp \/ PostLost
  \/ AsksToken \/ TokenGiven \/ MemberExpelled
  \/ \E w \in posts : PostArrives(w)

MirrorSpec == MirrorInit /\ [][MirrorNext]_mirrorVars

-----------------------------------------------------------------------------
(* Properties *)

(* The values, each webhook with a number of its own; one access is open.   *)
MirrorTypeOK ==
  /\ second \in 0..MaxSecond /\ member \in BOOLEAN /\ sits \in BOOLEAN
  /\ token \in {"none", "seated", "free", "given"}
  /\ posted \in 0..MaxPosts /\ posts \subseteq Posting /\ shown \in BOOLEAN
  /\ \A w, v \in posts : w.n = v.n => w = v
  /\ \A i \in DOMAIN accesses : accesses[i].joined <= second /\ accesses[i].order <= posted
  /\ \A i, j \in OpenAccesses : i = j

(***************************************************************************)
(* ChannelAccess.php, close: "um `left` que chega atrasado só fecha o que   *)
(* abriu antes dele, nunca o acesso mais novo".  The seconds it compares    *)
(* are too coarse to tell the order of two webhooks, and still no left      *)
(* closes an access that was asked for or taken after it was sent.         *)
(***************************************************************************)
LateLeftSparesNewer ==
  [][\A w \in posts \ posts' : w.event = "left" =>
       \A i \in OpenAccesses : accesses[i].order >= w.n => accesses'[i].open]_mirrorVars
=============================================================================
