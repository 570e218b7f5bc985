---------------------------- MODULE SessionTokens ----------------------------
(***************************************************************************)
(* The pair of tokens an account is signed in with: where the app holds it  *)
(* (native/shared/core/src/api.rs), what of it is on the disk (app.rs), and *)
(* what of it the site still takes (web/app/Services/Auth/AppTokens.php).   *)
(*                                                                         *)
(* A request refused with the access token renews the pair, one request at  *)
(* a time; renewing spends the refresh token.  Requests run beside each     *)
(* other and beside the screen.  A pair is a number, 0 is none; the two     *)
(* tokens of a pair are taken and put together, except on the disk, where   *)
(* the app may die between them.  What a request is for is left out.  What   *)
(* the site does after the app has stopped waiting counts as done before.   *)
(***************************************************************************)
EXTENDS Naturals, FiniteSets

CONSTANTS
  Asker,     \* the requests that may be under way together
  NoAsker,   \* nobody holds Api.renewing
  MaxPairs,  \* bound: pairs the site gives
  MaxDeaths  \* bound: times the app stops

ASSUME TokensAssumption ==
  /\ NoAsker \notin Asker
  /\ MaxPairs \in Nat \ {0} /\ MaxDeaths \in Nat

VARIABLES
  onScreen,   \* "login", "account", or "opening": start asks whose the saved token is
  apiToken,   \* Api.token
  refresh,    \* Api.refresh
  saved,      \* TOKEN_KEY and REFRESH_KEY on the disk
  asker,      \* asker[r]: where it is, the token it went with, the one it spends, the pair it got
  turn,       \* who holds Api.renewing
  logouts,    \* the tokens whose logout is on its way
  given,      \* pairs given so far
  access,     \* access tokens the site takes
  spendable,  \* refresh tokens the site takes
  expired,    \* history: refresh tokens whose sixty days are over
  neverHeard, \* history: refresh tokens spent for an answer the app never had
  deaths

heldVars == <<onScreen, apiToken, refresh, saved, asker, turn>>

siteVars == <<logouts, given, access, spendable, expired, neverHeard>>

tokensVars == <<heldVars, siteVars, deaths>>

Pair == 1..MaxPairs

NoRequest == [at |-> "idle", with |-> 0, spends |-> 0, pair |-> 0]

NothingSaved == [token |-> 0, refresh |-> 0]

(* Whoever was signed in opens the app, or nobody was. *)
TokensInit ==
  /\ given \in {0, 1}
  /\ access = 1..given /\ spendable = 1..given
  /\ saved = [token |-> given, refresh |-> given]
  /\ apiToken = given /\ refresh = given
  /\ onScreen = (IF given = 0 THEN "login" ELSE "opening")
  /\ asker = [r \in Asker |-> NoRequest]
  /\ turn = NoAsker
  /\ logouts = {} /\ expired = {} /\ neverHeard = {} /\ deaths = 0

(* issue *)
Issues ==
  /\ given < MaxPairs
  /\ given' = given + 1
  /\ access' = access \cup {given'}

Turns(r, at, with, spends, pair) ==
  asker' = [asker EXCEPT ![r] = [at |-> at, with |-> with, spends |-> spends, pair |-> pair]]

-----------------------------------------------------------------------------
(* A request *)

(* send, with the token there is.  While the app opens only me is asked. *)
SendsRequest(r) ==
  /\ asker[r].at = "idle" /\ apiToken /= 0
  /\ \/ onScreen = "account"
     \/ onScreen = "opening" /\ \A s \in Asker : asker[s].at = "idle"
  /\ Turns(r, "sent", apiToken, 0, 0)
  /\ UNCHANGED <<onScreen, apiToken, refresh, saved, turn, siteVars, deaths>>

(* The request is over.  The me of start opens the account, or, whatever it  *)
(* failed from, the saved pair goes; Api keeps the refresh token.           *)
Over(r, well, held, kept) ==
  /\ Turns(r, "idle", 0, 0, 0)
  /\ IF onScreen /= "opening" THEN apiToken' = held /\ saved' = kept /\ UNCHANGED onScreen
     ELSE IF well THEN apiToken' = held /\ saved' = kept /\ onScreen' = "account"
     ELSE apiToken' = 0 /\ saved' = NothingSaved /\ onScreen' = "login"

(* exchange: an answer, or none; the second time 401 is an answer like any other. *)
IsAnswered(r) ==
  /\ asker[r].at \in {"sent", "again"}
  /\ \E well \in BOOLEAN :
       /\ well => asker[r].with \in access
       /\ Over(r, well, apiToken, saved)
  /\ UNCHANGED <<refresh, turn, siteVars, deaths>>

(* 401 *)
IsRefused(r) ==
  /\ asker[r].at = "sent" /\ asker[r].with \notin access
  /\ Turns(r, "refused", asker[r].with, 0, 0)
  /\ UNCHANGED <<onScreen, apiToken, refresh, saved, turn, siteVars, deaths>>

(* Mutant of TurnIsFree: two renew at once. *)
TurnIsAnyones == TRUE

(* renewing.lock() *)
TurnIsFree == turn = NoAsker

(* renew: somebody renewed first, or signed in again; the request goes again. *)
RenewedByAnother(r) ==
  /\ asker[r].at = "refused" /\ TurnIsFree
  /\ apiToken \notin {0, asker[r].with}
  /\ Turns(r, "again", apiToken, 0, 0)
  /\ UNCHANGED <<onScreen, apiToken, refresh, saved, turn, siteVars, deaths>>

(* renew: nobody is signed in any more, or there is nothing to renew with. *)
NothingToRenew(r) ==
  /\ asker[r].at = "refused" /\ TurnIsFree
  /\ apiToken = 0 \/ (apiToken = asker[r].with /\ refresh = 0)
  /\ Over(r, FALSE, apiToken, saved)
  /\ UNCHANGED <<refresh, turn, siteVars, deaths>>

(* renew: asks for a pair with the refresh token. *)
AsksForPair(r) ==
  /\ asker[r].at = "refused" /\ TurnIsFree
  /\ apiToken = asker[r].with /\ refresh /= 0
  /\ turn' = r
  /\ Turns(r, "asks", apiToken, refresh, 0)
  /\ UNCHANGED <<onScreen, apiToken, refresh, saved, siteVars, deaths>>

(* AppTokens::renew: what is spent is gone, and the pair is new. *)
Renews(r) ==
  /\ asker[r].at = "asks" /\ asker[r].spends \in spendable
  /\ Issues
  /\ spendable' = (spendable \ {asker[r].spends}) \cup {given'}
  /\ Turns(r, "granted", asker[r].with, asker[r].spends, given')
  /\ UNCHANGED <<onScreen, apiToken, refresh, saved, turn, logouts, expired, neverHeard, deaths>>

(* InvalidRefreshTokenException *)
Denies(r) ==
  /\ asker[r].at = "asks" /\ asker[r].spends \notin spendable
  /\ Turns(r, "denied", asker[r].with, asker[r].spends, 0)
  /\ UNCHANGED <<onScreen, apiToken, refresh, saved, turn, siteVars, deaths>>

(* The new pair, in memory and on the disk, whoever is signed in by now; then again. *)
TakesPair(r) ==
  /\ asker[r].at = "granted"
  /\ apiToken' = asker[r].pair /\ refresh' = asker[r].pair
  /\ saved' = [token |-> asker[r].pair, refresh |-> asker[r].pair]
  /\ turn' = NoAsker
  /\ Turns(r, "again", asker[r].pair, 0, 0)
  /\ UNCHANGED <<onScreen, siteVars, deaths>>

(* end: only who still holds the token that was refused is signed out. *)
SessionEnds(r) ==
  IF apiToken = asker[r].with
  THEN refresh' = 0 /\ Over(r, FALSE, 0, NothingSaved)
  ELSE UNCHANGED refresh /\ Over(r, FALSE, apiToken, saved)

TakesDenial(r) ==
  /\ asker[r].at = "denied"
  /\ SessionEnds(r)
  /\ turn' = NoAsker
  /\ UNCHANGED <<siteVars, deaths>>

(* The site made a pair that these requests will not bring. *)
NotHeardOf(rs) ==
  neverHeard' = neverHeard \cup {asker[r].spends : r \in {s \in rs : asker[s].at = "granted"}}

(* Any answer without a pair is taken for a denial: an overloaded site's, half a body. *)
TakesFailure(r) ==
  /\ asker[r].at \in {"asks", "granted"}
  /\ SessionEnds(r)
  /\ NotHeardOf({r})
  /\ turn' = NoAsker
  /\ UNCHANGED <<logouts, given, access, spendable, expired, deaths>>

(* No answer to renew: the pair stays, spent or not. *)
HearsNothing(r) ==
  /\ asker[r].at \in {"asks", "granted", "denied"}
  /\ NotHeardOf({r})
  /\ Over(r, FALSE, apiToken, saved)
  /\ turn' = NoAsker
  /\ UNCHANGED <<refresh, logouts, given, access, spendable, expired, deaths>>

-----------------------------------------------------------------------------
(* The screen, the app, and time *)

(* sign_in, start_with_name, google_sign_in: adopt and land. *)
SignsIn ==
  /\ onScreen = "login"
  /\ Issues
  /\ spendable' = spendable \cup {given'}
  /\ apiToken' = given' /\ refresh' = given'
  /\ saved' = [token |-> given', refresh |-> given']
  /\ onScreen' = "account"
  /\ UNCHANGED <<asker, turn, logouts, expired, neverHeard, deaths>>

(* sign_out, by a click or because the session ended: nothing waits for the site. *)
SignsOut ==
  /\ onScreen = "account"
  /\ logouts' = IF apiToken = 0 THEN logouts
                ELSE logouts \cup {[token |-> apiToken, refresh |-> refresh]}
  /\ apiToken' = 0 /\ refresh' = 0 /\ saved' = NothingSaved
  /\ onScreen' = "login"
  /\ UNCHANGED <<asker, turn, given, access, spendable, expired, neverHeard, deaths>>

(* AuthController::logout, for who still has the access token; or it does not arrive. *)
LogsOut(out) ==
  /\ logouts' = logouts \ {out}
  /\ \/ /\ out.token \in access
        /\ access' = access \ {out.token} /\ spendable' = spendable \ {out.refresh}
     \/ UNCHANGED <<access, spendable>>
  /\ UNCHANGED <<heldVars, given, expired, neverHeard, deaths>>

(* ACCESS_HOURS *)
AccessEnds(p) ==
  /\ p \in access
  /\ access' = access \ {p}
  /\ UNCHANGED <<heldVars, logouts, given, spendable, expired, neverHeard, deaths>>

(* REFRESH_DAYS *)
RefreshEnds(p) ==
  /\ p \in spendable
  /\ spendable' = spendable \ {p} /\ expired' = expired \cup {p}
  /\ UNCHANGED <<heldVars, logouts, given, access, neverHeard, deaths>>

(* The app stops, and opens with what is on the disk; a pair that arrives is there in half. *)
Dies ==
  /\ deaths < MaxDeaths
  /\ deaths' = deaths + 1
  /\ \/ UNCHANGED saved
     \/ \E r \in Asker : /\ asker[r].at = "granted"
                         /\ saved' = [saved EXCEPT !.token = asker[r].pair]
  /\ apiToken' = saved'.token /\ refresh' = saved'.refresh
  /\ onScreen' = IF saved'.token = 0 THEN "login" ELSE "opening"
  /\ NotHeardOf(Asker)
  /\ asker' = [r \in Asker |-> NoRequest] /\ turn' = NoAsker
  /\ UNCHANGED <<logouts, given, access, spendable, expired>>

TokensNext ==
  \/ \E r \in Asker : \/ SendsRequest(r) \/ IsAnswered(r) \/ IsRefused(r) \/ RenewedByAnother(r)
                      \/ NothingToRenew(r) \/ AsksForPair(r) \/ Renews(r) \/ Denies(r)
                      \/ TakesPair(r) \/ TakesDenial(r) \/ TakesFailure(r) \/ HearsNothing(r)
  \/ SignsIn \/ SignsOut
  \/ \E out \in logouts : LogsOut(out)
  \/ \E p \in Pair : AccessEnds(p) \/ RefreshEnds(p)
  \/ Dies

TokensSpec == TokensInit /\ [][TokensNext]_tokensVars

-----------------------------------------------------------------------------
(* Properties *)

TokensTypeOK ==
  /\ onScreen \in {"opening", "login", "account"}
  /\ apiToken \in 0..given /\ refresh \in 0..given
  /\ saved \in [token : 0..given, refresh : 0..given]
  /\ asker \in [Asker -> [at : {"idle", "sent", "again", "refused", "asks", "granted", "denied"},
                          with : 0..given, spends : 0..given, pair : 0..given]]
  /\ turn \in Asker \cup {NoAsker}
  /\ given \in 0..MaxPairs /\ deaths \in 0..MaxDeaths
  /\ logouts \subseteq [token : 1..given, refresh : 0..given]
  /\ access \subseteq 1..given /\ spendable \subseteq 1..given
  /\ expired \subseteq 1..given /\ neverHeard \subseteq 0..given

(***************************************************************************)
(* "Uma renovação por vez: duas em paralelo gastariam o mesmo token de      *)
(* renovação, e a segunda derrubaria a sessão que a primeira acabou de      *)
(* salvar."  Whose session ends because the site denied a renewal asked     *)
(* with a token whose time was over, or that was spent for an answer that   *)
(* never came: never with one that another request of the app spent, nor    *)
(* with one that the person signed out of, or in after.                    *)
(***************************************************************************)
NobodyIsThrownOut ==
  \A r \in Asker :
    asker[r].at = "denied" /\ apiToken = asker[r].with => asker[r].spends \in expired \cup neverHeard

(***************************************************************************)
(* "Sem rede não é sessão acabada: o par continua valendo para quando ela   *)
(* voltar": what the app holds has not been spent.  The model refutes it:   *)
(* the pair the site made may be what the network lost.                    *)
(***************************************************************************)
PairGoesOn == refresh \notin neverHeard

(***************************************************************************)
(* "Sai da conta: esquece os tokens agora": at the login nobody is signed   *)
(* in.  The model refutes it: a renewal under way puts its pair there.     *)
(***************************************************************************)
SignedOutStaysOut == onScreen = "login" => apiToken = 0

(***************************************************************************)
(* The app that opens offline, or at a busy site, does not forget a pair    *)
(* that would still do (start, whose failure "não vale mais").  The model   *)
(* refutes it: any failure of me is taken for a token that is worth nothing. *)
(***************************************************************************)
OpeningKeeps ==
  [][onScreen = "opening" /\ onScreen' = "login" => saved.refresh \notin spendable]_tokensVars
=============================================================================
