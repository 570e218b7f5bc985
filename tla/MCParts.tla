------------------------------ MODULE MCParts ------------------------------
(***************************************************************************)
(* A small instance of each part that shares no state with the others: the *)
(* producers, the routers and the presence of the SFU, the accesses        *)
(* Laravel keeps, the tokens, the session, the calls, the screens and the  *)
(* media of the client, its media keys, and the decisions of its media     *)
(* engine.  A behaviour is one part's: part names it, and the others stay  *)
(* where they are.                                                         *)
(***************************************************************************)
EXTENDS SfuProducers, Presence, VoiceMirror, VoiceCalls, ScreenShare, ClientMedia,
        SfuRouters, ClientSession, PacketRecovery, BitrateGovernor, KeyframeGate,
        MediaKeys, SessionTokens, TLC

CONSTANTS mic1, mic2, screen1, here, there, s1, s2, s3, ana, bia,
          w1, w2, w3, p1, p2, p3, p4, scr1, scr2

VARIABLE part

(* Two microphones, each with a key of its own, and a screen with the first. *)
MCRequest == {mic1, mic2, screen1}

MCSourceOf == mic1 :> "mic" @@ mic2 :> "mic" @@ screen1 :> "screen"

MCKeyOf == mic1 :> 1 @@ mic2 :> 2 @@ screen1 :> 1

MCChannel == {here, there}

MCProducer == {scr1, scr2}

(* Two sockets of one account, and one of another. *)
MCSocket == {s1, s2, s3}

MCAccountOf == s1 :> ana @@ s2 :> ana @@ s3 :> bia

(* A part that is not looked at begins in one way only, and so do the        *)
(* producers and the calls: a mute may come before the first of them.       *)
PartsInit ==
  /\ part \in {"producers", "presence", "mirror", "voice", "share", "media", "recovery",
               "governor", "gate", "routers", "session", "keys", "tokens"}
  /\ ProducersInit /\ ~serverMuted
  /\ PresenceInit
  /\ MirrorInit
  /\ VoiceInit /\ ~atRest
  /\ ShareInit
  /\ MediaInit /\ (part /= "media" => onAir = {})
  /\ RecoveryInit /\ (part /= "recovery" => start = 1)
  /\ GovernorInit /\ (part /= "governor" => enabled)
  /\ GateInit /\ (part /= "gate" => ~constrained)
  /\ RoutersInit /\ (part /= "routers" => Busy = {w1} /\ inRoom = {p1})
  /\ SessionInit
  /\ MediaKeysInit /\ (part /= "keys" => sessionKey = 0)
  /\ TokensInit /\ (part /= "tokens" => given = 0)

PartsNext ==
  /\ \/ part = "producers" /\ ProducersNext
     \/ part /= "producers" /\ UNCHANGED producersVars
  /\ \/ part = "presence" /\ PresenceNext
     \/ part /= "presence" /\ UNCHANGED presenceVars
  /\ \/ part = "mirror" /\ MirrorNext
     \/ part /= "mirror" /\ UNCHANGED mirrorVars
  /\ \/ part = "voice" /\ VoiceNext
     \/ part /= "voice" /\ UNCHANGED voiceVars
  /\ \/ part = "share" /\ ShareNext
     \/ part /= "share" /\ UNCHANGED shareVars
  /\ \/ part = "media" /\ MediaNext
     \/ part /= "media" /\ UNCHANGED mediaVars
  /\ \/ part = "recovery" /\ RecoveryNext
     \/ part /= "recovery" /\ UNCHANGED recoveryVars
  /\ \/ part = "governor" /\ CloseWindow
     \/ part /= "governor" /\ UNCHANGED governorVars
  /\ \/ part = "gate" /\ GateNext
     \/ part /= "gate" /\ UNCHANGED gateVars
  /\ \/ part = "routers" /\ RoutersNext
     \/ part /= "routers" /\ UNCHANGED routersVars
  /\ \/ part = "session" /\ SessionNext
     \/ part /= "session" /\ UNCHANGED sessionVars
  /\ \/ part = "keys" /\ MediaKeysNext
     \/ part /= "keys" /\ UNCHANGED mediaKeysVars
  /\ \/ part = "tokens" /\ TokensNext
     \/ part /= "tokens" /\ UNCHANGED tokensVars
  /\ UNCHANGED part

PartsSpec ==
  PartsInit /\ [][PartsNext]_<<part, producersVars, presenceVars, mirrorVars, voiceVars, shareVars,
                               mediaVars, recoveryVars, governorVars, gateVars, routersVars,
                               sessionVars, mediaKeysVars, tokensVars>>

(* Two workers to begin with and one born later; a router is full with two. *)
MCWorker == {w1, w2, w3}

MCAtFirst == {w1, w2}

MCPerson == {p1, p2, p3, p4}

(***************************************************************************)
(* The two channels are alike, and so are the two screens while nobody has *)
(* them on air: here is asked for first, and scr1 is on air first.         *)
(***************************************************************************)
MCInOrder == chan[1] \in {None, here} /\ (scr1 \in fresh => scr2 \in fresh)

(* One of the two screens stays on air; and of two clicks, an act of the    *)
(* guard and a fault, three meet.                                           *)
MCFewMeet ==
  /\ fresh \cup onAir # {}
  /\ clicked + beats + faults <= 3

(* The variables of the part that moves hold what its module says. *)
PartsTypeOK ==
  CASE part = "producers" -> ProducersTypeOK
    [] part = "presence" -> PresenceTypeOK
    [] part = "mirror" -> MirrorTypeOK
    [] part = "voice" -> VoiceTypeOK
    [] part = "share" -> ShareTypeOK
    [] part = "media" -> MediaTypeOK
    [] part = "recovery" -> RecoveryTypeOK
    [] part = "governor" -> GovernorTypeOK
    [] part = "gate" -> GateTypeOK
    [] part = "routers" -> RoutersTypeOK
    [] part = "session" -> SessionTypeOK
    [] part = "keys" -> MediaKeysTypeOK
    [] part = "tokens" -> TokensTypeOK
=============================================================================
