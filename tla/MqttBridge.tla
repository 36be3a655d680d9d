------------------------------ MODULE MqttBridge ------------------------------
(***************************************************************************)
(* The MQTT telemetry bridge, one process: it logs in at the API, connects *)
(* to the broker and forwards every message to the API, one at a time, on  *)
(* paho's network thread.  The main thread only takes the signal that says *)
(* the certificates were renewed.  The broker, the API and the container   *)
(* runtime answer, fail and restart as they like.  Its names are others    *)
(* than those of TelemetryStore, so that TelemetryProofs can extend both.  *)
(***************************************************************************)
EXTENDS Integers

CONSTANTS
    MaxLogins,      \* max_retries of authenticate_api
    MaxPosts,       \* attempts of api_request
    MaxMessages,    \* bound of the messages one process receives
    CertReloads     \* whether a vault agent runs beside the bridge

ASSUME BridgeNumbers ==
    /\ MaxLogins \in Nat \ {0} /\ MaxPosts \in Nat \ {0}
    /\ MaxMessages \in Nat /\ CertReloads \in BOOLEAN

VARIABLES
    phase,      \* start_bridge: "auth", "connect", then "running"
    link,       \* the MQTT connection; "closed": paho's thread has to end
    thread,     \* the network thread: "idle", or in a "login" or "post"
    kind,       \* the type of the message in hand
    logins,     \* failed attempts of the running authenticate_api
    posts,      \* 401 answers the running api_request has retried
    token,      \* the api_token: "none", "fresh", or "due" by its expiry
    received, forwarded, errors,    \* the statistics
    ignored,    \* history: messages of a type that is not forwarded
    stored      \* history: how often the API took the message in hand

stats == <<received, forwarded, errors, ignored>>
call == <<thread, kind, logins, posts>>
bridge == <<phase, link, call, token, stats, stored>>

BridgeTypeOK ==
    /\ phase \in {"auth", "connect", "running"}
    /\ link \in {"down", "up", "closed"}
    /\ thread \in {"idle", "login", "post"}
    /\ kind \in {"telemetry", "heartbeat"}
    /\ logins \in 0 .. MaxLogins - 1
    /\ posts \in 0 .. MaxPosts - 1
    /\ token \in {"none", "fresh", "due"}
    /\ received \in 0 .. MaxMessages
    /\ forwarded \in Nat /\ errors \in Nat /\ ignored \in Nat
    /\ stored \in Nat

BridgeInit ==
    /\ phase = "auth" /\ link = "down"
    /\ thread = "login" /\ kind = "telemetry" /\ logins = 0 /\ posts = 0
    /\ token = "none"
    /\ received = 0 /\ forwarded = 0 /\ errors = 0 /\ ignored = 0
    /\ stored = 0

\* The process ends in any way, and docker starts it again.
Restart ==
    /\ phase' = "auth" /\ link' = "down"
    /\ thread' = "login" /\ kind' = "telemetry" /\ logins' = 0 /\ posts' = 0
    /\ token' = "none"
    /\ received' = 0 /\ forwarded' = 0 /\ errors' = 0 /\ ignored' = 0
    /\ stored' = 0

-----------------------------------------------------------------------------
(* The end of a message: it counts as forwarded or as an error.             *)

BackToIdle == thread' = "idle" /\ logins' = 0 /\ posts' = 0 /\ UNCHANGED kind

Succeeds ==
    /\ BackToIdle
    /\ forwarded' = forwarded + 1
    /\ UNCHANGED <<received, errors, ignored>>

Fails ==
    /\ BackToIdle
    /\ errors' = errors + 1
    /\ UNCHANGED <<received, forwarded, ignored>>

-----------------------------------------------------------------------------
(* authenticate_api, at the start, for a missing or old token, after a 401. *)

LoginOk ==
    /\ thread = "login"
    /\ token' = "fresh"
    /\ logins' = 0
    /\ \/ phase = "auth" /\ phase' = "connect" /\ thread' = "idle"
       \/ phase = "running" /\ thread' = "post" /\ UNCHANGED phase
    /\ UNCHANGED <<link, kind, posts, stats, stored>>

\* Mutant: a login that failed is not noticed after a 401.
LoginFails_GoesOn ==
    /\ thread = "login" /\ logins + 1 < MaxLogins
    /\ logins' = logins + 1
    /\ token' \in {token, "none"}
    /\ thread' = IF posts > 0 THEN "post" ELSE "login"
    /\ UNCHANGED <<phase, link, kind, posts, stats, stored>>

\* An answer other than 200, a timeout, or a 200 without a token, which
\* replaces the token there was.
LoginFails ==
    /\ thread = "login" /\ logins + 1 < MaxLogins
    /\ logins' = logins + 1
    /\ token' \in {token, "none"}
    /\ UNCHANGED <<phase, link, thread, kind, posts, stats, stored>>

\* The last attempt fails: at the start the process exits, later the message
\* is an error.
GiveUpLogin ==
    /\ thread = "login" /\ logins + 1 = MaxLogins
    /\ \/ phase = "auth" /\ Restart
       \/ /\ phase = "running" /\ Fails
          /\ token' \in {token, "none"}
          /\ UNCHANGED <<phase, link, stored>>

-----------------------------------------------------------------------------
(* connect_mqtt and paho's network loop.                                    *)

\* TCP and TLS stand and the loop thread runs; the broker has not answered yet.
ConnectMqtt ==
    /\ phase = "connect" /\ phase' = "running"
    /\ UNCHANGED <<link, call, token, stats, stored>>

ConnectFails == phase = "connect" /\ Restart

\* Mutant: the loop reconnects only while the token is good.
OnConnect_WithToken ==
    /\ phase = "running" /\ link = "down" /\ thread = "idle" /\ token = "fresh"
    /\ link' = "up"
    /\ UNCHANGED <<phase, call, token, stats, stored>>

\* The broker accepts, now or when the loop tries again after its backoff.
OnConnect ==
    /\ phase = "running" /\ link = "down" /\ thread = "idle"
    /\ link' = "up"
    /\ UNCHANGED <<phase, call, token, stats, stored>>

\* The connection breaks; a message in hand is carried on with.
OnDisconnect ==
    /\ link = "up" /\ link' = "down"
    /\ UNCHANGED <<phase, call, token, stats, stored>>

\* SIGHUP while connected: disconnect() on the main thread.  paho's loop takes
\* that for the end: its thread exits and never reconnects.
HandleCertReload ==
    /\ CertReloads
    /\ phase = "running" /\ link = "up"
    /\ link' = "closed"
    /\ UNCHANGED <<phase, call, token, stats, stored>>

-----------------------------------------------------------------------------
(* handle_telemetry_message and api_request.                                *)

CanReceive == link = "up" /\ thread = "idle" /\ received < MaxMessages

\* Too big or not JSON.
DropMalformed ==
    /\ CanReceive
    /\ received' = received + 1 /\ errors' = errors + 1
    /\ UNCHANGED <<phase, link, call, token, forwarded, ignored, stored>>

\* device/+/data/+ is subscribed to, but its type is unknown.
IgnoreData ==
    /\ CanReceive
    /\ received' = received + 1 /\ ignored' = ignored + 1
    /\ UNCHANGED <<phase, link, call, token, forwarded, errors, stored>>

\* A status message is treated like telemetry.
Receive(k) ==
    /\ CanReceive
    /\ received' = received + 1
    /\ kind' = k /\ stored' = 0
    /\ thread' = IF token = "fresh" THEN "post" ELSE "login"
    /\ UNCHANGED <<phase, link, logins, posts, token,
                   forwarded, errors, ignored>>

PostAccepted ==
    /\ thread = "post" /\ Succeeds
    /\ stored' = stored + 1
    /\ UNCHANGED <<phase, link, token>>

\* 404 for the heartbeat of a device that does not exist yet is fine.
PostNotFound ==
    /\ thread = "post" /\ kind = "heartbeat" /\ Succeeds
    /\ UNCHANGED <<phase, link, token, stored>>

PostRejected ==
    /\ thread = "post" /\ Fails
    /\ UNCHANGED <<phase, link, token, stored>>

\* Mutant: a timeout is retried like a 401.
PostLost_Retries ==
    /\ thread = "post"
    /\ stored' \in {stored, stored + 1}
    /\ \/ /\ posts + 1 < MaxPosts /\ posts' = posts + 1
          /\ UNCHANGED <<thread, kind, logins, stats>>
       \/ posts + 1 = MaxPosts /\ Fails
    /\ UNCHANGED <<phase, link, token>>

\* A timeout or a broken connection: the API may have taken the message.
PostLost ==
    /\ thread = "post" /\ Fails
    /\ stored' \in {stored, stored + 1}
    /\ UNCHANGED <<phase, link, token>>

\* Mutant: every 401 is retried.
PostUnauthorized_Always ==
    /\ thread = "post" /\ posts + 1 < MaxPosts
    /\ token' = "none"
    /\ thread' = "login"
    /\ UNCHANGED <<phase, link, kind, logins, posts, stats, stored>>

\* Mutant: the answer to a 401 counts the message and logs in for the retry.
PostUnauthorized_Counts ==
    /\ thread = "post" /\ posts + 1 < MaxPosts
    /\ token' = "none"
    /\ posts' = posts + 1 /\ thread' = "login"
    /\ errors' = errors + 1
    /\ UNCHANGED <<phase, link, kind, logins, received, forwarded, ignored, stored>>

\* 401: forget the token, log in, and try again (the last 401 is an answer
\* like any other, PostRejected).
PostUnauthorized ==
    /\ thread = "post" /\ posts + 1 < MaxPosts
    /\ token' = "none"
    /\ posts' = posts + 1 /\ thread' = "login"
    /\ UNCHANGED <<phase, link, kind, logins, stats, stored>>

-----------------------------------------------------------------------------
\* The clock reaches api_token_expiry.
TokenDue ==
    /\ token = "fresh" /\ token' = "due"
    /\ UNCHANGED <<phase, link, call, stats, stored>>

\* Ctrl+C, a kill, an unhandled error.
Crash == phase # "auth" /\ Restart

Login == LoginOk \/ LoginFails \/ GiveUpLogin

Post ==
    PostAccepted \/ PostNotFound \/ PostRejected \/ PostLost \/ PostUnauthorized

Environment ==
    \/ OnDisconnect \/ HandleCertReload \/ TokenDue \/ Crash
    \/ DropMalformed \/ IgnoreData
    \/ \E k \in {"telemetry", "heartbeat"} : Receive(k)

BridgeNext ==
    Login \/ Post \/ ConnectMqtt \/ ConnectFails \/ OnConnect \/ Environment

BridgeSpec == BridgeInit /\ [][BridgeNext]_bridge

\* Every HTTP call has a timeout, so the network thread gets on; and paho's
\* loop tries to connect until the broker accepts.
FairSpec == BridgeSpec /\ WF_bridge(Login \/ Post) /\ WF_bridge(OnConnect)

-----------------------------------------------------------------------------
(* Properties.                                                              *)

InHand == IF phase = "running" /\ thread # "idle" THEN 1 ELSE 0

\* The statistics of the process add up at every moment: each message is
\* forwarded, an error, ignored, or the one in hand, on every path through the
\* logins and retries.
Accounted == received = forwarded + errors + ignored + InHand

\* The API takes a message at most once: only an answer that refuses it (401)
\* is followed by another attempt.
AtMostOnce == stored <= 1

\* No request is sent with "Bearer None", whichever login failed before.
PostsWithToken == thread = "post" => token # "none"

\* Why both hold: a message still in hand has not been taken by the API, and
\* before the bridge runs nothing is counted and nothing but a login happens.
BridgeInv ==
    /\ Accounted /\ AtMostOnce /\ PostsWithToken
    /\ InHand = 1 => stored = 0
    /\ phase = "auth" => thread = "login"
    /\ phase = "connect" => thread = "idle"
    /\ phase # "running" => link = "down" /\ posts = 0
    /\ thread = "idle" => posts = 0
    /\ thread # "login" => logins = 0

\* Every message is done with, however the API answers.
MessageEnds == (phase = "running" /\ thread # "idle") ~> (phase # "running" \/ thread = "idle")

\* A connection that broke comes back, whatever the API does meanwhile (unless
\* the process ends first).
BrokenLinkComesBack ==
    (phase = "running" /\ link = "down") ~> (phase # "running" \/ link = "up")
=============================================================================
