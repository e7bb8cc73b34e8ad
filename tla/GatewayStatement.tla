------------------------------ MODULE GatewayStatement ------------------------------
(***************************************************************************)
(* scripts/verify-gateway-deployment.py: a gateway describes itself in a   *)
(* signed deployment statement, and physical evidence is collected only    *)
(* while it serves one that verifies against the pinned values.            *)
(*                                                                         *)
(* A `deployment' stands for the pinned core commit, contract, image,      *)
(* configuration and environment; times are the verifier's clock.  The     *)
(* syntax of fields is left out: a `regular' file is one that was read     *)
(* from a bounded regular file, a `canonical' one is the only encoding of  *)
(* its value.                                                              *)
(***************************************************************************)
EXTENDS Integers, Sequences

CONSTANTS
    MaxValidity,   \* MAX_VALIDITY, in ticks
    ClockSkew      \* CLOCK_SKEW, in ticks

ASSUME TimeAssumption == MaxValidity \in Nat /\ ClockSkew \in Nat

IosPlatform == {"ios_app_attest", "react_native_ios_app_attest"}
AndroidPlatform == {"android_play_integrity", "react_native_android_play_integrity"}
PlayTrack == {"internal", "closed", "open", "production"}

(* device_verified and strong_device_verified, by rank. *)
TrustLevel == 1 .. 2

(* validate_client: the client policies a release gateway may state. *)
ClientAccepted(client) ==
    /\ \/ /\ client.platform \in IosPlatform
          /\ client.provider = "app_attest" /\ client.channel = "production"
          /\ ~client.recognized /\ ~client.licensed
       \/ /\ client.platform \in AndroidPlatform
          /\ client.provider = "play_integrity" /\ client.channel \in PlayTrack
          /\ client.recognized /\ client.licensed
    /\ client.trust \in TrustLevel
    /\ client.hashBound /\ ~client.testing /\ ~client.debug

(* canonical_origin: 443 is spelled by leaving the port out (0). *)
CanonicalOrigin(origin) == [origin EXCEPT !.port = IF @ = 443 THEN 0 ELSE @]

OriginAccepted(origin) ==
    /\ origin.scheme = "https"
    /\ origin.port \in 0 .. 65535
    /\ CanonicalOrigin(origin) = origin

(* validate_expected_arguments. *)
ArgumentsAccepted(expected) == OriginAccepted(expected.origin)

(* read_regular_file and load_canonical_json. *)
Loads(file) == file.regular /\ file.canonical

(* The validity window of validate_statement, against the clock. *)
InWindow(statement, now) ==
    /\ statement.issued < statement.expires
    /\ statement.expires - statement.issued <= MaxValidity
    /\ statement.issued <= now + ClockSkew
    /\ now - ClockSkew < statement.expires

(* One policy per platform and application, and exactly one is the expected one. *)
ClientsAccepted(clients, client) ==
    /\ Len(clients) \in 1 .. 64
    /\ \A i \in DOMAIN clients : ClientAccepted(clients[i])
    /\ \A i, j \in DOMAIN clients :
          /\ clients[i].platform = clients[j].platform
          /\ clients[i].application = clients[j].application
          => i = j
    /\ \E i \in DOMAIN clients : clients[i] = client

(* validate_statement. *)
StatementAccepted(statement, expected, client, now) ==
    /\ OriginAccepted(statement.origin)
    /\ statement.origin = expected.origin
    /\ statement.deployment = expected.deployment
    /\ statement.key = expected.keyId
    /\ InWindow(statement, now)
    /\ ClientsAccepted(statement.clients, client)

(* verify_signature: a P-256 key, the pinned one, signed these bytes. *)
SignatureAccepted(statement, signature, key, pin) ==
    /\ key.curve = "P-256"
    /\ key = pin
    /\ signature = [of |-> statement, by |-> key]

(* main: whether the files verify, and the summary of the ones that do. *)
Verifies(statement, signature, key, client, pins, now) ==
    /\ ArgumentsAccepted(pins.expected)
    /\ Loads(statement)
    /\ ClientAccepted(client)
    /\ SignatureAccepted(statement, signature, key, pins.key)
    /\ StatementAccepted(statement, pins.expected, client, now)

Summary(statement) ==
    [deployment |-> statement.deployment, expires |-> statement.expires,
     key |-> statement.key, statement |-> statement]
================================================================================
