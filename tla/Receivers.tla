------------------------------ MODULE Receivers ------------------------------
(***************************************************************************)
(* The listeners the suite opens for a host to call: webhook receivers     *)
(* with an identity of their own (scoped-receiver.ts), fake peers behind   *)
(* one public front (front-mux.ts, a2a-fake-peer.ts, mcp-fake-server.ts),  *)
(* the effect receiver and the modal receiver. An operator may pin one     *)
(* port and front it; a host keeps delivering, and retrying, to an address *)
(* after the exercise that handed it out has ended.                        *)
(*                                                                         *)
(* One step is one turn of the suite's event loop.                         *)
(***************************************************************************)
EXTENDS Integers, FiniteSets

CONSTANTS
  Exercises,      \* each starts one receiver, and is the nonce of its address
  NoOne,          \* not an exercise
  Casts,          \* the kinds of receiver the exercises may start
  FrontSettings,  \* what the operator's variable for the front may hold
  MaxDeliveries   \* bound on the requests that reach a listener

Kinds == {"scoped", "shared", "fake", "effect", "modal"}
AllFrontSettings == {"unset", "not a URL", "http", "private", "public"}

(* setup.ts starts one shared fake behind a front; an exercise that needs  *)
(* another starts its own.                                                 *)
ASSUME ReceiversAssumption ==
  /\ IsFiniteSet(Exercises) /\ {NoOne, "pinned"} \cap Exercises = {}
  /\ Casts \subseteq [Exercises -> Kinds]
  /\ \A cast \in Casts, e, f \in Exercises : cast[e] = "shared" /\ cast[f] = "shared" => e = f
  /\ FrontSettings \subseteq AllFrontSettings
  /\ MaxDeliveries \in Nat

VARIABLES
  kind, front, pinned, \* the operator's setting and the cast, fixed at the start
  occupied,   \* another process holds the pinned port
  entry,      \* sharedByPort: the exercise that opened the shared listener
  socket,     \* socket[e]: the listener e opened
  refs,       \* refs[e]: the claims on the listener e opened
  listener,   \* listener[e]: the exercise whose listener e uses
  stage,      \* stage[e]: how far e's start or close has come
  members,    \* the scoped receivers that their listener knows
  registry,   \* the nonces the front dispatches
  told,       \* told[e]: the address the host was given, or NoOne
  seen,       \* seen[e]: whose traffic e has recorded as its own
  foreign,    \* foreign[e]: requests e counted as addressed elsewhere
  delivered   \* requests that have reached a listener

operator  == <<kind, front, pinned, occupied>>
listening == <<entry, socket, refs, listener, stage, members, registry, told>>
record    == <<seen, foreign, delivered>>
receiverVars == <<operator, listening, record>>

-----------------------------------------------------------------------------
(* resolvePublicFront: unset means the local address; a front that could   *)
(* not clear a host's own checks is an operator's error, and throws.       *)
resolvePublicFront ==
  CASE front = "unset"  -> "local"
    [] front = "public" -> "tunnelled"
    [] OTHER            -> "throws"

(* The shared fake and every receiver take the pinned port when there is   *)
(* one; a fake that a scenario starts for itself does not.                 *)
TakesPinnedPort(e) == pinned /\ kind[e] # "fake"

(* Where a listener answers: on the pinned port, or on a port of its own.  *)
PortOf(e) == IF TakesPinnedPort(e) THEN "pinned" ELSE e

PortHolders == {e \in Exercises : TakesPinnedPort(e) /\ socket[e] \in {"up", "closing"}}
PortFree == ~occupied /\ PortHolders = {}

(* A tunnel forwards to the pinned port whatever path it was given.        *)
Reaches(address) ==
  {e \in Exercises : socket[e] = "up" /\ PortOf(e) = address.port}

(* frontedEndpoint: the front itself for the owner of the pinned port, and *)
(* a nonce under it for any other fake.                                    *)
frontedEndpoint(e) ==
  IF resolvePublicFront = "local" THEN [port |-> PortOf(listener[e]), path |-> NoOne]
  ELSE [port |-> "pinned", path |-> IF TakesPinnedPort(e) THEN NoOne ELSE e]

(* The other receivers carry their nonce in the path, fronted or not.      *)
nonceAddress(e) ==
  [port |-> IF resolvePublicFront = "tunnelled" THEN "pinned" ELSE PortOf(listener[e]),
   path |-> e]

AddressOf(e) == IF kind[e] \in {"shared", "fake"} THEN frontedEndpoint(e) ELSE nonceAddress(e)

-----------------------------------------------------------------------------
(* Variant: the listener is shared without a claim on it. *)
ShareUnclaimed(e, owner) == refs' = refs

(* A scoped receiver claims the shared listener before it awaits the bind. *)
Claim(e, owner) == refs' = [refs EXCEPT ![owner] = @ + 1]

(* registerBehindFront; the other receivers are known by their listener.   *)
RegisteredWith(e) == IF kind[e] \in {"scoped", "shared", "fake"} THEN registry \cup {e} ELSE registry

StartScoped(e) ==
  /\ kind[e] = "scoped" /\ stage[e] = "idle"
  /\ LET owner == IF pinned /\ entry # NoOne THEN entry ELSE e
     IN  /\ listener' = [listener EXCEPT ![e] = owner]
         /\ Claim(e, owner)
         /\ socket' = IF owner = e THEN [socket EXCEPT ![e] = "binding"] ELSE socket
         /\ entry' = IF pinned THEN owner ELSE entry
  /\ stage' = [stage EXCEPT ![e] = "starting"]
  /\ UNCHANGED <<operator, members, registry, told, record>>

StartOther(e) ==
  /\ kind[e] # "scoped" /\ stage[e] = "idle"
  /\ listener' = [listener EXCEPT ![e] = e]
  /\ socket' = [socket EXCEPT ![e] = "binding"]
  /\ stage' = [stage EXCEPT ![e] = "starting"]
  /\ UNCHANGED <<operator, entry, refs, members, registry, told, record>>

Bind(e) ==
  /\ socket[e] = "binding" /\ (TakesPinnedPort(e) => PortFree)
  /\ socket' = [socket EXCEPT ![e] = "up"]
  /\ UNCHANGED <<operator, entry, refs, listener, stage, members, registry, told, record>>

(* EADDRINUSE. A scoped listener that failed is dropped from sharedByPort. *)
(* The modal receiver has no handler for the error: nothing ever settles.  *)
BindFails(e) ==
  /\ socket[e] = "binding" /\ TakesPinnedPort(e) /\ ~PortFree
  /\ socket' = [socket EXCEPT ![e] = "failed"]
  /\ entry' = IF entry = e THEN NoOne ELSE entry
  /\ stage' = IF kind[e] = "modal" THEN [stage EXCEPT ![e] = "hung"] ELSE stage
  /\ UNCHANGED <<operator, refs, listener, members, registry, told, record>>

(* The await of the bind resolves. A front that is refused throws out of   *)
(* the start of a receiver that is already registered and listening; the   *)
(* others throw when they are asked for the address to hand out.           *)
Started(e) ==
  /\ stage[e] = "starting" /\ socket[listener[e]] \in {"up", "closing", "gone"}
  /\ stage' = [stage EXCEPT ![e] =
       IF resolvePublicFront = "throws" /\ kind[e] \in {"scoped", "effect"}
       THEN "failed" ELSE "live"]
  /\ members' = IF kind[e] = "scoped" THEN members \cup {e} ELSE members
  /\ registry' = RegisteredWith(e)
  /\ told' = IF resolvePublicFront = "throws" THEN told ELSE [told EXCEPT ![e] = AddressOf(e)]
  /\ UNCHANGED <<operator, entry, socket, refs, listener, record>>

StartFails(e) ==
  /\ stage[e] = "starting" /\ socket[listener[e]] = "failed"
  /\ stage' = [stage EXCEPT ![e] = "failed"]
  /\ refs' = IF kind[e] = "scoped" /\ refs[listener[e]] > 0
             THEN [refs EXCEPT ![listener[e]] = @ - 1] ELSE refs
  /\ UNCHANGED <<operator, entry, socket, listener, members, registry, told, record>>

(* A receiver ends when its exercise does. The last scoped user of a       *)
(* listener shuts it; anyone else's listener is its own.                   *)
Close(e) ==
  /\ stage[e] = "live"
  /\ stage' = [stage EXCEPT ![e] = "closed"]
  /\ registry' = registry \ {e}
  /\ members' = members \ {e}
  /\ LET owner == listener[e]
         left  == IF kind[e] = "scoped" /\ refs[owner] > 0 THEN refs[owner] - 1 ELSE 0
     IN  /\ refs' = [refs EXCEPT ![owner] = left]
         /\ socket' = IF left > 0 THEN socket ELSE [socket EXCEPT ![owner] = "closing"]
         /\ entry' = IF left = 0 /\ entry = owner THEN NoOne ELSE entry
  /\ UNCHANGED <<operator, listener, told, record>>

(* server.close: the port is free when the socket is.                      *)
Shut(e) ==
  /\ socket[e] = "closing"
  /\ socket' = [socket EXCEPT ![e] = "gone"]
  /\ UNCHANGED <<operator, entry, refs, listener, stage, members, registry, told, record>>

-----------------------------------------------------------------------------
(* Variant: an unknown nonce falls through to the fake that was asked.     *)
RoutedOrFallsThrough(s, path) == IF path \in registry THEN {path} ELSE {s}

(* routeFronted: the registered handler, or an answer that records nothing.*)
Routed(s, path) == IF path \in registry THEN {path} ELSE {}

(* Which exercise records a request that reached listener s.               *)
Recorders(s, path) ==
  CASE kind[s] \in {"scoped", "shared", "fake"} /\ path # NoOne -> Routed(s, path)
    [] kind[s] = "scoped" -> {}
    [] kind[s] = "effect" -> IF path = s THEN {s} ELSE {}
    [] OTHER -> {s}

(* Who only counts it: the live scoped receivers it does not address, and  *)
(* the effect receiver whose nonce it does not bear.                       *)
Strangers(s, path) ==
  CASE kind[s] = "scoped" -> {m \in members : listener[m] = s /\ m # path}
    [] kind[s] = "effect" -> {s} \ {path}
    [] OTHER -> {}

Handle(sender, path, s) ==
  /\ delivered < MaxDeliveries
  /\ delivered' = delivered + 1
  /\ seen' = [e \in Exercises |->
       IF e \in Recorders(s, path) THEN seen[e] \cup {sender} ELSE seen[e]]
  /\ foreign' = [e \in Exercises |->
       IF e \in Strangers(s, path) THEN foreign[e] + 1 ELSE foreign[e]]
  /\ UNCHANGED <<operator, listening>>

(* The host delivers, or retries, to the address exercise e handed out.    *)
Deliver(e) == told[e] # NoOne /\ \E s \in Reaches(told[e]) : Handle(e, told[e].path, s)

(* Someone else's request, to no nonce or to one nobody has.               *)
Stray(s) == socket[s] = "up" /\ Handle(NoOne, NoOne, s)

-----------------------------------------------------------------------------
ReceiversInit ==
  /\ kind \in Casts /\ front \in FrontSettings
  /\ pinned \in BOOLEAN /\ occupied \in BOOLEAN /\ (occupied => pinned)
  /\ entry = NoOne
  /\ socket = [e \in Exercises |-> "none"]
  /\ refs = [e \in Exercises |-> 0]
  /\ listener = [e \in Exercises |-> e]
  /\ stage = [e \in Exercises |-> "idle"]
  /\ members = {} /\ registry = {}
  /\ told = [e \in Exercises |-> NoOne]
  /\ seen = [e \in Exercises |-> {}]
  /\ foreign = [e \in Exercises |-> 0]
  /\ delivered = 0

ReceiversNext ==
  \E e \in Exercises :
    \/ StartScoped(e) \/ StartOther(e) \/ Bind(e) \/ BindFails(e)
    \/ Started(e) \/ StartFails(e) \/ Close(e) \/ Shut(e)
    \/ Deliver(e) \/ Stray(e)

ReceiversSpec == ReceiversInit /\ [][ReceiversNext]_receiverVars

-----------------------------------------------------------------------------
(* "each one counts only what was addressed to it" (front-mux.ts), and "a  *)
(* retry aimed at a finished exercise" is never a delivery (scoped-        *)
(* receiver.ts). A shared fake may still meet a request that names no      *)
(* exercise; the modal receiver records all and sorts by webhook later.    *)
EachCountsItsOwn ==
  \A e \in Exercises : kind[e] # "modal" =>
    seen[e] \subseteq {e} \cup (IF kind[e] \in {"shared", "fake"} THEN {NoOne} ELSE {})

(* 2.39.4: a sibling still awaiting the bind must not have the listener    *)
(* shut under it by the close of the one it shares it with.                *)
LiveListenerStands ==
  \A e \in Exercises : stage[e] = "live" => socket[listener[e]] = "up"

-----------------------------------------------------------------------------
(***************************************************************************)
(* A host signs deliveries, re-sends some, and rotates its secret; the     *)
(* suite's receiver verifies whatever arrives, by the suite's own recipe   *)
(* (verifyWebhookDelivery) or by Standard Webhooks (verifyStandardWebhooks)*)
(* Any delivery on the wire may arrive late, repeatedly, or spoilt in one  *)
(* place. A signature is the secret, the stamp and the body it was made of.*)
(***************************************************************************)
CONSTANTS
  Bodies,
  SecretBytes,   \* SecretBytes[s]: how many key bytes secret s decodes to
  Tolerance,     \* the freshness window
  Skews,         \* by how much the host's clock may be off
  MaxClock,      \* bound on the receiver's clock
  MaxSent,       \* bound on the deliveries signed
  MaxVerified    \* bound on the deliveries verified

Secrets == DOMAIN SecretBytes
Spoilings == {"none", "body", "signature-form", "timestamp-form", "algorithm", "missing", "id-form"}

ASSUME SignaturesAssumption ==
  /\ SecretBytes \in [{"old", "new"} -> Nat]
  /\ Tolerance \in Nat /\ MaxClock \in Nat /\ MaxSent \in Nat /\ MaxVerified \in Nat
  /\ Skews \subseteq Int
  /\ "spoilt" \notin Bodies

VARIABLES
  scheme,     \* which of the two recipes the subscription uses
  skew,       \* host clock minus receiver clock
  receiverSecret,
  time,       \* the receiver's clock
  overlap,    \* the rotation: "before", "open" or "over"
  wire,       \* every delivery the host has signed
  acceptedSignatures,
  judged      \* history: <<delivery, spoiling, time, result>>

signatureVars == <<scheme, skew, receiverSecret, time, overlap, wire, acceptedSignatures, judged>>

(* decodeWhsec: a secret outside 24 to 64 bytes is none.                   *)
decodeWhsec(s) == SecretBytes[s] \in 24..64

signed(s, stamp, body) == [secret |-> s, stamp |-> stamp, body |-> body]

(* The secrets that sign now; two entries only while a rotation overlaps,  *)
(* and only in the scheme whose header lists entries.                      *)
Signers ==
  CASE overlap = "before" -> {"old"}
    [] overlap = "open" /\ scheme = "standard" -> {"old", "new"}
    [] OTHER -> {"new"}

-----------------------------------------------------------------------------
(* What the verifier recomputes over what it received.                     *)
expected(d, spoilt) ==
  signed(receiverSecret, d.stamp, IF spoilt = "body" THEN "spoilt" ELSE d.body)

Delta(d) == time - d.stamp

(* verifyWebhookDelivery, in the order it checks.                          *)
verifyWebhookDelivery(d, spoilt) ==
  CASE spoilt = "algorithm"                -> "wrong_algorithm"
    [] spoilt = "signature-form"           -> "malformed_signature_header"
    [] d.entries \subseteq acceptedSignatures -> "duplicate_signature"
    [] spoilt = "timestamp-form"           -> "malformed_timestamp_header"
    [] Delta(d) > Tolerance                -> "timestamp_expired"
    [] Delta(d) < -Tolerance               -> "timestamp_too_far_in_future"
    [] expected(d, spoilt) \notin d.entries -> "signature_mismatch"
    [] OTHER                               -> "accepted"

(* verifyStandardWebhooks: any one entry may match.                        *)
verifyStandardWebhooks(d, spoilt) ==
  CASE spoilt = "missing"                  -> "missing_headers"
    [] spoilt = "id-form"                  -> "malformed_id"
    [] spoilt = "timestamp-form"           -> "malformed_timestamp"
    [] Delta(d) \notin (-Tolerance)..Tolerance -> "timestamp_out_of_tolerance"
    [] ~decodeWhsec(receiverSecret)        -> "throws"
    [] spoilt = "signature-form" \/ expected(d, spoilt) \notin d.entries -> "no_matching_signature"
    [] OTHER                               -> "accepted"

(* Variant: a signature is remembered before it is compared. *)
RememberedWhenSeen(d, result) ==
  IF result \in {"accepted", "signature_mismatch"}
  THEN acceptedSignatures \cup d.entries ELSE acceptedSignatures

(* Only an accepted signature is remembered, and only by the first recipe. *)
Remembered(d, result) ==
  IF result = "accepted" THEN acceptedSignatures \cup d.entries ELSE acceptedSignatures

(* The spoilings a recipe can tell: the first has no id, the second no     *)
(* algorithm header.                                                       *)
SpoilingsOf(sch) ==
  Spoilings \ (IF sch = "openwop" THEN {"missing", "id-form"} ELSE {"algorithm"})

Verify(d, spoilt) ==
  /\ Cardinality(judged) < MaxVerified
  /\ LET result == IF scheme = "openwop" THEN verifyWebhookDelivery(d, spoilt)
                   ELSE verifyStandardWebhooks(d, spoilt)
     IN  /\ judged' = judged \cup
              {[delivery |-> d, spoilt |-> spoilt, time |-> time, result |-> result]}
         /\ acceptedSignatures' =
              IF scheme = "openwop" THEN Remembered(d, result) ELSE acceptedSignatures
  /\ UNCHANGED <<scheme, skew, receiverSecret, time, overlap, wire>>

(* signPayload and standardWebhooksSign, as the host would.                *)
Sign(body) ==
  /\ Cardinality(wire) < MaxSent
  /\ LET stamp == time + skew
     IN  wire' = wire \cup
           {[body |-> body, stamp |-> stamp,
             entries |-> {signed(s, stamp, body) : s \in Signers}]}
  /\ UNCHANGED <<scheme, skew, receiverSecret, time, overlap, acceptedSignatures, judged>>

Rotate ==
  /\ overlap' = CASE overlap = "before" -> "open" [] OTHER -> "over"
  /\ overlap # "over"
  /\ UNCHANGED <<scheme, skew, receiverSecret, time, wire, acceptedSignatures, judged>>

Pass ==
  /\ time < MaxClock /\ time' = time + 1
  /\ UNCHANGED <<scheme, skew, receiverSecret, overlap, wire, acceptedSignatures, judged>>

-----------------------------------------------------------------------------
SignaturesInit ==
  /\ scheme \in {"openwop", "standard"} /\ skew \in Skews
  /\ receiverSecret \in Secrets
  /\ time = 0 /\ overlap = "before" /\ wire = {}
  /\ acceptedSignatures = {} /\ judged = {}

SignaturesNext ==
  \/ \E body \in Bodies : Sign(body)
  \/ Rotate \/ Pass
  \/ \E d \in wire : \E spoilt \in SpoilingsOf(scheme) : Verify(d, spoilt)

SignaturesSpec == SignaturesInit /\ [][SignaturesNext]_signatureVars

-----------------------------------------------------------------------------
Genuine(v) ==
  /\ v.spoilt = "none"
  /\ signed(receiverSecret, v.delivery.stamp, v.delivery.body) \in v.delivery.entries
  /\ v.time - v.delivery.stamp \in (-Tolerance)..Tolerance

(* webhooks.md recipe: a delivery is accepted once it is genuine and       *)
(* prompt, whatever spoilt copies came before it; under the first recipe,  *)
(* once.                                                                   *)
AcceptedIfGenuine ==
  \A v \in judged :
    /\ v.result = "accepted" => Genuine(v)
    /\ Genuine(v) => v.result \in {"accepted", "duplicate_signature", "throws"}
    /\ v.result = "duplicate_signature" =>
         \E u \in judged : u.result = "accepted" /\ u.delivery.entries = v.delivery.entries
=============================================================================
