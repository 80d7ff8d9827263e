------------------------------ MODULE HubAccess ------------------------------
(***************************************************************************)
(* internal/hubapi: pairing a device (DeviceTokenStore.Start and Claim      *)
(* behind their handlers), the bearer check in front of the read API, and   *)
(* the enrolment of a host, whose ingest token goes to the token database.  *)
(*                                                                          *)
(* Handlers run concurrently: each request is a process that stops at the   *)
(* points where it holds no lock.  Device tokens and pairings live in       *)
(* memory and go with the hub; ingest tokens are on disk.  A token is the   *)
(* number of its minting; pairing codes are few, so that codes meet.        *)
(***************************************************************************)
EXTENDS Naturals, Sequences, FiniteSets, FiniteSetsExt, Functions

CONSTANTS
  Requests,   \* the requests clients send to /v1/devices/pair and /v1/hosts
  Codes,      \* pairing codes
  Hosts,      \* host ids
  PairingTTL, \* pairingTTL
  MaxWall,    \* bound on the clock
  MaxBoots    \* bound on the starts of the hub

ASSUME AccessAssumption == PairingTTL \in Nat

VARIABLES
  wall,       \* time.Now()
  boot,       \* which start of the hub this is
  req,        \* the requests in flight
  hashes,     \* DeviceTokenStore.hashes
  pairings,   \* DeviceTokenStore.pairings
  ingest,     \* the token database, its rows in the order of their ids
  enrolled,   \* every host and token an answer of /v1/hosts carried
  minted,     \* how many tokens were generated
  claims      \* every successful answer of /v1/devices/claim

accessVars == <<wall, boot, req, hashes, pairings, ingest, enrolled, minted, claims>>

NoRequest == [at |-> "idle", token |-> 0]

AccessInit ==
  /\ wall = 1
  /\ boot = 1
  /\ req = [r \in Requests |-> NoRequest]
  /\ hashes = {}
  /\ pairings = <<>>
  /\ ingest = <<>>
  /\ enrolled = {}
  /\ minted = 0
  /\ claims = {}

Claimable(p) == ~p.claimed /\ p.expiresAt >= wall

\* gcLocked: what is claimed or past its time is forgotten.
Gc(ps) == Restrict(ps, {c \in DOMAIN ps : Claimable(ps[c])})

\* bearerToken and Lookup of the token a request presents.
Lookup(token) == token \in hashes

\* handleDevicePair up to the call of Start: the first pairing presents none.
DevicePair(r, token) ==
  /\ req[r].at = "idle"
  /\ hashes # {} => Lookup(token)
  /\ req' = [req EXCEPT ![r] = [at |-> "start", token |-> minted + 1]]
  /\ minted' = minted + 1
  /\ UNCHANGED <<wall, boot, hashes, pairings, ingest, enrolled, claims>>

\* The hash is stored after the code is filed.
StartAddTokenLate(r) ==
  /\ req[r].at = "start"
  /\ req' = [req EXCEPT ![r].at = "file"]
  /\ UNCHANGED <<wall, boot, hashes, pairings, ingest, enrolled, minted, claims>>

\* Start, first half: addToken under the lock of the hashes.
StartAddToken(r) ==
  /\ req[r].at = "start"
  /\ hashes' = hashes \cup {req[r].token}
  /\ req' = [req EXCEPT ![r].at = "file"]
  /\ UNCHANGED <<wall, boot, pairings, ingest, enrolled, minted, claims>>

\* Start, second half: the record is filed under the lock of the pairings,
\* over one that has the same code.
StartFile(r, code) ==
  /\ req[r].at = "file"
  /\ LET p == [token |-> req[r].token, expiresAt |-> wall + PairingTTL, claimed |-> FALSE]
         kept == Gc(pairings)
     IN  pairings' = [c \in DOMAIN kept \cup {code} |-> IF c = code THEN p ELSE kept[c]]
  /\ req' = [req EXCEPT ![r] = NoRequest]
  /\ UNCHANGED <<wall, boot, hashes, ingest, enrolled, minted, claims>>

Claimed(code) == [token |-> pairings[code].token, at |-> wall,
                  expiresAt |-> pairings[code].expiresAt, boot |-> boot]

\* A code stays good until its record is collected.
DeviceClaimAgain(code) ==
  /\ code \in DOMAIN pairings
  /\ wall <= pairings[code].expiresAt
  /\ pairings' = pairings
  /\ claims' = claims \cup {Claimed(code)}
  /\ UNCHANGED <<wall, boot, req, hashes, ingest, enrolled, minted>>

\* handleDeviceClaim and Claim: collects first, then answers with the token
\* once.
DeviceClaim(code) ==
  /\ LET kept == Gc(pairings)
     IN  IF code \in DOMAIN kept
           THEN /\ pairings' = [kept EXCEPT ![code].claimed = TRUE]
                /\ claims' = claims \cup {Claimed(code)}
           ELSE /\ pairings' = kept
                /\ UNCHANGED claims
  /\ UNCHANGED <<wall, boot, req, hashes, ingest, enrolled, minted>>

\* The token store: a row for every token; the first that matches decides.
AddToken(host, token) == ingest' = Append(ingest, [host |-> host, token |-> token])

IngestLookup(token) ==
  LET matching == {i \in DOMAIN ingest : ingest[i].token = token}
  IN  IF matching = {} THEN "" ELSE ingest[Min(matching)].host

\* handleCreateHost: a valid device token is always asked for; the ingest
\* token is written to the token database before the answer carries it.
CreateHost(r, token, host) ==
  /\ req[r].at = "idle"
  /\ Lookup(token)
  /\ minted' = minted + 1
  /\ AddToken(host, minted + 1)
  /\ enrolled' = enrolled \cup {[host |-> host, token |-> minted + 1]}
  /\ UNCHANGED <<wall, boot, req, hashes, pairings, claims>>

Wait ==
  /\ wall < MaxWall
  /\ wall' = wall + 1
  /\ UNCHANGED <<boot, req, hashes, pairings, ingest, enrolled, minted, claims>>

\* The hub stops and starts: its requests, device tokens and pairings are
\* gone, the token database is read again.
RestartAccess ==
  /\ boot < MaxBoots
  /\ boot' = boot + 1
  /\ req' = [r \in Requests |-> NoRequest]
  /\ hashes' = {}
  /\ pairings' = <<>>
  /\ UNCHANGED <<wall, ingest, enrolled, minted, claims>>

MaxMinted == Cardinality(Requests) + 1

AccessNext ==
  \/ \E r \in Requests, t \in 0 .. MaxMinted :
       minted < MaxMinted /\ (DevicePair(r, t) \/ \E h \in Hosts : CreateHost(r, t, h))
  \/ \E r \in Requests : StartAddToken(r)
  \/ \E r \in Requests, c \in Codes : StartFile(r, c)
  \/ \E c \in Codes : DeviceClaim(c)
  \/ Wait
  \/ RestartAccess

AccessSpec == AccessInit /\ [][AccessNext]_accessVars

-----------------------------------------------------------------------------
AccessTypeOK ==
  /\ wall \in 1 .. MaxWall
  /\ boot \in 1 .. MaxBoots
  /\ req \in [Requests -> [at : {"idle", "start", "file"}, token : 0 .. MaxMinted]]
  /\ hashes \subseteq 1 .. MaxMinted
  /\ DOMAIN pairings \subseteq Codes
  /\ enrolled \subseteq [host : Hosts, token : 1 .. MaxMinted]
  /\ Range(ingest) = enrolled

\* A pairing code is exchanged for its token once, before it expires, and
\* the token it yields is one the read API accepts for as long as this hub
\* runs: whatever other pairings, collisions of codes or restarts do.  An ingest
\* token a host was given names that host for good.
ClaimedOnceAndUsable ==
  /\ \A a, b \in claims : a.token = b.token => a = b
  /\ \A a \in claims : a.at <= a.expiresAt /\ (a.boot = boot => Lookup(a.token))
  /\ \A e \in enrolled : IngestLookup(e.token) = e.host
=============================================================================
