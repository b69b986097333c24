------------------------------- MODULE RdapCache -------------------------------
(***************************************************************************)
(* Who operates the network of a public neighbour: the RDAP lookups of     *)
(* backend/sse/metrics.go. Every snapshot asks the cache for every         *)
(* neighbour; what is missing or too old is looked up in a goroutine of    *)
(* its own, while snapshots go on without it.                              *)
(***************************************************************************)
EXTENDS Integers, Sequences

CONSTANTS
  Neighbors,       \* public addresses: isPublicNeighborIP
  Payloads,        \* answers that parse, as records [entities, name]
  Day, Hour,       \* how long a lookup that succeeded or failed is kept
  MaxInstant, MaxRunning

\* The empty text of the code.
Unnamed == "unnamed"

ASSUME RdapAssumption ==
  /\ Hour \in Nat \ {0} /\ Day \in Nat /\ Hour <= Day /\ MaxInstant \in Nat
  /\ \A p \in Payloads : p.name # Unnamed

VARIABLES
  instant,
  entries,     \* ispRDAPCache.entries
  inFlight,    \* ispRDAPCache.inFlight
  running,     \* the number of goroutines in refreshISPMetadata for each address
  learned      \* history: when a lookup last found the operator, and which

rdapVars == <<instant, entries, inFlight, running, learned>>

NoEntry == [operator |-> Unnamed, expires |-> 0]

RdapInit ==
  /\ instant = 0
  /\ entries = [ip \in Neighbors |-> NoEntry]
  /\ inFlight = {}
  /\ running = [ip \in Neighbors |-> 0]
  /\ learned = [ip \in Neighbors |-> [operator |-> Unnamed, at |-> 0]]

\* parseISPMetadata: the first registrant that is an organisation, else the last
\* registrant with a name, else the name of the network.
Registrants(p) ==
  {i \in DOMAIN p.entities : p.entities[i].registrant /\ p.entities[i].fn # Unnamed}

parseISPMetadata(p) ==
  LET orgs == {i \in Registrants(p) : p.entities[i].kind = "org"}
      first == CHOOSE i \in orgs : \A j \in orgs : i <= j
      last == CHOOSE i \in Registrants(p) : \A j \in Registrants(p) : j <= i
  IN  IF orgs # {} THEN p.entities[first].fn
      ELSE IF Registrants(p) # {} THEN p.entities[last].fn
      ELSE p.name

Cached(ip) == instant < entries[ip].expires

\* Mistake: the mark of a lookup in flight is not looked at.
LooksUpAlways(ip) == ~Cached(ip)

LooksUp(ip) == ~Cached(ip) /\ ip \notin inFlight

\* ispMetadataForPublicNeighbor: may start a lookup. A snapshot shows the operator
\* only if it is cached.
Sight(ip) ==
  /\ IF LooksUp(ip)
       THEN /\ running[ip] < MaxRunning
            /\ inFlight' = inFlight \cup {ip}
            /\ running' = [running EXCEPT ![ip] = @ + 1]
       ELSE UNCHANGED <<inFlight, running>>
  /\ UNCHANGED <<instant, entries, learned>>

Shown(ip) == IF Cached(ip) THEN entries[ip].operator ELSE Unnamed

\* refreshISPMetadata, when fetchISPMetadata comes back.
Refresh(ip, operator, ttl) ==
  /\ running[ip] > 0
  /\ entries' = [entries EXCEPT ![ip] = [operator |-> operator, expires |-> instant + ttl]]
  /\ inFlight' = inFlight \ {ip}
  /\ running' = [running EXCEPT ![ip] = @ - 1]
  /\ UNCHANGED instant

LookupSucceeds(ip, p) ==
  /\ Refresh(ip, parseISPMetadata(p), Day)
  /\ learned' = [learned EXCEPT ![ip] = [operator |-> parseISPMetadata(p), at |-> instant]]

\* No answer in time, a bad status, a body that does not parse: what was known
\* before is overwritten with nothing.
LookupFails(ip) == Refresh(ip, Unnamed, Hour) /\ UNCHANGED learned

PassTime ==
  /\ instant < MaxInstant
  /\ instant' = instant + 1
  /\ UNCHANGED <<entries, inFlight, running, learned>>

RdapNext ==
  \/ PassTime
  \/ \E ip \in Neighbors :
       \/ Sight(ip)
       \/ \E p \in Payloads : LookupSucceeds(ip, p)
       \/ LookupFails(ip)

RdapSpec == RdapInit /\ [][RdapNext]_rdapVars

-------------------------------------------------------------------------------
(* Correctness.                                                            *)

\* The comment of ispMetadataForPublicNeighbor: once a lookup has found the
\* operator, every snapshot of the next 24 hours shows it. No other lookup can
\* come back in that time, late or failed, and take it away.
OperatorShownForADay ==
  \A ip \in Neighbors :
    learned[ip].operator # Unnamed /\ instant < learned[ip].at + Day =>
      Shown(ip) = learned[ip].operator

\* What it takes: one goroutine for each address in flight, and none for an
\* address whose entry has not expired.
Operators == {Unnamed} \cup {parseISPMetadata(p) : p \in Payloads}

RdapInv ==
  /\ instant \in Nat
  /\ entries \in [Neighbors -> [operator : Operators, expires : Nat]]
  /\ inFlight \subseteq Neighbors
  /\ running \in [Neighbors -> {0, 1}]
  /\ learned \in [Neighbors -> [operator : Operators, at : Nat]]
  /\ \A ip \in Neighbors :
       /\ ip \in inFlight <=> running[ip] = 1
       /\ ip \in inFlight => ~Cached(ip)
       /\ learned[ip].operator # Unnamed /\ instant < learned[ip].at + Day =>
            /\ entries[ip].operator = learned[ip].operator
            /\ entries[ip].expires = learned[ip].at + Day
===============================================================================
