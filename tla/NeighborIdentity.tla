---------------------------- MODULE NeighborIdentity ---------------------------
(***************************************************************************)
(* What a snapshot says a neighbour on the network is: the weighing of     *)
(* what is known of it (backend/sse/device_identity.go), the names the     *)
(* DHCP server and /etc/hosts give it (backend/sse/metrics.go), and the    *)
(* cache between the two, which every snapshot goes through.               *)
(*                                                                         *)
(* Addresses, names and makers stand for what the code tells of them.      *)
(* Weights are in hundredths; a weight counts once, for the caller gives   *)
(* no services.                                                            *)
(***************************************************************************)
EXTENDS Integers, Sequences, FiniteSets, FiniteSetsExt

CONSTANTS
  Sights,          \* what a snapshot may find at the address, see Neighbor
  NameLists,       \* what the leases, the reservations and the hosts file say, in
                   \* the order they are read: sequences of Entry
  Inventories,     \* the type UNYPORT_DEVICE_TYPES gives the neighbour, or None
  CacheLimit       \* neighborCacheLimit (4096)

None == "none"
Roles == {"server", "router", "printer", "accesspoint", "router_wan"}

\* An entry for the neighbour's address, for its MAC, for both; its host is the
\* role deviceTypeForHostname finds in the name, "unknown" or None for no name.
Entry == [ip : BOOLEAN, mac : BOOLEAN, host : Roles \cup {"unknown", None}]

\* mac: what lookupOUI knows of it, a hypervisor, a maker of one kind of device,
\* another maker, nobody.
Neighbor ==
  [public : BOOLEAN, mac : {"virtual", "access point", "maker", "nobody"}, vif : BOOLEAN]

NotSeen == [public |-> FALSE, mac |-> None, vif |-> FALSE]

ASSUME IdentityAssumption ==
  /\ Sights \subseteq Neighbor
  /\ NameLists \subseteq Seq(Entry)
  /\ Inventories \subseteq STRING
  /\ CacheLimit \in Nat \ {0}

VARIABLES
  inventory,        \* of the process
  seen,             \* the neighbour in the last snapshot, and its hostname
  identity,         \* what that snapshot says of it
  identityCache     \* neighborIdentityCache.entries

identityVars == <<inventory, seen, identity, identityCache>>

Identity(type, sources, confidence) ==
  [type |-> type, sources |-> sources, confidence |-> confidence]

IdentityInit ==
  /\ inventory \in Inventories
  /\ seen = [neighbor |-> NotSeen, host |-> None]
  /\ identity = Identity("unknown", {"arp"}, 0)
  /\ identityCache = << >>

\* readKeaNeighborMetadata and metadataForNeighbor: the first named entry of the
\* address, else of the MAC.
hostname(names) ==
  LET named(key) == {i \in DOMAIN names : names[i][key] /\ names[i].host # None}
      first(S) == CHOOSE i \in S : \A j \in S : i <= j
  IN  IF named("ip") # {} THEN names[first(named("ip"))].host
      ELSE IF named("mac") # {} THEN names[first(named("mac"))].host
      ELSE None

isNetworkDeviceType(type) == type \notin {None, "unknown", "storage"}

Signal(when, source, type, weight) ==
  IF when THEN <<[source |-> source, type |-> type, weight |-> weight]>> ELSE << >>

Signals(n, host) ==
  Signal(isNetworkDeviceType(host), "dhcp", host, 65)
    \o Signal(n.public, "public-ip", "router_wan", 50)
    \o Signal(n.mac = "virtual", "mac", "server", 60)
    \o Signal(n.mac = "virtual", "oui", "server", 55)
    \o Signal(n.mac = "access point", "oui", "accesspoint", 55)
    \o Signal(n.vif, "interface", "server", 20)

Score(signals, type) ==
  LET weight == [i \in DOMAIN signals |-> signals[i].weight]
  IN  MapThenSumSet(LAMBDA i : weight[i], {i \in DOMAIN signals : signals[i].type = type})

SourcesOf(signals, type) ==
  {signals[i].source : i \in {j \in DOMAIN signals : signals[j].type = type}}

\* The strongest type, the first of equals; but a name that says more than
\* "server" beats "server".
Winner(signals, host) ==
  LET Wins(i) == \A j \in DOMAIN signals :
                   LET si == Score(signals, signals[i].type)
                       sj == Score(signals, signals[j].type)
                   IN  si > sj \/ (si = sj /\ i <= j)
                         \/ signals[i].type = signals[j].type
      strongest == signals[CHOOSE i \in DOMAIN signals : Wins(i)].type
  IN  IF strongest = "server" /\ isNetworkDeviceType(host) THEN host ELSE strongest

computeNeighborIdentity(n, host) ==
  LET signals == Signals(n, host)
      winner == Winner(signals, host)
      score == Score(signals, winner)
  IN  IF isNetworkDeviceType(inventory) THEN Identity(inventory, {"manual"}, 100)
      ELSE IF signals = << >> THEN Identity("unknown", {"arp"}, 0)
      ELSE Identity(winner, SourcesOf(signals, winner), IF score > 100 THEN 100 ELSE score)

\* Mistake: the name is not part of the key.
KeyWithoutHost(n, host) == <<n, None>>

\* The inventory is part of the key too, but it does not change.
Key(n, host) == <<n, host>>

\* neighborIdentityFor: from the cache, or computed and put there; a full cache is
\* emptied first.
NeighborSeen(n, host) ==
  LET key == Key(n, host)
      computed == computeNeighborIdentity(n, host)
      kept == IF Cardinality(DOMAIN identityCache) >= CacheLimit THEN {}
              ELSE DOMAIN identityCache
  IN  /\ seen' = [neighbor |-> n, host |-> host]
      /\ IF key \in DOMAIN identityCache
           THEN identity' = identityCache[key] /\ UNCHANGED identityCache
           ELSE /\ identity' = computed
                /\ identityCache' = [k \in kept \cup {key} |->
                                       IF k = key THEN computed ELSE identityCache[k]]
      /\ UNCHANGED inventory

\* Between two snapshots leases run out, hosts get other addresses, and another
\* machine may answer at the neighbour's.
IdentityNext ==
  \E n \in Sights, names \in NameLists : NeighborSeen(n, hostname(names))

IdentitySpec == IdentityInit /\ [][IdentityNext]_identityVars

-------------------------------------------------------------------------------
(* Correctness.                                                            *)

\* What a snapshot says of a neighbour follows from what is known of it now,
\* whatever the cache holds: the inventory if it gives a type; else a type that
\* something speaks for, with all that does as its sources; and nothing speaks
\* louder for another type, save for "server" where the name says more than that.
FollowsFromWhatIsKnown ==
  seen.neighbor # NotSeen =>
    LET signals == Signals(seen.neighbor, seen.host)
        Louder == {i \in DOMAIN signals :
                     Score(signals, signals[i].type) > Score(signals, identity.type)}
    IN  IF isNetworkDeviceType(inventory) THEN identity.type = inventory
        ELSE IF signals = << >> THEN identity.type = "unknown"
        ELSE /\ identity.sources # {}
             /\ identity.sources = SourcesOf(signals, identity.type)
             /\ identity.type = "server" => seen.host \in {"server", "unknown", None}
             /\ Louder = {} \/ ( /\ identity.type = seen.host
                                 /\ \A i \in Louder : signals[i].type = "server")
===============================================================================
