------------------------------ MODULE Registry ------------------------------
(***************************************************************************)
(* The directory of mediators, class RegistryServer::Impl (registry.cpp),  *)
(* and its federation: several registries that pull each other's listing.  *)
(*                                                                         *)
(* Every request runs under the one mutex of its registry and is one       *)
(* action.  A gossip pull is two: the peer builds its listing, and later   *)
(* the puller merges the answer.  The clock is steady_clock, counted in    *)
(* ticks; TicksPerSecond of them make the second in which times to live    *)
(* are given, so that what truncation loses is visible.  An entry keeps    *)
(* the ticks it has left instead of the time at which it expires.          *)
(*                                                                         *)
(* The operator reads LISTPENDING, which shows the certificate pins, and   *)
(* then sends APPROVE, which names an endpoint and no pin.                 *)
(***************************************************************************)
EXTENDS Integers, FiniteSets, Sequences, SequencesExt

CONSTANTS Registries,
          Endpoints,       \* registry_key of a node, numbers: listings sort them
          Pins,            \* certificate pins
          Requests,        \* triples <<registry, endpoint, pin>> that may register
          NoEntry, NoPin,
          Peers,           \* Peers[r]: the registries r pulls from
          Trusted,         \* pairs <<r, p>>: r has p as an auto_trust peer
          TicksPerSecond,
          Ttl,             \* kRegistryTtlSeconds
          Period,          \* ticks the gossip loop sleeps after a round
          Timeout,         \* ticks an answer may take to arrive
          MaxNodes,        \* kMaxRegistryNodes
          MaxCached,       \* kMaxGossipCachedNodes
          MaxHops          \* hops are counted up to this many

ASSUME RegistryAssumption ==
    /\ Endpoints \subseteq Nat /\ IsFiniteSet(Endpoints)
    /\ NoPin \notin Pins
    /\ Requests \subseteq Registries \X Endpoints \X Pins
    /\ Peers \in [Registries -> SUBSET Registries]
    /\ Timeout \in Nat
    /\ NoEntry \notin [pin : Pins, left : Nat, status : {"Pending", "Approved"},
                      shown : BOOLEAN, vetted : Pins \cup {NoPin}, hops : Nat]
    /\ {TicksPerSecond, Ttl, Period, MaxNodes, MaxCached, MaxHops}
           \subseteq Nat \ {0}

VARIABLES
    entries,   \* entries_: what registered here directly
    gossip,    \* gossip_entries_: what the peers listed
    pull,      \* the listing a registry is waiting for, and for how long
    todo,      \* peers left in this round of gossip_loop
    sleep,     \* ticks until the gossip loop starts its next round
    seen,      \* history: the pins on the operator's last listing, by endpoint
    age        \* history: ticks since an endpoint last registered anywhere

registryVars == <<entries, gossip, pull, todo, sleep, seen, age>>

-----------------------------------------------------------------------------
Lifetime == Ttl * TicksPerSecond

\* What an entry may gain beyond its time to live on one hop: the time the
\* answer travelled and less than a second of rounding.
HopGain == Timeout + TicksPerSecond

\* Older than this an endpoint need not be told apart.
OldAge == Lifetime + (MaxHops - 1) * HopGain + 1

\* RegistryEntry.  Three fields are not in the code: `shown`, the entry was on
\* the operator's listing while it was pending; `vetted`, the pin that the
\* listing the operator approved from had for the endpoint; `hops`, from how
\* many registries the entry was passed on.
Entry == [pin : Pins, left : 0..Lifetime, status : {"Pending", "Approved"},
          shown : BOOLEAN, vetted : Pins \cup {NoPin}, hops : 0..MaxHops]

\* The lines of the direct registrations and of the copies.
Lines == [direct : [Endpoints -> Pins \cup {NoPin}],
          copies : [Endpoints -> Pins \cup {NoPin}]]

\* RegistryNode in a listing.
Node == [key : Endpoints, pin : Pins, ttl : 1..Ttl, hops : 0..MaxHops]

Idle == [peer |-> NoEntry, nodes |-> {}, waited |-> 0]

Keys(map) == {k \in DOMAIN map : map[k] # NoEntry}

\* remove_expired_from_locked.
Unexpired(map) ==
    [k \in DOMAIN map |-> IF map[k] # NoEntry /\ map[k].left = 0 THEN NoEntry
                                                                ELSE map[k]]

\* remove_expired_locked, which every request but APPROVE, REJECT and the
\* merging of gossip starts with.
RemoveExpired(r) ==
    /\ entries' = [entries EXCEPT ![r] = Unexpired(@)]
    /\ gossip' = [gossip EXCEPT ![r] = Unexpired(@)]

Larger(m, n) == IF m < n THEN n ELSE m
Smaller(m, n) == IF m < n THEN m ELSE n

\* append_approved of snapshot(): approved entries, whole seconds left, but
\* never zero.
Listed(map) ==
    {[key |-> k, pin |-> map[k].pin, hops |-> map[k].hops,
      ttl |-> Larger(1, map[k].left \div TicksPerSecond)] :
        k \in {k \in Keys(Unexpired(map)) : map[k].status = "Approved"}}

\* snapshot(): the answer to RegistryList and the content of the state file.
Snapshot(r) == Listed(entries[r]) \cup Listed(gossip[r])

NoLines == LET none == [k \in Endpoints |-> NoPin]
           IN  [direct |-> none, copies |-> none]

RegistryInit ==
    /\ entries = [r \in Registries |-> [k \in Endpoints |-> NoEntry]]
    /\ gossip = [r \in Registries |-> [k \in Endpoints |-> NoEntry]]
    /\ pull = [r \in Registries |-> Idle]
    /\ todo = Peers
    /\ sleep = [r \in Registries |-> 0]
    /\ seen = [r \in Registries |-> NoLines]
    /\ age = [k \in Endpoints |-> OldAge]

-----------------------------------------------------------------------------
\* A refresh replaces the pin.
PinUnchangedMutant(map, k, pin) == TRUE

\* "endpoint is already registered with a different certificate pin".
PinUnchanged(map, k, pin) == map[k] # NoEntry => map[k].pin = pin

\* What register_node writes: a known key keeps its status.
Refreshed(map, k, pin) ==
    IF map[k] # NoEntry THEN [map[k] EXCEPT !.pin = pin, !.left = Lifetime]
    ELSE [pin |-> pin, left |-> Lifetime, status |-> "Pending",
          shown |-> FALSE, vetted |-> NoPin, hops |-> 0]

\* register_node for one request of run_registry_heartbeat, which may stop at
\* any time, or of anyone: the request is not authenticated.  A refused request
\* still collects.
RegisterNode(r, k, pin) ==
    LET live == Unexpired(entries[r])
    IN  /\ PinUnchanged(live, k, pin)
        /\ live[k] # NoEntry \/ Cardinality(Keys(live)) < MaxNodes
        /\ entries' = [entries EXCEPT ![r] =
                           [live EXCEPT ![k] = Refreshed(live, k, pin)]]
        /\ gossip' = [gossip EXCEPT ![r] = Unexpired(@)]
        /\ age' = [age EXCEPT ![k] = 0]
        /\ UNCHANGED <<pull, todo, sleep, seen>>

\* RegistryList, a refused registration and the snapshot thread change nothing
\* but this.
CollectExpired(r) ==
    /\ RemoveExpired(r)
    /\ <<entries, gossip>>' # <<entries, gossip>>
    /\ UNCHANGED <<pull, todo, sleep, seen, age>>

\* LISTPENDING: key and pin of what is pending, from both maps.
IsPending(map, k) == map[k] # NoEntry /\ map[k].status = "Pending"

PinsOf(map) ==
    [k \in Endpoints |-> IF IsPending(map, k) THEN map[k].pin ELSE NoPin]

Shown(map) ==
    [k \in Endpoints |-> IF IsPending(map, k) THEN [map[k] EXCEPT !.shown = TRUE]
                         ELSE map[k]]

ListPending(r) ==
    LET direct == Unexpired(entries[r])
        copies == Unexpired(gossip[r])
    IN  /\ entries' = [entries EXCEPT ![r] = Shown(direct)]
        /\ gossip' = [gossip EXCEPT ![r] = Shown(copies)]
        /\ seen' = [seen EXCEPT ![r] = [direct |-> PinsOf(direct),
                                        copies |-> PinsOf(copies)]]
        /\ UNCHANGED <<pull, todo, sleep, age>>

\* APPROVE and REJECT look in entries_ first, then in gossip_entries_.  What is
\* pending is approved for what the operator read about the endpoint.
Approved(map, k, pins) ==
    [map EXCEPT ![k].status = "Approved",
                ![k].vetted = IF IsPending(map, k) THEN pins[k] ELSE @]

Approve(r, k) ==
    /\ IF entries[r][k] # NoEntry
       THEN /\ entries' = [entries EXCEPT ![r] = Approved(@, k, seen[r].direct)]
            /\ UNCHANGED gossip
       ELSE /\ gossip[r][k] # NoEntry
            /\ gossip' = [gossip EXCEPT ![r] = Approved(@, k, seen[r].copies)]
            /\ UNCHANGED entries
    /\ UNCHANGED <<pull, todo, sleep, seen, age>>

Reject(r, k) ==
    /\ IF entries[r][k] # NoEntry
       THEN /\ entries' = [entries EXCEPT ![r][k] = NoEntry]
            /\ UNCHANGED gossip
       ELSE /\ gossip[r][k] # NoEntry
            /\ gossip' = [gossip EXCEPT ![r][k] = NoEntry]
            /\ UNCHANGED entries
    /\ UNCHANGED <<pull, todo, sleep, seen, age>>

-----------------------------------------------------------------------------
\* gossip_loop, for one peer: the peer answers RegistryList ...
PullListing(r, p) ==
    /\ sleep[r] = 0
    /\ pull[r] = Idle
    /\ p \in todo[r]
    /\ pull' = [pull EXCEPT ![r] = [peer |-> p, nodes |-> Snapshot(p),
                                    waited |-> 0]]
    /\ entries' = [entries EXCEPT ![p] = Unexpired(@)]
    /\ gossip' = [gossip EXCEPT ![p] = Unexpired(@)]
    /\ UNCHANGED <<todo, sleep, seen, age>>

\* evict_soonest_expiring_gossip_entry_locked; ties fall as the map iterates.
Evictions(map) ==
    {[map EXCEPT ![k] = NoEntry] :
        k \in {k \in Keys(map) :
                  \A j \in Keys(map) : map[k].left <= map[j].left}}

\* The copy lives as long as a fresh registration.
CopyLifetimeMutant(ttl) == Lifetime

\* The life of a copy: what the peer said is left, but at least a second.
CopyLifetime(ttl) == TicksPerSecond * Larger(1, Smaller(ttl, Ttl))

\* A new key of a full cache pushes out the entry that would expire first.
RoomFor(map, k) ==
    IF map[k] = NoEntry /\ Cardinality(Keys(map)) >= MaxCached
    THEN Evictions(map) ELSE {map}

\* One iteration of the merging loop: what is cached keeps its status, the rest
\* of it is replaced, its pin included.
FirstCopy(r, p, n) ==
    [pin |-> n.pin, left |-> 0, shown |-> FALSE, vetted |-> NoPin, hops |-> 0,
     status |-> IF <<r, p>> \in Trusted THEN "Approved" ELSE "Pending"]

Merge(r, p, map, n) ==
    LET copy == IF map[n.key] # NoEntry THEN map[n.key] ELSE FirstCopy(r, p, n)
    IN  {[m EXCEPT ![n.key] =
            [copy EXCEPT !.pin = n.pin, !.left = CopyLifetime(n.ttl),
                         !.hops = Smaller(n.hops + 1, MaxHops)]] :
            m \in RoomFor(map, n.key)}

\* The orders in which std::sort may leave a listing: by key, where a key
\* that is in both pools of the peer comes twice.
Sorted(nodes) ==
    {s \in SetToSeqs(nodes) :
        \A i, j \in DOMAIN s : i < j => s[i].key <= s[j].key}

\* The last peer of a round is followed by the pause.
PullDone(r) ==
    LET left == todo[r] \ {pull[r].peer}
    IN  /\ pull' = [pull EXCEPT ![r] = Idle]
        /\ todo' = [todo EXCEPT ![r] = IF left = {} THEN Peers[r] ELSE left]
        /\ sleep' = [sleep EXCEPT ![r] = IF left = {} THEN Period ELSE 0]

\* ... and the answer is merged whenever it arrives,
MergeListing(r) ==
    /\ pull[r] # Idle
    /\ \E s \in Sorted(pull[r].nodes) :
           \E m \in FoldLeft(LAMBDA maps, n :
                                UNION {Merge(r, pull[r].peer, g, n) : g \in maps},
                             {gossip[r]}, s) :
               gossip' = [gossip EXCEPT ![r] = m]
    /\ PullDone(r)
    /\ UNCHANGED <<entries, seen, age>>

\* ... or the pull fails, which is only logged.
PullFails(r) ==
    /\ pull[r] # Idle
    /\ PullDone(r)
    /\ UNCHANGED <<entries, gossip, seen, age>>

\* Time passes, but no answer is waited for longer than the channel's timeout.
Older(map) ==
    [k \in Endpoints |-> IF map[k] = NoEntry THEN NoEntry
                         ELSE [map[k] EXCEPT !.left = Larger(0, @ - 1)]]

Tick ==
    /\ \A r \in Registries : pull[r] # Idle => pull[r].waited < Timeout
    /\ entries' = [r \in Registries |-> Older(entries[r])]
    /\ gossip' = [r \in Registries |-> Older(gossip[r])]
    /\ pull' = [r \in Registries |->
                   IF pull[r] = Idle THEN Idle
                   ELSE [pull[r] EXCEPT !.waited = @ + 1]]
    /\ sleep' = [r \in Registries |-> Larger(0, sleep[r] - 1)]
    /\ age' = [k \in Endpoints |-> Smaller(age[k] + 1, OldAge)]
    /\ UNCHANGED <<todo, seen>>

-----------------------------------------------------------------------------
RegistryNext ==
    \/ \E q \in Requests : RegisterNode(q[1], q[2], q[3])
    \/ \E r \in Registries :
          \/ \E k \in Endpoints : Approve(r, k) \/ Reject(r, k)
          \/ CollectExpired(r) \/ ListPending(r)
          \/ \E p \in Peers[r] : PullListing(r, p)
          \/ MergeListing(r)
          \/ PullFails(r)
    \/ Tick

RegistrySpec == RegistryInit /\ [][RegistryNext]_registryVars

-----------------------------------------------------------------------------
RegistryTypeOK ==
    /\ entries \in [Registries -> [Endpoints -> Entry \cup {NoEntry}]]
    /\ gossip \in [Registries -> [Endpoints -> Entry \cup {NoEntry}]]
    /\ \A r \in Registries :
          /\ pull[r].peer \in Peers[r] \cup {NoEntry}
          /\ pull[r].nodes \subseteq Node
          /\ pull[r].waited \in 0..Timeout
    /\ todo \in [Registries -> SUBSET Registries]
    /\ sleep \in [Registries -> 0..Period]
    /\ seen \in [Registries -> Lines]
    /\ age \in [Endpoints -> 0..OldAge]

\* The two pools of snapshot() are bounded on their own, so gossip never takes
\* a place of a direct registration.
PoolsBounded ==
    \A r \in Registries : /\ Cardinality(Keys(entries[r])) <= MaxNodes
                          /\ Cardinality(Keys(gossip[r])) <= MaxCached

\* A registration that the operator has seen and approved has the pin it was
\* listed with, whatever was registered for its endpoint between the listing
\* and APPROVE, which names no pin, and ever after ("prevents an
\* unauthenticated refresh from silently replacing the pin of a live endpoint",
\* register_node).  A registration that took the place of the one that was
\* listed, and a copy, have no such protection: see the next two.
ApprovalKeepsPin ==
    \A r \in Registries : \A k \in Keys(entries[r]) :
        entries[r][k].status = "Approved" /\ entries[r][k].shown
            => entries[r][k].vetted = entries[r][k].pin

\* An operator who approves an endpoint from the listing approves the
\* certificate on it: not when the registration expired or was rejected, and
\* another one took its place, before APPROVE arrived.
ApprovesWhatWasListed ==
    \A r \in Registries : \A k \in Keys(entries[r]) :
        entries[r][k].vetted \in {NoPin, entries[r][k].pin}

\* A copy needs "your own `--admin-token` approval first, exactly like a direct
\* registration" (README.md), yet its approval does not stay with its pin.
CopiesKeepPin ==
    \A r \in Registries : \A k \in Keys(gossip[r]) :
        gossip[r][k].vetted \in {NoPin, gossip[r][k].pin}

\* "a peer that stays unreachable just has its previously cached entries expire
\* on their own TTL": although registries that pull from each other feed copies
\* back, late and rounded up, no listing names an endpoint that has sent no
\* heartbeat for its time to live and what each hop of the copy may add.
NoStaleListing ==
    \A r \in Registries : \A n \in Snapshot(r) :
        n.hops < MaxHops => age[n.key] <= Lifetime + n.hops * HopGain

\* "Never re-shares a gossip-learned entry with ITS OWN peers": what a registry
\* caches was registered directly with the peer it was pulled from.
SingleHop ==
    \A r \in Registries : \A k \in Keys(gossip[r]) : gossip[r][k].hops <= 1
=============================================================================
