------------------------------ MODULE Ingress ------------------------------
(***************************************************************************)
(* The public edge: the route of a hostname is derived from the live rows  *)
(* of its service (ingress/routes.ts), cached in Redis, and dropped by     *)
(* most of those who change those rows.  Services may also own an          *)
(* additional hostname (api/domains.routes.ts), which is one alias here.   *)
(*                                                                         *)
(* A reader and a writer are separate processes: the reader's selects, its *)
(* write of the cache, the writer's transaction and its invalidation are   *)
(* four steps that may fall in any order.                                  *)
(***************************************************************************)
EXTENDS Naturals, FiniteSets

CONSTANTS Services, Sites,   \* public services, and the nodes of their fleet
          Alias,             \* the additional hostname
          Unattached,            \* the alias belongs to no service, or is not verified
          MaxPlacements      \* bound: changes of the rows, the alias or an address

ASSUME IngressAssumption == Alias \notin Services /\ Unattached \notin Services /\ MaxPlacements \in Nat

\* A service's managed hostname is named for it.
Names == Services \cup {Alias}

VARIABLES live,          \* per service, its live rows
          attached,      \* the service the alias routes to
          moved,         \* per node, whether it reported another address
          cache,         \* route:<hostname>
          lookup,        \* per hostname, what resolveRoute has read and not yet cached
          pending,       \* the invalidations still to run: of a service, or of the alias
          placements,
          excused        \* history: hostnames whose cached route something else explains

ingressVars == <<live, attached, moved, cache, lookup, pending, placements, excused>>

Statuses == {"deploying", "running"}
Row == [site : Sites, status : Statuses]

\* A cached value: nothing, the cached miss, or where the equally good rows are.
Absent == [kind |-> "absent"]
Miss   == [kind |-> "none"]
Upstreams == [site : Sites, moved : BOOLEAN]
Routes(ups) == [kind |-> "routes", ups |-> ups]
Cached == {Miss} \cup {Routes(u) : u \in (SUBSET Upstreams) \ {{}}}

IngressTypeOK ==
  /\ live \in [Services -> SUBSET Row]
  /\ attached \in Services \cup {Unattached}
  /\ moved \in [Sites -> BOOLEAN]
  /\ cache \in [Names -> Cached \cup {Absent}]
  /\ lookup \in [Names -> Cached \cup {Absent}]
  /\ pending \subseteq Names
  /\ placements \in 0..MaxPlacements /\ excused \subseteq Names

IngressInit ==
  /\ live = [s \in Services |-> {}] /\ attached = Unattached
  /\ moved = [n \in Sites |-> FALSE]
  /\ cache = [n \in Names |-> Absent] /\ lookup = [n \in Names |-> Absent]
  /\ pending = {} /\ placements = 0 /\ excused = {}

Owner(name) == IF name = Alias THEN attached ELSE name

\* Rows of the proven status if there are any, else those being checked.
Best(rows) ==
  LET proven == {r \in rows : r.status = "running"} IN IF proven # {} THEN proven ELSE rows

\* What the selects of resolveRoute come to at this moment.
Resolve(name) ==
  IF Owner(name) = Unattached \/ live[Owner(name)] = {} THEN Miss
  ELSE Routes({[site |-> r.site, moved |-> moved[r.site]] : r \in Best(live[Owner(name)])})

Current(value, name) == value \in {Absent, Resolve(name)}

-----------------------------------------------------------------------------
(* A request for a hostname.  With a cached value nothing changes.         *)

BeginLookup(name) ==
  /\ cache[name] = Absent /\ lookup[name] = Absent
  /\ lookup' = [lookup EXCEPT ![name] = Resolve(name)]
  /\ UNCHANGED <<live, attached, moved, cache, pending, placements, excused>>

\* The set of what was read, which may be what a writer has changed since.
FillCache(name) ==
  /\ lookup[name] # Absent
  /\ cache' = [cache EXCEPT ![name] = lookup[name]]
  /\ lookup' = [lookup EXCEPT ![name] = Absent]
  /\ excused' = IF Current(lookup[name], name) THEN excused \ {name} ELSE excused \cup {name}
  /\ UNCHANGED <<live, attached, moved, pending, placements>>

\* Mutation of Expiring: the cached miss is set without an expiry.
ExpiringRoutes(value) == value.kind = "routes"

\* The keys whose TTL runs out: every one, 30 seconds or 5 after it was set.
Expiring(value) == value # Absent

Expire(name) ==
  /\ Expiring(cache[name])
  /\ cache' = [cache EXCEPT ![name] = Absent] /\ excused' = excused \ {name}
  /\ UNCHANGED <<live, attached, moved, lookup, pending, placements>>

-----------------------------------------------------------------------------
(* The writers that commit their rows and then invalidate.                 *)

Change == placements < MaxPlacements /\ placements' = placements + 1

\* Mutation of Dropped: only the managed hostname is dropped.
DroppedByName(what) == {what}

\* invalidateRoutesForService: the hostnames of the service, read after the commit.
Dropped(what) == IF what = Alias THEN {Alias} ELSE {n \in Names : Owner(n) = what}

Announce(what) == pending' = pending \cup {what}

Invalidate ==
  \E what \in pending :
    /\ pending' = pending \ {what}
    /\ cache' = [n \in Names |-> IF n \in Dropped(what) THEN Absent ELSE cache[n]]
    /\ excused' = excused \ Dropped(what)
    /\ UNCHANGED <<live, attached, moved, lookup, placements>>

\* Bound: the rows live at one time.
MaxLive == 2

Rewrite(s, rows) == /\ Change /\ rows # live[s] /\ Cardinality(rows) <= MaxLive
                    /\ live' = [live EXCEPT ![s] = rows]

Checked(n) == {[site |-> n, status |-> "deploying"]}
Proven(r)  == {[r EXCEPT !.status = "running"]}

Announced(s) == Announce(s) /\ UNCHANGED <<attached, moved, cache, lookup, excused>>

\* Rows replaced by one that is being checked: a push ends them all; a restart, a
\* rollback, a move, a failover or the watchdog one of them.
Relocate(s, n) ==
  \E ended \in (SUBSET live[s]) \ {{}} : Rewrite(s, (live[s] \ ended) \cup Checked(n)) /\ Announced(s)

\* One more copy, or a push with no row before it.
ScaleUp(s, n) == Rewrite(s, live[s] \cup Checked(n)) /\ Announced(s)

\* A stop ends them all, one copy less some.
TakeDown(s) ==
  \E ended \in (SUBSET live[s]) \ {{}} : Rewrite(s, live[s] \ ended) /\ Announced(s)

\* The heartbeat's cutover ends every other row, the sweeper's rescue none.
PromoteRow(s) ==
  \E r \in live[s] : r.status = "deploying" /\ Rewrite(s, Proven(r)) /\ Announced(s)

RescueRow(s) ==
  \E r \in live[s] : /\ r.status = "deploying"
                     /\ Rewrite(s, (live[s] \ {r}) \cup Proven(r)) /\ Announced(s)

-----------------------------------------------------------------------------
(* The writers that commit, and invalidate nothing.                        *)

Unannounced(s) ==
  /\ excused' = excused \cup Dropped(s)
  /\ UNCHANGED <<attached, moved, cache, lookup, pending>>

\* A deploy from the dashboard goes live: beside the others, or with a volume in
\* the place of them all.
GoLive(s, n) ==
  \E kept \in {live[s], {}} : Rewrite(s, kept \cup Checked(n)) /\ Unannounced(s)

\* A row of a node that fell silent is held or stranded, or one that is overdue fails.
LoseRow(s) == \E r \in live[s] : Rewrite(s, live[s] \ {r}) /\ Unannounced(s)

\* When a node returns, a row held there resumes, or a stranded service is placed.
ReturnRow(s, n) == Rewrite(s, live[s] \cup Checked(n)) /\ Unannounced(s)

\* A service that prefers the node is moved back to it.
ReclaimRow(s, n) ==
  \E r \in live[s] : /\ r.site # n
                     /\ Rewrite(s, (live[s] \ {r}) \cup Checked(n)) /\ Unannounced(s)

\* A node reports another address.
MoveAddress(n) ==
  /\ Change
  /\ moved' = [moved EXCEPT ![n] = ~@]
  /\ excused' = excused \cup {name \in Names : Owner(name) # Unattached}
  /\ UNCHANGED <<live, attached, cache, lookup, pending>>

\* The alias is attached to a service, or taken from it: only its key is dropped.
SetAlias(to) ==
  /\ Change /\ attached # to /\ Unattached \in {attached, to}
  /\ attached' = to
  /\ Announce(Alias) /\ UNCHANGED <<live, moved, cache, lookup, excused>>

-----------------------------------------------------------------------------
IngressNext ==
  \/ \E n \in Names : BeginLookup(n)
  \/ \E n \in Names : FillCache(n)
  \/ \E n \in Names : Expire(n)
  \/ Invalidate
  \/ \E s \in Services, n \in Sites : Relocate(s, n)
  \/ \E s \in Services : PromoteRow(s)
  \/ \E s \in Services, n \in Sites : ScaleUp(s, n)
  \/ \E s \in Services : TakeDown(s)
  \/ \E s \in Services : RescueRow(s)
  \/ \E s \in Services, n \in Sites : GoLive(s, n)
  \/ \E s \in Services : LoseRow(s)
  \/ \E s \in Services, n \in Sites : ReturnRow(s, n)
  \/ \E s \in Services, n \in Sites : ReclaimRow(s, n)
  \/ \E n \in Sites : MoveAddress(n)
  \/ \E to \in Services \cup {Unattached} : SetAlias(to)

\* Redis expires keys, and a request or a writer that has begun goes on.  No
\* request need ever come.
IngressFairness ==
  /\ \A n \in Names : WF_ingressVars(FillCache(n)) /\ WF_ingressVars(Expire(n))
  /\ WF_ingressVars(Invalidate)

IngressSpec == IngressInit /\ [][IngressNext]_ingressVars /\ IngressFairness

-----------------------------------------------------------------------------
\* A hostname answers with where its service was only while a writer has yet to
\* invalidate it, when a lookup overlapped that writer, or since one of the writers
\* that announce nothing.
StaleOnlyIfExcused ==
  \A n \in Names :
    Current(cache[n], n) \/ n \in excused \/ \E what \in pending : n \in Dropped(what)

\* Whatever order lookups and invalidations fell in, once placements and
\* addresses stop changing every hostname follows its service for good.
RoutesFollow == <>[](\A n \in Names : Current(cache[n], n))
=============================================================================
