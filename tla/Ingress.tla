--------------------------------- MODULE Ingress ---------------------------------
(***************************************************************************)
(* Routes and traffic splits: the controller's operations on domains and   *)
(* traffic, the ingress manager of pkg/ingress, its Caddy client, and the  *)
(* configuration Caddy holds.  Caddy is external and may refuse a request; *)
(* the code takes PUT /id/x to add or replace the route x.                 *)
(*                                                                         *)
(* An ID is made of the application and the slug of the domain, that of a  *)
(* split of the slug alone, and two domains may have one slug: a-b.com and *)
(* a.b.com do.  So Caddy's routes are sets: a plain route <<p, by>> of a   *)
(* pair p that a binding or a row asked for (the upstreams differ), and a  *)
(* split <<d, w>>.  A load may hold two routes of one ID; if Caddy takes   *)
(* it, a request that names the ID is about one of them.  The manager's    *)
(* routes are a map by ID: a set with one route of each.  The IDs of       *)
(* applications are taken to be those store.NewID makes: of one length, so *)
(* that two do not run together with their domains into one route ID, and  *)
(* not beginning with "split".  TLS policies, headers and handlers, which  *)
(* are the same for all, are left out, and so is the made-up domain of an  *)
(* application that has none.                                              *)
(***************************************************************************)
EXTENDS Naturals, FiniteSets

CONSTANTS Apps, Domains, Bindings,      \* a binding's ID is used once
          Slug,                         \* the slug of each domain
          Weights,                      \* splits that can be asked for
          NoSplit, Default,             \* no split; what a reset answers
          Callers, Nobody,              \* requests in progress; c.mu is free
          MaxCalls                      \* bound: calls that are made

ASSUME IngressAssumption == DOMAIN Slug = Domains /\ MaxCalls \in Nat

VARIABLES row,          \* services: whether it is served, and domain_names
          binding,      \* of each binding its domain, and whether it is in c.domains
          answer,       \* c.trafficSplits, by application
          routes,       \* m.routes: plain routes, at most one of an ID
          splits,       \* m.splits, by domain
          clientSplits, \* the Caddy client's own splits, by domain
          caddy,        \* what Caddy has loaded: plain routes and splits
          holder,       \* who holds c.mu across calls to Caddy
          caller,       \* where each request is
          accepted,     \* ghost: the splits Caddy has accepted, by domain
          stuck,        \* ghost: pairs whose route Caddy refused to remove
          twins,        \* ghost: IDs of which the last load held two plain routes
          calls,        \* calls made so far
          quiet         \* ghost: "during" a reconcile that runs alone, or "since" it ended

ingressVars == <<row, binding, answer, routes, splits, clientSplits, caddy, holder, caller,
                 accepted, stuck, twins, calls, quiet>>
caddyGhosts == <<accepted, stuck, twins>>

Pairs      == Apps \X Domains
NoSplits   == [d \in Domains |-> NoSplit]
IdleCaller == [at |-> "idle"]
Become(r, state) == caller' = [caller EXCEPT ![r] = state]
\* A call begins: a reconcile in progress is no longer alone.
Begin  == calls < MaxCalls /\ calls' = calls + 1 /\ quiet' = "no"
Starts(r)  == caller[r].at = "idle" /\ holder = Nobody /\ Begin
UnusedID   == CHOOSE b \in Bindings : binding[b].of = <<>>   \* random in the code
InUse(p)   == \E b \in Bindings : binding[b].live /\ binding[b].of = p

\* GenerateRouteID, and the routes and splits that have the ID of another.
RouteID(p)      == <<p[1], Slug[p[2]]>>
RoutesAt(rs, p) == {x \in rs : RouteID(x[1]) = RouteID(p)}
SplitsAt(ss, d) == {x \in ss : Slug[x[1]] = Slug[d]}
IDsOfTwo(rs)    == {RouteID(x[1]) : x \in {y \in rs : RoutesAt(rs, y[1]) # {y}}}
\* A request to Caddy that names an ID finds one of those that have it, or none.
MayName(S) == IF S = {} THEN {{}} ELSE {{x} : x \in S}

IngressInit ==
    /\ row = [a \in Apps |-> [served |-> FALSE, domains |-> {}]]
    /\ binding = [b \in Bindings |-> [of |-> <<>>, live |-> FALSE]]
    /\ answer = [a \in Apps |-> NoSplit]
    /\ routes = {} /\ splits = NoSplits /\ clientSplits = NoSplits
    /\ caddy = [routes |-> {}, splits |-> {}]
    /\ holder = Nobody /\ caller = [r \in Callers |-> IdleCaller]
    /\ accepted = [d \in Domains |-> {}] /\ stuck = {} /\ twins = {} /\ quiet = "no" /\ calls = 0

\* The operations of other components on services: created, updated, stopped, failed or deleted.
ChangeRow(a, served, domains) ==
    /\ Begin
    /\ row' = [row EXCEPT ![a] = [served |-> served, domains |-> domains]]
    /\ UNCHANGED <<binding, answer, routes, splits, clientSplits, caddy, holder, caller,
                   caddyGhosts>>
--------------------------------------------------------------------------------
(* Domains.  c.mu is held over the call to Caddy, whose error is ignored. *)

\* The conflict is looked for in c.domains only, not in the rows.
BindDomain(r, b, p) ==
    /\ Starts(r) /\ binding[b].of = <<>> /\ b = UnusedID
    /\ \A o \in Bindings : binding[o].live /\ binding[o].of[2] = p[2] => binding[o].of[1] = p[1]
    /\ binding' = [binding EXCEPT ![b] = [of |-> p, live |-> TRUE]]
    /\ \/ \E old \in MayName(RoutesAt(caddy.routes, p)) :
             /\ caddy' = [caddy EXCEPT !.routes = (@ \ old) \cup {<<p, "bound">>}]
             /\ holder' = r /\ Become(r, [at |-> "applied", of |-> p])
             /\ stuck' = stuck \ {p}
       \/ UNCHANGED <<caddy, holder, caller, stuck>>
    /\ UNCHANGED <<row, answer, routes, splits, clientSplits, accepted, twins>>

\* ApplyRoute enters its cache when Caddy has the route.
CacheRoute(r) ==
    /\ caller[r].at = "applied"
    /\ routes' = (routes \ RoutesAt(routes, caller[r].of)) \cup {<<caller[r].of, "bound">>}
    /\ holder' = Nobody /\ Become(r, IdleCaller)
    /\ UNCHANGED <<row, binding, answer, splits, clientSplits, caddy, caddyGhosts, calls, quiet>>

\* Mutant of DeleteDomain: another route ID than the binding's is removed.
DeleteOther(r, b) ==
    /\ Starts(r) /\ binding[b].live
    /\ binding' = [binding EXCEPT ![b].live = FALSE]
    /\ holder' = r /\ Become(r, [at |-> "removed", of |-> binding[b].of])
    /\ UNCHANGED <<row, answer, routes, splits, clientSplits, caddy, caddyGhosts>>

\* Any error of DeleteRoute, and that Caddy has no such route, leaves the entry in the cache.
DeleteDomain(r, b) ==
    LET p == binding[b].of IN
    /\ Starts(r) /\ binding[b].live
    /\ binding' = [binding EXCEPT ![b].live = FALSE]
    /\ \/ \E x \in RoutesAt(caddy.routes, p) :
             /\ caddy' = [caddy EXCEPT !.routes = @ \ {x}]
             /\ holder' = r /\ Become(r, [at |-> "removed", of |-> p])
             /\ UNCHANGED stuck
       \/ /\ stuck' = IF <<p, "bound">> \in caddy.routes THEN stuck \cup {p} ELSE stuck
          /\ UNCHANGED <<caddy, holder, caller>>
    /\ UNCHANGED <<row, answer, routes, splits, clientSplits, accepted, twins>>

UncacheRoute(r) ==
    /\ caller[r].at = "removed"
    /\ routes' = routes \ RoutesAt(routes, caller[r].of)
    /\ holder' = Nobody /\ Become(r, IdleCaller)
    /\ UNCHANGED <<row, binding, answer, splits, clientSplits, caddy, caddyGhosts, calls, quiet>>
--------------------------------------------------------------------------------
(* Traffic splits: Caddy, the client, the manager and the controller, one after the other. *)

\* The domain of the row, or else that of a binding.
TrafficDomains(a) ==
    IF row[a].domains # {} THEN row[a].domains
    ELSE {d \in Domains : InUse(<<a, d>>)}

\* What GetAppTraffic may answer: the controller's cache, the client's, what Caddy has under
\* the ID of the split, or the default.
GetAppTraffic(a, d) ==
    IF answer[a] # NoSplit THEN {answer[a]}
    ELSE IF clientSplits[d] # NoSplit THEN {clientSplits[d]}
    ELSE {x[2] : x \in SplitsAt(caddy.splits, d)} \cup {Default}

SetAppTraffic(r, a, d, w) ==
    /\ Starts(r) /\ d \in TrafficDomains(a)
    /\ \/ \E old \in MayName(SplitsAt(caddy.splits, d)) :
             /\ caddy' = [caddy EXCEPT !.splits = (@ \ old) \cup {<<d, w>>}]
             /\ accepted' = [accepted EXCEPT ![d] = @ \cup {w}]
             /\ Become(r, [at |-> "put", app |-> a, domain |-> d, weights |-> w])
       \/ UNCHANGED <<caddy, accepted, caller>>
    /\ UNCHANGED <<row, binding, answer, routes, splits, clientSplits, holder, stuck, twins>>

CacheClientSplit(r) ==
    /\ caller[r].at = "put"
    /\ clientSplits' = [clientSplits EXCEPT ![caller[r].domain] = caller[r].weights]
    /\ Become(r, [caller[r] EXCEPT !.at = "client"])
    /\ UNCHANGED <<row, binding, answer, routes, splits, caddy, holder, caddyGhosts, calls, quiet>>

CacheSplit(r) ==
    /\ caller[r].at = "client"
    /\ splits' = [splits EXCEPT ![caller[r].domain] = caller[r].weights]
    /\ Become(r, [caller[r] EXCEPT !.at = "manager"])
    /\ UNCHANGED <<row, binding, answer, routes, clientSplits, caddy, holder, caddyGhosts,
                   calls, quiet>>

CacheAnswer(r) ==
    /\ caller[r].at = "manager" /\ holder = Nobody
    /\ answer' = [answer EXCEPT ![caller[r].app] = caller[r].weights]
    /\ Become(r, IdleCaller)
    /\ UNCHANGED <<row, binding, routes, splits, clientSplits, caddy, holder, caddyGhosts,
                   calls, quiet>>

\* A reset answers first and removes afterwards, manager and client before Caddy.
ResetAppTraffic(r, a, d) ==
    /\ Starts(r) /\ d \in TrafficDomains(a)
    /\ answer' = [answer EXCEPT ![a] = Default]
    /\ Become(r, [at |-> "reset", domain |-> d])
    /\ UNCHANGED <<row, binding, routes, splits, clientSplits, caddy, holder, caddyGhosts>>

RemoveSplit(r) ==
    LET d == caller[r].domain IN
    /\ caller[r].at = "reset"
    /\ splits' = [splits EXCEPT ![d] = NoSplit]
    /\ Become(r, [caller[r] EXCEPT !.at = "deleting"])
    /\ UNCHANGED <<row, binding, answer, routes, clientSplits, caddy, holder, caddyGhosts,
                   calls, quiet>>

\* The client forgets the split before it asks Caddy.
DeleteSplitRoute(r) ==
    LET d == caller[r].domain IN
    /\ caller[r].at = "deleting"
    /\ clientSplits' = [clientSplits EXCEPT ![d] = NoSplit]
    /\ \/ \E old \in MayName(SplitsAt(caddy.splits, d)) :
             /\ caddy' = [caddy EXCEPT !.splits = @ \ old]
             /\ Become(r, [caller[r] EXCEPT !.at = "deleted"])
       \/ Become(r, IdleCaller) /\ UNCHANGED caddy
    /\ UNCHANGED <<row, binding, answer, routes, splits, holder, caddyGhosts, calls, quiet>>

\* When Caddy has answered, be it that there is none, it forgets those of every domain with the ID.
ForgetSplits(r) ==
    /\ caller[r].at = "deleted"
    /\ clientSplits' = [d \in Domains |->
          IF Slug[d] = Slug[caller[r].domain] THEN NoSplit ELSE clientSplits[d]]
    /\ Become(r, IdleCaller)
    /\ UNCHANGED <<row, binding, answer, routes, splits, caddy, holder, caddyGhosts, calls, quiet>>
--------------------------------------------------------------------------------
(* ReconcileIngress: the rows, the manager's splits, one load, the manager's routes. *)

StoredRoutes == {p \in Pairs : row[p[1]].served /\ p[2] \in row[p[1]].domains}

\* A domain with a split gets the split's route instead of its plain one.
BuildCaddyConfig(plain, active) ==
    [routes |-> {p \in plain : active[p[2]] = NoSplit} \X {"row"},
     splits |-> {<<d, active[d]>> : d \in {e \in Domains : active[e] # NoSplit}}]

\* The manager's map of routes: of those with one ID the last one stays.
OneOfEachID(plain) ==
    {kept \in SUBSET plain : \A p \in plain : \E q \in kept :
        \A o \in kept : RouteID(o) = RouteID(p) <=> o = q}

ReconcileFromStore(r) ==
    /\ caller[r].at = "idle" /\ calls < MaxCalls /\ calls' = calls + 1
    /\ Become(r, [at |-> "read", plain |-> StoredRoutes])
    /\ quiet' = IF \A o \in Callers : caller[o].at = "idle" THEN "during" ELSE "no"
    /\ UNCHANGED <<row, binding, answer, routes, splits, clientSplits, caddy, holder, caddyGhosts>>

ReconcileAll(r) ==
    /\ caller[r].at = "read"
    /\ Become(r, [at |-> "loading", plain |-> caller[r].plain, active |-> splits])
    /\ UNCHANGED <<row, binding, answer, routes, splits, clientSplits, caddy, holder,
                   caddyGhosts, calls, quiet>>

LoadFullConfig(r) ==
    /\ caller[r].at = "loading"
    /\ \/ /\ caddy' = BuildCaddyConfig(caller[r].plain, caller[r].active)
          /\ stuck' = {}
          /\ twins' = IDsOfTwo(caddy'.routes)
          /\ Become(r, [at |-> "loaded", plain |-> caller[r].plain])
          /\ UNCHANGED quiet
       \/ Become(r, IdleCaller) /\ quiet' = "no" /\ UNCHANGED <<caddy, stuck, twins>>
    /\ UNCHANGED <<row, binding, answer, routes, splits, clientSplits, holder, accepted, calls>>

CacheRoutes(r) ==
    /\ caller[r].at = "loaded"
    /\ \E kept \in OneOfEachID(caller[r].plain) : routes' = kept \X {"row"}
    /\ Become(r, IdleCaller)
    /\ quiet' = IF quiet = "during" THEN "since" ELSE quiet
    /\ UNCHANGED <<row, binding, answer, splits, clientSplits, caddy, holder, caddyGhosts, calls>>
--------------------------------------------------------------------------------
IngressNext ==
    \/ \E a \in Apps, served \in BOOLEAN, domains \in SUBSET Domains : ChangeRow(a, served, domains)
    \/ \E r \in Callers :
          \/ CacheRoute(r) \/ UncacheRoute(r) \/ CacheClientSplit(r) \/ CacheSplit(r)
          \/ CacheAnswer(r) \/ RemoveSplit(r) \/ DeleteSplitRoute(r) \/ ForgetSplits(r)
          \/ ReconcileFromStore(r) \/ ReconcileAll(r) \/ LoadFullConfig(r) \/ CacheRoutes(r)
          \/ \E b \in Bindings : DeleteDomain(r, b) \/ \E p \in Pairs : BindDomain(r, b, p)
          \/ \E a \in Apps, d \in Domains :
                ResetAppTraffic(r, a, d) \/ \E w \in Weights : SetAppTraffic(r, a, d, w)

IngressSpec == IngressInit /\ [][IngressNext]_ingressVars
--------------------------------------------------------------------------------
(* Routes follow what was asked for, whatever Caddy refuses and however requests and reconciles   *)
(* overlap.  A domain belongs to one application of c.domains.  A route of a binding that was     *)
(* taken back is gone from Caddy, unless Caddy refused to remove it, or was loaded with two       *)
(* routes of its ID and removed the other; and of another ID Caddy has one route.  No split is    *)
(* kept or loaded that Caddy did not accept for the domain, and what is answered for a domain was *)
(* accepted for one with its ID.  A reconcile that nothing overlapped leaves in Caddy exactly the *)
(* splits of the manager, and the domains of the rows that are served and have no split, also if  *)
(* two have one ID; of those the manager remembers one.                                           *)
RoutesFollowDomains ==
    /\ \A b, o \in Bindings :
          binding[b].live /\ binding[o].live /\ binding[b].of[2] = binding[o].of[2]
             => binding[b].of[1] = binding[o].of[1]
    /\ \A p \in Pairs :
          /\ <<p, "bound">> \in caddy.routes => InUse(p) \/ p \in stuck \/ RouteID(p) \in twins
          /\ \A x, y \in RoutesAt(caddy.routes, p) : x = y \/ RouteID(p) \in twins
    /\ \A d \in Domains : {splits[d], clientSplits[d]} \subseteq accepted[d] \cup {NoSplit}
    /\ \A x \in caddy.splits : x[2] \in accepted[x[1]]
    /\ \A a \in Apps, d \in Domains : \A w \in GetAppTraffic(a, d) :
          w = Default \/ \E e \in Domains :
                             w \in accepted[e] /\ (answer[a] = NoSplit => Slug[e] = Slug[d])
    /\ quiet = "since" =>
          /\ caddy = BuildCaddyConfig(StoredRoutes, splits)
          /\ \E kept \in OneOfEachID(StoredRoutes) : routes = kept \X {"row"}
================================================================================
