----------------------------- MODULE RateLimiter -----------------------------
(***************************************************************************)
(* HierarchicalRateLimiter: token buckets of tenants, regions and the      *)
(* whole service.  check_all_limits takes the lock anew for each level, so *)
(* requests interleave between the levels; a token taken at one level is   *)
(* not given back when a later level refuses.  Buckets are made on first   *)
(* use, with the configuration of that moment, and a reload leaves them    *)
(* as they are, with the limits of before.                                 *)
(*                                                                         *)
(* A bucket is refilled when it is used, from the time that has passed;    *)
(* adding what each tick brings is the same.                               *)
(***************************************************************************)
EXTENDS Naturals, FiniteSets

CONSTANTS Visitor,     \* requests under way
          Tenant, Region, Global,
          Stream, Address, \* the client addresses of check_ip_limit
          Configs,     \* configurations: capacity and refill rate for each key
          MaxGranted   \* bound: tokens ever due to a bucket

Level == Tenant \cup Region \cup {Global}
Single == Stream \cup Address
Key == Level \cup Single
BucketLimit == [capacity : Nat \ {0}, rate : Nat]

ASSUME LimiterAssumption ==
    /\ Configs \subseteq [Key -> BucketLimit] /\ Configs # {} /\ MaxGranted \in Nat
    /\ Single \cap Level = {}
    /\ IsFiniteSet(Visitor)

VARIABLES limits,   \* the configuration
          buckets,  \* the keys that have a bucket
          capacity, \* of each bucket
          rate,     \* refill_rate of each bucket
          tokens,
          visitor,  \* each request: its tenant, its region and the level it is at
          granted,  \* history: tokens the configuration allows a key since its first use
          admitted, \* history: requests of a key that passed all levels
          outdated  \* history: keys whose limits were changed under their bucket; what
                    \* they were granted and admitted is not counted any more

bucket == <<buckets, capacity, rate, tokens>>
limiterVars == <<limits, bucket, visitor, granted, admitted, outdated>>

Visit == [tenant : Tenant, region : Region, next : {"tenant", "region", "global", "over"}]

LimiterInit ==
    /\ limits \in Configs
    /\ buckets = {}
    /\ capacity = [k \in Key |-> 0] /\ rate = [k \in Key |-> 0]
    /\ tokens = [k \in Key |-> 0]
    /\ visitor \in [Visitor -> {v \in Visit : v.next = "over"}]
    /\ granted = [k \in Key |-> 0] /\ admitted = [k \in Key |-> 0] /\ outdated = {}

Visits(v) == /\ visitor[v].next = "over"
             /\ \E t \in Tenant, r \in Region :
                   visitor' = [visitor EXCEPT ![v] = [tenant |-> t, region |-> r, next |-> "tenant"]]
             /\ UNCHANGED <<limits, bucket, granted, admitted, outdated>>

LevelKey(visit) == CASE visit.next = "tenant" -> visit.tenant
                     [] visit.next = "region" -> visit.region
                     [] visit.next = "global" -> Global

KeysOf(visit) == {visit.tenant, visit.region, Global}
LevelAfter == [tenant |-> "region", region |-> "global", global |-> "over"]

\* Tokens in the bucket of a key; a new one is full.
Held(k) == IF k \in buckets THEN tokens[k] ELSE limits[k].capacity

\* Makes the bucket of a key if there is none.
BucketFor(k) ==
    IF k \in buckets THEN UNCHANGED <<buckets, capacity, rate, granted>>
    ELSE /\ buckets' = buckets \cup {k}
         /\ capacity' = [capacity EXCEPT ![k] = limits[k].capacity]
         /\ rate' = [rate EXCEPT ![k] = limits[k].rate]
         /\ granted' = [granted EXCEPT ![k] = IF @ = 0 THEN limits[k].capacity ELSE @]

\* One of check_tenant_limit, check_region_limit and check_global_limit: a token is
\* taken, and the request goes on to the next level or is admitted ...
Allowed(v) ==
    LET visit == visitor[v] k == LevelKey(visit) IN
    /\ visit.next # "over" /\ Held(k) >= 1
    /\ BucketFor(k) /\ tokens' = [tokens EXCEPT ![k] = Held(k) - 1]
    /\ visitor' = [visitor EXCEPT ![v].next = LevelAfter[visit.next]]
    /\ admitted' = [l \in Key |-> IF visit.next = "global" /\ l \in KeysOf(visit) \ outdated
                                  THEN admitted[l] + 1 ELSE admitted[l]]
    /\ UNCHANGED <<limits, outdated>>

\* ... or there is none, and the request is over.
Refuse(v) ==
    LET visit == visitor[v] IN
    /\ visit.next # "over" /\ Held(LevelKey(visit)) = 0
    /\ visitor' = [visitor EXCEPT ![v].next = "over"]
    /\ UNCHANGED <<limits, bucket, granted, admitted, outdated>>

\* check_stream_limit and check_ip_limit have a level of their own.
AllowedSingle(k) ==
    /\ Held(k) >= 1
    /\ BucketFor(k) /\ tokens' = [tokens EXCEPT ![k] = Held(k) - 1]
    /\ admitted' = [admitted EXCEPT ![k] = IF k \in outdated THEN @ ELSE @ + 1]
    /\ UNCHANGED <<limits, visitor, outdated>>

\* cleanup_stream: a stream of that name starts anew.
CleanupStream(k) ==
    /\ k \in buckets /\ buckets' = buckets \ {k}
    /\ granted' = [granted EXCEPT ![k] = 0] /\ admitted' = [admitted EXCEPT ![k] = 0]
    /\ outdated' = outdated \ {k}
    /\ UNCHANGED <<limits, capacity, rate, tokens, visitor>>

\* Keys in use whose limits change with the configuration; counting them ends.
Outdates == {k \in buckets : limits'[k] # limits[k]}
StopCounting(f) == [k \in Key |-> IF k \in Outdates THEN 0 ELSE f[k]]

\* Mutant of ReloadConfig: the buckets are made anew, and full.
ReloadConfigAndBuckets ==
    /\ limits' \in Configs /\ outdated' = outdated \cup Outdates /\ buckets' = {}
    /\ granted' = StopCounting(granted) /\ admitted' = StopCounting(admitted)
    /\ UNCHANGED <<capacity, rate, tokens, visitor>>

\* reload_config: for the buckets to come.
ReloadConfig ==
    /\ limits' \in Configs /\ outdated' = outdated \cup Outdates
    /\ granted' = StopCounting(granted) /\ admitted' = StopCounting(admitted)
    /\ UNCHANGED <<bucket, visitor>>

AtMost(a, b) == IF a <= b THEN a ELSE b

\* _refill, by the rate of the bucket.
LimiterTick ==
    /\ \A k \in buckets \ outdated : granted[k] + limits[k].rate <= MaxGranted
    /\ tokens' = [k \in Key |->
          IF k \in buckets THEN AtMost(capacity[k], tokens[k] + rate[k]) ELSE tokens[k]]
    /\ granted' = [k \in Key |->
          IF k \in buckets \ outdated THEN granted[k] + limits[k].rate ELSE granted[k]]
    /\ UNCHANGED <<limits, buckets, capacity, rate, visitor, admitted, outdated>>

LimiterNext ==
    \/ \E v \in Visitor : Visits(v) \/ Allowed(v) \/ Refuse(v)
    \/ \E k \in Single : AllowedSingle(k)
    \/ \E k \in Stream : CleanupStream(k)
    \/ ReloadConfig \/ LimiterTick

LimiterSpec == LimiterInit /\ [][LimiterNext]_limiterVars

-----------------------------------------------------------------------------
(* Properties *)

LimiterTypeOK ==
    /\ limits \in Configs /\ buckets \subseteq Key
    /\ capacity \in [Key -> Nat] /\ rate \in [Key -> Nat] /\ tokens \in [Key -> Nat]
    /\ visitor \in [Visitor -> Visit]
    /\ granted \in [Key -> Nat] /\ admitted \in [Key -> Nat] /\ outdated \subseteq buckets
    /\ \A k \in buckets : tokens[k] <= capacity[k]

\* Under limits that are not changed while a key is in use, no level has at any moment
\* let more requests through than the configuration allows: its burst and its rate for
\* the time since the first use, however requests interleave between the levels and
\* whatever is reloaded for other keys.  A key whose limits do change is left out: its
\* bucket goes on with the old ones.
WithinRate == \A k \in Key \ outdated : admitted[k] <= granted[k]
=============================================================================
