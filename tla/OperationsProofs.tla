-------------------------- MODULE OperationsProofs --------------------------
(***************************************************************************)
(* What the records and the doors of the server promise, for any number of *)
(* users: CallLog's table, SemanticCache's answers, RateLimiter's buckets, *)
(* ServerDrain's connections, CostTracker's accounts.                      *)
(***************************************************************************)
EXTENDS CallLog, SemanticCache, ServerDrain, RateLimiter, CostTracker,
        FiniteSetTheorems, WellFoundedInduction, TLAPS

\* A log_call that is about to commit has its record in the transaction, or the record
\* has been committed by another task, or something has failed since.
Accounted ==
    \A r \in Record : /\ logging[r] = "committing" => r \in pending \cup calls_table \cup struck
                      /\ logging[r] = "logged" => r \in calls_table \cup struck

CallLogInv == logging \in [Record -> LogState] /\ Accounted

\* Records leave the transaction for the table, or are struck.
LEMMA RecordsStay ==
    ASSUME CallLogInv, CallLogNext
    PROVE  /\ calls_table \subseteq calls_table' /\ struck \subseteq struck'
           /\ pending \subseteq pending' \cup calls_table' \cup struck'
  BY DEF CallLogNext, ConnectDatabase, CloseDatabase, QueryCalls, QueryFails, BeginLog, InsertRecord,
     InsertFails, CommitLog, CommitFails, RollbackLog, Discard

\* Every command of every task keeps the records accounted for.
LEMMA CallLogInvStep == CallLogInv /\ [CallLogNext]_callLogVars => CallLogInv'
  <1> SUFFICES ASSUME CallLogInv, [CallLogNext]_callLogVars PROVE CallLogInv'
    OBVIOUS
  <1>1. ASSUME UNCHANGED logging, CallLogNext PROVE CallLogInv'
    BY <1>1, RecordsStay DEF CallLogInv, Accounted
  <1>2. ASSUME NEW r \in Record, NEW from, NEW to \in LogState \ {"committing", "logged"},
               LogGoes(r, from, to), CallLogNext
        PROVE  CallLogInv'
    BY <1>2, RecordsStay DEF CallLogInv, Accounted, LogGoes
  <1>3. ASSUME NEW r \in Record, BeginLog(r) \/ InsertFails(r) \/ CommitFails(r) \/ RollbackLog(r)
        PROVE  CallLogInv'
    <2>1. CallLogNext
      BY <1>3 DEF CallLogNext
    <2> QED  BY <1>2, <1>3, <2>1 DEF BeginLog, InsertFails, CommitFails, RollbackLog, LogState
  <1>4. ASSUME NEW r \in Record, InsertRecord(r) PROVE CallLogInv'
    BY <1>4 DEF InsertRecord, LogGoes, CallLogInv, Accounted, LogState
  <1>5. ASSUME NEW r \in Record, CommitLog(r) PROVE CallLogInv'
    BY <1>5 DEF CommitLog, LogGoes, CallLogInv, Accounted, LogState
  <1>6. ConnectDatabase \/ CloseDatabase \/ QueryCalls \/ QueryFails => UNCHANGED logging
    BY DEF ConnectDatabase, CloseDatabase, QueryCalls, QueryFails
  <1>7. UNCHANGED callLogVars => CallLogInv'
    BY DEF callLogVars, CallLogInv, Accounted
  <1> QED  BY <1>1, <1>3, <1>4, <1>5, <1>6, <1>7 DEF CallLogNext

\* A record whose log_call has returned is in the table unless a command failed while
\* it was in the transaction, however many tasks share the transaction.
THEOREM LossesAreExplained == CallLogSpec => []LossNeedsAFailure
  <1>1. CallLogInit => CallLogInv
    BY DEF CallLogInit, CallLogInv, Accounted, LogState
  <1>2. CallLogInv => LossNeedsAFailure
    BY DEF CallLogInv, Accounted, LossNeedsAFailure
  <1> QED  BY <1>1, <1>2, CallLogInvStep, PTL DEF CallLogSpec

\* Only an open transaction has records in it.
THEOREM CallLogTypesHold == CallLogSpec => []CallLogTypeOK
  <1> USE DEF CallLogTypeOK, Connection, LogState
  <1>1. CallLogInit => CallLogTypeOK
    BY DEF CallLogInit
  <1>2. CallLogTypeOK /\ [CallLogNext]_callLogVars => CallLogTypeOK'
    <2> SUFFICES ASSUME CallLogTypeOK, [CallLogNext]_callLogVars PROVE CallLogTypeOK'
      OBVIOUS
    <2>1. CASE ConnectDatabase \/ CloseDatabase \/ QueryCalls \/ QueryFails
      BY <2>1 DEF ConnectDatabase, CloseDatabase, QueryCalls, QueryFails, Discard
    <2>2. ASSUME NEW r \in Record, BeginLog(r) \/ InsertRecord(r) \/ InsertFails(r)
          PROVE  CallLogTypeOK'
      BY <2>2 DEF BeginLog, InsertRecord, InsertFails, Insertable, LogGoes, Discard
    <2>3. ASSUME NEW r \in Record, CommitLog(r) \/ CommitFails(r) \/ RollbackLog(r)
          PROVE  CallLogTypeOK'
      BY <2>3 DEF CommitLog, CommitFails, RollbackLog, LogGoes, Discard
    <2>4. CASE UNCHANGED callLogVars
      BY <2>4 DEF callLogVars
    <2> QED  BY <2>1, <2>2, <2>3, <2>4 DEF CallLogNext
  <1> QED  BY <1>1, <1>2, PTL DEF CallLogSpec

-----------------------------------------------------------------------------
\* Pairs of an utterance and one that is similar enough.
Alike == {p \in Utterance \X Utterance : Similar(p[1], p[2])}

\* What a use case works on.
CacheTypes ==
    /\ at \in [Asker -> {"idle", "reading", "fetching", "generating",
                         "storing", "responding", "saving"}]
    /\ asked \in [Asker -> Utterance \cup {NoText}] /\ unread \in [Asker -> SUBSET Utterance]
    /\ best \in [Asker -> Utterance \cup {NoText}] /\ given \in [Asker -> Utterance \cup {NoText}]
    /\ \A a \in Asker : at[a] # "idle" => asked[a] \in Utterance

\* Entries answer their own utterance; a response is only fetched for a match that is
\* good enough, and is held only until the session is saved with it.
CacheInv ==
    /\ CacheTypes
    /\ answers \in [Utterance -> Utterance \cup {NoText}]
    /\ \A u \in Utterance : answers[u] \in {u, NoText}
    /\ \A a \in Asker : at[a] = "fetching" => <<asked[a], best[a]>> \in Alike
    /\ \A a \in Asker : given[a] # NoText => at[a] = "saving" /\ <<asked[a], given[a]>> \in Alike

\* Every step of every use case, expiry and clear preserve it.
LEMMA CacheInvStep == CacheInv /\ [CacheNext]_cacheVars => CacheInv'
  <1> SUFFICES ASSUME CacheInv, [CacheNext]_cacheVars PROVE CacheInv'
    OBVIOUS
  <1> USE CacheAssumption DEF CacheInv, CacheTypes, AskerAt
  <1>1. ASSUME NEW a \in Asker, NEW u \in Utterance, ReadKeys(a, u) PROVE CacheInv'
    <2>1. UNCHANGED answers /\ at[a] = "idle"
      BY <1>1 DEF ReadKeys, cache
    <2>2. CacheTypes'
      BY <1>1 DEF ReadKeys, cache
    <2>3. \A b \in Asker \ {a} : at'[b] = at[b] /\ asked'[b] = asked[b] /\ best'[b] = best[b]
      BY <1>1 DEF ReadKeys, cache
    <2>4. at'[a] # "fetching" /\ given' = given
      BY <1>1 DEF ReadKeys, cache
    <2> QED  BY <2>1, <2>2, <2>3, <2>4
  <1>2. ASSUME NEW a \in Asker, ReadEmbedding(a) PROVE CacheInv'
    <2>1. PICK k \in Utterance, match \in Utterance \cup {NoText} :
             /\ unread' = [unread EXCEPT ![a] = @ \ {k}]
             /\ best' = [best EXCEPT ![a] = IF unread[a] = {k} /\ <<asked[a], match>> \notin Alike
                                            THEN NoText ELSE match]
             /\ at[a] = "reading"
             /\ at' = [at EXCEPT ![a] = IF unread[a] # {k} THEN "reading"
                            ELSE IF <<asked[a], match>> \in Alike THEN "fetching" ELSE "generating"]
      <3>1. \A k \in Utterance : \A u : Better(u, best[a], k) \in Utterance \cup {NoText}
        BY DEF Better
      <3>2. \A m \in Utterance \cup {NoText} : Similar(asked[a], m) <=> <<asked[a], m>> \in Alike
        BY <1>2 DEF Alike, Similar, ReadEmbedding
      <3>3. PICK k \in unread[a] : LET match == IF embTtl[k] = 0 THEN best[a] ELSE Better(asked[a], best[a], k)
                                        last  == unread[a] = {k}
                                        found == Similar(asked[a], match) IN
               /\ unread' = [unread EXCEPT ![a] = @ \ {k}]
               /\ best' = [best EXCEPT ![a] = IF last /\ ~found THEN NoText ELSE match]
               /\ AskerAt(a, "reading", IF ~last THEN "reading"
                                        ELSE IF found THEN "fetching" ELSE "generating")
        BY <1>2 DEF ReadEmbedding
      <3> DEFINE match == IF embTtl[k] = 0 THEN best[a] ELSE Better(asked[a], best[a], k)
      <3>4. k \in Utterance /\ match \in Utterance \cup {NoText}
        BY <3>1
      <3>5. Similar(asked[a], match) <=> <<asked[a], match>> \in Alike
        BY <3>2, <3>4
      <3> HIDE DEF CacheInv, CacheTypes, AskerAt
      <3>6. /\ unread' = [unread EXCEPT ![a] = @ \ {k}]
            /\ best' = [best EXCEPT ![a] = IF unread[a] = {k} /\ <<asked[a], match>> \notin Alike
                                           THEN NoText ELSE match]
            /\ AskerAt(a, "reading", IF unread[a] # {k} THEN "reading"
                             ELSE IF <<asked[a], match>> \in Alike THEN "fetching" ELSE "generating")
        BY <3>3, <3>5
      <3> HIDE DEF match
      <3> QED  BY <3>4, <3>6 DEF AskerAt
    <2>2. UNCHANGED <<answers, asked, given>>
      BY <1>2 DEF ReadEmbedding, cache
    <2> QED  BY <2>1, <2>2
  <1>3. ASSUME NEW a \in Asker, Fetch(a) PROVE CacheInv'
    <2>1. best[a] \in Utterance
      BY <1>3 DEF Fetch, Alike
    <2> QED  BY <1>3, <2>1 DEF Fetch, cache
  <1>4. ASSUME NEW a \in Asker, LookupFails(a) PROVE CacheInv'
    <2>1. /\ at[a] \in {"reading", "fetching"} /\ at' = [at EXCEPT ![a] = "generating"]
          /\ unread' = [unread EXCEPT ![a] = {}] /\ best' = [best EXCEPT ![a] = NoText]
          /\ UNCHANGED <<answers, asked, given>>
      BY <1>4 DEF LookupFails, cache
    <2>2. CacheTypes'
      BY <2>1
    <2>3. \A b \in Asker \ {a} : at'[b] = at[b] /\ best'[b] = best[b]
      BY <2>1
    <2>4. at'[a] = "generating" /\ given[a] = NoText
      BY <2>1
    <2> QED  BY <2>1, <2>2, <2>3, <2>4
  <1>5. ASSUME NEW a \in Asker, GenerateAnswer(a) PROVE CacheInv'
    BY <1>5 DEF GenerateAnswer, Leave, cache
  <1>6. ASSUME NEW a \in Asker, StoreEmbedding(a) PROVE CacheInv'
    BY <1>6 DEF StoreEmbedding, Leave
  <1>7. ASSUME NEW a \in Asker, StoreResponse(a) PROVE CacheInv'
    BY <1>7 DEF StoreResponse, Leave
  <1>8. ASSUME NEW a \in Asker, SaveFound(a) PROVE CacheInv'
    BY <1>8 DEF SaveFound, Leave, cache
  <1>9. CASE ClearCache
    BY <1>9 DEF ClearCache, lookup
  <1>10. CASE CacheTick
    BY <1>10 DEF CacheTick, lookup
  <1>11. CASE UNCHANGED cacheVars
    BY <1>11 DEF cacheVars, cache, lookup
  <1> QED  BY <1>1, <1>2, <1>3, <1>4, <1>5, <1>6, <1>7, <1>8, <1>9, <1>10, <1>11 DEF CacheNext

\* A cached answer was generated for an utterance similar enough to the one it is given
\* for, whatever the similarity, the threshold and the order of lookups and expiry.
THEOREM AnswersStayRelated == CacheSpec => []AnswersAreRelated
  <1>1. CacheInit => CacheInv
    BY DEF CacheInit, CacheInv, CacheTypes
  <1>2. CacheInv => AnswersAreRelated
    BY DEF CacheInv, CacheTypes, AnswersAreRelated, Alike
  <1> QED  BY <1>1, <1>2, CacheInvStep, PTL DEF CacheSpec

\* Entries live as long as they may; a response is kept as long as it says what it
\* answers, and the keys expire one by one.
THEOREM CacheTypesHold == CacheSpec => []CacheTypeOK
  <1> DEFINE Kept == /\ embTtl \in [Utterance -> 0 .. CacheTTL]
                     /\ respTtl \in [Utterance -> 0 .. CacheTTL]
                     /\ answers \in [Utterance -> Utterance \cup {NoText}]
                     /\ \A u \in Utterance : respTtl[u] > 0 <=> answers[u] # NoText
  <1>1. CacheInit => Kept /\ CacheInv
    BY CacheAssumption DEF CacheInit, CacheInv, CacheTypes
  <1>2. Kept /\ CacheInv /\ [CacheNext]_cacheVars => Kept'
    <2> SUFFICES ASSUME Kept, CacheInv, [CacheNext]_cacheVars PROVE Kept'
      OBVIOUS
    <2> USE CacheAssumption
    <2>1. CASE UNCHANGED cache
      BY <2>1 DEF cache
    <2>2. ASSUME NEW a \in Asker,
                 (\E u \in Utterance : ReadKeys(a, u)) \/ ReadEmbedding(a) \/ Fetch(a)
                 \/ LookupFails(a) \/ GenerateAnswer(a) \/ SaveFound(a)
          PROVE  UNCHANGED cache
      BY <2>2 DEF ReadKeys, ReadEmbedding, Fetch, LookupFails, GenerateAnswer, SaveFound
    <2>3. ASSUME NEW a \in Asker, StoreEmbedding(a) PROVE Kept'
      BY <2>3 DEF StoreEmbedding
    <2>4. ASSUME NEW a \in Asker, StoreResponse(a) PROVE Kept'
      <3>1. asked[a] \in Utterance
        BY <2>4 DEF StoreResponse, Leave, AskerAt, CacheInv, CacheTypes
      <3> QED  BY <2>4, <3>1 DEF StoreResponse
    <2>5. CASE ClearCache
      BY <2>5 DEF ClearCache
    <2>6. CASE CacheTick
      <3>1. \A u \in Utterance :
               /\ embTtl'[u] = IF embTtl[u] = 0 THEN 0 ELSE embTtl[u] - 1
               /\ respTtl'[u] = IF respTtl[u] = 0 THEN 0 ELSE respTtl[u] - 1
               /\ answers'[u] = IF respTtl'[u] = 0 THEN NoText ELSE answers[u]
        BY <2>6 DEF CacheTick
      <3>2. \A u \in Utterance : embTtl[u] \in 0 .. CacheTTL /\ respTtl[u] \in 0 .. CacheTTL
        OBVIOUS
      <3>3. \A u \in Utterance : embTtl'[u] \in 0 .. CacheTTL /\ respTtl'[u] \in 0 .. CacheTTL
        BY <3>1, <3>2
      <3>4. \A u \in Utterance : /\ answers'[u] \in Utterance \cup {NoText}
                                 /\ respTtl'[u] > 0 <=> answers'[u] # NoText
        BY <3>1, <3>2, <3>3
      <3>5. /\ embTtl' = [u \in Utterance |-> embTtl'[u]]
            /\ respTtl' = [u \in Utterance |-> respTtl'[u]]
            /\ answers' = [u \in Utterance |-> answers'[u]]
        BY <2>6 DEF CacheTick
      <3> QED  BY <3>3, <3>4, <3>5
    <2>7. CASE UNCHANGED cacheVars
      BY <2>1, <2>7 DEF cacheVars
    <2> QED  BY <2>1, <2>2, <2>3, <2>4, <2>5, <2>6, <2>7 DEF CacheNext
  <1>3. Kept /\ CacheInv => CacheTypeOK
    BY DEF CacheTypeOK, CacheInv, CacheTypes
  <1> QED  BY <1>1, <1>2, <1>3, CacheInvStep, PTL DEF CacheSpec

-----------------------------------------------------------------------------
\* Requests under way that have taken a token of k and are not admitted yet.
Passed(k) == {v \in Visitor : \/ visitor[v].next \in {"region", "global"} /\ visitor[v].tenant = k
                              \/ visitor[v].next = "global" /\ visitor[v].region = k}

TokensOf(k) == IF k \in buckets THEN tokens[k] ELSE 0

\* The tokens a key is allowed are with the requests it admitted, with those under way,
\* in its bucket, or gone.
Shared(k) == admitted[k] + Cardinality(Passed(k)) + TokensOf(k) <= granted[k]

\* A bucket that is not outdated is of the configuration; a key that has none has been
\* allowed nothing.
LimiterInv ==
    /\ limits \in [Key -> BucketLimit] /\ outdated \subseteq buckets /\ buckets \subseteq Key
    /\ capacity \in [Key -> Nat] /\ rate \in [Key -> Nat] /\ tokens \in [Key -> Nat]
    /\ granted \in [Key -> Nat] /\ admitted \in [Key -> Nat] /\ visitor \in [Visitor -> Visit]
    /\ \A k \in buckets \ outdated : rate[k] = limits[k].rate
    /\ \A k \in Key \ outdated : Shared(k)
    /\ \A k \in Key \ buckets : granted[k] = 0

\* How many requests are under way, and how the number changes by one of them.
LEMMA PassedCount ==
    ASSUME NEW k
    PROVE  /\ IsFiniteSet(Passed(k)) /\ Cardinality(Passed(k)) \in Nat
           /\ \A v : Cardinality(Passed(k) \cup {v}) \in Nat
                    /\ Cardinality(Passed(k) \cup {v}) <= Cardinality(Passed(k)) + 1
           /\ \A v \in Passed(k) : Cardinality(Passed(k) \ {v}) = Cardinality(Passed(k)) - 1
           /\ \A v : Cardinality(Passed(k) \ {v}) \in Nat
                    /\ Cardinality(Passed(k) \ {v}) <= Cardinality(Passed(k))
  <1>1. IsFiniteSet(Passed(k))
    BY LimiterAssumption, FS_Subset DEF Passed
  <1>2. Cardinality(Passed(k)) \in Nat
    BY <1>1, FS_CardinalityType
  <1>3. \A v : Cardinality(Passed(k) \cup {v}) \in Nat
             /\ Cardinality(Passed(k) \cup {v}) <= Cardinality(Passed(k)) + 1
    BY <1>1, <1>2, FS_AddElement
  <1>4. \A v : Cardinality(Passed(k) \ {v}) =
                  IF v \in Passed(k) THEN Cardinality(Passed(k)) - 1 ELSE Cardinality(Passed(k))
    BY <1>1, FS_RemoveElement
  <1>5. \A v : Cardinality(Passed(k) \ {v}) \in Nat
    BY <1>1, FS_RemoveElement, FS_CardinalityType
  <1>6. \A v : Cardinality(Passed(k) \ {v}) <= Cardinality(Passed(k))
    BY <1>2, <1>4
  <1>7. \A v \in Passed(k) : Cardinality(Passed(k) \ {v}) = Cardinality(Passed(k)) - 1
    BY <1>4
  <1> QED  BY <1>1, <1>2, <1>3, <1>5, <1>6, <1>7

\* A token is taken from the bucket of a key, which is made if there is none.
LEMMA TokenTaken ==
    ASSUME LimiterInv, NEW k \in Key, Held(k) >= 1, BucketFor(k),
           tokens' = [tokens EXCEPT ![k] = Held(k) - 1]
    PROVE  /\ buckets' = buckets \cup {k} /\ tokens' \in [Key -> Nat]
           /\ capacity' \in [Key -> Nat] /\ rate' \in [Key -> Nat] /\ granted' \in [Key -> Nat]
           /\ \A l \in Key \ {k} : TokensOf(l)' = TokensOf(l) /\ granted'[l] = granted[l]
           /\ k \notin outdated =>
                 admitted[k] + Cardinality(Passed(k)) + TokensOf(k)' + 1 <= granted'[k]
           /\ \A l \in buckets' \ outdated : rate'[l] = limits[l].rate
           /\ \A l \in Key \ (buckets') : granted'[l] = 0
  <1>1. Held(k) \in Nat /\ admitted[k] \in Nat /\ granted[k] \in Nat /\ Cardinality(Passed(k)) \in Nat
    BY PassedCount DEF LimiterInv, Held, BucketLimit
  <1>2. CASE k \in buckets
    BY <1>1, <1>2 DEF LimiterInv, BucketFor, Held, TokensOf, Shared
  <1>3. CASE k \notin buckets
    <2>1. limits[k].capacity \in Nat /\ limits[k].rate \in Nat /\ Held(k) = limits[k].capacity
      BY <1>3 DEF LimiterInv, BucketLimit, Held
    <2>2. admitted[k] = 0 /\ Cardinality(Passed(k)) = 0 /\ granted[k] = 0
      <3>1. Shared(k) /\ granted[k] = 0 /\ TokensOf(k) = 0
        BY <1>3 DEF LimiterInv, TokensOf
      <3> QED  BY <1>1, <3>1 DEF Shared
    <2>3. granted'[k] = Held(k) /\ tokens'[k] = Held(k) - 1 /\ buckets' = buckets \cup {k}
      BY <1>3, <2>1, <2>2 DEF LimiterInv, BucketFor
    <2>4. admitted[k] + Cardinality(Passed(k)) + TokensOf(k)' + 1 <= granted'[k]
      BY <1>1, <2>2, <2>3 DEF TokensOf
    <2> QED  BY <1>1, <1>3, <2>1, <2>3, <2>4 DEF LimiterInv, BucketFor, TokensOf
  <1> QED  BY <1>2, <1>3

\* A request that takes its token is under way with it, or admitted at every level.
LEMMA AllowedStep == ASSUME LimiterInv, NEW v \in Visitor, Allowed(v) PROVE LimiterInv'
  <1> DEFINE visit == visitor[v]
  <1>0. visit \in Visit /\ visit.next \in {"tenant", "region", "global"} /\ LevelKey(visit) \in Key
    BY DEF LimiterInv, Allowed, Visit, LevelKey, Key, Level
  <1>1. PICK k \in Key : k = LevelKey(visit)
    BY <1>0
  <1>2. /\ Held(k) >= 1 /\ BucketFor(k) /\ tokens' = [tokens EXCEPT ![k] = Held(k) - 1]
        /\ UNCHANGED <<limits, outdated>>
    BY <1>1 DEF Allowed
  <1>3. visitor' = [visitor EXCEPT ![v].next = LevelAfter[visit.next]]
    BY DEF Allowed
  <1>4. admitted' = [l \in Key |->
            IF visit.next = "global" /\ l \in KeysOf(visit) \ outdated
            THEN admitted[l] + 1 ELSE admitted[l]]
    BY DEF Allowed
  <1>5. visitor' \in [Visitor -> Visit] /\ admitted' \in [Key -> Nat]
    BY <1>0, <1>3, <1>4 DEF LimiterInv, Visit, LevelAfter
  <1>6. /\ buckets' = buckets \cup {k} /\ tokens' \in [Key -> Nat]
        /\ capacity' \in [Key -> Nat] /\ rate' \in [Key -> Nat] /\ granted' \in [Key -> Nat]
        /\ \A l \in Key \ {k} : TokensOf(l)' = TokensOf(l) /\ granted'[l] = granted[l]
        /\ k \notin outdated =>
              admitted[k] + Cardinality(Passed(k)) + TokensOf(k)' + 1 <= granted'[k]
        /\ \A l \in buckets' \ outdated : rate'[l] = limits[l].rate
        /\ \A l \in Key \ (buckets') : granted'[l] = 0
    BY <1>1, <1>2, TokenTaken
  <1>7. ASSUME NEW l \in Key \ outdated PROVE Shared(l)'
    <2>1. /\ admitted[l] \in Nat /\ granted[l] \in Nat /\ TokensOf(l) \in Nat
          /\ TokensOf(l)' \in Nat /\ granted'[l] \in Nat
      BY <1>6 DEF LimiterInv, TokensOf
    <2>2. \A u \in Visitor : /\ visitor'[u].tenant = visitor[u].tenant
                             /\ visitor'[u].region = visitor[u].region
                             /\ visitor'[u].next = IF u = v THEN LevelAfter[visit.next]
                                                            ELSE visitor[u].next
      BY <1>3 DEF LimiterInv, Visit
    <2>3. CASE visit.next \in {"tenant", "region"}
      <3>1. Passed(l)' = IF l = k THEN Passed(l) \cup {v} ELSE Passed(l)
        BY <1>0, <1>1, <2>2, <2>3 DEF Passed, LevelKey, LevelAfter
      <3>2. admitted'[l] = admitted[l]
        BY <1>4, <2>3
      <3>3. CASE l = k
        <4>1. Cardinality(Passed(l)') \in Nat /\ Cardinality(Passed(l)') <= Cardinality(Passed(l)) + 1
          BY <3>1, <3>3, PassedCount
        <4> QED  BY <1>6, <2>1, <3>2, <3>3, <4>1, PassedCount DEF Shared
      <3>4. CASE l # k
        BY <1>6, <2>1, <3>1, <3>2, <3>4 DEF Shared, LimiterInv
      <3> QED  BY <3>3, <3>4
    <2>4. CASE visit.next = "global"
      <3>1. Passed(l)' = Passed(l) \ {v} /\ k = Global
        BY <1>1, <2>2, <2>4 DEF Passed, LevelKey, LevelAfter
      <3>2. Cardinality(Passed(l)') \in Nat /\ Cardinality(Passed(l)') <= Cardinality(Passed(l))
        BY <3>1, PassedCount
      <3>3. CASE l = k
        <4>1. admitted'[l] = admitted[l] + 1
          BY <1>4, <2>4, <3>1, <3>3 DEF KeysOf
        <4> QED  BY <1>6, <2>1, <3>2, <3>3, <4>1, PassedCount DEF Shared
      <3>4. CASE l # k /\ l \in {visit.tenant, visit.region}
        <4>1. admitted'[l] = admitted[l] + 1
          BY <1>4, <2>4, <3>4 DEF KeysOf
        <4>2. v \in Passed(l)
          BY <2>4, <3>4 DEF Passed
        <4>3. Cardinality(Passed(l)') = Cardinality(Passed(l)) - 1 /\ Cardinality(Passed(l)) \in Nat
          BY <3>1, <4>2, PassedCount
        <4> QED  BY <1>6, <2>1, <3>4, <4>1, <4>3 DEF Shared, LimiterInv
      <3>5. CASE l # k /\ l \notin {visit.tenant, visit.region}
        <4>1. admitted'[l] = admitted[l]
          BY <1>4, <3>1, <3>5 DEF KeysOf
        <4> QED  BY <1>6, <2>1, <3>2, <3>5, <4>1, PassedCount DEF Shared, LimiterInv
      <3> QED  BY <3>3, <3>4, <3>5
    <2> QED  BY <1>0, <2>3, <2>4
  <1>8. /\ limits' \in [Key -> BucketLimit] /\ outdated' \subseteq buckets' /\ buckets' \subseteq Key
        /\ UNCHANGED <<limits, outdated>>
    BY <1>1, <1>2, <1>6 DEF LimiterInv
  <1> QED  BY <1>5, <1>6, <1>7, <1>8 DEF LimiterInv

\* A request that gives up, or begins, has no token with it.
LEMMA UnderWayStep ==
    ASSUME LimiterInv, NEW v \in Visitor, Visits(v) \/ Refuse(v)
    PROVE  LimiterInv'
  <1>1. visitor' \in [Visitor -> Visit] /\ visitor'[v].next \in {"tenant", "over"}
        /\ \A u \in Visitor \ {v} : visitor'[u] = visitor[u]
    BY DEF Visits, Refuse, LimiterInv, Visit
  <1>2. UNCHANGED <<limits, buckets, capacity, rate, tokens, granted, admitted, outdated>>
    BY DEF Visits, Refuse, bucket
  <1>3. ASSUME NEW k \in Key \ outdated PROVE Shared(k)'
    <2>1. Passed(k)' = Passed(k) \ {v}
      BY <1>1 DEF Passed
    <2>2. Cardinality(Passed(k)') \in Nat /\ Cardinality(Passed(k)') <= Cardinality(Passed(k))
      BY <2>1, PassedCount
    <2>3. TokensOf(k)' = TokensOf(k) /\ TokensOf(k) \in Nat /\ admitted[k] \in Nat /\ granted[k] \in Nat
      BY <1>2 DEF LimiterInv, TokensOf
    <2> QED  BY <1>2, <2>2, <2>3, PassedCount DEF LimiterInv, Shared
  <1> QED  BY <1>1, <1>2, <1>3 DEF LimiterInv

\* No request passes the levels under the name of a stream or the address of a client.
LEMMA NoneUnderSingle == ASSUME LimiterInv, NEW k \in Single PROVE Cardinality(Passed(k)) = 0
  <1>1. Passed(k) = {}
    BY LimiterAssumption DEF LimiterInv, Passed, Visit, Level
  <1> QED  BY <1>1, FS_EmptySet

\* A stream or an address takes a token.
LEMMA SingleStep == ASSUME LimiterInv, NEW k \in Single, AllowedSingle(k) PROVE LimiterInv'
  <1>1. k \in Key /\ Cardinality(Passed(k)) = 0 /\ \A l : Passed(l)' = Passed(l)
    BY NoneUnderSingle DEF Key, AllowedSingle, Passed
  <1>2. /\ buckets' = buckets \cup {k} /\ tokens' \in [Key -> Nat]
        /\ capacity' \in [Key -> Nat] /\ rate' \in [Key -> Nat] /\ granted' \in [Key -> Nat]
        /\ \A l \in Key \ {k} : TokensOf(l)' = TokensOf(l) /\ granted'[l] = granted[l]
        /\ k \notin outdated =>
              admitted[k] + Cardinality(Passed(k)) + TokensOf(k)' + 1 <= granted'[k]
        /\ \A l \in buckets' \ outdated : rate'[l] = limits[l].rate
        /\ \A l \in Key \ (buckets') : granted'[l] = 0
    BY <1>1, TokenTaken DEF AllowedSingle
  <1>3. /\ admitted' = [admitted EXCEPT ![k] = IF k \in outdated THEN @ ELSE @ + 1]
        /\ UNCHANGED <<limits, visitor, outdated>>
    BY DEF AllowedSingle
  <1>4. ASSUME NEW l \in Key \ outdated PROVE Shared(l)'
    <2>1. TokensOf(l)' \in Nat /\ admitted[l] \in Nat /\ granted'[l] \in Nat
      BY <1>2 DEF LimiterInv, TokensOf
    <2> QED  BY <1>1, <1>2, <1>3, <2>1, PassedCount DEF LimiterInv, Shared
  <1> QED  BY <1>1, <1>2, <1>3, <1>4 DEF LimiterInv

\* The bucket of a stream is cleaned up; the stream starts anew.
LEMMA CleanupStep == ASSUME LimiterInv, NEW k \in Stream, CleanupStream(k) PROVE LimiterInv'
  <1>1. k \in Single /\ k \in Key /\ Cardinality(Passed(k)) = 0 /\ \A l : Passed(l)' = Passed(l)
    BY NoneUnderSingle DEF Key, Single, CleanupStream, Passed
  <1>2. /\ buckets' = buckets \ {k} /\ granted' = [granted EXCEPT ![k] = 0]
        /\ admitted' = [admitted EXCEPT ![k] = 0] /\ outdated' = outdated \ {k}
        /\ UNCHANGED <<limits, capacity, rate, tokens, visitor>>
    BY DEF CleanupStream
  <1>3. ASSUME NEW l \in Key \ (outdated') PROVE Shared(l)'
    <2>1. CASE l = k
      BY <1>1, <1>2, <2>1 DEF LimiterInv, Shared, TokensOf
    <2>2. CASE l # k
      BY <1>1, <1>2, <2>2 DEF LimiterInv, Shared, TokensOf
    <2> QED  BY <2>1, <2>2
  <1> QED  BY <1>2, <1>3 DEF LimiterInv

\* Keys in use whose limits change are not counted any more.
LEMMA ReloadStep == ASSUME LimiterInv, ReloadConfig PROVE LimiterInv'
  <1>1. /\ limits' \in [Key -> BucketLimit] /\ outdated' = outdated \cup Outdates
        /\ granted' = StopCounting(granted) /\ admitted' = StopCounting(admitted)
        /\ UNCHANGED <<buckets, capacity, rate, tokens, visitor>>
    BY LimiterAssumption DEF ReloadConfig, bucket
  <1>2. Outdates \subseteq buckets /\ \A k \in buckets \ Outdates : limits'[k] = limits[k]
    BY DEF Outdates
  <1>3. /\ granted' \in [Key -> Nat] /\ admitted' \in [Key -> Nat]
        /\ \A k \in Key \ Outdates : granted'[k] = granted[k] /\ admitted'[k] = admitted[k]
        /\ \A k \in Outdates : granted'[k] = 0
    BY <1>1, <1>2 DEF StopCounting, LimiterInv
  <1> HIDE DEF Outdates
  <1>4. ASSUME NEW k \in Key \ (outdated') PROVE Shared(k)'
    <2>1. Passed(k)' = Passed(k) /\ TokensOf(k)' = TokensOf(k)
      BY <1>1 DEF Passed, TokensOf
    <2> QED  BY <1>1, <1>3, <2>1 DEF LimiterInv, Shared
  <1> QED  BY <1>1, <1>2, <1>3, <1>4 DEF LimiterInv

\* A bucket is filled by no more than the configuration allows its key.
LEMMA LimiterTickStep == ASSUME LimiterInv, LimiterTick PROVE LimiterInv'
  <1>1. ASSUME NEW k \in Key
        PROVE  /\ tokens'[k] \in Nat /\ granted'[k] \in Nat
               /\ k \notin outdated => Shared(k)'
               /\ k \notin buckets => granted'[k] = granted[k]
    <2>1. /\ tokens'[k] = IF k \in buckets THEN AtMost(capacity[k], tokens[k] + rate[k]) ELSE tokens[k]
          /\ granted'[k] = IF k \in buckets \ outdated THEN granted[k] + limits[k].rate ELSE granted[k]
          /\ UNCHANGED <<buckets, admitted>> /\ Passed(k)' = Passed(k)
      BY DEF LimiterTick, Passed
    <2>2. /\ capacity[k] \in Nat /\ rate[k] \in Nat /\ tokens[k] \in Nat /\ admitted[k] \in Nat
          /\ granted[k] \in Nat /\ Cardinality(Passed(k)) \in Nat /\ limits[k].rate \in Nat
      BY PassedCount DEF LimiterInv, BucketLimit
    <2>3. k \in buckets \ outdated => rate[k] = limits[k].rate
      BY DEF LimiterInv
    <2>4. k \notin outdated => Shared(k)
      BY DEF LimiterInv
    <2> QED  BY <2>1, <2>2, <2>3, <2>4 DEF Shared, TokensOf, AtMost
  <1>2. tokens' = [k \in Key |-> tokens'[k]] /\ granted' = [k \in Key |-> granted'[k]]
    BY DEF LimiterTick
  <1>3. tokens' \in [Key -> Nat] /\ granted' \in [Key -> Nat]
    BY <1>1, <1>2
  <1> QED  BY <1>1, <1>3 DEF LimiterTick, LimiterInv

\* It is an invariant.
LEMMA LimiterInvariant == LimiterSpec => []LimiterInv
  <1>1. LimiterInit => LimiterInv
    <2> SUFFICES ASSUME LimiterInit PROVE LimiterInv
      OBVIOUS
    <2>1. \A k \in Key : Passed(k) = {}
      BY DEF LimiterInit, Passed, Visit
    <2>2. visitor \in [Visitor -> Visit]
      BY DEF LimiterInit
    <2>3. limits \in [Key -> BucketLimit] /\ buckets = {}
      BY LimiterAssumption DEF LimiterInit
    <2>4. \A k \in Key : admitted[k] = 0 /\ granted[k] = 0 /\ TokensOf(k) = 0
                          /\ Cardinality(Passed(k)) = 0
      BY <2>1, <2>3, FS_EmptySet DEF LimiterInit, TokensOf
    <2>5. \A k \in Key : Shared(k)
      BY <2>4 DEF Shared
    <2> QED  BY <2>2, <2>3, <2>5 DEF LimiterInit, LimiterInv
  <1>2. LimiterInv /\ [LimiterNext]_limiterVars => LimiterInv'
    <2> SUFFICES ASSUME LimiterInv, [LimiterNext]_limiterVars PROVE LimiterInv'
      OBVIOUS
    <2>1. CASE UNCHANGED limiterVars
      BY <2>1 DEF limiterVars, bucket, LimiterInv, Shared, TokensOf, Passed
    <2> QED  BY <2>1, AllowedStep, UnderWayStep, SingleStep, CleanupStep, ReloadStep, LimiterTickStep
             DEF LimiterNext
  <1> QED  BY <1>1, <1>2, PTL DEF LimiterSpec

\* Under limits that are not changed while a key is in use, no level admits more requests
\* than the configuration allows, for any number of requests that interleave between the
\* levels and whatever is reloaded for other keys.
THEOREM AdmittedWithinRate == LimiterSpec => []WithinRate
  <1>1. LimiterInv => WithinRate
    <2> SUFFICES ASSUME LimiterInv, NEW k \in Key \ outdated PROVE admitted[k] <= granted[k]
      BY DEF WithinRate
    <2>1. TokensOf(k) \in Nat /\ admitted[k] \in Nat /\ granted[k] \in Nat /\ Shared(k)
      BY DEF LimiterInv, TokensOf
    <2> QED  BY <2>1, PassedCount DEF Shared
  <1> QED  BY <1>1, LimiterInvariant, PTL

\* No bucket holds more tokens than it was made for, whatever is configured meanwhile.
THEOREM LimiterTypesHold == LimiterSpec => []LimiterTypeOK
  <1> DEFINE Full == limits \in Configs /\ \A k \in buckets : tokens[k] <= capacity[k]
  <1>1. LimiterInit => Full
    BY DEF LimiterInit
  <1>2. Full /\ LimiterInv /\ [LimiterNext]_limiterVars => Full'
    <2> SUFFICES ASSUME Full, LimiterInv, [LimiterNext]_limiterVars PROVE Full'
      OBVIOUS
    <2>1. ASSUME NEW k \in Key, Held(k) >= 1, BucketFor(k), UNCHANGED limits,
                 tokens' = [tokens EXCEPT ![k] = Held(k) - 1]
          PROVE  Full'
      <3>1. Held(k) \in Nat
        BY DEF LimiterInv, Held, BucketLimit
      <3> QED  BY <2>1, <3>1 DEF LimiterInv, BucketFor, Held, BucketLimit
    <2>2. ASSUME NEW v \in Visitor, Allowed(v) PROVE Full'
      <3>1. LevelKey(visitor[v]) \in Key
        BY <2>2 DEF LimiterInv, Allowed, Visit, LevelKey, Key, Level
      <3> QED  BY <2>1, <2>2, <3>1 DEF Allowed
    <2>3. ASSUME NEW k \in Single, AllowedSingle(k) PROVE Full'
      BY <2>1, <2>3 DEF AllowedSingle, Key
    <2>4. ASSUME NEW v \in Visitor, Visits(v) \/ Refuse(v) PROVE Full'
      BY <2>4 DEF Visits, Refuse, bucket
    <2>5. ASSUME NEW k \in Stream, CleanupStream(k) PROVE Full'
      BY <2>5 DEF CleanupStream
    <2>6. CASE ReloadConfig
      BY <2>6 DEF ReloadConfig, bucket
    <2>7. CASE LimiterTick
      BY <2>7 DEF LimiterTick, AtMost, LimiterInv
    <2>8. CASE UNCHANGED limiterVars
      BY <2>8 DEF limiterVars, bucket
    <2> QED  BY <2>2, <2>3, <2>4, <2>5, <2>6, <2>7, <2>8 DEF LimiterNext
  <1>3. Full /\ LimiterInv => LimiterTypeOK
    BY DEF LimiterTypeOK, LimiterInv
  <1>4. LimiterSpec => []LimiterInv
    BY LimiterInvariant
  <1> QED  BY <1>1, <1>2, <1>3, <1>4, PTL DEF LimiterSpec

-----------------------------------------------------------------------------
\* A connection is served, or over, and the drain waits no longer than it may.
THEOREM DrainTypesHold == DrainSpec => []DrainTypeOK
  <1> USE DrainAssumption DEF DrainTypeOK
  <1>1. DrainInit => DrainTypeOK
    BY DEF DrainInit
  <1>2. DrainTypeOK /\ [DrainNext]_drainVars => DrainTypeOK'
    BY DEF DrainNext, WebsocketStream, TurnAway, StreamEnds, Shutdown, Pause, DrainReturns,
           Untried, drainVars
  <1> QED  BY <1>1, <1>2, PTL DEF DrainSpec

-----------------------------------------------------------------------------
(* CostTracker *)

\* No entry exceeds the account it is part of.
CostInv ==
    /\ daily_cost \in Nat /\ monthly_cost \in 0 .. MaxMonth /\ torn \in BOOLEAN
    /\ daily_cost <= monthly_cost
    /\ DOMAIN call_costs = CallId /\ call_costs = [c \in CallId |-> call_costs[c]]
    /\ \A c \in CallId : call_costs[c] \in Nat /\ call_costs[c] <= daily_cost
    /\ DOMAIN provider_costs \in {Providers4, Providers4 \ {"openai"}}
    /\ provider_costs = [p \in DOMAIN provider_costs |-> provider_costs[p]]
    /\ \A p \in DOMAIN provider_costs : provider_costs[p] \in Nat /\ provider_costs[p] <= daily_cost
    /\ user_daily_costs \in [User -> Nat] /\ user_call_counts \in [User -> Nat]
    /\ \A u \in User : user_daily_costs[u] <= monthly_cost
    /\ user_alerts \subseteq User

\* A call is entered with its whole cost, and charged to no provider with more.
LEMMA EntryStep ==
    ASSUME CostInv, NEW call \in CallId, NEW stt \in Costs, NEW tts \in Costs, NEW llm \in Costs,
           NEW charge \in {llm, 0}, NEW provider \in {"gemini", "openai"},
           EnterCall(call, stt + tts + llm),
           provider_costs' = Charged(stt, tts, charge, provider)
    PROVE  /\ stt + tts + llm \in Nat /\ monthly_cost' \in 0 .. MaxMonth
           /\ daily_cost' = daily_cost + stt + tts + llm
           /\ monthly_cost' = monthly_cost + stt + tts + llm
           /\ DOMAIN call_costs' = CallId /\ call_costs' = [c \in CallId |-> call_costs'[c]]
           /\ \A c \in CallId : call_costs'[c] \in Nat /\ call_costs'[c] <= daily_cost'
           /\ DOMAIN provider_costs' = DOMAIN provider_costs
           /\ provider_costs' = [p \in DOMAIN provider_costs |-> provider_costs'[p]]
           /\ \A p \in DOMAIN provider_costs :
                 provider_costs'[p] \in Nat /\ provider_costs'[p] <= daily_cost'
  <1>1. stt \in Nat /\ tts \in Nat /\ llm \in Nat /\ charge \in Nat /\ charge <= llm /\ MaxMonth \in Nat
    BY CostAssumption
  <1>2. /\ monthly_cost + (stt + tts + llm) <= MaxMonth
        /\ daily_cost' = daily_cost + (stt + tts + llm)
        /\ monthly_cost' = monthly_cost + (stt + tts + llm)
        /\ call_costs' = [call_costs EXCEPT ![call] = stt + tts + llm]
    BY DEF EnterCall
  <1>3. \A p \in DOMAIN provider_costs : \E due \in {stt, tts, charge, 0} :
            provider_costs'[p] = provider_costs[p] + due
    <2> SUFFICES ASSUME NEW p \in DOMAIN provider_costs
                 PROVE  \E due \in {stt, tts, charge, 0} : provider_costs'[p] = provider_costs[p] + due
      OBVIOUS
    <2>1. CASE p = "google_stt"
      BY <2>1 DEF Charged
    <2>2. CASE p = "google_tts"
      BY <2>2 DEF Charged
    <2>3. CASE p = provider
      BY <2>3 DEF Charged
    <2>4. CASE p \notin {"google_stt", "google_tts", provider}
      BY <2>4 DEF Charged
    <2> QED  BY <2>1, <2>2, <2>3, <2>4
  <1>4. /\ DOMAIN provider_costs' = DOMAIN provider_costs
        /\ provider_costs' = [p \in DOMAIN provider_costs |-> provider_costs'[p]]
    BY DEF Charged
  <1>5. \A c \in CallId : call_costs'[c] = IF c = call THEN stt + tts + llm ELSE call_costs[c]
    BY <1>2 DEF CostInv
  <1>6. DOMAIN call_costs' = CallId /\ call_costs' = [c \in CallId |-> call_costs'[c]]
    BY <1>2 DEF CostInv
  <1> QED  BY <1>1, <1>2, <1>3, <1>4, <1>5, <1>6 DEF CostInv

\* The accounts begin with nothing.
LEMMA CostInvInit == CostInit => CostInv
  <1> SUFFICES ASSUME CostInit PROVE CostInv
    OBVIOUS
  <1>1. torn \in BOOLEAN
    BY DEF CostInit
  <1>2. /\ daily_cost = 0 /\ monthly_cost = 0 /\ user_alerts = {}
        /\ call_costs = NoCosts(CallId) /\ provider_costs = NoCosts(Providers4)
        /\ user_daily_costs = NoCosts(User) /\ user_call_counts = NoCosts(User)
    BY DEF CostInit
  <1> QED  BY <1>1, <1>2, CostAssumption DEF CostInv, NoCosts

\* Calls, also the ones that fail half-way, and resets preserve it.
LEMMA CostInvStep == CostInv /\ [CostNext]_costVars => CostInv'
  <1> SUFFICES ASSUME CostInv, [CostNext]_costVars PROVE CostInv'
    OBVIOUS
  <1> USE CostAssumption
  <1>1. ASSUME NEW call \in CallId, NEW stt \in Costs, NEW tts \in Costs, NEW llm \in Costs,
               NEW user \in User, NEW provider \in {"gemini", "openai"},
               RecordCall(call, user, provider, stt, tts, llm)
        PROVE  CostInv'
    <2>1. /\ user_daily_costs' = [user_daily_costs EXCEPT ![user] = @ + stt + tts + llm]
          /\ user_call_counts' = [user_call_counts EXCEPT ![user] = @ + 1]
          /\ user_alerts' \subseteq User /\ torn' = torn
      BY <1>1 DEF RecordCall, CheckBudgets, CostInv
    <2>2. stt \in Nat /\ tts \in Nat /\ llm \in Nat
      OBVIOUS
    <2> QED  BY <1>1, <2>1, <2>2, EntryStep DEF RecordCall, CostInv
  <1>2. ASSUME NEW call \in CallId, NEW stt \in Costs, NEW tts \in Costs, NEW llm \in Costs,
               RecordCallFails(call, stt, tts, llm)
        PROVE  CostInv'
    <2>1. torn' = TRUE /\ UNCHANGED <<user_daily_costs, user_call_counts, user_alerts>>
      BY <1>2 DEF RecordCallFails, userAccounts
    <2>2. stt \in Nat /\ tts \in Nat /\ llm \in Nat
      OBVIOUS
    <2> QED  BY <1>2, <2>1, <2>2, EntryStep DEF RecordCallFails, CostInv
  <1>3. CASE ResetDailyCost \/ ResetMonthlyCost
    <2>1. torn' \in BOOLEAN
      BY <1>3 DEF ResetDailyCost, ResetMonthlyCost, CostInv
    <2>2. /\ daily_cost' = 0 /\ monthly_cost' \in {monthly_cost, 0} /\ user_alerts' \in {user_alerts, {}}
          /\ call_costs' = NoCosts(CallId)
          /\ \/ provider_costs' = NoCosts(Providers4)
             \/ provider_costs' = NoCosts(Providers4 \ {"openai"})
          /\ \/ /\ user_daily_costs' = NoCosts(User) /\ user_call_counts' = NoCosts(User)
             \/ UNCHANGED <<monthly_cost, user_daily_costs, user_call_counts>>
      BY <1>3 DEF ResetDailyCost, ResetMonthlyCost, userAccounts
    <2> QED  BY <2>1, <2>2 DEF NoCosts, CostInv
  <1>4. CASE UNCHANGED costVars
    BY <1>4 DEF costVars, dayAccounts, userAccounts, CostInv
  <1> QED  BY <1>1, <1>2, <1>3, <1>4 DEF CostNext

\* No account, whatever it is reset with, holds more than the month does.
THEOREM CostTypesHold == CostSpec => []CostTypeOK
  <1>1. CostInit => CostInv
    BY CostInvInit
  <1>2. CostInv => CostTypeOK
    <2> SUFFICES ASSUME CostInv PROVE CostTypeOK
      OBVIOUS
    <2>1. call_costs \in [CallId -> 0 .. MaxMonth]
      BY CostAssumption DEF CostInv
    <2>2. user_daily_costs \in [User -> 0 .. MaxMonth]
      BY CostAssumption DEF CostInv
    <2> QED  BY <2>1, <2>2, CostAssumption DEF CostInv, CostTypeOK
  <1> QED  BY <1>1, <1>2, CostInvStep, PTL DEF CostSpec

-----------------------------------------------------------------------------
(* The totals of CostTracker's accounts *)

\* The library adds up a set by picking one element after the other; sums is what it
\* has for every subset.
Picked(s) == CHOOSE x \in s : TRUE
AddsUp(f, S, sums) ==
    sums = [s \in SUBSET S |-> IF s = {} THEN 0 ELSE f[Picked(s)] + sums[s \ {Picked(s)}]]

\* Such sums exist for a finite set: those of n elements from those of fewer.
LEMMA SumsExist ==
    ASSUME NEW S, IsFiniteSet(S), NEW f \in [S -> Nat]
    PROVE  \E sums : AddsUp(f, S, sums)
  <1> DEFINE One(g, s) == IF s = {} THEN 0 ELSE f[Picked(s)] + g[s \ {Picked(s)}]
             Upto(n, g) == \A s \in SUBSET S : Cardinality(s) <= n => g[s] = One(g, s)
             Bad == {n \in Nat : ~\E g \in [SUBSET S -> Nat] : Upto(n, g)}
  <1>1. \A s \in SUBSET S : IsFiniteSet(s) /\ Cardinality(s) \in Nat
    BY FS_Subset, FS_CardinalityType
  <1>2. \A s \in SUBSET S : s # {} => /\ Picked(s) \in s /\ s \ {Picked(s)} \in SUBSET S
                                      /\ Cardinality(s \ {Picked(s)}) = Cardinality(s) - 1
    <2> SUFFICES ASSUME NEW s \in SUBSET S, s # {}
                 PROVE  /\ Picked(s) \in s /\ s \ {Picked(s)} \in SUBSET S
                        /\ Cardinality(s \ {Picked(s)}) = Cardinality(s) - 1
      OBVIOUS
    <2>1. Picked(s) \in s
      BY DEF Picked
    <2> QED  BY <1>1, <2>1, FS_RemoveElement
  <1>3. ASSUME NEW g \in [SUBSET S -> Nat], NEW s \in SUBSET S PROVE One(g, s) \in Nat
    <2>1. CASE s = {}
      BY <2>1
    <2>2. CASE s # {}
      <3>1. f[Picked(s)] \in Nat /\ g[s \ {Picked(s)}] \in Nat
        BY <1>2, <2>2
      <3> QED  BY <2>2, <3>1
    <2> QED  BY <2>1, <2>2
  <1>4. Bad = {}
    <2> SUFFICES ASSUME Bad # {} PROVE FALSE
      OBVIOUS
    <2>1. PICK n \in Bad : \A m \in Bad : ~(<<m, n>> \in OpToRel(<, Nat))
      <3>1. IsWellFoundedOn(OpToRel(<, Nat), Nat)
        BY NatLessThanWellFounded
      <3> HIDE DEF Upto
      <3> QED  BY <3>1, WFMin
    <2>2. n \in Nat /\ \A m \in Nat : m < n => \E g \in [SUBSET S -> Nat] : Upto(m, g)
      BY <2>1 DEF OpToRel
    <2>3. CASE n = 0
      <3> DEFINE g == [s \in SUBSET S |-> 0]
      <3>1. \A s \in SUBSET S : Cardinality(s) <= 0 => s = {}
        BY <1>1, FS_EmptySet
      <3>2. g \in [SUBSET S -> Nat] /\ Upto(0, g)
        BY <3>1
      <3> QED  BY <2>1, <2>3, <3>2
    <2>4. CASE n > 0
      <3>1. n - 1 \in Nat /\ n - 1 < n
        BY <2>2, <2>4
      <3>2. PICK g \in [SUBSET S -> Nat] : Upto(n - 1, g)
        BY <2>2, <3>1
      <3> DEFINE h == [s \in SUBSET S |-> One(g, s)]
      <3>3. h \in [SUBSET S -> Nat]
        BY <1>3
      <3>4. \A s \in SUBSET S : h[s] = One(g, s)
        OBVIOUS
      <3>5. ASSUME NEW s \in SUBSET S, Cardinality(s) <= n PROVE h[s] = One(h, s)
        <4>1. CASE s = {}
          BY <3>4, <4>1
        <4>2. CASE s # {}
          <5> DEFINE t == s \ {Picked(s)}
          <5>1. t \in SUBSET S /\ Cardinality(t) <= n - 1
            BY <1>1, <1>2, <2>2, <3>5, <4>2
          <5>2. g[t] = One(g, t)
            BY <3>2, <5>1
          <5>3. h[t] = g[t]
            BY <3>4, <5>1, <5>2
          <5> HIDE DEF h
          <5> QED  BY <3>4, <4>2, <5>3
        <4> QED  BY <4>1, <4>2
      <3>6. Upto(n, h)
        BY <3>5
      <3> QED  BY <2>1, <3>3, <3>6
    <2> QED  BY <2>2, <2>3, <2>4
  <1>5. Cardinality(S) \in Nat
    BY <1>1
  <1>6. PICK g \in [SUBSET S -> Nat] : Upto(Cardinality(S), g)
    BY <1>4, <1>5
  <1>7. \A s \in SUBSET S : g[s] = One(g, s)
    BY <1>1, <1>6, FS_Subset
  <1>8. g = [s \in SUBSET S |-> One(g, s)]
    BY <1>7
  <1> QED  BY <1>8 DEF AddsUp

\* What Total computes.
LEMMA TotalAddsUp ==
    ASSUME NEW S, IsFiniteSet(S), NEW f \in [S -> Nat]
    PROVE  \E sums : AddsUp(f, S, sums) /\ Total(f) = sums[S]
  <1>1. Total(f) = (CHOOSE g : AddsUp(f, DOMAIN f, g))[DOMAIN f]
    BY DEF Total, MapThenSumSet, MapThenFoldSet, AddsUp, Picked
  <1>2. AddsUp(f, S, CHOOSE g : AddsUp(f, S, g))
    BY SumsExist
  <1> QED  BY <1>1, <1>2

\* Two functions that differ at one place have sums that differ by as much: the elements
\* are picked in the same order.
LEMMA SumsDiffer ==
    ASSUME NEW S, IsFiniteSet(S), NEW f \in [S -> Nat], NEW h \in [S -> Nat], NEW x \in S, NEW d \in Nat,
           h[x] = f[x] + d, \A y \in S \ {x} : h[y] = f[y],
           NEW sums, AddsUp(f, S, sums), NEW more, AddsUp(h, S, more)
    PROVE  \A s \in SUBSET S : sums[s] \in Nat /\ more[s] = sums[s] + (IF x \in s THEN d ELSE 0)
  <1> DEFINE Fits(s) == sums[s] \in Nat /\ more[s] = sums[s] + (IF x \in s THEN d ELSE 0)
             Bad == {s \in FiniteSubsetsOf(S) : ~Fits(s)}
  <1>1. \A s \in SUBSET S : IsFiniteSet(s)
    BY FS_Subset
  <1>2. Bad = {}
    <2> SUFFICES ASSUME Bad # {} PROVE FALSE
      OBVIOUS
    <2>1. PICK s \in Bad : \A t \in Bad : ~(<<t, s>> \in StrictSubsetOrdering(S))
      <3> HIDE DEF Fits
      <3> QED  BY FS_StrictSubsetOrderingWellFounded, WFMin
    <2>2. s \in SUBSET S /\ ~Fits(s)
      BY <2>1 DEF FiniteSubsetsOf
    <2>3. /\ sums[s] = IF s = {} THEN 0 ELSE f[Picked(s)] + sums[s \ {Picked(s)}]
          /\ more[s] = IF s = {} THEN 0 ELSE h[Picked(s)] + more[s \ {Picked(s)}]
      BY <2>2 DEF AddsUp
    <2>4. CASE s = {}
      BY <2>2, <2>3, <2>4
    <2>5. CASE s # {}
      <3>1. PICK p \in s : p = Picked(s)
        BY <2>5 DEF Picked
      <3> DEFINE t == s \ {p}
      <3>2. t \in SUBSET S /\ <<t, s>> \in StrictSubsetOrdering(S)
        BY <2>2 DEF StrictSubsetOrdering
      <3>3. Fits(t)
        BY <1>1, <2>1, <3>2 DEF FiniteSubsetsOf
      <3>4. sums[s] = f[p] + sums[t] /\ more[s] = h[p] + more[t]
        BY <2>3, <2>5, <3>1
      <3>5. p \in S /\ f[p] \in Nat /\ h[p] \in Nat
        BY <2>2
      <3>6. CASE p = x
        <4>1. x \in s /\ x \notin t
          BY <3>6
        <4> QED  BY <2>2, <3>3, <3>4, <3>5, <3>6, <4>1
      <3>7. CASE p # x
        <4>1. h[p] = f[p] /\ (x \in s <=> x \in t)
          BY <3>5, <3>7
        <4> QED  BY <2>2, <3>3, <3>4, <3>5, <4>1
      <3> QED  BY <3>6, <3>7
    <2> QED  BY <2>4, <2>5
  <1> QED  BY <1>1, <1>2 DEF FiniteSubsetsOf

\* The accounts h are the accounts f with d entered for x.
Entered(S, f, h, x, d) ==
    /\ f \in [S -> Nat] /\ h \in [S -> Nat] /\ x \in S /\ d \in Nat
    /\ h[x] = f[x] + d /\ \A y \in S \ {x} : h[y] = f[y]

\* An entry of an account adds as much to its total.
LEMMA TotalGrows ==
    ASSUME NEW S, IsFiniteSet(S), NEW f, NEW h, NEW x, NEW d, Entered(S, f, h, x, d)
    PROVE  Total(f) \in Nat /\ Total(h) = Total(f) + d
  <1>1. /\ f \in [S -> Nat] /\ h \in [S -> Nat] /\ x \in S /\ d \in Nat
        /\ h[x] = f[x] + d /\ \A y \in S \ {x} : h[y] = f[y]
    BY DEF Entered
  <1>2. PICK sums : AddsUp(f, S, sums) /\ Total(f) = sums[S]
    BY <1>1, TotalAddsUp
  <1>3. PICK more : AddsUp(h, S, more) /\ Total(h) = more[S]
    BY <1>1, TotalAddsUp
  <1>4. sums[S] \in Nat /\ more[S] = sums[S] + (IF x \in S THEN d ELSE 0)
    BY <1>1, <1>2, <1>3, SumsDiffer
  <1> QED  BY <1>1, <1>2, <1>3, <1>4

\* An account without entries has nothing.
LEMMA TotalOfNothing == ASSUME NEW S, IsFiniteSet(S) PROVE Total(NoCosts(S)) = 0
  <1> DEFINE f == NoCosts(S)
  <1>1. f \in [S -> Nat] /\ \A y \in S : f[y] = 0
    BY DEF NoCosts
  <1>2. PICK sums : AddsUp(f, S, sums) /\ Total(f) = sums[S]
    BY <1>1, TotalAddsUp
  <1> HIDE DEF f
  <1> DEFINE Bad == {s \in FiniteSubsetsOf(S) : sums[s] # 0}
  <1>3. Bad = {}
    <2> SUFFICES ASSUME Bad # {} PROVE FALSE
      OBVIOUS
    <2>1. PICK s \in Bad : \A t \in Bad : ~(<<t, s>> \in StrictSubsetOrdering(S))
      BY FS_StrictSubsetOrderingWellFounded, WFMin
    <2>2. s \in SUBSET S /\ sums[s] # 0
      BY <2>1 DEF FiniteSubsetsOf
    <2>3. sums[s] = IF s = {} THEN 0 ELSE f[Picked(s)] + sums[s \ {Picked(s)}]
      BY <1>2, <2>2 DEF AddsUp
    <2>4. PICK p \in s : p = Picked(s) /\ s # {}
      BY <2>2, <2>3 DEF Picked
    <2>5. s \ {p} \in SUBSET S /\ IsFiniteSet(s \ {p}) /\ <<s \ {p}, s>> \in StrictSubsetOrdering(S)
      BY <2>2, FS_Subset DEF StrictSubsetOrdering
    <2>6. sums[s \ {p}] = 0
      BY <2>1, <2>5 DEF FiniteSubsetsOf
    <2> QED  BY <1>1, <2>2, <2>3, <2>4, <2>6
  <1>4. S \in FiniteSubsetsOf(S)
    BY DEF FiniteSubsetsOf
  <1> QED  BY <1>2, <1>3, <1>4 DEF f

\* There are as many providers as the code names.
LEMMA ProvidersFinite == IsFiniteSet(Providers4) /\ IsFiniteSet(Providers4 \ {"openai"})
  <1>1. Providers4 = (({"google_stt"} \cup {"google_tts"}) \cup {"gemini"}) \cup {"openai"}
    BY DEF Providers4
  <1>2. IsFiniteSet({"google_stt"})
    BY FS_Singleton
  <1>3. IsFiniteSet({"google_stt"} \cup {"google_tts"})
    BY <1>2, FS_AddElement
  <1>4. IsFiniteSet(({"google_stt"} \cup {"google_tts"}) \cup {"gemini"})
    BY <1>3, FS_AddElement
  <1>5. IsFiniteSet(Providers4)
    BY <1>1, <1>4, FS_AddElement
  <1> QED  BY <1>5, FS_RemoveElement

\* What a call costs is added to the totals of the day's accounts, whether or not the
\* provider of its model has one: by all of it, or by the cost of the speech services.
LEMMA TotalsOfEntry ==
    ASSUME CostInv, NEW call \in CallId, NEW stt \in Costs, NEW tts \in Costs, NEW llm \in Costs,
           NEW charge \in {llm, 0}, NEW provider \in {"gemini", "openai"},
           provider \in DOMAIN provider_costs \/ charge = 0,
           EnterCall(call, stt + tts + llm),
           provider_costs' = Charged(stt, tts, charge, provider)
    PROVE  /\ Total(call_costs)' <= Total(call_costs) + stt + tts + llm
           /\ Total(call_costs) \in Nat /\ Total(call_costs)' \in Nat
           /\ Total(provider_costs) \in Nat
           /\ Total(provider_costs)' = Total(provider_costs) + stt + tts + charge
  <1>1. stt \in Nat /\ tts \in Nat /\ llm \in Nat /\ charge \in Nat
        /\ IsFiniteSet(User) /\ IsFiniteSet(CallId)
    BY CostAssumption
  <1>2. /\ Total(call_costs)' <= Total(call_costs) + stt + tts + llm
        /\ Total(call_costs) \in Nat /\ Total(call_costs)' \in Nat
    <2>1. PICK old \in [CallId -> Nat] : old = call_costs
      BY DEF CostInv
    <2>2. PICK new \in [CallId -> Nat] : new = call_costs' /\ new[call] = stt + tts + llm
                                         /\ \A c \in CallId \ {call} : new[c] = old[c]
      <3>1. call_costs' = [old EXCEPT ![call] = stt + tts + llm] /\ stt + tts + llm \in Nat
        BY <1>1, <2>1 DEF EnterCall
      <3>2. call_costs' \in [CallId -> Nat] /\ call_costs'[call] = stt + tts + llm
            /\ \A c \in CallId \ {call} : call_costs'[c] = old[c]
        BY <3>1
      <3> QED  BY <3>2
    <2>3. PICK less \in [CallId -> Nat] : less = [old EXCEPT ![call] = 0]
      OBVIOUS
    <2>4. less[call] = 0 /\ \A c \in CallId \ {call} : less[c] = old[c]
      BY <2>3
    <2>5. Total(less) \in Nat /\ Total(old) = Total(less) + old[call]
      <3>1. PICK d \in Nat : d = old[call]
        BY <2>1
      <3>2. old[call] = less[call] + d /\ \A c \in CallId \ {call} : old[c] = less[c]
        BY <2>4, <3>1
      <3>3. less \in [CallId -> Nat] /\ old \in [CallId -> Nat]
        BY <2>1, <2>3
      <3>4. Entered(CallId, less, old, call, d)
        BY <3>1, <3>2, <3>3 DEF Entered
      <3>5. Total(less) \in Nat /\ Total(old) = Total(less) + d
        BY <1>1, <3>4, TotalGrows
      <3> QED  BY <3>1, <3>5
    <2>6. stt + tts + llm \in Nat
      BY <1>1
    <2>7. Total(new) = Total(less) + (stt + tts + llm)
      <3>1. Entered(CallId, less, new, call, stt + tts + llm)
        BY <2>2, <2>3, <2>4, <2>6 DEF Entered
      <3> QED  BY <1>1, <3>1, TotalGrows
    <2>8. old[call] \in Nat
      OBVIOUS
    <2> QED  BY <1>1, <2>1, <2>2, <2>5, <2>6, <2>7, <2>8
  <1>3. /\ Total(provider_costs) \in Nat
        /\ Total(provider_costs)' = Total(provider_costs) + stt + tts + charge
    <2>1. PICK P : P = DOMAIN provider_costs /\ P \in {Providers4, Providers4 \ {"openai"}}
      BY DEF CostInv
    <2>2. "google_stt" \in P /\ "google_tts" \in P /\ IsFiniteSet(P)
      BY <2>1, ProvidersFinite DEF Providers4
    <2>3. PICK old \in [P -> Nat] : old = provider_costs
      <3>1. provider_costs = [p \in DOMAIN provider_costs |-> provider_costs[p]]
            /\ \A p \in P : provider_costs[p] \in Nat
        BY <2>1 DEF CostInv
      <3>2. provider_costs \in [P -> Nat]
        BY <2>1, <3>1
      <3> QED  BY <3>2
    <2>4. PICK new : new = provider_costs'
      OBVIOUS
    <2>5. /\ DOMAIN new = P /\ new = [p \in P |-> new[p]]
          /\ new["google_stt"] = old["google_stt"] + stt
          /\ new["google_tts"] = old["google_tts"] + tts
          /\ provider \in P => new[provider] = old[provider] + charge
          /\ \A p \in P \ {"google_stt", "google_tts", provider} : new[p] = old[p]
      BY <1>1, <2>1, <2>2, <2>3, <2>4 DEF Charged
    <2>6. PICK heard \in [P -> Nat] : /\ heard["google_stt"] = old["google_stt"] + stt
                                      /\ \A p \in P \ {"google_stt"} : heard[p] = old[p]
      <3> DEFINE heard == [p \in P |-> IF p = "google_stt" THEN old[p] + stt ELSE old[p]]
      <3>1. heard \in [P -> Nat]
        BY <1>1
      <3> QED  BY <2>2, <3>1
    <2>7. Total(old) \in Nat /\ Total(heard) = Total(old) + stt
      <3>1. Entered(P, old, heard, "google_stt", stt)
        BY <1>1, <2>2, <2>3, <2>6 DEF Entered
      <3> QED  BY <2>2, <3>1, TotalGrows
    <2>8. PICK spoken \in [P -> Nat] : /\ spoken["google_tts"] = heard["google_tts"] + tts
                                       /\ \A p \in P \ {"google_tts"} : spoken[p] = heard[p]
      <3> DEFINE spoken == [p \in P |-> IF p = "google_tts" THEN heard[p] + tts ELSE heard[p]]
      <3>1. spoken \in [P -> Nat]
        BY <1>1
      <3> QED  BY <2>2, <3>1
    <2>9. Total(spoken) = Total(heard) + tts
      <3>1. Entered(P, heard, spoken, "google_tts", tts)
        BY <1>1, <2>2, <2>6, <2>8 DEF Entered
      <3> QED  BY <2>2, <3>1, TotalGrows
    <2>10. \A p \in P : spoken[p] = IF p = "google_stt" THEN old[p] + stt
                                    ELSE IF p = "google_tts" THEN old[p] + tts ELSE old[p]
      BY <2>2, <2>6, <2>8
    <2>11. CASE provider \in P
      <3>1. new[provider] = spoken[provider] + charge /\ \A p \in P \ {provider} : new[p] = spoken[p]
        BY <2>2, <2>5, <2>10, <2>11
      <3>2. new \in [P -> Nat]
        <4>1. spoken[provider] + charge \in Nat /\ \A p \in P \ {provider} : spoken[p] \in Nat
          BY <1>1, <2>11
        <4>2. \A p \in P : new[p] \in Nat
          BY <3>1, <4>1
        <4> QED  BY <2>5, <4>2
      <3>3. Total(new) = Total(spoken) + charge
        <4>1. PICK d \in Nat : d = charge
          BY <1>1
        <4>2. new[provider] = spoken[provider] + d /\ \A p \in P \ {provider} : new[p] = spoken[p]
          BY <3>1, <4>1
        <4>3. spoken \in [P -> Nat]
          BY <2>8
        <4>4. Total(new) = Total(spoken) + d
          <5>1. Entered(P, spoken, new, provider, d)
            BY <2>11, <3>2, <4>1, <4>2, <4>3 DEF Entered
          <5> QED  BY <2>2, <5>1, TotalGrows
        <4> QED  BY <4>1, <4>4
      <3> QED  BY <1>1, <2>3, <2>4, <2>7, <2>9, <3>3
    <2>12. CASE provider \notin P
      <3>1. \A p \in P : new[p] = spoken[p]
        BY <2>2, <2>5, <2>10, <2>12
      <3>2. new = spoken /\ charge = 0
        BY <2>1, <2>5, <2>12, <3>1
      <3> QED  BY <1>1, <2>3, <2>4, <2>7, <2>9, <3>2
    <2> QED  BY <2>11, <2>12
  <1> QED  BY <1>2, <1>3

\* The users' accounts have a total.
LEMMA UsersHaveTotal == CostInv => Total(user_daily_costs) \in Nat
  <1> SUFFICES ASSUME CostInv PROVE Total(user_daily_costs) \in Nat
    OBVIOUS
  <1>1. PICK old \in [User -> Nat] : old = user_daily_costs
    BY DEF CostInv
  <1>2. IsFiniteSet(User)
    BY CostAssumption
  <1>3. ASSUME NEW u \in User PROVE Total(old) \in Nat
    <2>1. Entered(User, old, old, u, 0)
      BY DEF Entered
    <2> QED  BY <1>2, <2>1, TotalGrows
  <1>4. CASE User = {}
    <2>1. old = NoCosts(User)
      BY <1>4 DEF NoCosts
    <2> QED  BY <1>1, <1>2, <2>1, TotalOfNothing
  <1> QED  BY <1>1, <1>3, <1>4

\* No account of the day exceeds the day's total, which the month's covers as it does the
\* users' accounts; without a failed entry every unit of the day is with a provider and
\* with some user: for any number of users and calls, and any order of calls, resets
\* and errors.
THEOREM CostsAgree == CostSpec => []AccountsAgree
  <1>1. CostInit => CostInv /\ AccountsAgree
    <2>1. IsFiniteSet(User) /\ IsFiniteSet(CallId) /\ IsFiniteSet(Providers4)
      BY CostAssumption, ProvidersFinite
    <2>2. Total(NoCosts(User)) = 0 /\ Total(NoCosts(CallId)) = 0 /\ Total(NoCosts(Providers4)) = 0
      BY <2>1, TotalOfNothing
    <2>3. CostInit => CostInv
      BY CostInvInit
    <2> QED  BY <2>2, <2>3 DEF CostInit, AccountsAgree
  <1>2. CostInv /\ AccountsAgree /\ [CostNext]_costVars => AccountsAgree'
    <2> SUFFICES ASSUME CostInv, AccountsAgree, [CostNext]_costVars PROVE AccountsAgree'
      OBVIOUS
    <2>1. daily_cost \in Nat /\ monthly_cost \in Nat /\ Total(user_daily_costs) \in Nat
      BY UsersHaveTotal DEF CostInv
    <2>2. IsFiniteSet(User) /\ IsFiniteSet(CallId) /\ IsFiniteSet(Providers4)
          /\ IsFiniteSet(Providers4 \ {"openai"})
      BY CostAssumption, ProvidersFinite
    <2>3. ASSUME NEW call \in CallId, NEW stt \in Costs, NEW tts \in Costs, NEW llm \in Costs,
                 NEW user \in User, NEW provider \in {"gemini", "openai"},
                 RecordCall(call, user, provider, stt, tts, llm)
          PROVE  AccountsAgree'
      <3>1. stt \in Nat /\ tts \in Nat /\ llm \in Nat /\ stt + tts + llm \in Nat
        BY CostAssumption
      <3>2. PICK old \in [User -> Nat] : old = user_daily_costs
        BY DEF CostInv
      <3>3. PICK new \in [User -> Nat] : new = user_daily_costs' /\ new[user] = old[user] + (stt + tts + llm)
                                         /\ \A u \in User \ {user} : new[u] = old[u]
        BY <2>3, <3>1, <3>2 DEF RecordCall
      <3>4. Total(old) \in Nat /\ Total(new) = Total(old) + (stt + tts + llm)
        <4>1. PICK d \in Nat : d = stt + tts + llm
          BY <3>1
        <4>2. new[user] = old[user] + d
          BY <3>3, <4>1
        <4>3. Total(old) \in Nat /\ Total(new) = Total(old) + d
          <5>1. Entered(User, old, new, user, d)
            BY <3>2, <3>3, <4>1, <4>2 DEF Entered
          <5> QED  BY <2>2, <5>1, TotalGrows
        <4> QED  BY <4>1, <4>3
      <3>5. /\ Total(call_costs)' <= Total(call_costs) + stt + tts + llm
            /\ Total(call_costs) \in Nat /\ Total(call_costs)' \in Nat
            /\ Total(provider_costs) \in Nat
            /\ Total(provider_costs)' = Total(provider_costs) + stt + tts + llm
        BY <2>3, TotalsOfEntry DEF RecordCall
      <3>6. /\ daily_cost' = daily_cost + (stt + tts + llm)
            /\ monthly_cost' = monthly_cost + (stt + tts + llm) /\ torn' = torn
        BY <2>3 DEF RecordCall, EnterCall
      <3>7. Total(user_daily_costs)' = Total(user_daily_costs) + (stt + tts + llm)
        BY <3>2, <3>3, <3>4
      <3> QED  BY <2>1, <3>1, <3>5, <3>6, <3>7 DEF AccountsAgree
    <2>4. ASSUME NEW call \in CallId, NEW stt \in Costs, NEW tts \in Costs, NEW llm \in Costs,
                 RecordCallFails(call, stt, tts, llm)
          PROVE  AccountsAgree'
      <3>1. stt \in Nat /\ tts \in Nat /\ llm \in Nat
        BY CostAssumption
      <3>2. /\ Total(call_costs)' <= Total(call_costs) + stt + tts + llm
            /\ Total(call_costs) \in Nat /\ Total(call_costs)' \in Nat
            /\ Total(provider_costs) \in Nat
            /\ Total(provider_costs)' = Total(provider_costs) + stt + tts + 0
        BY <2>4, TotalsOfEntry DEF RecordCallFails
      <3>3. /\ daily_cost' = daily_cost + (stt + tts + llm)
            /\ monthly_cost' = monthly_cost + (stt + tts + llm)
            /\ torn' = TRUE /\ UNCHANGED user_daily_costs
        BY <2>4 DEF RecordCallFails, EnterCall, userAccounts
      <3>4. Total(user_daily_costs)' = Total(user_daily_costs)
        BY <3>3
      <3> QED  BY <2>1, <3>1, <3>2, <3>3, <3>4 DEF AccountsAgree
    <2>5. CASE ResetDailyCost
      <3>1. Total(call_costs)' = 0 /\ Total(provider_costs)' = 0
        BY <2>2, <2>5, TotalOfNothing DEF ResetDailyCost
      <3>2. daily_cost' = 0 /\ UNCHANGED <<monthly_cost, user_daily_costs, torn>>
        BY <2>5 DEF ResetDailyCost, userAccounts
      <3>3. Total(user_daily_costs)' = Total(user_daily_costs)
        BY <3>2
      <3> QED  BY <2>1, <3>1, <3>2, <3>3 DEF AccountsAgree
    <2>6. CASE ResetMonthlyCost
      <3>1. Total(call_costs)' = 0 /\ Total(provider_costs)' = 0 /\ Total(user_daily_costs)' = 0
        BY <2>2, <2>6, TotalOfNothing DEF ResetMonthlyCost
      <3>2. daily_cost' = 0 /\ monthly_cost' = 0
        BY <2>6 DEF ResetMonthlyCost
      <3> QED  BY <3>1, <3>2 DEF AccountsAgree
    <2>7. CASE UNCHANGED costVars
      BY <2>7 DEF costVars, dayAccounts, userAccounts, AccountsAgree
    <2> QED  BY <2>3, <2>4, <2>5, <2>6, <2>7 DEF CostNext
  <1> QED  BY <1>1, <1>2, CostInvStep, PTL DEF CostSpec
=============================================================================
