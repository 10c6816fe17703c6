---------------------------- MODULE SemanticCache ----------------------------
(***************************************************************************)
(* SemanticCache and CachedGenerateResponseUseCase: answers are kept in    *)
(* Redis under the utterance they were generated for, as an embedding and  *)
(* a response with a time to live each.  A lookup reads every embedding,   *)
(* one after the other, and then one response; lookups, stores, expiry and *)
(* clear interleave, and every command may fail.                           *)
(***************************************************************************)
EXTENDS Integers, FiniteSets

CONSTANTS Asker,       \* use cases at work
          Utterance,
          NoText,
          Similarity,  \* of two utterances, by their embeddings
          SimThreshold, \* _SIMILARITY_THRESHOLD
          CacheTTL     \* _CACHE_TTL_SECONDS, in ticks

ASSUME CacheAssumption ==
    /\ NoText \notin Utterance
    /\ Similarity \in [Utterance \X Utterance -> Nat]
    /\ SimThreshold \in Nat /\ CacheTTL \in Nat \ {0}

VARIABLES embTtl,  \* time to live of cache:emb:<utterance>, 0 if there is none
          respTtl, \* of cache:resp:<utterance>
          answers, \* the utterance the response kept there answers, or NoText
          at,      \* where each use case is
          asked,   \* the utterance it works on
          unread,  \* embeddings its lookup has yet to read
          best,    \* the best match so far, or NoText
          given    \* the utterance that the cached answer it found was generated for

cache == <<embTtl, respTtl, answers>>
lookup == <<at, asked, unread, best, given>>
cacheVars == <<cache, lookup>>

CacheInit ==
    /\ embTtl = [u \in Utterance |-> 0] /\ respTtl = [u \in Utterance |-> 0]
    /\ answers = [u \in Utterance |-> NoText]
    /\ at = [a \in Asker |-> "idle"]
    /\ asked = [a \in Asker |-> NoText]
    /\ unread = [a \in Asker |-> {}]
    /\ best = [a \in Asker |-> NoText]
    /\ given = [a \in Asker |-> NoText]

AskerAt(a, from, to) == at[a] = from /\ at' = [at EXCEPT ![a] = to]

\* get: the keys of the embeddings, if the command works.
ReadKeys(a, u) ==
    /\ \/ /\ AskerAt(a, "idle", "reading") /\ \E k \in Utterance : embTtl[k] > 0
          /\ unread' = [unread EXCEPT ![a] = {k \in Utterance : embTtl[k] > 0}]
       \/ AskerAt(a, "idle", "generating") /\ UNCHANGED unread
    /\ asked' = [asked EXCEPT ![a] = u]
    /\ UNCHANGED <<cache, best, given>>

Similar(u, v) == v # NoText /\ Similarity[u, v] >= SimThreshold

\* The better of two matches; the earlier one if they are as good.
Better(u, old, new) ==
    IF old # NoText /\ Similarity[u, new] <= Similarity[u, old] THEN old ELSE new

\* One embedding, if it has not expired meanwhile.
ReadEmbedding(a) ==
    /\ \E k \in unread[a] :
          LET match == IF embTtl[k] = 0 THEN best[a] ELSE Better(asked[a], best[a], k)
              last  == unread[a] = {k}
              found == Similar(asked[a], match) IN
          /\ unread' = [unread EXCEPT ![a] = @ \ {k}]
          /\ best' = [best EXCEPT ![a] = IF last /\ ~found THEN NoText ELSE match]
          /\ AskerAt(a, "reading", IF ~last THEN "reading"
                                   ELSE IF found THEN "fetching" ELSE "generating")
    /\ UNCHANGED <<cache, asked, given>>

\* Mutant of Fetch: what was found is stored under this utterance, too.
FetchAndStore(a) ==
    /\ AskerAt(a, "fetching", "saving") /\ respTtl[best[a]] > 0
    /\ given' = [given EXCEPT ![a] = answers[best[a]]]
    /\ embTtl' = [embTtl EXCEPT ![asked[a]] = CacheTTL]
    /\ respTtl' = [respTtl EXCEPT ![asked[a]] = CacheTTL]
    /\ answers' = [answers EXCEPT ![asked[a]] = given'[a]]
    /\ UNCHANGED <<asked, unread, best>>

\* The response that goes with the best match, unless it has expired or been cleared.
Fetch(a) ==
    /\ AskerAt(a, "fetching", "saving") /\ respTtl[best[a]] > 0
    /\ given' = [given EXCEPT ![a] = answers[best[a]]]
    /\ best' = [best EXCEPT ![a] = NoText]
    /\ UNCHANGED <<cache, asked, unread>>

\* No response, or any command of the lookup failed: a miss.
LookupFails(a) ==
    /\ \/ AskerAt(a, "reading", "generating")
       \/ AskerAt(a, "fetching", "generating")
    /\ unread' = [unread EXCEPT ![a] = {}] /\ best' = [best EXCEPT ![a] = NoText]
    /\ UNCHANGED <<cache, asked, given>>

\* The use case is over: the session is saved with the answer, or an error raised.
Leave(a, from) == AskerAt(a, from, "idle") /\ asked' = [asked EXCEPT ![a] = NoText]

\* The language model answers, or raises and ends the use case.
GenerateAnswer(a) ==
    /\ \/ AskerAt(a, "generating", "storing") /\ UNCHANGED asked
       \/ Leave(a, "generating")
    /\ UNCHANGED <<cache, unread, best, given>>

\* set: first the embedding.  An error ends it.
StoreEmbedding(a) ==
    /\ \/ /\ AskerAt(a, "storing", "responding")
          /\ embTtl' = [embTtl EXCEPT ![asked[a]] = CacheTTL] /\ UNCHANGED asked
       \/ Leave(a, "storing") /\ UNCHANGED embTtl
    /\ UNCHANGED <<respTtl, answers, unread, best, given>>

\* Then the response.
StoreResponse(a) ==
    /\ Leave(a, "responding")
    /\ \/ /\ respTtl' = [respTtl EXCEPT ![asked[a]] = CacheTTL]
          /\ answers' = [answers EXCEPT ![asked[a]] = asked[a]]
       \/ UNCHANGED <<respTtl, answers>>
    /\ UNCHANGED <<embTtl, unread, best, given>>

\* The session is saved with the answer that was found.
SaveFound(a) ==
    /\ Leave(a, "saving") /\ given' = [given EXCEPT ![a] = NoText]
    /\ UNCHANGED <<cache, unread, best>>

\* clear lists the keys and deletes them: a response stored in between is taken as
\* stored after it.
ClearCache ==
    /\ embTtl' = [u \in Utterance |-> 0] /\ respTtl' = [u \in Utterance |-> 0]
    /\ answers' = [u \in Utterance |-> NoText]
    /\ UNCHANGED lookup

CacheTick ==
    /\ embTtl' = [u \in Utterance |-> IF embTtl[u] = 0 THEN 0 ELSE embTtl[u] - 1]
    /\ respTtl' = [u \in Utterance |-> IF respTtl[u] = 0 THEN 0 ELSE respTtl[u] - 1]
    /\ answers' = [u \in Utterance |-> IF respTtl'[u] = 0 THEN NoText ELSE answers[u]]
    /\ UNCHANGED lookup

CacheNext ==
    \/ \E a \in Asker : \/ \E u \in Utterance : ReadKeys(a, u)
                        \/ ReadEmbedding(a) \/ Fetch(a) \/ LookupFails(a)
                        \/ GenerateAnswer(a) \/ StoreEmbedding(a)
                        \/ StoreResponse(a) \/ SaveFound(a)
    \/ ClearCache \/ CacheTick

CacheSpec == CacheInit /\ [][CacheNext]_cacheVars

-----------------------------------------------------------------------------
(* Properties *)

CacheTypeOK ==
    /\ embTtl \in [Utterance -> 0 .. CacheTTL] /\ respTtl \in [Utterance -> 0 .. CacheTTL]
    /\ answers \in [Utterance -> Utterance \cup {NoText}]
    /\ at \in [Asker -> {"idle", "reading", "fetching", "generating",
                     "storing", "responding", "saving"}]
    /\ asked \in [Asker -> Utterance \cup {NoText}]
    /\ unread \in [Asker -> SUBSET Utterance]
    /\ best \in [Asker -> Utterance \cup {NoText}]
    /\ given \in [Asker -> Utterance \cup {NoText}]
    /\ \A u \in Utterance : respTtl[u] > 0 <=> answers[u] # NoText

\* Whatever expires, fails or is stored during a lookup, the answer returned for an
\* utterance was generated for it or for one that is similar enough to it; likeness
\* is not transitive, so answers must not drift from one entry to the next.
AnswersAreRelated ==
    \A a \in Asker : given[a] # NoText =>
        Similar(asked[a], given[a])
=============================================================================
