--------------------------- MODULE EmbeddingCache ---------------------------
(***************************************************************************)
(* The embedding helper (embeddings.py): one cache for the process, keyed  *)
(* by text, model and input type, of at most _CACHE_MAXSIZE vectors, the   *)
(* least recently used evicted first.  A call that misses waits for the    *)
(* provider before it stores, so several calls for one text may all ask.   *)
(* A key stands for (text, model, type). The vectors themselves are left    *)
(* out: a key has one, and nothing compares them.                          *)
(***************************************************************************)
EXTENDS Integers, FiniteSets, Sequences, SequencesExt

CONSTANTS
    EmbedTexts,   \* texts that are embedded
    EmbedCalls,   \* calls that may overlap
    CacheSizes    \* values of MEM_GRAPH_EMBED_CACHE_SIZE

ASSUME CacheAssumption ==
    /\ IsFiniteSet(EmbedTexts)
    /\ CacheSizes \subseteq Int

VARIABLES
    maxSize,    \* _CACHE_MAXSIZE
    cache,      \* _cache, as the sequence of its keys, least recent first
    embedCall,  \* per call, the key it computes; the first field says whether it does
    used        \* history: the keys in the order of their last use, since the last clear

cacheVars == <<maxSize, cache, embedCall, used>>

InputTypes == {"document", "query"}
Key == EmbedTexts \X InputTypes
NoKey == [busy |-> FALSE]

EmbedTypeOK ==
    /\ maxSize \in CacheSizes
    /\ cache \in Seq(Key)
    /\ embedCall \in [EmbedCalls -> {NoKey} \cup [busy : {TRUE}, key : Key]]
    /\ used \in Seq(Key)

EmbedInit ==
    /\ maxSize \in CacheSizes
    /\ cache = <<>>
    /\ embedCall = [c \in EmbedCalls |-> NoKey]
    /\ used = <<>>

PlaceOf(s, key) == CHOOSE i \in DOMAIN s : s[i] = key
Without(s, key) == IF key \in ToSet(s) THEN RemoveAt(s, PlaceOf(s, key)) ELSE s
MoveToEnd(s, key) == Append(Without(s, key), key)

(* _cache_set: popitem on an empty dict raises, see ProviderFails.         *)
CacheSet(key) ==
    cache' = IF key \in ToSet(cache) THEN MoveToEnd(cache, key)
             ELSE IF Len(cache) >= maxSize THEN Append(Tail(cache), key)
             ELSE Append(cache, key)

-----------------------------------------------------------------------------

(* Mutant: a hit leaves the key where it is: the oldest entry goes first.  *)
CacheHit_mutantStays(c, key) ==
    /\ ~ embedCall[c].busy
    /\ key \in ToSet(cache)
    /\ used' = MoveToEnd(used, key)
    /\ UNCHANGED <<maxSize, cache, embedCall>>

(* A hit returns at once and makes the key the most recent.                *)
CacheHit(c, key) ==
    /\ ~ embedCall[c].busy
    /\ key \in ToSet(cache)
    /\ cache' = MoveToEnd(cache, key)
    /\ used' = MoveToEnd(used, key)
    /\ UNCHANGED <<maxSize, embedCall>>

CacheMiss(c, key) ==
    /\ ~ embedCall[c].busy
    /\ key \notin ToSet(cache)
    /\ embedCall' = [embedCall EXCEPT ![c] = [busy |-> TRUE, key |-> key]]
    /\ UNCHANGED <<maxSize, cache, used>>

StoreVector(c) ==
    /\ embedCall[c].busy
    /\ cache # <<>> \/ maxSize > 0
    /\ CacheSet(embedCall[c].key)
    /\ used' = MoveToEnd(used, embedCall[c].key)
    /\ embedCall' = [embedCall EXCEPT ![c] = NoKey]
    /\ UNCHANGED maxSize

(* The provider fails or answers with the wrong dimension; or the cache    *)
(* has no room for anything and nothing to evict: the call raises.         *)
ProviderFails(c) ==
    /\ embedCall[c].busy
    /\ embedCall' = [embedCall EXCEPT ![c] = NoKey]
    /\ UNCHANGED <<maxSize, cache, used>>

ClearCache ==
    /\ cache # <<>>
    /\ cache' = <<>>
    /\ used' = <<>>
    /\ UNCHANGED <<maxSize, embedCall>>

EmbedNext ==
    \/ \E c \in EmbedCalls :
          \/ \E key \in Key : CacheHit(c, key) \/ CacheMiss(c, key)
          \/ StoreVector(c) \/ ProviderFails(c)
    \/ ClearCache

EmbedSpec == EmbedInit /\ [][EmbedNext]_cacheVars

-----------------------------------------------------------------------------
(***************************************************************************)
(* However the calls overlap, the cache is exactly the maxSize keys used   *)
(* last, in the order of their last use: no key twice, never more than     *)
(* maxSize, and no recent key evicted before an older one.                 *)
(***************************************************************************)
CacheIsRecent ==
    LET first == IF Len(used) > maxSize THEN Len(used) - maxSize + 1 ELSE 1
    IN  maxSize > 0 => cache = SubSeq(used, first, Len(used))
=============================================================================
