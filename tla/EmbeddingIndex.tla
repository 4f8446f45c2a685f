------------------------------ MODULE EmbeddingIndex ------------------------------
(***************************************************************************)
(* Embeddings in the graph: the indexes that db.py makes and drops, and the  *)
(* nodes that services/jina/code_embed_service.py (CodeFile) and             *)
(* text_embed_service.py (JinaIssue) keep beside a hash of their source.     *)
(*                                                                          *)
(* The database library does not set an indexed column: db_update_embedding  *)
(* drops the index of the table, sets the value and makes the index again,   *)
(* each a statement that commits by itself. Nothing suspends inside it, so   *)
(* its lock is never contended. What is awaited is the embedding: the source *)
(* was read before, and for an issue the stored hash too.                    *)
(***************************************************************************)
EXTENDS Integers, FiniteSets

CONSTANTS
  Files,      \* relative paths of code files: code_file_id depends on nothing else
  Issues,     \* issue keys
  Sources,    \* texts a file or an issue may have; its hash and vector stand for it
  NoSource,   \* no value stored
  Requests,   \* calls that may be in progress at once
  MaxFaults   \* bound: how many statements raise

ASSUME EmbeddingAssumption ==
  /\ Files \cap Issues = {}
  /\ NoSource \notin Sources \cup Files \cup Issues
  /\ MaxFaults \in Nat

VARIABLES
  present,   \* indexes that exist, named by their table; "text" for the FTS indexes
  unmade,    \* history: indexes a raising statement left out since the last bootstrap
  ready,     \* db_init_engine returned
  stored,    \* hash and embedding of each node
  request,   \* what each call awaits the embedding of, and what it read before
  suspect,   \* history: nodes written with a raising statement or a stale hash
  faults     \* how many statements raised

embeddingVars == <<present, unmade, ready, stored, request, suspect, faults>>

Nodes == Files \cup Issues
VectorIndexes == {"CodeFile", "JinaIssue"}
Indexes == VectorIndexes \cup {"text"}
Table(n) == IF n \in Files THEN "CodeFile" ELSE "JinaIssue"

Value == Sources \cup {NoSource}
NoRequest == [on |-> NoSource, source |-> NoSource, previous |-> NoSource]
EmptyNode == [hash |-> NoSource, embedding |-> NoSource]

EmbeddingInit ==
  /\ present = {} /\ unmade = {} /\ ready = FALSE
  /\ stored = [n \in Nodes |-> EmptyNode]
  /\ request = [r \in Requests |-> NoRequest]
  /\ suspect = {} /\ faults = 0

Raise(n) ==
  /\ faults + n <= MaxFaults
  /\ faults' = faults + n

---------------------------------------------------------------------------

(* Mutant: a failed CREATE of an index is logged and passed over.            *)
Bootstrap_mutantGoesOn ==
  \E made \in SUBSET (Indexes \ present) :
    /\ present' = present \cup made
    /\ ready' = TRUE /\ unmade' = {}
    /\ UNCHANGED <<stored, request, suspect, faults>>

(* _bootstrap, from db_init_engine or, on a running server, from             *)
(* db_run_migrations: vector indexes, then FTS indexes, each if missing. It   *)
(* may raise between any two, or in the migrations and the check of the       *)
(* dimensions that follow; db_init_engine then does not return.              *)
Bootstrap ==
  \E made \in SUBSET (Indexes \ present) :
    /\ "text" \in made => VectorIndexes \subseteq present \cup made
    /\ present' = present \cup made
    /\ IF present' = Indexes
       THEN /\ unmade' = {}
            /\ \/ ready' = TRUE /\ UNCHANGED faults
               \/ Raise(1) /\ UNCHANGED ready
       ELSE Raise(1) /\ UNCHANGED <<ready, unmade>>
    /\ UNCHANGED <<stored, request, suspect>>

(* A crash or an orderly stop; a crash inside db_update_embedding or          *)
(* ingest_batch leaves what a raising statement leaves.                      *)
StopServer ==
  /\ ready
  /\ ready' = FALSE
  /\ request' = [r \in Requests |-> NoRequest]
  /\ UNCHANGED <<present, unmade, stored, suspect, faults>>

---------------------------------------------------------------------------
(* db_update_embedding. Without its index the first statement raises.        *)
Outcomes(table) ==
  IF table \in present
  THEN {"done", "drop raised", "set raised", "create raised"} ELSE {"no index"}

Dropped(table, outcome) ==
  IF outcome \in {"set raised", "create raised"} THEN {table} ELSE {}
WasSet(outcome) == outcome \in {"done", "create raised"}

Lose(lost) == present' = present \ lost /\ unmade' = unmade \cup lost

KeepIndex == UNCHANGED <<present, unmade>>

Raised(outcome) == IF outcome \in {"done", "no index"} THEN 0 ELSE 1

(* index_single_file and upsert_issue up to the await of the embedding. An    *)
(* issue's stored hash is read here; "no source" says it has no node yet.    *)
ReadSource(r, n, source) ==
  /\ ready
  /\ request[r] = NoRequest
  /\ request' = [request EXCEPT ![r] =
       [on |-> n, source |-> source,
        previous |-> IF n \in Issues THEN stored[n].hash ELSE NoSource]]
  /\ UNCHANGED <<present, unmade, ready, stored, suspect, faults>>

(* The embedding cannot be had: the call raises. *)
NoEmbedding(r) ==
  /\ request[r] # NoRequest
  /\ request' = [request EXCEPT ![r] = NoRequest]
  /\ UNCHANGED <<present, unmade, ready, stored, suspect, faults>>

(* What ingest_batch may leave without its index. It drops the FTS indexes it *)
(* finds and makes them again: one is lost if making it raises, which is only *)
(* logged, or if dropping the next one raises, which forgets those before it. *)
TextLosses == {{}, {"text"}}

(* index_file and index_tree ingest into the same database; see CodeIndex.   *)
CodeIngest ==
  /\ ready
  /\ Lose({"text"}) /\ Raise(1)
  /\ UNCHANGED <<ready, stored, request, suspect>>

(* upsert_code_file: the stored hash is read after the await. ingest_batch is *)
(* called even when it has not changed, and reports a failure in its result, *)
(* which nobody looks at; what raises in one call of it counts as one fault. *)
(* The embedding of a node that is not there is set nowhere.                 *)
StoreFile(r) ==
  LET n == request[r].on
      source == request[r].source
      old == stored[n]
  IN
  /\ n \in Files
  /\ request' = [request EXCEPT ![r] = NoRequest]
  /\ \E ingested \in BOOLEAN, textLost \in TextLosses :
       LET hash == IF ingested THEN source ELSE old.hash
           missed == IF ingested /\ textLost = {} THEN 0 ELSE 1
       IN
       IF old.hash = source
       THEN /\ Lose(textLost) /\ Raise(missed)
            /\ UNCHANGED <<stored, suspect>>
       ELSE \E outcome \in Outcomes("CodeFile") :
              /\ Lose(textLost \cup Dropped("CodeFile", outcome))
              /\ Raise(missed + Raised(outcome))
              /\ stored' = [stored EXCEPT ![n] =
                   [hash |-> hash,
                    embedding |-> IF WasSet(outcome) /\ hash # NoSource
                                  THEN source ELSE old.embedding]]
              /\ suspect' = IF ingested /\ WasSet(outcome)
                            THEN suspect \ {n} ELSE suspect \cup {n}
  /\ UNCHANGED ready

(* Mutant: MERGE in place of CREATE, setting the hash of a node that is there. *)
CreateIssue_mutantMerge(r) ==
  LET n == request[r].on IN
  /\ n \in Issues
  /\ request[r].previous = NoSource
  /\ request' = [request EXCEPT ![r] = NoRequest]
  /\ stored' = [stored EXCEPT ![n] =
       [hash |-> request[r].source,
        embedding |-> IF @.hash = NoSource THEN request[r].source ELSE @.embedding]]
  /\ UNCHANGED <<present, unmade, ready, suspect, faults>>

(* upsert_issue without a node when it looked: CREATE stores both values, and *)
(* raises if another call has created the issue since.                       *)
CreateIssue(r) ==
  LET n == request[r].on IN
  /\ n \in Issues
  /\ request[r].previous = NoSource
  /\ request' = [request EXCEPT ![r] = NoRequest]
  /\ IF stored[n].hash = NoSource
     THEN stored' = [stored EXCEPT ![n] =
            [hash |-> request[r].source, embedding |-> request[r].source]]
     ELSE UNCHANGED stored
  /\ UNCHANGED <<present, unmade, ready, suspect, faults>>

(* upsert_issue with a node: the new hash is set first, and the embedding if  *)
(* the hash read before the await was another.                               *)
UpdateIssue(r) ==
  LET n == request[r].on
      source == request[r].source
      previous == request[r].previous
  IN
  /\ n \in Issues
  /\ previous # NoSource
  /\ request' = [request EXCEPT ![r] = NoRequest]
  /\ IF previous = source
     THEN /\ KeepIndex
          /\ stored' = [stored EXCEPT ![n].hash = source]
          /\ suspect' = IF stored[n].hash = previous THEN suspect ELSE suspect \cup {n}
          /\ UNCHANGED faults
     ELSE \E outcome \in Outcomes("JinaIssue") :
            /\ Lose(Dropped("JinaIssue", outcome))
            /\ Raise(Raised(outcome))
            /\ stored' = [stored EXCEPT ![n] =
                 [hash |-> source,
                  embedding |-> IF WasSet(outcome) THEN source ELSE @.embedding]]
            /\ suspect' = IF WasSet(outcome) THEN suspect \ {n} ELSE suspect \cup {n}
  /\ UNCHANGED ready

EmbeddingNext ==
  \/ Bootstrap
  \/ StopServer
  \/ CodeIngest
  \/ \E r \in Requests :
       \/ \E n \in Nodes, source \in Sources : ReadSource(r, n, source)
       \/ NoEmbedding(r)
       \/ StoreFile(r)
       \/ CreateIssue(r)
       \/ UpdateIssue(r)

EmbeddingSpec == EmbeddingInit /\ [][EmbeddingNext]_embeddingVars

---------------------------------------------------------------------------
EmbeddingTypeOK ==
  /\ present \subseteq Indexes /\ unmade \subseteq Indexes
  /\ ready \in BOOLEAN
  /\ stored \in [Nodes -> [hash : Value, embedding : Value]]
  /\ request \in [Requests -> [on : Nodes \cup {NoSource}, source : Value, previous : Value]]
  /\ suspect \subseteq Nodes
  /\ faults \in 0 .. MaxFaults

(* db_update_embedding takes the index of a whole table away for one node, and *)
(* ingest_batch the FTS indexes for one file. On a running server an index is *)
(* missing only if a statement of one of the two raised since the last       *)
(* complete bootstrap: neither a bootstrap that raised half way and was run   *)
(* again, nor calls that overlap while they await embeddings, lose one.      *)
IndexAccounted == ready => Indexes = present \cup unmade

(* The stored hash decides whether a file or an issue is embedded again, so   *)
(* it must be the hash of what was embedded. It is, unless a statement raised *)
(* between the two or upsert_issue used a hash older than its await; the next *)
(* changed source that is stored without a fault puts the node right.        *)
HashMeansEmbedding ==
  \A n \in Nodes \ suspect : stored[n].hash = stored[n].embedding
=================================================================================
