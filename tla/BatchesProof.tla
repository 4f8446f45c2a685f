---------------------------- MODULE BatchesProof ----------------------------
(***************************************************************************)
(* Proofs about what works through lists: the embedding cache              *)
(* (EmbeddingCache), the package audit (PackageAudit) and the orchestrator *)
(* agent (Orchestrator).                                                   *)
(***************************************************************************)
EXTENDS EmbeddingCache, PackageAudit, Orchestrator, SequenceTheorems, FunctionTheorems,
        FiniteSetTheorems, WellFoundedInduction, TLAPS

(***************************************************************************)
(* The cache: for any texts, calls and sizes, it holds the keys used last. *)
(* Its invariant says so place by place (IsEnd) and adds that no key is    *)
(* twice in the history of uses, without which moving a key to the end     *)
(* would not move the same key in both.                                    *)
(***************************************************************************)

(* s is the end of u that fits size places. *)
IsEnd(s, u, size) ==
    /\ Len(s) = IF Len(u) > size THEN size ELSE Len(u)
    /\ \A i \in 1 .. Len(s) : s[i] = u[Len(u) - Len(s) + i]

Once(s) == \A i, j \in 1 .. Len(s) : s[i] = s[j] => i = j

CacheInv ==
    /\ EmbedTypeOK
    /\ Once(used)
    /\ maxSize > 0 => IsEnd(cache, used, maxSize)

-----------------------------------------------------------------------------
(* What is left of a sequence of keys when one place is taken out.         *)
LEMMA TakenOut ==
    ASSUME NEW s \in Seq(Key), NEW p \in 1 .. Len(s)
    PROVE  /\ RemoveAt(s, p) \in Seq(Key)
           /\ Len(RemoveAt(s, p)) = Len(s) - 1
           /\ \A i \in 1 .. Len(s) - 1 :
                 RemoveAt(s, p)[i] = IF i < p THEN s[i] ELSE s[i + 1]
<1> DEFINE l == SubSeq(s, 1, p - 1)
           r == SubSeq(s, p + 1, Len(s))
<1>0. /\ Len(s) \in Nat /\ p \in Nat /\ 1 <= p /\ p <= Len(s)
      /\ \A i \in 1 .. Len(s) : s[i] \in Key
  BY LenProperties, ElementOfSeq
<1>1. /\ l \in Seq(Key) /\ Len(l) = p - 1
      /\ \A i \in 1 .. p - 1 : l[i] = s[i]
  <2>1. \A i \in 1 .. p - 1 : s[i] \in Key
    BY <1>0
  <2>2. /\ l \in Seq(Key)
        /\ Len(l) = IF 1 <= p - 1 THEN (p - 1) - 1 + 1 ELSE 0
        /\ \A i \in 1 .. (p - 1) - 1 + 1 : l[i] = s[1 + i - 1]
    BY <1>0, <2>1, SubSeqProperties
  <2> QED BY <1>0, <2>2
<1>2. /\ r \in Seq(Key) /\ Len(r) = Len(s) - p
      /\ \A i \in 1 .. Len(s) - p : r[i] = s[p + i]
  <2>1. \A i \in p + 1 .. Len(s) : s[i] \in Key
    BY <1>0
  <2>2. /\ r \in Seq(Key)
        /\ Len(r) = IF p + 1 <= Len(s) THEN Len(s) - (p + 1) + 1 ELSE 0
        /\ \A i \in 1 .. Len(s) - (p + 1) + 1 : r[i] = s[(p + 1) + i - 1]
    BY <1>0, <2>1, SubSeqProperties
  <2> QED BY <1>0, <2>2
<1> HIDE DEF l, r
<1>3. /\ l \o r \in Seq(Key) /\ Len(l \o r) = Len(l) + Len(r)
      /\ \A i \in 1 .. Len(l) + Len(r) :
            (l \o r)[i] = IF i <= Len(l) THEN l[i] ELSE r[i - Len(l)]
  BY <1>1, <1>2, ConcatProperties
<1>4. Len(l) + Len(r) = Len(s) - 1
  BY <1>0, <1>1, <1>2
<1>5. ASSUME NEW i \in 1 .. Len(s) - 1
      PROVE  (l \o r)[i] = IF i < p THEN s[i] ELSE s[i + 1]
  <2>1. CASE i < p
    <3>1. i <= Len(l) /\ i \in 1 .. p - 1
      BY <1>0, <1>1, <2>1
    <3> QED BY <1>1, <1>3, <1>4, <2>1, <3>1
  <2>2. CASE ~(i < p)
    <3>1. ~(i <= Len(l)) /\ i - Len(l) \in 1 .. Len(s) - p /\ p + (i - Len(l)) = i + 1
      BY <1>0, <1>1, <2>2
    <3> QED BY <1>2, <1>3, <1>4, <2>2, <3>1
  <2> QED BY <2>1, <2>2
<1>6. RemoveAt(s, p) = l \o r
  BY DEF RemoveAt, l, r
<1> QED BY <1>3, <1>4, <1>5, <1>6

(* A key that is in a sequence is so at its place, and is taken from there. *)
LEMMA PlaceFacts ==
    ASSUME NEW s \in Seq(Key), NEW key \in Key
    PROVE  /\ key \in ToSet(s) <=> \E i \in 1 .. Len(s) : s[i] = key
           /\ key \in ToSet(s) => /\ PlaceOf(s, key) \in 1 .. Len(s)
                                  /\ s[PlaceOf(s, key)] = key
<1>1. DOMAIN s = 1 .. Len(s)
  OBVIOUS
<1>2. key \in ToSet(s) <=> \E i \in DOMAIN s : s[i] = key
  BY DEF ToSet
<1> QED BY <1>1, <1>2 DEF PlaceOf

(* The key moved to the end is the last, and the others keep their order.  *)
LEMMA Moved ==
    ASSUME NEW s \in Seq(Key), NEW key \in Key, NEW p \in Nat,
           IF key \in ToSet(s) THEN p = PlaceOf(s, key) ELSE p = Len(s) + 1
    PROVE  /\ MoveToEnd(s, key) \in Seq(Key)
           /\ p \in 1 .. Len(s) + 1
           /\ Len(MoveToEnd(s, key)) = IF p > Len(s) THEN p ELSE Len(s)
           /\ MoveToEnd(s, key)[Len(MoveToEnd(s, key))] = key
           /\ \A i \in 1 .. Len(MoveToEnd(s, key)) - 1 :
                 MoveToEnd(s, key)[i] = IF i < p THEN s[i] ELSE s[i + 1]
<1> DEFINE t == Without(s, key)
<1>1. Len(s) \in Nat
  BY LenProperties
<1>2. CASE key \in ToSet(s)
  <2>1. p \in 1 .. Len(s) /\ t = RemoveAt(s, p)
    BY <1>2, PlaceFacts DEF Without
  <2>2. /\ t \in Seq(Key) /\ Len(t) = Len(s) - 1
        /\ \A i \in 1 .. Len(s) - 1 : t[i] = IF i < p THEN s[i] ELSE s[i + 1]
    BY <2>1, TakenOut
  <2> HIDE DEF t
  <2>3. /\ Append(t, key) \in Seq(Key) /\ Len(Append(t, key)) = Len(t) + 1
        /\ \A i \in 1 .. Len(t) : Append(t, key)[i] = t[i]
        /\ Append(t, key)[Len(t) + 1] = key
    BY <2>2, AppendProperties
  <2>4. /\ Len(Append(t, key)) = Len(s) /\ p \in 1 .. Len(s) + 1 /\ ~(p > Len(s))
        /\ Len(t) + 1 = Len(s)
    BY <1>1, <2>1, <2>2, <2>3
  <2>5. MoveToEnd(s, key) = Append(t, key)
    BY DEF MoveToEnd, t
  <2> QED BY <1>1, <2>2, <2>3, <2>4, <2>5
<1>3. CASE key \notin ToSet(s)
  <2>1. t = s /\ p = Len(s) + 1
    BY <1>3 DEF Without
  <2>2. /\ Append(s, key) \in Seq(Key) /\ Len(Append(s, key)) = Len(s) + 1
        /\ \A i \in 1 .. Len(s) : Append(s, key)[i] = s[i]
        /\ Append(s, key)[Len(s) + 1] = key
    BY AppendProperties
  <2>3. MoveToEnd(s, key) = Append(s, key)
    BY <2>1 DEF MoveToEnd
  <2> QED BY <1>1, <2>1, <2>2, <2>3
<1> QED BY <1>2, <1>3

(* Moving a key brings none in twice.                                      *)
LEMMA MovedOnce ==
    ASSUME NEW s \in Seq(Key), NEW key \in Key, Once(s)
    PROVE  Once(MoveToEnd(s, key))
<1> DEFINE t == MoveToEnd(s, key)
           p == IF key \in ToSet(s) THEN PlaceOf(s, key) ELSE Len(s) + 1
<1>1. Len(s) \in Nat /\ p \in Nat
  BY LenProperties, PlaceFacts
<1>2. /\ t \in Seq(Key) /\ p \in 1 .. Len(s) + 1
      /\ Len(t) = IF p > Len(s) THEN p ELSE Len(s)
      /\ t[Len(t)] = key
      /\ \A i \in 1 .. Len(t) - 1 : t[i] = IF i < p THEN s[i] ELSE s[i + 1]
  BY <1>1, Moved
<1>3. \A i \in 1 .. Len(s) : s[i] = key => i = p
  BY PlaceFacts DEF Once
<1> HIDE DEF t, p
<1>4. ASSUME NEW i \in 1 .. Len(t) - 1
      PROVE  /\ t[i] # key
             /\ \E k \in 1 .. Len(s) : t[i] = s[k] /\ k = IF i < p THEN i ELSE i + 1
  <2> DEFINE k == IF i < p THEN i ELSE i + 1
  <2>1. k \in 1 .. Len(s) /\ k # p
    BY <1>1, <1>2
  <2>2. t[i] = s[k]
    BY <1>2
  <2> QED BY <1>3, <2>1, <2>2
<1>5. SUFFICES ASSUME NEW i \in 1 .. Len(t), NEW j \in 1 .. Len(t), t[i] = t[j]
               PROVE  i = j
  BY DEF Once, t
<1>6. CASE i = Len(t) \/ j = Len(t)
  <2>1. Len(t) \in Nat
    BY <1>1, <1>2
  <2>2. i # Len(t) => i \in 1 .. Len(t) - 1
    BY <2>1
  <2>3. j # Len(t) => j \in 1 .. Len(t) - 1
    BY <2>1
  <2> QED BY <1>2, <1>4, <1>5, <1>6, <2>2, <2>3
<1>7. CASE i # Len(t) /\ j # Len(t)
  <2>1. i \in 1 .. Len(t) - 1 /\ j \in 1 .. Len(t) - 1
    BY <1>1, <1>2, <1>7
  <2>2. PICK a \in 1 .. Len(s) : t[i] = s[a] /\ a = IF i < p THEN i ELSE i + 1
    BY <1>4, <2>1
  <2>3. PICK b \in 1 .. Len(s) : t[j] = s[b] /\ b = IF j < p THEN j ELSE j + 1
    BY <1>4, <2>1
  <2>4. a = b
    BY <1>5, <2>2, <2>3 DEF Once
  <2> QED BY <1>1, <1>2, <2>2, <2>3, <2>4
<1> QED BY <1>6, <1>7

(* A key used again moves to the end of the cache and of the history.      *)
LEMMA EndMoved ==
    ASSUME NEW s \in Seq(Key), NEW u \in Seq(Key), NEW size \in Int, size > 0,
           IsEnd(s, u, size), Once(u), NEW key \in Key, key \in ToSet(s)
    PROVE  IsEnd(MoveToEnd(s, key), MoveToEnd(u, key), size)
<1> DEFINE p == PlaceOf(s, key)
           d == Len(u) - Len(s)
           t == MoveToEnd(s, key)
           v == MoveToEnd(u, key)
<1>1. Len(s) \in Nat /\ Len(u) \in Nat /\ p \in 1 .. Len(s) /\ s[p] = key /\ p \in Nat
  BY LenProperties, PlaceFacts
<1>0. \A i \in 1 .. Len(s) : s[i] = u[d + i]
  BY DEF IsEnd
<1>2. d \in Nat /\ d + p \in 1 .. Len(u) /\ u[d + p] = key
  <2>1. d \in Nat
    BY <1>1 DEF IsEnd
  <2> HIDE DEF p
  <2>2. d + p \in 1 .. Len(u)
    BY <1>1, <2>1
  <2>3. u[d + p] = s[p]
    BY <1>1, <1>0
  <2> QED BY <1>1, <2>1, <2>2, <2>3
<1>3. key \in ToSet(u) /\ PlaceOf(u, key) = d + p
  <2>1. key \in ToSet(u)
    BY <1>2, PlaceFacts
  <2>2. PlaceOf(u, key) \in 1 .. Len(u) /\ u[PlaceOf(u, key)] = key
    BY <2>1, PlaceFacts
  <2> QED BY <1>2, <2>1, <2>2 DEF Once
<1>4. /\ Len(t) = IF p > Len(s) THEN p ELSE Len(s)
      /\ t[Len(t)] = key
      /\ \A i \in 1 .. Len(t) - 1 : t[i] = IF i < p THEN s[i] ELSE s[i + 1]
  BY <1>1, Moved
<1>5. d + p \in Nat
  BY <1>1, <1>2
<1>6. /\ Len(v) = IF d + p > Len(u) THEN d + p ELSE Len(u)
      /\ v[Len(v)] = key
      /\ \A i \in 1 .. Len(v) - 1 : v[i] = IF i < d + p THEN u[i] ELSE u[i + 1]
  BY <1>3, <1>5, Moved
<1> HIDE DEF t, v, p
<1>7. Len(t) = Len(s) /\ Len(v) = Len(u)
  BY <1>1, <1>2, <1>4, <1>6
<1>8. ASSUME NEW i \in 1 .. Len(s) PROVE t[i] = v[d + i]
  <2>1. CASE i = Len(s)
    BY <1>1, <1>4, <1>6, <1>7, <2>1
  <2>2. CASE i # Len(s)
    <3>1. i \in 1 .. Len(t) - 1 /\ d + i \in 1 .. Len(v) - 1
      BY <1>1, <1>2, <1>7, <2>2
    <3>2. t[i] = (IF i < p THEN s[i] ELSE s[i + 1])
      BY <1>4, <3>1
    <3>3. v[d + i] = (IF d + i < d + p THEN u[d + i] ELSE u[(d + i) + 1])
      BY <1>6, <3>1
    <3>4. s[i] = u[d + i] /\ s[i + 1] = u[d + (i + 1)]
      <4>1. i \in 1 .. Len(s) /\ i + 1 \in 1 .. Len(s)
        BY <1>1, <2>2
      <4> QED BY <1>0, <4>1
    <3>5. d + (i + 1) = (d + i) + 1 /\ (i < p <=> d + i < d + p)
      BY <1>1, <1>2
    <3> QED BY <3>2, <3>3, <3>4, <3>5
  <2> QED BY <2>1, <2>2
<1>9. Len(v) - Len(t) = d
  BY <1>7
<1> QED BY <1>7, <1>8, <1>9 DEF IsEnd, t, v

(* A key stored evicts the one whose use is the longest ago, if any.       *)
LEMMA EndStored ==
    ASSUME NEW s \in Seq(Key), NEW u \in Seq(Key), NEW size \in Int, size > 0,
           IsEnd(s, u, size), NEW key \in Key, key \notin ToSet(s)
    PROVE  IsEnd(IF Len(s) >= size THEN Append(Tail(s), key) ELSE Append(s, key),
                 MoveToEnd(u, key), size)
<1> DEFINE d == Len(u) - Len(s)
           p == IF key \in ToSet(u) THEN PlaceOf(u, key) ELSE Len(u) + 1
           v == MoveToEnd(u, key)
<1>1. Len(s) \in Nat /\ Len(u) \in Nat /\ p \in Nat
  BY LenProperties, PlaceFacts
<1>2. d \in Nat /\ (Len(s) < size => d = 0) /\ Len(s) <= size
  BY <1>1 DEF IsEnd
<1>3. /\ p \in 1 .. Len(u) + 1
      /\ Len(v) = IF p > Len(u) THEN p ELSE Len(u)
      /\ v[Len(v)] = key
      /\ \A i \in 1 .. Len(v) - 1 : v[i] = IF i < p THEN u[i] ELSE u[i + 1]
  BY <1>1, Moved
<1>4. \A i \in 1 .. Len(s) : s[i] = u[d + i] /\ s[i] # key
  BY PlaceFacts DEF IsEnd
<1>5. p <= d \/ p = Len(u) + 1
  <2>1. SUFFICES ASSUME p > d, p <= Len(u) PROVE FALSE
    BY <1>1, <1>2, <1>3
  <2>2. u[p] = key
    BY <1>1, <2>1, PlaceFacts
  <2>3. p - d \in 1 .. Len(s) /\ d + (p - d) = p
    BY <1>1, <1>2, <2>1
  <2> QED BY <1>4, <2>2, <2>3
<1> HIDE DEF p, v
<1>6. CASE Len(s) >= size
  <2> DEFINE t == Append(Tail(s), key)
  <2>1. /\ Tail(s) \in Seq(Key) /\ Len(Tail(s)) = Len(s) - 1
        /\ \A i \in 1 .. Len(s) - 1 : Tail(s)[i] = s[i + 1]
    BY <1>1, <1>6, HeadTailProperties
  <2>2. /\ Len(t) = Len(s) /\ t[Len(s)] = key
        /\ \A i \in 1 .. Len(s) - 1 : t[i] = s[i + 1]
    <3>1. /\ Len(t) = Len(Tail(s)) + 1 /\ t[Len(Tail(s)) + 1] = key
          /\ \A i \in 1 .. Len(Tail(s)) : t[i] = Tail(s)[i]
      BY <2>1, AppendProperties
    <3>2. Len(Tail(s)) + 1 = Len(s)
      BY <1>1, <2>1
    <3> QED BY <2>1, <3>1, <3>2
  <2> HIDE DEF t
  <2>3. Len(s) = size
    BY <1>1, <1>2, <1>6
  <2>4. Len(t) = IF Len(v) > size THEN size ELSE Len(v)
    BY <1>1, <1>2, <1>3, <2>2, <2>3
  <2>5. ASSUME NEW i \in 1 .. Len(t) PROVE t[i] = v[Len(v) - Len(t) + i]
    <3>1. CASE i = Len(s)
      <4>1. Len(v) - Len(t) + i = Len(v)
        BY <1>1, <1>3, <2>2, <3>1
      <4> QED BY <1>3, <2>2, <3>1, <4>1
    <3>2. CASE i # Len(s)
      <4>1. i \in 1 .. Len(s) - 1 /\ i + 1 \in 1 .. Len(s)
        BY <1>1, <2>2, <3>2
      <4>2. t[i] = u[d + (i + 1)]
        BY <1>4, <2>2, <4>1
      <4>3. CASE p <= d
        <5>1. /\ Len(v) - Len(t) + i \in 1 .. Len(v) - 1 /\ Len(v) - Len(t) + i = d + i
              /\ ~(d + i < p) /\ (d + i) + 1 = d + (i + 1)
          BY <1>1, <1>2, <1>3, <2>2, <4>1, <4>3
        <5> QED BY <1>3, <4>2, <5>1
      <4>4. CASE p = Len(u) + 1
        <5>1. /\ Len(v) - Len(t) + i \in 1 .. Len(v) - 1
              /\ Len(v) - Len(t) + i = d + (i + 1) /\ d + (i + 1) < p
          BY <1>1, <1>2, <1>3, <2>2, <4>1, <4>4
        <5> QED BY <1>3, <4>2, <5>1
      <4> QED BY <1>5, <4>3, <4>4
    <3> QED BY <3>1, <3>2
  <2> QED BY <1>6, <2>4, <2>5 DEF IsEnd, t, v
<1>7. CASE ~(Len(s) >= size)
  <2> DEFINE t == Append(s, key)
  <2>1. d = 0 /\ p = Len(u) + 1 /\ Len(v) = Len(u) + 1 /\ Len(u) = Len(s)
    BY <1>1, <1>2, <1>3, <1>5, <1>7
  <2>2. /\ Len(t) = Len(s) + 1 /\ t[Len(s) + 1] = key
        /\ \A i \in 1 .. Len(s) : t[i] = s[i]
    BY AppendProperties
  <2> HIDE DEF t
  <2>3. Len(t) = IF Len(v) > size THEN size ELSE Len(v)
    BY <1>1, <1>7, <2>1, <2>2
  <2>4. ASSUME NEW i \in 1 .. Len(t) PROVE t[i] = v[Len(v) - Len(t) + i]
    <3>1. Len(v) - Len(t) + i = i
      BY <1>1, <2>1, <2>2
    <3>2. CASE i = Len(s) + 1
      BY <1>3, <2>1, <2>2, <3>1, <3>2
    <3>3. CASE i # Len(s) + 1
      <4>1. i \in 1 .. Len(s) /\ i \in 1 .. Len(v) - 1 /\ i < p /\ d + i = i
        BY <1>1, <2>1, <2>2, <3>3
      <4> QED BY <1>3, <1>4, <2>2, <3>1, <4>1
    <3> QED BY <3>2, <3>3
  <2> QED BY <1>7, <2>3, <2>4 DEF IsEnd, t, v
<1> QED BY <1>6, <1>7

-----------------------------------------------------------------------------
(* An empty cache is the end of an empty history.                          *)
LEMMA EmptyCache ==
    ASSUME NEW size \in Int
    PROVE  /\ <<>> \in Seq(Key) /\ Once(<<>>)
           /\ size > 0 => IsEnd(<<>>, <<>>, size)
<1>1. <<>> \in Seq(Key) /\ Len(<<>>) = 0
  BY EmptySeq
<1>2. \A i \in 1 .. Len(<<>>) : FALSE
  BY <1>1
<1> QED BY <1>1, <1>2 DEF Once, IsEnd

(* The process starts with an empty cache and no call.                     *)
LEMMA InitCache == EmbedInit => CacheInv
<1> SUFFICES ASSUME EmbedInit PROVE CacheInv
  OBVIOUS
<1>1. maxSize \in Int
  BY CacheAssumption DEF CacheAssumption, EmbedInit
<1>2. embedCall \in [EmbedCalls -> {NoKey} \cup [busy : {TRUE}, key : Key]]
  BY DEF EmbedInit
<1> QED BY <1>1, <1>2, EmptyCache DEF EmbedInit, CacheInv, EmbedTypeOK

(* A call that is under way has a key.                                     *)
LEMMA BusyHasKey ==
    ASSUME EmbedTypeOK, NEW c \in EmbedCalls, embedCall[c].busy
    PROVE  embedCall[c].key \in Key
<1>1. embedCall[c] \in {NoKey} \cup [busy : {TRUE}, key : Key]
  BY DEF EmbedTypeOK
<1>2. embedCall[c] # NoKey
  BY DEF NoKey
<1> QED BY <1>1, <1>2

(* Keys and calls: what one call writes leaves the others theirs.          *)
LEMMA CallWritten ==
    ASSUME EmbedTypeOK, NEW c \in EmbedCalls,
           NEW value \in {NoKey} \cup [busy : {TRUE}, key : Key],
           embedCall' = [embedCall EXCEPT ![c] = value]
    PROVE  embedCall' \in [EmbedCalls -> {NoKey} \cup [busy : {TRUE}, key : Key]]
  BY DEF EmbedTypeOK

(* Every step keeps the cache the end of the history.                      *)
LEMMA StepCache ==
    ASSUME CacheInv, [EmbedNext]_cacheVars
    PROVE  CacheInv'
<1>0. maxSize \in Int /\ cache \in Seq(Key) /\ used \in Seq(Key)
  BY CacheAssumption DEF CacheAssumption, CacheInv, EmbedTypeOK
<1>1. ASSUME NEW c \in EmbedCalls, NEW key \in Key, CacheHit(c, key)
      PROVE  CacheInv'
  <2>1. /\ key \in ToSet(cache) /\ cache' = MoveToEnd(cache, key)
        /\ used' = MoveToEnd(used, key) /\ UNCHANGED <<maxSize, embedCall>>
    BY <1>1 DEF CacheHit
  <2>2. cache' \in Seq(Key) /\ used' \in Seq(Key)
    <3>1. ASSUME NEW s \in Seq(Key) PROVE MoveToEnd(s, key) \in Seq(Key)
      <4> DEFINE p == IF key \in ToSet(s) THEN PlaceOf(s, key) ELSE Len(s) + 1
      <4>1. p \in Nat
        BY LenProperties, PlaceFacts
      <4> QED BY <4>1, Moved
    <3> QED BY <1>0, <2>1, <3>1
  <2>3. Once(used')
    BY <1>0, <2>1, MovedOnce DEF CacheInv
  <2>4. maxSize > 0 => IsEnd(cache', used', maxSize)
    BY <1>0, <2>1, EndMoved DEF CacheInv
  <2> QED BY <2>1, <2>2, <2>3, <2>4 DEF CacheInv, EmbedTypeOK, Once, IsEnd
<1>2. ASSUME NEW c \in EmbedCalls, NEW key \in Key, CacheMiss(c, key)
      PROVE  CacheInv'
  <2>1. /\ embedCall' = [embedCall EXCEPT ![c] = [busy |-> TRUE, key |-> key]]
        /\ UNCHANGED <<maxSize, cache, used>>
    BY <1>2 DEF CacheMiss
  <2>2. embedCall' \in [EmbedCalls -> {NoKey} \cup [busy : {TRUE}, key : Key]]
    BY <2>1, CallWritten DEF CacheInv
  <2> QED BY <2>1, <2>2 DEF CacheInv, EmbedTypeOK, Once, IsEnd
<1>3. ASSUME NEW c \in EmbedCalls, StoreVector(c)
      PROVE  CacheInv'
  <2> DEFINE key == embedCall[c].key
  <2>1. /\ cache # <<>> \/ maxSize > 0
        /\ CacheSet(key) /\ used' = MoveToEnd(used, key)
        /\ embedCall' = [embedCall EXCEPT ![c] = NoKey] /\ UNCHANGED maxSize
    BY <1>3 DEF StoreVector
  <2>2. key \in Key
    BY <1>3, BusyHasKey DEF StoreVector, CacheInv
  <2> HIDE DEF key
  <2>3. embedCall' \in [EmbedCalls -> {NoKey} \cup [busy : {TRUE}, key : Key]]
    BY <2>1, CallWritten DEF CacheInv
  <2>4. \A s \in Seq(Key) : MoveToEnd(s, key) \in Seq(Key)
    <3> SUFFICES ASSUME NEW s \in Seq(Key) PROVE MoveToEnd(s, key) \in Seq(Key)
      OBVIOUS
    <3> DEFINE p == IF key \in ToSet(s) THEN PlaceOf(s, key) ELSE Len(s) + 1
    <3>1. p \in Nat
      BY <2>2, LenProperties, PlaceFacts
    <3> QED BY <2>2, <3>1, Moved
  <2>5. Once(used') /\ used' \in Seq(Key)
    BY <1>0, <2>1, <2>2, <2>4, MovedOnce DEF CacheInv
  <2>6. cache' \in Seq(Key)
    <3>1. Append(cache, key) \in Seq(Key)
      BY <1>0, <2>2, AppendProperties
    <3>2. Len(cache) >= maxSize => Append(Tail(cache), key) \in Seq(Key)
      <4>1. SUFFICES ASSUME Len(cache) >= maxSize PROVE Tail(cache) \in Seq(Key)
        BY <2>2, AppendProperties
      <4>2. cache # <<>>
        BY <1>0, <2>1, <4>1, EmptySeq
      <4> QED BY <1>0, <4>2, HeadTailProperties
    <3> QED BY <1>0, <2>1, <2>4, <3>1, <3>2 DEF CacheSet
  <2>7. maxSize > 0 => IsEnd(cache', used', maxSize)
    <3>1. SUFFICES ASSUME maxSize > 0 PROVE IsEnd(cache', used', maxSize)
      OBVIOUS
    <3>2. IsEnd(cache, used, maxSize) /\ Once(used)
      BY <3>1 DEF CacheInv
    <3>3. CASE key \in ToSet(cache)
      BY <1>0, <2>1, <2>2, <3>1, <3>2, <3>3, EndMoved DEF CacheSet
    <3>4. CASE key \notin ToSet(cache)
      BY <1>0, <2>1, <2>2, <3>1, <3>2, <3>4, EndStored DEF CacheSet
    <3> QED BY <3>3, <3>4
  <2> QED BY <2>1, <2>3, <2>5, <2>6, <2>7 DEF CacheInv, EmbedTypeOK, Once, IsEnd
<1>4. ASSUME NEW c \in EmbedCalls, ProviderFails(c)
      PROVE  CacheInv'
  <2>1. embedCall' = [embedCall EXCEPT ![c] = NoKey] /\ UNCHANGED <<maxSize, cache, used>>
    BY <1>4 DEF ProviderFails
  <2>2. embedCall' \in [EmbedCalls -> {NoKey} \cup [busy : {TRUE}, key : Key]]
    BY <2>1, CallWritten DEF CacheInv
  <2> QED BY <2>1, <2>2 DEF CacheInv, EmbedTypeOK, Once, IsEnd
<1>5. CASE ClearCache
  <2>1. cache' = <<>> /\ used' = <<>> /\ UNCHANGED <<maxSize, embedCall>>
    BY <1>5 DEF ClearCache
  <2> QED BY <1>0, <2>1, EmptyCache DEF CacheInv, EmbedTypeOK, Once, IsEnd
<1>6. CASE UNCHANGED cacheVars
  BY <1>6 DEF cacheVars, CacheInv, EmbedTypeOK, Once, IsEnd
<1> QED BY <1>1, <1>2, <1>3, <1>4, <1>5, <1>6 DEF EmbedNext

(* The end of a sequence, as SubSeq cuts it.                               *)
LEMMA EndIsSubSeq == CacheInv => CacheIsRecent
<1> DEFINE first == IF Len(used) > maxSize THEN Len(used) - maxSize + 1 ELSE 1
           r == SubSeq(used, first, Len(used))
<1> SUFFICES ASSUME CacheInv, maxSize > 0 PROVE cache = r
  BY DEF CacheIsRecent
<1>1. /\ maxSize \in Int /\ cache \in Seq(Key) /\ used \in Seq(Key)
      /\ Len(used) \in Nat /\ Len(cache) \in Nat
      /\ \A i \in 1 .. Len(used) : used[i] \in Key
  BY CacheAssumption, LenProperties, ElementOfSeq DEF CacheAssumption, CacheInv, EmbedTypeOK
<1>2. IsEnd(cache, used, maxSize)
  BY DEF CacheInv
<1>3. first \in Nat /\ first >= 1 /\ first + Len(cache) = Len(used) + 1
  BY <1>1, <1>2 DEF IsEnd
<1>4. /\ r \in Seq(Key)
      /\ Len(r) = IF first <= Len(used) THEN Len(used) - first + 1 ELSE 0
      /\ \A i \in 1 .. Len(used) - first + 1 : r[i] = used[first + i - 1]
  <2>1. \A i \in first .. Len(used) : used[i] \in Key
    BY <1>1, <1>3
  <2> HIDE DEF first
  <2> QED BY <1>1, <1>3, <2>1, SubSeqProperties
<1> HIDE DEF first, r
<1>5. Len(r) = Len(cache)
  BY <1>1, <1>3, <1>4
<1>6. ASSUME NEW i \in 1 .. Len(cache) PROVE cache[i] = r[i]
  <2>1. Len(used) - Len(cache) + i = first + i - 1 /\ i \in 1 .. Len(used) - first + 1
    BY <1>1, <1>3
  <2> QED BY <1>2, <1>4, <2>1 DEF IsEnd
<1> QED BY <1>1, <1>4, <1>5, <1>6, SeqEqual

(* The cache keeps the strengthened invariant.                             *)
THEOREM CacheInvariance == EmbedSpec => []CacheInv
  BY InitCache, StepCache, PTL DEF EmbedSpec

(* Calls and cache keep their types: a call that stores has a key.         *)
THEOREM CacheTypes == EmbedSpec => []EmbedTypeOK
<1>1. CacheInv => EmbedTypeOK
  BY DEF CacheInv
<1> QED BY CacheInvariance, <1>1, PTL

(* However calls for the same and other texts overlap, the cache is exactly *)
(* the maxSize keys used last, least recent first.                         *)
THEOREM CacheKeepsRecent == EmbedSpec => []CacheIsRecent
  BY CacheInvariance, EndIsSubSeq, PTL

(***************************************************************************)
(* Lists: what sorted() and the slices of Listing return, for any files.   *)
(* The library's induction theorems cannot be instantiated here, so the    *)
(* facts below do without: sorted files are found by their rank, and       *)
(* where two recursions must agree the least place at which they do not    *)
(* is refuted (LeastPlace).                                                *)
(***************************************************************************)

(* A set of places has a least one.                                        *)
LEMMA LeastPlace ==
    ASSUME NEW n \in Nat, NEW T \in SUBSET (1 .. n), T # {}
    PROVE  \E x \in T : \A y \in T : x <= y
<1> DEFINE R == StrictSubsetOrdering(1 .. n)
           F == FiniteSubsetsOf(1 .. n)
           I == {1 .. x : x \in T}
<1>1. IsWellFoundedOn(R, F)
  BY FS_StrictSubsetOrderingWellFounded
<1>2. I \subseteq F
  <2> SUFFICES ASSUME NEW x \in T PROVE 1 .. x \in F
    OBVIOUS
  <2>1. x \in 1 .. n /\ 1 .. x \in SUBSET (1 .. n)
    OBVIOUS
  <2>2. IsFiniteSet(1 .. x)
    BY <2>1, FS_Interval
  <2> QED BY <2>1, <2>2 DEF FiniteSubsetsOf
<1>3. I # {}
  OBVIOUS
<1> HIDE DEF I, R, F
<1>4. PICK i \in I : \A j \in I : ~(<<j, i>> \in R)
  BY <1>1, <1>2, <1>3, WFMin
<1>5. PICK x \in T : i = 1 .. x
  BY DEF I
<1>6. ASSUME NEW y \in T PROVE x <= y
  <2>1. SUFFICES ASSUME y < x PROVE FALSE
    OBVIOUS
  <2>2. 1 .. y \in SUBSET (1 .. n) /\ 1 .. x \in SUBSET (1 .. n) /\ 1 .. y \subseteq 1 .. x
    BY <2>1
  <2>3. x \in 1 .. x /\ x \notin 1 .. y
    BY <2>1
  <2>4. <<1 .. y, 1 .. x>> \in R
    BY <2>2, <2>3 DEF R, StrictSubsetOrdering
  <2>5. 1 .. y \in I
    BY DEF I
  <2> QED BY <1>4, <1>5, <2>4, <2>5
<1> QED BY <1>6

-----------------------------------------------------------------------------
Ascends(s) == \A i, j \in DOMAIN s : i < j => s[i] < s[j]
UpTo(S, x) == {y \in S : y <= x}

(* The rank of an element grows with it, from 1 to the number of elements. *)
LEMMA RankFacts ==
    ASSUME NEW S \in SUBSET Nat, IsFiniteSet(S)
    PROVE  /\ \A x \in S : Cardinality(UpTo(S, x)) \in 1 .. Cardinality(S)
           /\ \A x, y \in S : x < y => Cardinality(UpTo(S, x)) < Cardinality(UpTo(S, y))
<1>1. ASSUME NEW x \in S
      PROVE  /\ IsFiniteSet(UpTo(S, x)) /\ Cardinality(UpTo(S, x)) \in Nat
             /\ Cardinality(UpTo(S, x)) <= Cardinality(S) /\ Cardinality(UpTo(S, x)) # 0
  <2>1. UpTo(S, x) \in SUBSET S /\ x \in UpTo(S, x)
    BY DEF UpTo
  <2>2. IsFiniteSet(UpTo(S, x)) /\ Cardinality(UpTo(S, x)) <= Cardinality(S)
    BY <2>1, FS_Subset
  <2>3. Cardinality(UpTo(S, x)) # 0
    BY <2>1, <2>2, FS_EmptySet
  <2> QED BY <2>2, <2>3, FS_CardinalityType
<1>2. Cardinality(S) \in Nat
  BY FS_CardinalityType
<1>3. ASSUME NEW x \in S, NEW y \in S, x < y
      PROVE  Cardinality(UpTo(S, x)) < Cardinality(UpTo(S, y))
  <2>0. \A z \in S : z \in Nat
    OBVIOUS
  <2>1. UpTo(S, x) \in SUBSET UpTo(S, y) /\ y \in UpTo(S, y) /\ y \notin UpTo(S, x)
    <3>1. x \in Nat /\ y \in Nat /\ x < y
      BY <1>3, <2>0
    <3>2. \A z \in UpTo(S, x) : z \in UpTo(S, y)
      BY <2>0, <3>1 DEF UpTo
    <3>3. y \in UpTo(S, y) /\ y \notin UpTo(S, x)
      BY <3>1 DEF UpTo
    <3> QED BY <3>2, <3>3
  <2>2. /\ Cardinality(UpTo(S, x)) <= Cardinality(UpTo(S, y))
        /\ Cardinality(UpTo(S, y)) # Cardinality(UpTo(S, x))
    BY <1>1, <2>1, FS_Subset
  <2> QED BY <1>1, <2>2
<1> QED BY <1>1, <1>2, <1>3

(* There is an ascending list of the files, so Sorted is one, and it holds all *)
(* of them.                                                                *)
LEMMA SortedFacts ==
    ASSUME NEW S \in SUBSET Nat, IsFiniteSet(S)
    PROVE  /\ Cardinality(S) \in Nat
           /\ Sorted(S) \in [1 .. Cardinality(S) -> S]
           /\ Ascends(Sorted(S))
           /\ \A x \in S : \E i \in 1 .. Cardinality(S) : Sorted(S)[i] = x
<1> DEFINE n == Cardinality(S)
           rank == [x \in S |-> Cardinality(UpTo(S, x))]
<1>1. n \in Nat
  BY FS_CardinalityType
<1>2. /\ rank \in [S -> 1 .. n]
      /\ \A x, y \in S : x < y => rank[x] < rank[y]
      /\ \A x \in S : rank[x] \in Int
  BY RankFacts
<1> HIDE DEF rank
<1>3. rank \in Injection(S, 1 .. n)
  <2>1. \A x, y \in S : rank[x] = rank[y] => x = y
    BY <1>2
  <2> QED BY <1>2, <2>1 DEF Injection, IsInjective
<1>4. IsFiniteSet(1 .. n) /\ Cardinality(1 .. n) = n
  BY <1>1, FS_Interval
<1>5. rank \in Surjection(S, 1 .. n)
  BY <1>3, <1>4, FS_Injection
<1>6. \A k \in 1 .. n : \E x \in S : rank[x] = k
  BY <1>5 DEF Surjection
<1> DEFINE s == [k \in 1 .. n |-> CHOOSE x \in S : rank[x] = k]
<1>7. \A k \in 1 .. n : s[k] \in S /\ rank[s[k]] = k
  BY <1>6
<1>8. s \in [1 .. n -> S]
  BY <1>7
<1> HIDE DEF s
<1>9. \A i, j \in 1 .. n : i < j => s[i] < s[j]
  <2> SUFFICES ASSUME NEW i \in 1 .. n, NEW j \in 1 .. n, i < j, ~(s[i] < s[j])
               PROVE  FALSE
    OBVIOUS
  <2>1. s[i] \in S /\ s[j] \in S /\ rank[s[i]] = i /\ rank[s[j]] = j
    BY <1>7
  <2>2. s[i] \in Nat /\ s[j] \in Nat
    BY <2>1
  <2>3. CASE s[j] < s[i]
    <3>1. rank[s[j]] < rank[s[i]]
      BY <1>2, <2>1, <2>3
    <3> QED BY <2>1, <3>1
  <2>4. CASE s[j] = s[i]
    BY <2>1, <2>4
  <2> QED BY <2>2, <2>3, <2>4
<1>10. /\ Sorted(S) \in [1 .. n -> S]
       /\ \A i, j \in 1 .. n : i < j => Sorted(S)[i] < Sorted(S)[j]
  BY <1>8, <1>9 DEF Sorted
<1>11. Ascends(Sorted(S))
  BY <1>10 DEF Ascends
<1>12. Sorted(S) \in Injection(1 .. n, S)
  <2>1. \A i, j \in 1 .. n : Sorted(S)[i] = Sorted(S)[j] => i = j
    <3> SUFFICES ASSUME NEW i \in 1 .. n, NEW j \in 1 .. n, Sorted(S)[i] = Sorted(S)[j], i # j
                 PROVE  FALSE
      OBVIOUS
    <3>1. i < j \/ j < i
      OBVIOUS
    <3>2. Sorted(S)[i] \in Nat /\ Sorted(S)[j] \in Nat
      BY <1>10
    <3> QED BY <1>10, <3>1, <3>2
  <2> QED BY <1>10, <2>1 DEF Injection, IsInjective
<1>13. Sorted(S) \in Surjection(1 .. n, S)
  BY <1>4, <1>12, FS_Injection
<1>14. \A x \in S : \E i \in 1 .. n : Sorted(S)[i] = x
  BY <1>13 DEF Surjection
<1> QED BY <1>1, <1>10, <1>11, <1>14

(* In an ascending list of all elements each stands at its rank.           *)
LEMMA AtItsRank ==
    ASSUME NEW S \in SUBSET Nat, IsFiniteSet(S), NEW n \in Nat, NEW s \in [1 .. n -> S],
           Ascends(s), \A x \in S : \E i \in 1 .. n : s[i] = x, NEW k \in 1 .. n
    PROVE  Cardinality(UpTo(S, s[k])) = k
<1>1. \A i \in 1 .. n : s[i] \in Nat
  OBVIOUS
<1>2. \A i, j \in 1 .. n : i < j => s[i] < s[j]
  BY DEF Ascends
<1>3. \A i, j \in 1 .. n : s[i] <= s[j] <=> i <= j
  <2> SUFFICES ASSUME NEW i \in 1 .. n, NEW j \in 1 .. n PROVE s[i] <= s[j] <=> i <= j
    OBVIOUS
  <2>1. CASE i < j
    BY <1>1, <1>2, <2>1
  <2>2. CASE i = j
    BY <1>1, <2>2
  <2>3. CASE j < i
    <3>1. s[j] < s[i] /\ s[i] \in Nat /\ s[j] \in Nat
      BY <1>1, <1>2, <2>3
    <3> QED BY <2>3, <3>1
  <2> QED BY <2>1, <2>2, <2>3
<1> DEFINE f == [i \in 1 .. k |-> s[i]]
<1>4. \A i \in 1 .. k : i \in 1 .. n /\ i <= k /\ k \in 1 .. n
  OBVIOUS
<1>5. f \in [1 .. k -> UpTo(S, s[k])]
  <2>1. \A i \in 1 .. k : s[i] \in UpTo(S, s[k])
    BY <1>3, <1>4 DEF UpTo
  <2> QED BY <2>1
<1>6. \A y \in UpTo(S, s[k]) : \E i \in 1 .. k : f[i] = y
  <2> SUFFICES ASSUME NEW y \in S, y <= s[k] PROVE \E i \in 1 .. k : s[i] = y
    BY DEF UpTo
  <2>1. PICK i \in 1 .. n : s[i] = y
    OBVIOUS
  <2>2. i <= k
    BY <1>3, <2>1
  <2> QED BY <2>1, <2>2
<1>7. \A i, j \in 1 .. k : f[i] = f[j] => i = j
  <2> SUFFICES ASSUME NEW i \in 1 .. k, NEW j \in 1 .. k, s[i] = s[j] PROVE i = j
    OBVIOUS
  <2>1. i \in 1 .. n /\ j \in 1 .. n
    BY <1>4
  <2>2. s[i] <= s[j] /\ s[j] <= s[i]
    BY <1>1, <2>1
  <2>3. i <= j /\ j <= i
    BY <1>3, <2>1, <2>2
  <2> QED BY <2>3
<1> HIDE DEF f
<1>8. f \in Bijection(1 .. k, UpTo(S, s[k]))
  BY <1>5, <1>6, <1>7 DEF Bijection, Injection, Surjection, IsInjective
<1>9. IsFiniteSet(1 .. k) /\ Cardinality(1 .. k) = k
  BY FS_Interval
<1> QED BY <1>8, <1>9, FS_Bijection DEF ExistsBijection

(* There is only one ascending list of all elements, and it is Sorted.     *)
LEMMA SortedIsThe ==
    ASSUME NEW S \in SUBSET Nat, IsFiniteSet(S), NEW n \in Nat, NEW s \in [1 .. n -> S],
           Ascends(s), \A x \in S : \E i \in 1 .. n : s[i] = x
    PROVE  n = Cardinality(S) /\ s = Sorted(S)
<1>1. /\ Cardinality(S) \in Nat /\ Sorted(S) \in [1 .. Cardinality(S) -> S]
      /\ Ascends(Sorted(S))
      /\ \A x \in S : \E i \in 1 .. Cardinality(S) : Sorted(S)[i] = x
  BY SortedFacts
<1>2. \A i \in 1 .. n : Cardinality(UpTo(S, s[i])) = i
  BY AtItsRank
<1>3. \A i \in 1 .. Cardinality(S) : Cardinality(UpTo(S, Sorted(S)[i])) = i
  BY <1>1, AtItsRank
<1>4. n = Cardinality(S)
  <2>1. CASE n < Cardinality(S)
    <3>1. Cardinality(S) \in 1 .. Cardinality(S)
      BY <1>1, <2>1
    <3>2. PICK i \in 1 .. n : s[i] = Sorted(S)[Cardinality(S)]
      BY <1>1, <3>1
    <3> QED BY <1>1, <1>2, <1>3, <2>1, <3>1, <3>2
  <2>2. CASE Cardinality(S) < n
    <3>1. n \in 1 .. n
      BY <1>1, <2>2
    <3>2. PICK i \in 1 .. Cardinality(S) : Sorted(S)[i] = s[n]
      BY <1>1, <3>1
    <3> QED BY <1>1, <1>2, <1>3, <2>2, <3>1, <3>2
  <2> QED BY <1>1, <2>1, <2>2
<1>5. \A i \in 1 .. n : s[i] = Sorted(S)[i]
  <2> SUFFICES ASSUME NEW i \in 1 .. n PROVE s[i] = Sorted(S)[i]
    OBVIOUS
  <2>1. PICK j \in 1 .. Cardinality(S) : Sorted(S)[j] = s[i]
    BY <1>1
  <2> QED BY <1>2, <1>3, <1>4, <2>1
<1> QED BY <1>1, <1>4, <1>5

(* A larger element goes to the end of the sorted list.                    *)
LEMMA SortedAppend ==
    ASSUME NEW S \in SUBSET Nat, IsFiniteSet(S), NEW x \in Nat, \A y \in S : y < x
    PROVE  /\ Sorted(S \cup {x}) = Append(Sorted(S), x)
           /\ Cardinality(S \cup {x}) = Cardinality(S) + 1
<1> DEFINE n == Cardinality(S)
           T == S \cup {x}
           t == Append(Sorted(S), x)
<1>1. /\ n \in Nat /\ Sorted(S) \in [1 .. n -> S] /\ Ascends(Sorted(S))
      /\ \A y \in S : \E i \in 1 .. n : Sorted(S)[i] = y
  BY SortedFacts
<1>2. T \in SUBSET Nat /\ IsFiniteSet(T)
  BY FS_AddElement
<1>3. Sorted(S) \in Seq(Nat) /\ Len(Sorted(S)) = n
  <2>1. Sorted(S) \in [1 .. n -> Nat]
    BY <1>1
  <2> QED BY <1>1, <2>1
<1>4. /\ t \in Seq(Nat) /\ Len(t) = n + 1
      /\ \A i \in 1 .. n : t[i] = Sorted(S)[i]
      /\ t[n + 1] = x
  BY <1>3, AppendProperties
<1>5. DOMAIN t = 1 .. n + 1
  BY <1>4
<1> HIDE DEF t
<1>6. \A i \in 1 .. n + 1 : i \in 1 .. n \/ i = n + 1
  BY <1>1
<1>7. t \in [1 .. n + 1 -> T]
  <2>1. \A i \in 1 .. n + 1 : t[i] \in T
    BY <1>1, <1>4, <1>6
  <2> QED BY <1>4, <1>5, <2>1
<1>8. Ascends(t)
  <2> SUFFICES ASSUME NEW i \in 1 .. n + 1, NEW j \in 1 .. n + 1, i < j PROVE t[i] < t[j]
    BY <1>5 DEF Ascends
  <2>1. i \in 1 .. n
    BY <1>1, <1>6
  <2>2. CASE j \in 1 .. n
    BY <1>1, <1>4, <2>1, <2>2 DEF Ascends
  <2>3. CASE j = n + 1
    BY <1>1, <1>4, <2>1, <2>3
  <2> QED BY <1>6, <2>2, <2>3
<1>9. \A y \in T : \E i \in 1 .. n + 1 : t[i] = y
  <2> SUFFICES ASSUME NEW y \in T PROVE \E i \in 1 .. n + 1 : t[i] = y
    OBVIOUS
  <2>1. CASE y = x
    <3>1. n + 1 \in 1 .. n + 1
      BY <1>1
    <3> QED BY <1>4, <2>1, <3>1
  <2>2. CASE y \in S
    <3>1. PICK i \in 1 .. n : Sorted(S)[i] = y
      BY <1>1, <2>2
    <3>2. i \in 1 .. n + 1
      BY <1>1
    <3> QED BY <1>4, <3>1, <3>2
  <2> QED BY <2>1, <2>2
<1>10. n + 1 \in Nat
  BY <1>1
<1>11. n + 1 = Cardinality(T) /\ t = Sorted(T)
  BY <1>2, <1>7, <1>8, <1>9, <1>10, SortedIsThe
<1> QED BY <1>11 DEF t

-----------------------------------------------------------------------------
FlatPart(seqs, f, m) ==
    f = [i \in 1 .. m |-> IF i = 1 THEN seqs[i] ELSE f[i - 1] \o seqs[i]]

(* What satisfies the recursion of FlattenSeq has its result.              *)
LEMMA FlattenIs ==
    ASSUME NEW n \in Nat, n > 0, NEW seqs, Len(seqs) = n,
           NEW f, FlatPart(seqs, f, n)
    PROVE  FlattenSeq(seqs) = f[n]
<1> USE DEF FlatPart
<1> DEFINE g == CHOOSE g : g = [i \in 1 .. Len(seqs) |->
                                  IF i = 1 THEN seqs[i] ELSE g[i - 1] \o seqs[i]]
<1>1. FlattenSeq(seqs) = g[n]
  BY DEF FlattenSeq
<1>2. g = [i \in 1 .. n |-> IF i = 1 THEN seqs[i] ELSE g[i - 1] \o seqs[i]]
  OBVIOUS
<1> HIDE DEF g
<1> DEFINE T == {i \in 1 .. n : f[i] # g[i]}
<1>3. T = {}
  <2>1. SUFFICES ASSUME T # {} PROVE FALSE
    OBVIOUS
  <2>2. PICK x \in T : \A y \in T : x <= y
    BY <2>1, LeastPlace
  <2>3. x \in 1 .. n /\ f[x] # g[x]
    OBVIOUS
  <2>4. x # 1
    BY <1>2, <2>3
  <2>5. x - 1 \in 1 .. n /\ ~(x <= x - 1)
    BY <2>3, <2>4
  <2>6. f[x - 1] = g[x - 1]
    BY <2>2, <2>5
  <2>7. f[x] = f[x - 1] \o seqs[x] /\ g[x] = g[x - 1] \o seqs[x]
    BY <1>2, <2>3, <2>4
  <2> QED BY <2>3, <2>6, <2>7
<1>4. n \in 1 .. n
  OBVIOUS
<1>5. f[n] = g[n]
  BY <1>3, <1>4
<1> QED BY <1>1, <1>5

(* As many slices as are needed, none of them empty.                       *)
LEMMA SliceCount ==
    ASSUME NEW length \in Nat, NEW size \in Nat, size > 0
    PROVE  LET count == (length + size - 1) \div size
           IN  /\ count \in Nat
               /\ length <= count * size
               /\ \A k \in 1 .. count : (k - 1) * size < length /\ (k - 1) * size \in Nat
               /\ length = 0 => count = 0
<1> DEFINE count == (length + size - 1) \div size
<1>1. /\ count \in Nat /\ count * size <= length + size - 1
      /\ length + size - 1 < (count + 1) * size
  OBVIOUS
<1> HIDE DEF count
<1>2. (count + 1) * size = count * size + size /\ count * size \in Nat
  BY <1>1
<1>3. length <= count * size
  BY <1>1, <1>2
<1>4. ASSUME NEW k \in 1 .. count
      PROVE  (k - 1) * size < length /\ (k - 1) * size \in Nat
  <2>1. k \in Nat /\ count \in Nat /\ k <= count /\ k - 1 \in Nat
    BY <1>1
  <2>2. k * size <= count * size
    BY <2>1
  <2>3. (k - 1) * size = k * size - size /\ (k - 1) * size \in Nat /\ k * size \in Nat
    BY <2>1
  <2> QED BY <1>1, <1>2, <2>2, <2>3
<1>5. length = 0 => count = 0
  <2>1. SUFFICES ASSUME length = 0, count # 0 PROVE FALSE
    OBVIOUS
  <2>2. count - 1 \in Nat /\ count * size = (count - 1) * size + size
        /\ (count - 1) * size \in Nat
    BY <1>1, <2>1
  <2> QED BY <1>1, <1>2, <2>1, <2>2
<1> QED BY <1>1, <1>3, <1>4, <1>5 DEF count

SliceEnd(files, size, k) == IF k * size < Len(files) THEN k * size ELSE Len(files)

(* The slices of a list are short, not empty, and joined they are the list. *)
LEMMA SliceFacts ==
    ASSUME NEW S, NEW files \in Seq(S), NEW size \in Nat, size > 0
    PROVE  /\ Slices(files, size) \in Seq(Seq(S))
           /\ \A k \in 1 .. Len(Slices(files, size)) :
                 Len(Slices(files, size)[k]) \in 1 .. size
           /\ FlattenSeq(Slices(files, size)) = files
<1> DEFINE n == Len(files)
           count == (n + size - 1) \div size
           end(k) == SliceEnd(files, size, k)
           s == Slices(files, size)
<1>1. n \in Nat /\ \A i \in 1 .. n : files[i] \in S
  BY LenProperties, ElementOfSeq
<1>2. /\ count \in Nat /\ n <= count * size
      /\ \A k \in 1 .. count : (k - 1) * size < n /\ (k - 1) * size \in Nat
      /\ n = 0 => count = 0
  BY <1>1, SliceCount
<1>3. s = [k \in 1 .. count |-> SubSeq(files, (k - 1) * size + 1, end(k))]
  BY DEF Slices, SliceEnd
<1> HIDE DEF n, count, s
<1>4. ASSUME NEW k \in 1 .. count
      PROVE  /\ end(k) \in Nat /\ end(k) <= n /\ (k - 1) * size < end(k)
             /\ end(k) <= (k - 1) * size + size
             /\ k > 1 => end(k - 1) = (k - 1) * size
  <2>1. k \in Nat /\ k * size = (k - 1) * size + size /\ (k - 1) * size \in Nat
        /\ (k - 1) * size < n
    BY <1>2
  <2>2. k * size \in Nat
    BY <2>1
  <2> QED BY <1>1, <2>1, <2>2 DEF SliceEnd, n
<1> HIDE DEF end
<1>5. ASSUME NEW k \in 1 .. count
      PROVE  s[k] \in Seq(S) /\ Len(s[k]) \in 1 .. size
  <2> DEFINE m == (k - 1) * size + 1
  <2>1. s[k] = SubSeq(files, m, end(k))
    BY <1>3
  <2>2. m \in 1 .. n + 1 /\ m <= end(k) /\ end(k) \in Nat /\ end(k) - m + 1 \in 1 .. size
    BY <1>1, <1>2, <1>4
  <2> HIDE DEF m
  <2>3. \A i \in m .. end(k) : files[i] \in S
    BY <1>1, <1>4, <2>2
  <2>4. SubSeq(files, m, end(k)) \in Seq(S)
        /\ Len(SubSeq(files, m, end(k))) = IF m <= end(k) THEN end(k) - m + 1 ELSE 0
    BY <2>2, <2>3, SubSeqProperties DEF n
  <2> QED BY <2>1, <2>2, <2>4
<1>6. s \in [1 .. count -> Seq(S)] /\ DOMAIN s = 1 .. count
  BY <1>3, <1>5
<1>7. s \in Seq(Seq(S)) /\ Len(s) = count
  BY <1>2, <1>6
<1>8. CASE n = 0
  <2>1. Len(s) = 0
    BY <1>2, <1>7, <1>8
  <2>2. FlattenSeq(s) = s
    BY <2>1 DEF FlattenSeq
  <2>3. s = <<>> /\ files = <<>>
    BY <1>7, <1>8, <2>1, EmptySeq DEF n
  <2> QED BY <1>5, <1>7, <2>2, <2>3 DEF s
<1>9. CASE n # 0
  <2> DEFINE f == [i \in 1 .. count |-> SubSeq(files, 1, end(i))]
  <2>1. count > 0 /\ count \in 1 .. count
    <3>1. count # 0
      <4>1. SUFFICES ASSUME count = 0 PROVE FALSE
        OBVIOUS
      <4>2. count * size = 0
        BY <4>1
      <4> QED BY <1>1, <1>2, <1>9, <4>2
    <3> QED BY <1>2, <3>1
  <2>2. ASSUME NEW i \in 1 .. count
        PROVE  f[i] = IF i = 1 THEN s[i] ELSE f[i - 1] \o s[i]
    <3>1. CASE i = 1
      <4>1. (i - 1) * size + 1 = 1
        BY <3>1
      <4> QED BY <1>3, <3>1, <4>1
    <3>2. CASE i # 1
      <4>0. i \in Nat /\ i >= 1 /\ i <= count
        BY <1>2
      <4>1. i - 1 \in 1 .. count /\ i > 1
        BY <1>2, <3>2, <4>0
      <4>2. f[i - 1] = SubSeq(files, 1, (i - 1) * size)
        BY <1>4, <4>1
      <4>3. s[i] = SubSeq(files, (i - 1) * size + 1, end(i))
        BY <1>3
      <4>4. /\ (i - 1) * size \in Nat /\ end(i) \in Nat /\ (i - 1) * size < end(i)
            /\ end(i) <= n
        BY <1>2, <1>4
      <4>5. SubSeq(files, 1, (i - 1) * size) \o SubSeq(files, (i - 1) * size + 1, end(i))
              = SubSeq(files, 1, end(i))
        BY <1>1, <4>4, ConcatAdjacentSubSeq DEF n
      <4> QED BY <3>2, <4>2, <4>3, <4>5
    <3> QED BY <3>1, <3>2
  <2>3. FlatPart(s, f, count)
    BY <2>2 DEF FlatPart
  <2>4. f[count] = SubSeq(files, 1, end(count))
    BY <2>1
  <2> HIDE DEF f
  <2>5. FlattenSeq(s) = f[count]
    <3>1. count \in Nat /\ count > 0 /\ Len(s) = count
      BY <1>2, <1>7, <2>1
    <3> QED BY <2>3, <3>1, FlattenIs
  <2>6. end(count) = n
    BY <1>1, <1>2, <2>1 DEF SliceEnd, n, end
  <2>7. SubSeq(files, 1, n) = files
    BY SubSeqFull DEF n
  <2> QED BY <1>5, <1>7, <2>4, <2>5, <2>6, <2>7 DEF s
<1> QED BY <1>8, <1>9

-----------------------------------------------------------------------------
(***************************************************************************)
(* The package audit.  Its nodes hand one another what they made: the list *)
(* of files per package, the chunks of each list, and how far the agent    *)
(* has come with the chunks of each package.                               *)
(***************************************************************************)
Found == [p \in {q \in Packages : listing[q] # {}} |-> Sorted(listing[p])]
Cut == [p \in DOMAIN Found |-> ChunkFiles(Found[p], chunkSize)]
Begun(p) == analysed[p] # <<>> /\ analysed[p] # chunks[p]

(* The chunks are handed out from the front, one package at a time, and    *)
(* each of them is counted.                                                *)
HandedOut ==
    /\ chunks \in [DOMAIN Found -> Seq(Seq(Nat))]
    /\ analysed \in [DOMAIN Found -> Seq(Seq(Nat))]
    /\ \A p \in DOMAIN Found :
          /\ Len(analysed[p]) <= Len(chunks[p])
          /\ \A k \in 1 .. Len(analysed[p]) : analysed[p][k] = chunks[p][k]
    /\ \A p, q \in DOMAIN Found : Begun(p) /\ Begun(q) => p = q
    /\ IsFiniteSet(Places(analysed))
    /\ processed = TotalLen(analysed)

AuditTypes ==
    /\ listing \in [Packages -> SUBSET PackageFiles]
    /\ chunkSize \in ChunkSizes
    /\ node \in GraphNodes \cup {"idle", "reported", "failed"}
    /\ container \in {"none", "open", "finalized", "aborted"}
    /\ discovered = <<>> \/ discovered = Found
    /\ DOMAIN chunks = {} \/ (discovered = Found /\ DOMAIN chunks = DOMAIN Found)
    /\ DOMAIN analysed = DOMAIN chunks
    /\ processed \in Nat
    /\ DOMAIN auditReport = DOMAIN NoTotals

AuditInv ==
    /\ AuditTypes
    /\ node \in {"idle", "discover"} =>
          discovered = <<>> /\ chunks = <<>> /\ analysed = <<>> /\ processed = 0
    /\ node = "chunk" =>
          discovered = Found /\ chunks = <<>> /\ analysed = <<>> /\ processed = 0
    /\ node \in {"analyze", "aggregate", "reported"} =>
          discovered = Found /\ chunks = Cut /\ HandedOut
    /\ node \in {"aggregate", "reported"} => analysed = chunks
    /\ node = "reported" =>
          auditReport = [packages |-> Cardinality(DOMAIN chunks),
                         files |-> TotalLen(discovered),
                         chunks |-> processed]

(* Every package with files has a sorted list of them.                     *)
LEMMA FoundFacts ==
    ASSUME PackageAssumption, listing \in [Packages -> SUBSET PackageFiles]
    PROVE  /\ DOMAIN Found = {q \in Packages : listing[q] # {}}
           /\ \A p \in DOMAIN Found :
                 /\ Found[p] = Sorted(listing[p])
                 /\ listing[p] \in SUBSET Nat /\ IsFiniteSet(listing[p])
                 /\ Found[p] \in Seq(listing[p]) /\ Found[p] \in Seq(Nat)
                 /\ DOMAIN Found[p] = 1 .. Cardinality(listing[p])
<1>1. DOMAIN Found = {q \in Packages : listing[q] # {}}
      /\ \A p \in DOMAIN Found : Found[p] = Sorted(listing[p])
  BY DEF Found
<1>2. ASSUME NEW p \in Packages
      PROVE  /\ listing[p] \in SUBSET Nat /\ IsFiniteSet(listing[p])
             /\ Sorted(listing[p]) \in Seq(listing[p]) /\ Sorted(listing[p]) \in Seq(Nat)
             /\ DOMAIN Sorted(listing[p]) = 1 .. Cardinality(listing[p])
  <2>1. listing[p] \in SUBSET PackageFiles
    OBVIOUS
  <2>2. listing[p] \in SUBSET Nat /\ IsFiniteSet(listing[p])
    BY <2>1, FS_Subset, PackageAssumption DEF PackageAssumption
  <2>3. /\ Cardinality(listing[p]) \in Nat
        /\ Sorted(listing[p]) \in [1 .. Cardinality(listing[p]) -> listing[p]]
    BY <2>2, SortedFacts
  <2>4. Sorted(listing[p]) \in [1 .. Cardinality(listing[p]) -> Nat]
    BY <2>2, <2>3
  <2> QED BY <2>2, <2>3, <2>4
<1> QED BY <1>1, <1>2

(* The chunks of a package are lists of its files.                         *)
LEMMA CutFacts ==
    ASSUME PackageAssumption, listing \in [Packages -> SUBSET PackageFiles],
           chunkSize \in ChunkSizes
    PROVE  /\ Cut \in [DOMAIN Found -> Seq(Seq(Nat))]
           /\ chunkSize > 0 =>
                 \A p \in DOMAIN Found :
                    /\ FlattenSeq(Cut[p]) = Found[p]
                    /\ \A k \in 1 .. Len(Cut[p]) : Len(Cut[p][k]) \in 1 .. chunkSize
<1>1. chunkSize \in Int
  BY PackageAssumption DEF PackageAssumption
<1>2. \A p \in DOMAIN Found : Found[p] \in Seq(Nat)
  BY FoundFacts
<1>3. ASSUME NEW p \in DOMAIN Found
      PROVE  /\ Cut[p] = IF chunkSize > 0 THEN Slices(Found[p], chunkSize) ELSE <<>>
             /\ Cut[p] \in Seq(Seq(Nat))
             /\ chunkSize > 0 =>
                   /\ FlattenSeq(Cut[p]) = Found[p]
                   /\ \A k \in 1 .. Len(Cut[p]) : Len(Cut[p][k]) \in 1 .. chunkSize
  <2>1. Cut[p] = IF chunkSize > 0 THEN Slices(Found[p], chunkSize) ELSE <<>>
    BY DEF Cut, ChunkFiles
  <2>2. CASE chunkSize > 0
    <3>1. Found[p] \in Seq(Nat) /\ chunkSize \in Nat
      BY <1>1, <1>2, <2>2
    <3>2. /\ Slices(Found[p], chunkSize) \in Seq(Seq(Nat))
          /\ \A k \in 1 .. Len(Slices(Found[p], chunkSize)) :
                Len(Slices(Found[p], chunkSize)[k]) \in 1 .. chunkSize
          /\ FlattenSeq(Slices(Found[p], chunkSize)) = Found[p]
      BY <2>2, <3>1, SliceFacts
    <3> QED BY <2>1, <2>2, <3>2
  <2>3. CASE ~(chunkSize > 0)
    BY <2>1, <2>3
  <2> QED BY <2>1, <2>2, <2>3
<1>4. Cut = [p \in DOMAIN Found |-> Cut[p]]
  BY DEF Cut
<1> QED BY <1>3, <1>4

AppendAt(f, p, x) == [f EXCEPT ![p] = Append(@, x)]

(* One more place in one list.                                             *)
LEMMA OneMorePlace ==
    ASSUME NEW D, NEW T, NEW f \in [D -> Seq(T)], NEW p \in D, NEW x \in T,
           IsFiniteSet(Places(f))
    PROVE  /\ IsFiniteSet(Places(AppendAt(f, p, x)))
           /\ TotalLen(AppendAt(f, p, x)) = TotalLen(f) + 1
<1> DEFINE g == AppendAt(f, p, x)
           new == <<p, Len(f[p]) + 1>>
<1>1. DOMAIN f = D /\ DOMAIN g = D
  BY DEF AppendAt
<1>2. \A q \in D : f[q] \in Seq(T) /\ DOMAIN f[q] = 1 .. Len(f[q]) /\ Len(f[q]) \in Nat
  OBVIOUS
<1>3. \A q \in D : q # p => g[q] = f[q]
  BY DEF AppendAt
<1>4. g[p] = Append(f[p], x) /\ DOMAIN g[p] = 1 .. Len(f[p]) + 1
  BY <1>2, AppendProperties DEF AppendAt
<1> HIDE DEF g
<1>5. \A q \in D : \A i : i \in DOMAIN g[q] <=> i \in DOMAIN f[q] \/ (q = p /\ i = Len(f[p]) + 1)
  <2> SUFFICES ASSUME NEW q \in D, NEW i
               PROVE  i \in DOMAIN g[q] <=> i \in DOMAIN f[q] \/ (q = p /\ i = Len(f[p]) + 1)
    OBVIOUS
  <2>1. CASE q = p
    BY <1>2, <1>4, <2>1
  <2>2. CASE q # p
    BY <1>3, <2>2
  <2> QED BY <2>1, <2>2
<1>6. \A z : z \in Places(f) <=> \E q \in D : \E i \in DOMAIN f[q] : z = <<q, i>>
  BY <1>1 DEF Places
<1>7. \A z : z \in Places(g) <=> \E q \in D : \E i \in DOMAIN g[q] : z = <<q, i>>
  BY <1>1 DEF Places
<1>8. Places(g) = Places(f) \cup {new}
  BY <1>5, <1>6, <1>7
<1>9. new \notin Places(f)
  BY <1>2, <1>6
<1>10. /\ IsFiniteSet(Places(f) \cup {new})
       /\ Cardinality(Places(f) \cup {new}) = Cardinality(Places(f)) + 1
  BY <1>9, FS_AddElement
<1> QED BY <1>8, <1>10 DEF TotalLen, g

(* Initially no package is under audit and no list is there. *)
LEMMA InitAudit == PackageInit => AuditInv
<1> SUFFICES ASSUME PackageInit PROVE AuditInv
  OBVIOUS
<1> USE DEF PackageInit
<1>1. chunkSize \in ChunkSizes
  BY PackageAssumption DEF PackageAssumption
<1>2. DOMAIN chunks = {} /\ DOMAIN analysed = {}
  OBVIOUS
<1> QED BY <1>1, <1>2 DEF AuditInv, AuditTypes, GraphNodes

(* The start of a runtime fixes root and chunk size of its packages. *)
LEMMA StartAuditsKeeps == AuditInv /\ StartAudits => AuditInv'
<1> SUFFICES ASSUME AuditInv, StartAudits PROVE AuditInv'
  OBVIOUS
<1> USE DEF StartAudits
<1>1. /\ discovered' = <<>> /\ chunks' = <<>> /\ analysed' = <<>> /\ processed' = 0
      /\ node' = "discover"
  BY DEF AuditInv
<1>2. DOMAIN chunks' = {} /\ DOMAIN analysed' = {}
  BY <1>1
<1>3. AuditTypes'
  BY <1>1, <1>2 DEF AuditInv, AuditTypes, GraphNodes
<1> QED BY <1>1, <1>3 DEF AuditInv

(* The listing of a package is its files in order, each once. *)
LEMMA DiscoverKeeps == AuditInv /\ Discover => AuditInv'
<1> SUFFICES ASSUME AuditInv, Discover PROVE AuditInv'
  OBVIOUS
<1> USE DEF Discover
<1>1. /\ chunks = <<>> /\ analysed = <<>> /\ processed = 0
  BY DEF AuditInv
<1>2. Found' = Found /\ discovered' = Found
  BY DEF Found
<1>3. DOMAIN chunks' = {} /\ DOMAIN analysed' = {}
  BY <1>1
<1>4. AuditTypes'
  BY <1>2, <1>3 DEF AuditInv, AuditTypes, GraphNodes
<1> QED BY <1>1, <1>2, <1>4 DEF AuditInv

(* Chunking hands out every file of the listing, none twice and none else. *)
LEMMA ChunkKeeps == AuditInv /\ Chunk => AuditInv'
<1> SUFFICES ASSUME AuditInv, Chunk PROVE AuditInv'
  OBVIOUS
<1> USE DEF Chunk
<1>1. AuditTypes /\ discovered = Found /\ processed = 0
  BY DEF AuditInv
<1>2. Found' = Found /\ Cut' = Cut /\ chunks' = Cut
  BY <1>1 DEF Found, Cut
<1>3. Cut \in [DOMAIN Found -> Seq(Seq(Nat))]
  BY <1>1, CutFacts, PackageAssumption DEF AuditTypes
<1>4. /\ analysed' = [p \in DOMAIN Found |-> <<>>]
      /\ DOMAIN analysed' = DOMAIN Found
      /\ \A p \in DOMAIN Found : analysed'[p] = <<>>
  BY <1>1
<1>5. AuditTypes'
  BY <1>1, <1>2, <1>3, <1>4 DEF AuditTypes, GraphNodes
<1>6. HandedOut'
  <2>1. Places(analysed') = {}
    BY <1>4 DEF Places
  <2>2. IsFiniteSet(Places(analysed')) /\ TotalLen(analysed') = 0
    BY <2>1, FS_EmptySet DEF TotalLen
  <2>3. \A p \in DOMAIN Found' : Len(chunks'[p]) \in Nat
    BY <1>2, <1>3
  <2>4. analysed' \in [DOMAIN Found -> Seq(Seq(Nat))]
    BY <1>4
  <2>5. \A p \in DOMAIN Found' : ~ Begun(p)'
    BY <1>2, <1>4 DEF Begun
  <2>6. \A p \in DOMAIN Found' :
           /\ Len(analysed'[p]) <= Len(chunks'[p])
           /\ \A k \in 1 .. Len(analysed'[p]) : analysed'[p][k] = chunks'[p][k]
    BY <1>2, <1>4, <2>3
  <2> QED BY <1>1, <1>2, <1>3, <2>2, <2>4, <2>5, <2>6 DEF HandedOut
<1> QED BY <1>1, <1>2, <1>5, <1>6 DEF AuditInv

(* An analysed chunk becomes a report, and no chunk is lost on the way. *)
LEMMA AnalyzeKeeps == AuditInv /\ (\E p \in Packages : Analyze(p)) => AuditInv'
<1> SUFFICES ASSUME AuditInv, NEW p \in Packages, Analyze(p) PROVE AuditInv'
  OBVIOUS
<1> USE DEF Analyze
<1>1. /\ AuditTypes /\ HandedOut /\ discovered = Found /\ chunks = Cut
      /\ node = "analyze"
  BY DEF AuditInv
<1>2. Found' = Found /\ Cut' = Cut
  BY DEF Found, Cut
<1> DEFINE x == chunks[p][Len(analysed[p]) + 1]
<1>3. p \in DOMAIN Found /\ Len(analysed[p]) < Len(chunks[p])
      /\ \A q \in DOMAIN Found \ {p} : analysed[q] # <<>> => analysed[q] = chunks[q]
  BY <1>1 DEF Current, HandedOut
<1>4. /\ analysed \in [DOMAIN Found -> Seq(Seq(Nat))]
      /\ chunks \in [DOMAIN Found -> Seq(Seq(Nat))]
  BY <1>1 DEF HandedOut
<1>5. Len(analysed[p]) \in Nat /\ Len(chunks[p]) \in Nat /\ x \in Seq(Nat)
  <2>1. Len(analysed[p]) \in Nat /\ Len(chunks[p]) \in Nat /\ chunks[p] \in Seq(Seq(Nat))
    BY <1>3, <1>4
  <2>2. Len(analysed[p]) + 1 \in 1 .. Len(chunks[p])
    BY <1>3, <2>1
  <2> QED BY <2>1, <2>2, ElementOfSeq
<1>6. analysed' = [analysed EXCEPT ![p] = Append(@, x)]
  OBVIOUS
<1> HIDE DEF x
<1>7. /\ IsFiniteSet(Places(analysed')) /\ TotalLen(analysed') = TotalLen(analysed) + 1
  <2>1. IsFiniteSet(Places(analysed))
    BY <1>1 DEF HandedOut
  <2>2. /\ p \in DOMAIN Found /\ x \in Seq(Nat)
        /\ analysed \in [DOMAIN Found -> Seq(Seq(Nat))]
    BY <1>3, <1>4, <1>5
  <2>3. /\ IsFiniteSet(Places(AppendAt(analysed, p, x)))
        /\ TotalLen(AppendAt(analysed, p, x)) = TotalLen(analysed) + 1
    <3>1. \A D, T, f, q, y : f \in [D -> Seq(T)] /\ q \in D /\ y \in T /\ IsFiniteSet(Places(f))
             => /\ IsFiniteSet(Places(AppendAt(f, q, y)))
                /\ TotalLen(AppendAt(f, q, y)) = TotalLen(f) + 1
      BY OneMorePlace
    <3> QED BY <2>1, <2>2, <3>1
  <2>4. analysed' = AppendAt(analysed, p, x)
    BY <1>6 DEF AppendAt
  <2> QED BY <2>3, <2>4
<1>8. analysed[p] \in Seq(Seq(Nat)) /\ analysed'[p] = Append(analysed[p], x)
  BY <1>3, <1>4, <1>6
<1>9. /\ Append(analysed[p], x) \in Seq(Seq(Nat))
      /\ Len(Append(analysed[p], x)) = Len(analysed[p]) + 1
      /\ \A i \in 1 .. Len(analysed[p]) : Append(analysed[p], x)[i] = analysed[p][i]
      /\ Append(analysed[p], x)[Len(analysed[p]) + 1] = x
  BY <1>5, <1>8, AppendProperties
<1>10. /\ analysed' \in [DOMAIN Found -> Seq(Seq(Nat))]
       /\ \A q \in DOMAIN Found \ {p} : analysed'[q] = analysed[q]
  BY <1>3, <1>4, <1>6, <1>9
<1>11. ASSUME NEW q \in DOMAIN Found
       PROVE  /\ Len(analysed'[q]) <= Len(chunks[q])
              /\ \A k \in 1 .. Len(analysed'[q]) : analysed'[q][k] = chunks[q][k]
  <2>1. CASE q = p
    <3>1. Len(analysed'[p]) <= Len(chunks[p])
      BY <1>3, <1>5, <1>8, <1>9
    <3>2. ASSUME NEW k \in 1 .. Len(analysed'[p]) PROVE analysed'[p][k] = chunks[p][k]
      <4>1. k \in 1 .. Len(analysed[p]) \/ k = Len(analysed[p]) + 1
        BY <1>5, <1>8, <1>9
      <4>2. CASE k \in 1 .. Len(analysed[p])
        BY <1>1, <1>3, <1>8, <1>9, <4>2 DEF HandedOut
      <4>3. CASE k = Len(analysed[p]) + 1
        BY <1>8, <1>9, <4>3 DEF x
      <4> QED BY <4>1, <4>2, <4>3
    <3> QED BY <2>1, <3>1, <3>2
  <2>2. CASE q # p
    BY <1>1, <1>10, <2>2 DEF HandedOut
  <2> QED BY <2>1, <2>2
<1>12. \A q \in DOMAIN Found : Begun(q)' => q = p
  BY <1>3, <1>10 DEF Begun
<1>13. HandedOut'
  <2>1. processed' = TotalLen(analysed')
    BY <1>1, <1>7 DEF HandedOut
  <2>2. chunks' = chunks
    OBVIOUS
  <2>3. \A q, r \in DOMAIN Found' : Begun(q)' /\ Begun(r)' => q = r
    BY <1>2, <1>12
  <2>4. \A q \in DOMAIN Found' :
           /\ Len(analysed'[q]) <= Len(chunks'[q])
           /\ \A k \in 1 .. Len(analysed'[q]) : analysed'[q][k] = chunks'[q][k]
    BY <1>2, <1>11, <2>2
  <2>5. /\ chunks' \in [DOMAIN Found' -> Seq(Seq(Nat))]
        /\ analysed' \in [DOMAIN Found' -> Seq(Seq(Nat))]
    BY <1>2, <1>4, <1>10, <2>2
  <2> QED BY <1>7, <2>1, <2>3, <2>4, <2>5 DEF HandedOut
<1>14. AuditTypes'
  <2>1. processed' \in Nat
    BY <1>1 DEF AuditTypes
  <2>2. DOMAIN analysed' = DOMAIN chunks'
    BY <1>4, <1>10
  <2> QED BY <1>1, <1>2, <2>1, <2>2 DEF AuditTypes, GraphNodes
<1> QED BY <1>1, <1>2, <1>13, <1>14 DEF AuditInv

(* No chunk left to hand out means that all of them are handed out.        *)
LEMMA AnalyzedKeeps == AuditInv /\ Analyzed => AuditInv'
<1> SUFFICES ASSUME AuditInv, Analyzed PROVE AuditInv'
  OBVIOUS
<1> USE DEF Analyzed
<1>1. AuditTypes /\ HandedOut /\ discovered = Found /\ chunks = Cut
  BY DEF AuditInv
<1>2. Found' = Found /\ Cut' = Cut
  BY DEF Found, Cut
<1>3. /\ analysed \in [DOMAIN Found -> Seq(Seq(Nat))]
      /\ chunks \in [DOMAIN Found -> Seq(Seq(Nat))]
      /\ \A p \in DOMAIN Found :
            /\ Len(analysed[p]) <= Len(chunks[p])
            /\ \A k \in 1 .. Len(analysed[p]) : analysed[p][k] = chunks[p][k]
      /\ \A p, q \in DOMAIN Found : Begun(p) /\ Begun(q) => p = q
  BY <1>1 DEF HandedOut
<1>4. \A p \in DOMAIN Found :
         /\ Len(analysed[p]) \in Nat /\ Len(chunks[p]) \in Nat
         /\ analysed[p] \in Seq(Seq(Nat)) /\ chunks[p] \in Seq(Seq(Nat))
  BY <1>3
<1>5. \A p \in DOMAIN Found : Len(analysed[p]) < Len(chunks[p]) =>
         \E q \in DOMAIN Found \ {p} : Begun(q)
  BY <1>3 DEF Begun, Current
<1>6. \A p \in DOMAIN Found : Len(analysed[p]) = Len(chunks[p]) => analysed[p] = chunks[p]
  BY <1>3, <1>4, SeqEqual
<1>7. \A p \in DOMAIN Found : Begun(p) => Len(analysed[p]) < Len(chunks[p])
  BY <1>3, <1>4, <1>6 DEF Begun
<1>8. ASSUME NEW p \in DOMAIN Found PROVE analysed[p] = chunks[p]
  <2>1. SUFFICES ASSUME Len(analysed[p]) < Len(chunks[p]) PROVE FALSE
    BY <1>3, <1>4, <1>6
  <2>2. PICK q \in DOMAIN Found : Begun(q)
    BY <1>5, <2>1
  <2>3. PICK r \in DOMAIN Found \ {q} : Begun(r)
    BY <1>5, <1>7, <2>2
  <2> QED BY <1>3, <2>2, <2>3
<1>9. analysed = chunks
  BY <1>3, <1>8
<1>10. HandedOut'
  BY <1>1, <1>2 DEF HandedOut, Begun
<1>11. AuditTypes'
  BY <1>1, <1>2 DEF AuditTypes, GraphNodes
<1> QED BY <1>1, <1>2, <1>9, <1>10, <1>11 DEF AuditInv

(* The report's totals are those of the lists and chunks that were handed out. *)
LEMMA AggregateKeeps == AuditInv /\ Aggregate => AuditInv'
<1> SUFFICES ASSUME AuditInv, Aggregate PROVE AuditInv'
  OBVIOUS
<1> USE DEF Aggregate
<1>1. /\ AuditTypes /\ HandedOut /\ discovered = Found /\ chunks = Cut
      /\ analysed = chunks
  BY DEF AuditInv
<1>2. Found' = Found /\ Cut' = Cut
  BY DEF Found, Cut
<1>3. discovered = [p \in DOMAIN chunks |-> discovered[p]]
  BY <1>1 DEF HandedOut, Found
<1>4. auditReport' = [packages |-> Cardinality(DOMAIN chunks'),
                      files |-> TotalLen(discovered'),
                      chunks |-> processed']
  BY <1>3
<1>5. HandedOut'
  BY <1>1, <1>2 DEF HandedOut, Begun
<1>6. AuditTypes'
  <2>1. DOMAIN auditReport' = DOMAIN NoTotals
    BY DEF NoTotals
  <2>2. container' \in {"none", "open", "finalized", "aborted"}
    BY <1>1 DEF AuditTypes
  <2> QED BY <1>1, <1>2, <2>1, <2>2 DEF AuditTypes, GraphNodes
<1> QED BY <1>1, <1>2, <1>4, <1>5, <1>6 DEF AuditInv

(* A run that raises in the chunking or is cancelled changes no list. *)
LEMMA AuditEndsKeep == AuditInv /\ (ChunkRaises \/ CancelAudit) => AuditInv'
<1> SUFFICES ASSUME AuditInv, ChunkRaises \/ CancelAudit PROVE AuditInv'
  OBVIOUS
<1>1. /\ node' = "failed"
      /\ container' \in {container, "aborted", "finalized"}
      /\ UNCHANGED <<listing, chunkSize, discovered, chunks, analysed, processed, auditReport>>
  BY DEF ChunkRaises, CancelAudit
<1>2. Found' = Found
  BY <1>1 DEF Found
<1>3. container' \in {"none", "open", "finalized", "aborted"}
  BY <1>1 DEF AuditInv, AuditTypes
<1>4. AuditTypes'
  BY <1>1, <1>2, <1>3 DEF AuditInv, AuditTypes
<1> QED BY <1>1, <1>4 DEF AuditInv

(* Every step of the package audit keeps its inductive invariant. *)
LEMMA StepAudit == AuditInv /\ [PackageNext]_packageVars => AuditInv'
<1> SUFFICES ASSUME AuditInv, [PackageNext]_packageVars PROVE AuditInv'
  OBVIOUS
<1>1. CASE UNCHANGED packageVars
  <2>1. UNCHANGED <<listing, chunkSize, node, container, discovered, chunks,
                    analysed, processed, auditReport>>
    BY <1>1 DEF packageVars
  <2>2. Found' = Found /\ Cut' = Cut
    BY <2>1 DEF Found, Cut
  <2>3. HandedOut' = HandedOut /\ AuditTypes' = AuditTypes
    BY <2>1, <2>2 DEF HandedOut, AuditTypes, Begun
  <2> QED BY <2>1, <2>2, <2>3 DEF AuditInv
<1> QED BY <1>1, StartAuditsKeeps, DiscoverKeeps, ChunkKeeps, AnalyzeKeeps, AnalyzedKeeps,
           AggregateKeeps, AuditEndsKeep DEF PackageNext

(* Each node of the audit finds what the node before it made, whole.       *)
THEOREM AuditInvariance == PackageSpec => []AuditInv
  BY InitAudit, StepAudit, PTL DEF PackageSpec

(* The lists of files and chunks keep their types, and chunks are made of  *)
(* packages with files only.                                               *)
THEOREM PackageTypes == PackageSpec => []PackageTypeOK
<1>1. ASSUME AuditInv PROVE PackageTypeOK
  <2>1. AuditTypes
    BY <1>1 DEF AuditInv
  <2>2. DOMAIN discovered \subseteq Packages
        /\ \A p \in DOMAIN discovered : discovered[p] \in Seq(listing[p])
    BY <2>1, FoundFacts, PackageAssumption DEF AuditTypes
  <2> QED BY <2>1, <2>2 DEF AuditTypes, PackageTypeOK
<1> QED BY <1>1, AuditInvariance, PTL

(* The files in the report are counted over all packages: a place in one of *)
(* the lists is a file of a package.                                       *)
LEMMA PlacesAreFiles ==
    ASSUME PackageAssumption, listing \in [Packages -> SUBSET PackageFiles]
    PROVE  TotalLen(Found) =
              Cardinality({pf \in Packages \X PackageFiles : pf[2] \in listing[pf[1]]})
<1> DEFINE files == {pf \in Packages \X PackageFiles : pf[2] \in listing[pf[1]]}
           at == [z \in Places(Found) |-> <<z[1], Found[z[1]][z[2]]>>]
<1>1. /\ DOMAIN Found = {q \in Packages : listing[q] # {}}
      /\ \A p \in DOMAIN Found :
            /\ Found[p] = Sorted(listing[p])
            /\ listing[p] \in SUBSET Nat /\ IsFiniteSet(listing[p])
            /\ DOMAIN Found[p] = 1 .. Cardinality(listing[p])
  BY FoundFacts
<1>2. \A p \in DOMAIN Found :
         /\ Cardinality(listing[p]) \in Nat
         /\ \A i \in 1 .. Cardinality(listing[p]) : Found[p][i] \in listing[p]
         /\ \A i, j \in 1 .. Cardinality(listing[p]) : Found[p][i] = Found[p][j] => i = j
         /\ \A x \in listing[p] : \E i \in 1 .. Cardinality(listing[p]) : Found[p][i] = x
  <2> SUFFICES ASSUME NEW p \in DOMAIN Found
               PROVE  /\ Cardinality(listing[p]) \in Nat
                      /\ \A i \in 1 .. Cardinality(listing[p]) : Found[p][i] \in listing[p]
                      /\ \A i, j \in 1 .. Cardinality(listing[p]) :
                            Found[p][i] = Found[p][j] => i = j
                      /\ \A x \in listing[p] :
                            \E i \in 1 .. Cardinality(listing[p]) : Found[p][i] = x
    OBVIOUS
  <2>1. /\ Cardinality(listing[p]) \in Nat
        /\ Found[p] \in [1 .. Cardinality(listing[p]) -> listing[p]]
        /\ Ascends(Found[p])
        /\ \A x \in listing[p] : \E i \in 1 .. Cardinality(listing[p]) : Found[p][i] = x
    <3>1. listing[p] \in SUBSET Nat /\ IsFiniteSet(listing[p])
      BY <1>1
    <3>2. Found[p] = Sorted(listing[p])
      BY <1>1
    <3> QED BY <3>1, <3>2, SortedFacts
  <2>2. \A i, j \in 1 .. Cardinality(listing[p]) : Found[p][i] = Found[p][j] => i = j
    <3> SUFFICES ASSUME NEW i \in 1 .. Cardinality(listing[p]),
                        NEW j \in 1 .. Cardinality(listing[p]),
                        Found[p][i] = Found[p][j], i # j
                 PROVE  FALSE
      OBVIOUS
    <3>1. i < j \/ j < i
      OBVIOUS
    <3>2. Found[p][i] < Found[p][j] \/ Found[p][j] < Found[p][i]
      BY <2>1, <3>1 DEF Ascends
    <3>3. Found[p][i] \in Nat /\ Found[p][j] \in Nat
      <4>1. \A x \in listing[p] : x \in Nat
        BY <1>1
      <4> QED BY <2>1, <4>1
    <3> QED BY <3>2, <3>3
  <2> QED BY <2>1, <2>2
<1>3. \A z : z \in Places(Found) <=>
         \E p \in DOMAIN Found : \E i \in 1 .. Cardinality(listing[p]) : z = <<p, i>>
  <2>1. \A z : z \in Places(Found) <=>
           \E p \in DOMAIN Found : \E i \in DOMAIN Found[p] : z = <<p, i>>
    BY DEF Places
  <2>2. \A p \in DOMAIN Found : DOMAIN Found[p] = 1 .. Cardinality(listing[p])
    BY <1>1
  <2> QED BY <2>1, <2>2
<1>4. \A p \in DOMAIN Found : p \in Packages /\ listing[p] \subseteq PackageFiles
  BY <1>1
<1>5. at \in [Places(Found) -> files]
  <2>1. ASSUME NEW z \in Places(Found) PROVE at[z] \in files
    <3>0. PICK p \in DOMAIN Found : \E i \in 1 .. Cardinality(listing[p]) : z = <<p, i>>
      BY <1>3
    <3>1. PICK i \in 1 .. Cardinality(listing[p]) : z = <<p, i>>
      BY <3>0
    <3>2. at[z] = <<p, Found[p][i]>>
      BY <3>1
    <3>3. Found[p][i] \in listing[p]
      BY <1>2
    <3> QED BY <1>4, <3>2, <3>3
  <2> QED BY <2>1
<1>6. \A y, z \in Places(Found) : at[y] = at[z] => y = z
  <2> SUFFICES ASSUME NEW y \in Places(Found), NEW z \in Places(Found), at[y] = at[z]
               PROVE  y = z
    OBVIOUS
  <2>0. /\ \E p \in DOMAIN Found : \E i \in 1 .. Cardinality(listing[p]) : y = <<p, i>>
        /\ \E q \in DOMAIN Found : \E j \in 1 .. Cardinality(listing[q]) : z = <<q, j>>
    BY <1>3
  <2>1. PICK p \in DOMAIN Found : \E i \in 1 .. Cardinality(listing[p]) : y = <<p, i>>
    BY <2>0
  <2>2. PICK q \in DOMAIN Found : \E j \in 1 .. Cardinality(listing[q]) : z = <<q, j>>
    BY <2>0
  <2>3. PICK i \in 1 .. Cardinality(listing[p]) : y = <<p, i>>
    BY <2>1
  <2>4. PICK j \in 1 .. Cardinality(listing[q]) : z = <<q, j>>
    BY <2>2
  <2>5. p = q /\ Found[p][i] = Found[q][j]
    BY <2>3, <2>4
  <2> QED BY <1>2, <2>3, <2>4, <2>5
<1>7. \A pf \in files : \E z \in Places(Found) : at[z] = pf
  <2> SUFFICES ASSUME NEW pf \in files PROVE \E z \in Places(Found) : at[z] = pf
    OBVIOUS
  <2>0. PICK p \in Packages, x \in PackageFiles : pf = <<p, x>> /\ x \in listing[p]
    <3>1. pf \in Packages \X PackageFiles /\ pf[2] \in listing[pf[1]]
      OBVIOUS
    <3>2. pf = <<pf[1], pf[2]>> /\ pf[1] \in Packages /\ pf[2] \in PackageFiles
      BY <3>1
    <3> QED BY <3>1, <3>2
  <2>1. p \in DOMAIN Found
    BY <1>1, <2>0
  <2>2. PICK i \in 1 .. Cardinality(listing[p]) : Found[p][i] = x
    BY <1>2, <2>0, <2>1
  <2>3. <<p, i>> \in Places(Found)
    BY <1>3, <2>1
  <2> QED BY <2>0, <2>2, <2>3
<1> HIDE DEF at
<1>8. at \in Bijection(Places(Found), files)
  BY <1>5, <1>6, <1>7 DEF Bijection, Injection, Surjection, IsInjective
<1>9. IsFiniteSet(files)
  <2>1. IsFiniteSet(Packages) /\ IsFiniteSet(PackageFiles)
    BY PackageAssumption DEF PackageAssumption
  <2>2. IsFiniteSet(Packages \X PackageFiles)
    BY <2>1, FS_Product
  <2> QED BY <2>2, FS_Subset
<1> QED BY <1>8, <1>9, FS_Bijection, Fun_ExistsBijSymmetric DEF ExistsBijection, TotalLen

(* For any packages, files and chunk size above zero, a reported audit has *)
(* handed every file of every package to the agent once, and counted them. *)
THEOREM AuditsAreWhole == PackageSpec => []AuditedOnce
<1>1. ASSUME AuditInv PROVE AuditedOnce
  <2> SUFFICES ASSUME node = "reported", chunkSize > 0
               PROVE  /\ \A p \in Packages :
                            listing[p] # {} =>
                               /\ p \in DOMAIN analysed
                               /\ FlattenSeq(analysed[p]) = Sorted(listing[p])
                               /\ \A k \in DOMAIN analysed[p] :
                                     Len(analysed[p][k]) \in 1 .. chunkSize
                      /\ auditReport.files =
                            Cardinality({pf \in Packages \X PackageFiles :
                                            pf[2] \in listing[pf[1]]})
                      /\ auditReport.chunks = TotalLen(analysed)
    BY DEF AuditedOnce
  <2>1. /\ AuditTypes /\ HandedOut /\ discovered = Found /\ chunks = Cut
        /\ analysed = Cut
        /\ auditReport.files = TotalLen(discovered) /\ auditReport.chunks = processed
    BY <1>1 DEF AuditInv
  <2>2. listing \in [Packages -> SUBSET PackageFiles] /\ chunkSize \in ChunkSizes
    BY <2>1 DEF AuditTypes
  <2>3. auditReport.chunks = TotalLen(analysed)
    BY <2>1 DEF HandedOut
  <2>4. auditReport.files = Cardinality({pf \in Packages \X PackageFiles :
                                            pf[2] \in listing[pf[1]]})
    BY <2>1, <2>2, PlacesAreFiles, PackageAssumption
  <2>5. ASSUME NEW p \in Packages, listing[p] # {}
        PROVE  /\ p \in DOMAIN analysed
               /\ FlattenSeq(analysed[p]) = Sorted(listing[p])
               /\ \A k \in DOMAIN analysed[p] : Len(analysed[p][k]) \in 1 .. chunkSize
    <3>1. p \in DOMAIN Found /\ Found[p] = Sorted(listing[p])
      BY <2>5 DEF Found
    <3>2. /\ Cut \in [DOMAIN Found -> Seq(Seq(Nat))]
          /\ FlattenSeq(Cut[p]) = Found[p]
          /\ \A k \in 1 .. Len(Cut[p]) : Len(Cut[p][k]) \in 1 .. chunkSize
      BY <2>2, <3>1, CutFacts, PackageAssumption
    <3>3. DOMAIN Cut[p] = 1 .. Len(Cut[p]) /\ DOMAIN Cut = DOMAIN Found
      BY <3>1, <3>2
    <3> QED BY <2>1, <3>1, <3>2, <3>3
  <2> QED BY <2>3, <2>4, <2>5
<1> QED BY <1>1, AuditInvariance, PTL

-----------------------------------------------------------------------------
(***************************************************************************)
(* The orchestrator.  Its runs join lists of any length, so what FlattenSeq *)
(* returns for them is needed here, and that slices leave nothing out.     *)
(***************************************************************************)
(* FlattenSeq returns a list, for any list of lists.                       *)
LEMMA FlattenType ==
    ASSUME NEW S, NEW seqs \in Seq(Seq(S))
    PROVE  FlattenSeq(seqs) \in Seq(S)
<1> DEFINE n == Len(seqs)
<1>1. n \in Nat /\ \A i \in 1 .. n : seqs[i] \in Seq(S)
  BY ElementOfSeq
<1>2. CASE n = 0
  <2>1. FlattenSeq(seqs) = seqs
    BY <1>2 DEF FlattenSeq
  <2>2. seqs = <<>>
    BY <1>2, EmptySeq
  <2> QED BY <2>1, <2>2
<1>3. CASE n # 0
  <2> DEFINE T == {m \in 1 .. n : ~ \E f : FlatPart(seqs, f, m) /\ \A i \in 1 .. m : f[i] \in Seq(S)}
  <2>1. T = {}
    <3>1. SUFFICES ASSUME T # {} PROVE FALSE
      OBVIOUS
    <3>2. PICK m \in T : \A y \in T : m <= y
      BY <1>1, <3>1, LeastPlace
    <3>3. m \in 1 .. n
      OBVIOUS
    <3>4. CASE m = 1
      <4> DEFINE f == [i \in 1 .. 1 |-> seqs[1]]
      <4>1. \A i \in 1 .. 1 : i = 1
        OBVIOUS
      <4>2. f = [i \in 1 .. 1 |-> IF i = 1 THEN seqs[i] ELSE f[i - 1] \o seqs[i]]
        BY <4>1
      <4>3. \A i \in 1 .. 1 : f[i] \in Seq(S)
        BY <1>1, <3>3, <3>4
      <4> HIDE DEF f
      <4> QED BY <3>4, <4>2, <4>3 DEF FlatPart
    <3>5. CASE m # 1
      <4>1. m - 1 \in 1 .. n /\ ~(m <= m - 1)
        BY <1>1, <3>3, <3>5
      <4>2. PICK f : FlatPart(seqs, f, m - 1) /\ \A i \in 1 .. m - 1 : f[i] \in Seq(S)
        BY <3>2, <4>1
      <4> DEFINE g == [i \in 1 .. m |-> IF i = m THEN f[m - 1] \o seqs[m] ELSE f[i]]
      <4>3. \A i \in 1 .. m : i = m \/ i \in 1 .. m - 1
        BY <3>3
      <4>4. g[m] = f[m - 1] \o seqs[m] /\ \A i \in 1 .. m - 1 : g[i] = f[i]
        <5>1. m \in 1 .. m /\ \A i \in 1 .. m - 1 : i \in 1 .. m /\ i # m
          BY <3>3
        <5> QED BY <5>1
      <4>5. m - 1 \in 1 .. m - 1 /\ m \in 1 .. m
        BY <3>3, <4>1
      <4>6. g[m] \in Seq(S)
        BY <1>1, <3>3, <4>2, <4>4, <4>5, ConcatProperties
      <4>7. \A i \in 1 .. m : g[i] \in Seq(S)
        BY <4>2, <4>3, <4>4, <4>6
      <4>8. ASSUME NEW i \in 1 .. m
            PROVE  g[i] = IF i = 1 THEN seqs[i] ELSE g[i - 1] \o seqs[i]
        <5>1. CASE i = m
          BY <3>5, <4>4, <4>5, <5>1
        <5>2. CASE i \in 1 .. m - 1
          <6>1. g[i] = IF i = 1 THEN seqs[i] ELSE f[i - 1] \o seqs[i]
            BY <4>2, <4>4, <5>2 DEF FlatPart
          <6>2. i # 1 => i - 1 \in 1 .. m - 1
            BY <3>3, <5>2
          <6> QED BY <4>4, <6>1, <6>2
        <5> QED BY <4>3, <5>1, <5>2
      <4>9. g = [i \in 1 .. m |-> IF i = 1 THEN seqs[i] ELSE g[i - 1] \o seqs[i]]
        BY <4>8
      <4> HIDE DEF g
      <4> QED BY <4>7, <4>9 DEF FlatPart
    <3> QED BY <3>4, <3>5
  <2>2. n \in 1 .. n /\ n > 0
    BY <1>1, <1>3
  <2>3. PICK f : FlatPart(seqs, f, n) /\ \A i \in 1 .. n : f[i] \in Seq(S)
    BY <2>1, <2>2
  <2> HIDE DEF n
  <2>5. n \in Nat /\ n > 0 /\ Len(seqs) = n
    BY <1>1, <2>2 DEF n
  <2>6. FlattenSeq(seqs) = f[n]
    BY <2>3, <2>5, FlattenIs
  <2> QED BY <2>2, <2>3, <2>6
<1> QED BY <1>2, <1>3

(* What is in the slices is what is in the list.                           *)
LEMMA SlicesCover ==
    ASSUME NEW S, NEW files \in Seq(S), NEW size \in Nat, size > 0
    PROVE  UNION {ToSet(Slices(files, size)[k]) : k \in DOMAIN Slices(files, size)}
              = ToSet(files)
<1> DEFINE n == Len(files)
           count == (n + size - 1) \div size
           end(k) == SliceEnd(files, size, k)
           s == Slices(files, size)
<1>1. n \in Nat /\ (\A i \in 1 .. n : files[i] \in S) /\ DOMAIN files = 1 .. n
  BY LenProperties, ElementOfSeq
<1>2. /\ count \in Nat /\ n <= count * size
      /\ \A k \in 1 .. count : (k - 1) * size < n /\ (k - 1) * size \in Nat
  BY <1>1, SliceCount
<1>3. s = [k \in 1 .. count |-> SubSeq(files, (k - 1) * size + 1, end(k))]
  BY DEF Slices, SliceEnd
<1> HIDE DEF n, count, s
<1>4. ASSUME NEW k \in 1 .. count
      PROVE  /\ end(k) \in Nat /\ end(k) <= n
             /\ end(k) = n \/ end(k) = (k - 1) * size + size
  <2>1. k \in Nat /\ k * size = (k - 1) * size + size /\ (k - 1) * size \in Nat
    BY <1>2
  <2>2. k * size \in Nat
    BY <2>1
  <2>3. end(k) = IF k * size < n THEN k * size ELSE n
    BY DEF SliceEnd, n
  <2> HIDE DEF end
  <2> QED BY <1>1, <2>1, <2>2, <2>3
<1> HIDE DEF end
<1>5. ASSUME NEW k \in 1 .. count
      PROVE  \A x : x \in ToSet(s[k]) <=>
                \E i \in (k - 1) * size + 1 .. end(k) : x = files[i]
  <2> DEFINE m == (k - 1) * size + 1
             e == end(k)
  <2>1. m \in Nat /\ m >= 1 /\ e \in Nat /\ e <= n
    BY <1>2, <1>4
  <2>2. s[k] = SubSeq(files, m, e)
    BY <1>3
  <2> HIDE DEF m, e
  <2>3. SubSeq(files, m, e) = [i \in 1 .. 1 + e - m |-> files[i + m - 1]]
    BY <1>1, <2>1, SubSeqProperties
  <2>4. \A x : x \in ToSet(s[k]) <=> \E i \in 1 .. 1 + e - m : x = files[i + m - 1]
    BY <2>2, <2>3 DEF ToSet
  <2>5. \A i \in 1 .. 1 + e - m : i + m - 1 \in m .. e
    BY <2>1
  <2>6. \A j \in m .. e : j - m + 1 \in 1 .. 1 + e - m /\ (j - m + 1) + m - 1 = j
    BY <2>1
  <2>7. \A x : x \in ToSet(s[k]) <=> \E j \in m .. e : x = files[j]
    BY <2>4, <2>5, <2>6
  <2> QED BY <2>7 DEF m, e
<1>6. DOMAIN s = 1 .. count
  BY <1>3
<1>7. ASSUME NEW x, NEW k \in 1 .. count, x \in ToSet(s[k]) PROVE x \in ToSet(files)
  <2>1. PICK i \in (k - 1) * size + 1 .. end(k) : x = files[i]
    BY <1>5, <1>7
  <2>2. i \in 1 .. n
    BY <1>1, <1>2, <1>4
  <2> QED BY <1>1, <2>1, <2>2 DEF ToSet
<1>8. ASSUME NEW x, x \in ToSet(files) PROVE \E k \in 1 .. count : x \in ToSet(s[k])
  <2>1. PICK i \in 1 .. n : x = files[i]
    BY <1>1, <1>8 DEF ToSet
  <2> DEFINE q == (i - 1) \div size
  <2>2. q \in Nat /\ q * size <= i - 1 /\ i - 1 < (q + 1) * size /\ i - 1 < n /\ i \in Nat
    BY <1>1
  <2> HIDE DEF q
  <2>3. q + 1 \in 1 .. count
    <3>1. SUFFICES ASSUME q >= count PROVE FALSE
      BY <1>2, <2>2
    <3>2. count * size <= q * size /\ count * size \in Nat /\ q * size \in Nat
      BY <1>2, <2>2, <3>1
    <3> QED BY <1>1, <1>2, <2>2, <3>2
  <2>4. i \in ((q + 1) - 1) * size + 1 .. end(q + 1)
    <3>1. ((q + 1) - 1) * size = q * size /\ (q + 1) * size = q * size + size
          /\ q * size \in Nat
      BY <2>2
    <3>2. end(q + 1) \in Nat /\ (end(q + 1) = n \/ end(q + 1) = q * size + size)
      BY <1>4, <2>3, <3>1
    <3> QED BY <1>1, <2>2, <3>1, <3>2
  <2> QED BY <1>5, <2>1, <2>3, <2>4
<1> QED BY <1>6, <1>7, <1>8 DEF s

Good(results) == {i \in 1 .. Len(results) : ~ results[i].failed}
Results == [index : Nat, files : Seq(TreeFiles), failed : BOOLEAN]
FilesOf(results) == [i \in DOMAIN results |-> results[i].files]

(* The results so far are those of the first batches, in their order.      *)
InOrder ==
    \A i \in 1 .. Len(batchResults) :
        batchResults[i].index = i - 1 /\ batchResults[i].files = batches[i]

BatchTypes ==
    /\ merging \in Mergings
    /\ batchSize \in BatchSizes
    /\ driver \in {"idle", "python", "model", "reported", "finalized", "stopped"}
    /\ batches \in Seq(Seq(TreeFiles))
    /\ batchCalls \in [ToolCalls -> [open : BOOLEAN, index : Nat, files : Seq(TreeFiles)]]
    /\ batchResults \in Seq(Results)
    /\ report.total \in Nat

BatchesInv ==
    /\ BatchTypes
    /\ aggregate = Kept(OutputsOf(batchResults))
    /\ driver \in {"python", "reported"} =>
          \E files \in SUBSET TreeFiles, size \in Nat :
              size > 0 /\ batches = Slices(Sorted(files), size)
    /\ driver = "python" =>
          /\ Len(batchResults) <= Len(batches) /\ InOrder
          /\ \A c \in ToolCalls : batchCalls[c].open =>
                /\ Len(batchResults) < Len(batches)
                /\ batchCalls[c].index = Len(batchResults)
                /\ batchCalls[c].files = batches[Len(batchResults) + 1]
          /\ \A c, d \in ToolCalls : batchCalls[c].open /\ batchCalls[d].open => c = d
    /\ driver = "reported" =>
          /\ Len(batchResults) = Len(batches) /\ InOrder
          /\ report = [total |-> Len(FlattenSeq(FilesOf(batchResults))),
                       failed |-> FailedAmong(batchResults),
                       results |-> batchResults,
                       aggregate |-> aggregate]

(* The good results are found among the places of the list.                *)
LEMMA GoodFacts ==
    ASSUME NEW results \in Seq(Results)
    PROVE  /\ Good(results) \in SUBSET Nat /\ IsFiniteSet(Good(results))
           /\ \A y \in Good(results) : y <= Len(results)
           /\ Sorted(Good(results)) \in [1 .. Cardinality(Good(results)) -> Good(results)]
           /\ Cardinality(Good(results)) \in Nat
           /\ OutputsOf(results) =
                 [i \in 1 .. Cardinality(Good(results)) |->
                     results[Sorted(Good(results))[i]].files]
           /\ FailedAmong(results) = Len(results) - Cardinality(Good(results))
<1> DEFINE n == Len(results)
           G == Good(results)
           F == {i \in 1 .. n : results[i].failed}
<1>1. n \in Nat /\ DOMAIN results = 1 .. n
  BY LenProperties
<1>2. IsFiniteSet(1 .. n) /\ Cardinality(1 .. n) = n
  BY <1>1, FS_Interval
<1>3. G \in SUBSET (1 .. n) /\ G \in SUBSET Nat /\ IsFiniteSet(G)
      /\ \A y \in G : y <= Len(results)
  <2>1. G \in SUBSET (1 .. n)
    BY DEF Good
  <2>2. \A y \in 1 .. n : y \in Nat /\ y <= n
    BY <1>1
  <2> QED BY <1>2, <2>1, <2>2, FS_Subset
<1>4. Cardinality(G) \in Nat /\ Sorted(G) \in [1 .. Cardinality(G) -> G]
  BY <1>3, SortedFacts
<1>5. {i \in DOMAIN results : ~ results[i].failed} = G
  BY <1>1 DEF Good
<1>6. OutputsOf(results) = [i \in DOMAIN Sorted(G) |-> results[Sorted(G)[i]].files]
  BY <1>5 DEF OutputsOf
<1>7. DOMAIN Sorted(G) = 1 .. Cardinality(G)
  BY <1>4
<1>8. F = (1 .. n) \ G /\ (1 .. n) \cap G = G
  BY <1>3 DEF Good
<1>9. FailedAmong(results) = Cardinality(F)
  BY <1>1 DEF FailedAmong
<1>10. Cardinality((1 .. n) \ G) = n - Cardinality((1 .. n) \cap G)
  BY <1>2, FS_Difference
<1> HIDE DEF G, F
<1>11. FailedAmong(results) = n - Cardinality(G)
  BY <1>8, <1>9, <1>10
<1>12. OutputsOf(results) = [i \in 1 .. Cardinality(G) |-> results[Sorted(G)[i]].files]
  BY <1>6, <1>7
<1> QED BY <1>3, <1>4, <1>11, <1>12 DEF G

(* Without results there are no outputs to merge. *)
LEMMA NoOutputs == OutputsOf(<<>>) = <<>>
<1>1. <<>> \in Seq(Results)
  OBVIOUS
<1>2. Good(<<>>) = {}
  BY DEF Good
<1>3. Cardinality(Good(<<>>)) = 0
  BY <1>2, FS_EmptySet
<1>4. OutputsOf(<<>>) = [i \in 1 .. 0 |-> <<>>[Sorted(Good(<<>>))[i]].files]
  BY <1>1, <1>3, GoodFacts
<1> QED BY <1>4

(* A result added to the list adds its output if it did not fail.          *)
LEMMA OneMoreOutput ==
    ASSUME NEW results \in Seq(Results), NEW r \in Results
    PROVE  OutputsOf(Append(results, r)) =
              IF r.failed THEN OutputsOf(results) ELSE Append(OutputsOf(results), r.files)
<1> DEFINE n == Len(results)
           more == Append(results, r)
           G == Good(results)
           m == Cardinality(G)
<1>1. n \in Nat /\ more \in Seq(Results) /\ Len(more) = n + 1
      /\ (\A i \in 1 .. n : more[i] = results[i]) /\ more[n + 1] = r
  BY LenProperties, AppendProperties
<1>2. /\ G \in SUBSET Nat /\ IsFiniteSet(G) /\ \A y \in G : y <= n
      /\ Sorted(G) \in [1 .. m -> G] /\ m \in Nat
      /\ OutputsOf(results) = [i \in 1 .. m |-> results[Sorted(G)[i]].files]
  BY GoodFacts
<1>3. OutputsOf(more) = [i \in 1 .. Cardinality(Good(more)) |-> more[Sorted(Good(more))[i]].files]
  BY <1>1, GoodFacts
<1>4. \A i \in 1 .. n + 1 : i \in 1 .. n \/ i = n + 1
  BY <1>1
<1>5. \A i \in G : i \in 1 .. n
  BY DEF Good
<1>6. \A i \in 1 .. m : Sorted(G)[i] \in 1 .. n
  BY <1>2, <1>5
<1> HIDE DEF more
<1>7. CASE r.failed
  <2>1. Good(more) = G
    <3>1. \A i : i \in Good(more) <=> i \in 1 .. n + 1 /\ ~ more[i].failed
      BY <1>1 DEF Good
    <3>2. \A i : i \in G <=> i \in 1 .. n /\ ~ results[i].failed
      BY DEF Good
    <3>3. \A i \in 1 .. n : i \in 1 .. n + 1
      BY <1>1
    <3> QED BY <1>1, <1>4, <1>7, <3>1, <3>2, <3>3
  <2>2. OutputsOf(more) = [i \in 1 .. m |-> more[Sorted(G)[i]].files]
    BY <1>3, <2>1
  <2>3. \A i \in 1 .. m : more[Sorted(G)[i]].files = results[Sorted(G)[i]].files
    BY <1>1, <1>6
  <2>4. OutputsOf(more) = OutputsOf(results)
    BY <1>2, <2>2, <2>3
  <2> QED BY <1>7, <2>4 DEF more
<1>8. CASE ~ r.failed
  <2>1. Good(more) = G \cup {n + 1}
    <3>1. \A i : i \in Good(more) <=> i \in 1 .. n + 1 /\ ~ more[i].failed
      BY <1>1 DEF Good
    <3>2. \A i : i \in G <=> i \in 1 .. n /\ ~ results[i].failed
      BY DEF Good
    <3>3. (\A i \in 1 .. n : i \in 1 .. n + 1) /\ n + 1 \in 1 .. n + 1
      BY <1>1
    <3> QED BY <1>1, <1>4, <1>8, <3>1, <3>2, <3>3
  <2>2. \A y \in G : y < n + 1
    BY <1>1, <1>2
  <2>3. /\ Sorted(G \cup {n + 1}) = Append(Sorted(G), n + 1)
        /\ Cardinality(G \cup {n + 1}) = m + 1
    <3>1. n + 1 \in Nat
      BY <1>1
    <3> QED BY <1>2, <2>2, <3>1, SortedAppend
  <2>4. OutputsOf(more) = [i \in 1 .. m + 1 |-> more[Append(Sorted(G), n + 1)[i]].files]
    BY <1>3, <2>1, <2>3
  <2> HIDE DEF G, m
  <2>5. /\ \A i \in 1 .. m : Append(Sorted(G), n + 1)[i] = Sorted(G)[i]
        /\ Append(Sorted(G), n + 1)[m + 1] = n + 1
    <3>1. Sorted(G) \in [1 .. m -> Nat]
      BY <1>2
    <3>2. Sorted(G) \in Seq(Nat) /\ Len(Sorted(G)) = m
      BY <1>2, <3>1
    <3>3. n + 1 \in Nat
      BY <1>1
    <3> QED BY <3>2, <3>3, AppendProperties
  <2> DEFINE old == OutputsOf(results)
             S == Seq(TreeFiles)
  <2>6. old \in Seq(S) /\ Len(old) = m
    <3>1. \A i \in 1 .. n : results[i].files \in S
      <4>1. \A i \in 1 .. n : results[i] \in Results
        BY ElementOfSeq
      <4> QED BY <4>1 DEF Results
    <3>2. \A i \in 1 .. m : results[Sorted(G)[i]].files \in S
      BY <1>6, <3>1
    <3>3. old \in [1 .. m -> S]
      BY <1>2, <3>2
    <3> QED BY <1>2, <3>3
  <2>7. r.files \in S
    BY DEF Results
  <2>8. \A i \in 1 .. m : old[i] = results[Sorted(G)[i]].files
    BY <1>2
  <2> HIDE DEF old, S
  <2> DEFINE new == Append(old, r.files)
  <2>9. new \in Seq(S) /\ Len(new) = m + 1
        /\ (\A i \in 1 .. m : new[i] = old[i]) /\ new[m + 1] = r.files
    BY <2>6, <2>7, AppendProperties
  <2> HIDE DEF new
  <2>10. DOMAIN new = 1 .. m + 1 /\ new = [i \in 1 .. m + 1 |-> new[i]]
    BY <2>9
  <2>11. ASSUME NEW i \in 1 .. m + 1
         PROVE  more[Append(Sorted(G), n + 1)[i]].files = new[i]
    <3>1. i \in 1 .. m \/ i = m + 1
      BY <1>2
    <3>2. CASE i \in 1 .. m
      <4>1. Sorted(G)[i] \in 1 .. n
        BY <1>6, <3>2
      <4> QED BY <1>1, <2>5, <2>8, <2>9, <3>2, <4>1
    <3>3. CASE i = m + 1
      BY <1>1, <2>5, <2>9, <3>3
    <3> QED BY <3>1, <3>2, <3>3
  <2>12. OutputsOf(more) = new
    BY <2>4, <2>10, <2>11
  <2> QED BY <1>8, <2>12 DEF more, new, old
<1> QED BY <1>7, <1>8

(* The aggregate is kept of no outputs, and of one output more.            *)
LEMMA KeptFacts ==
    ASSUME merging \in Mergings, NEW outputs \in Seq(Seq(TreeFiles)), NEW files \in Seq(TreeFiles)
    PROVE  /\ Kept(<<>>) = <<>>
           /\ Kept(Append(outputs, files)) = Merge(Kept(outputs), files)
           /\ Kept(outputs) \in Seq(Seq(TreeFiles))
<1>1. /\ Append(outputs, files) # <<>> /\ Append(outputs, files) \in Seq(Seq(TreeFiles))
      /\ Last(Append(outputs, files)) = files
  BY AppendProperties, LenProperties DEF Last
<1>2. outputs # <<>> => Last(outputs) \in Seq(TreeFiles)
  <2>1. outputs # <<>> => Len(outputs) \in 1 .. Len(outputs)
    BY LenProperties, EmptySeq
  <2> QED BY <2>1, ElementOfSeq DEF Last
<1>3. CASE merging = "listed"
  BY <1>1, <1>3 DEF Kept, Merge
<1>4. CASE merging = "keyed"
  BY <1>1, <1>2, <1>4 DEF Kept, Merge
<1>5. CASE merging = "ignored"
  BY <1>5 DEF Kept, Merge
<1> QED BY <1>3, <1>4, <1>5 DEF Mergings

(* The outputs are lists of files, as many as good results.                *)
LEMMA OutputTypes ==
    ASSUME NEW results \in Seq(Results)
    PROVE  /\ OutputsOf(results) \in Seq(Seq(TreeFiles))
           /\ FailedAmong(results) = Len(results) - Len(OutputsOf(results))
<1> DEFINE G == Good(results)
           m == Cardinality(G)
<1>1. /\ Sorted(G) \in [1 .. m -> G] /\ m \in Nat
      /\ OutputsOf(results) = [i \in 1 .. m |-> results[Sorted(G)[i]].files]
      /\ FailedAmong(results) = Len(results) - m
  BY GoodFacts
<1>2. ASSUME NEW i \in 1 .. m PROVE results[Sorted(G)[i]].files \in Seq(TreeFiles)
  <2>1. Sorted(G)[i] \in 1 .. Len(results)
    BY <1>1 DEF Good
  <2>2. results[Sorted(G)[i]] \in Results
    BY <2>1, ElementOfSeq
  <2> QED BY <2>2 DEF Results
<1> HIDE DEF G
<1>3. OutputsOf(results) \in [1 .. m -> Seq(TreeFiles)]
  BY <1>1, <1>2
<1> HIDE DEF m
<1>4. OutputsOf(results) \in Seq(Seq(TreeFiles)) /\ Len(OutputsOf(results)) = m
  BY <1>1, <1>3
<1> QED BY <1>1, <1>4

(* Sorted lists and their batches are lists of files of the tree.          *)
LEMMA TreeLists ==
    ASSUME NEW files \in SUBSET TreeFiles
    PROVE  /\ files \in SUBSET Nat /\ IsFiniteSet(files)
           /\ Sorted(files) \in Seq(TreeFiles)
           /\ \A size \in Int :
                 /\ SplitBatches(Sorted(files), size) \in Seq(Seq(TreeFiles))
                 /\ \E w \in Nat : w > 0 /\ SplitBatches(Sorted(files), size)
                                               = Slices(Sorted(files), w)
<1>1. files \in SUBSET Nat /\ IsFiniteSet(files)
  BY FS_Subset, OrchestratorAssumption DEF OrchestratorAssumption
<1>2. Sorted(files) \in [1 .. Cardinality(files) -> files] /\ Cardinality(files) \in Nat
  BY <1>1, SortedFacts
<1>3. Sorted(files) \in [1 .. Cardinality(files) -> TreeFiles]
  BY <1>2
<1>4. Sorted(files) \in Seq(TreeFiles)
  BY <1>2, <1>3
<1>5. ASSUME NEW size \in Int
      PROVE  /\ SplitBatches(Sorted(files), size) \in Seq(Seq(TreeFiles))
             /\ \E w \in Nat : w > 0 /\ SplitBatches(Sorted(files), size)
                                           = Slices(Sorted(files), w)
  <2> DEFINE w == IF size < 1 THEN 1 ELSE size
  <2>1. w \in Nat /\ w > 0
    OBVIOUS
  <2>2. SplitBatches(Sorted(files), size) = Slices(Sorted(files), w)
    BY DEF SplitBatches
  <2> HIDE DEF w
  <2>3. Slices(Sorted(files), w) \in Seq(Seq(TreeFiles))
    BY <1>4, <2>1, SliceFacts
  <2> QED BY <2>1, <2>2, <2>3
<1> QED BY <1>1, <1>4, <1>5

(* Initially no batch has run and no call is open. *)
LEMMA InitBatches == OrchestratorInit => BatchesInv
<1> SUFFICES ASSUME OrchestratorInit PROVE BatchesInv
  OBVIOUS
<1> USE DEF OrchestratorInit
<1>1. batchSize \in BatchSizes
  BY OrchestratorAssumption DEF OrchestratorAssumption
<1>2. batchCalls \in [ToolCalls -> [open : BOOLEAN, index : Nat, files : Seq(TreeFiles)]]
  BY DEF NoCall
<1>3. BatchTypes
  BY <1>1, <1>2 DEF BatchTypes, NoReport
<1>4. aggregate = Kept(OutputsOf(batchResults))
  BY NoOutputs, KeptFacts, <<>> \in Seq(TreeFiles), <<>> \in Seq(Seq(TreeFiles))
<1> QED BY <1>3, <1>4 DEF BatchesInv

(* A new run by Python clears the results of the run before it. *)
LEMMA RunBatchesKeeps ==
    ASSUME BatchesInv, NEW files \in SUBSET TreeFiles, NEW size \in BatchSizes,
           RunBatches(files, size)
    PROVE  BatchesInv'
<1> USE DEF RunBatches
<1>1. BatchTypes
  BY DEF BatchesInv
<1>2. size \in Int
  BY OrchestratorAssumption DEF OrchestratorAssumption
<1>3. /\ batches' \in Seq(Seq(TreeFiles))
      /\ \E w \in Nat : w > 0 /\ batches' = Slices(Sorted(files), w)
  BY <1>2, TreeLists
<1>4. /\ batchResults' = <<>> /\ Len(batchResults') = 0 /\ Len(batches') \in Nat
      /\ \A i \in 1 .. Len(batchResults') : FALSE
  BY <1>3
<1>5. aggregate' = Kept(OutputsOf(batchResults))'
  <2>1. Kept(<<>>) = <<>> /\ UNCHANGED merging
    BY <1>1, KeptFacts, <<>> \in Seq(TreeFiles) DEF BatchTypes
  <2>2. Kept(<<>>)' = Kept(<<>>)
    BY <2>1 DEF Kept
  <2>3. OutputsOf(batchResults)' = <<>>
    BY <1>4, NoOutputs
  <2> QED BY <2>1, <2>2, <2>3 DEF Kept
<1>6. BatchTypes'
  <2>1. batchResults' \in Seq(Results)
    BY <1>4
  <2>2. report'.total \in Nat
    BY DEF NoReport
  <2> QED BY <1>1, <1>3, <2>1, <2>2 DEF BatchTypes
<1>7. \E fs \in SUBSET TreeFiles, w \in Nat : w > 0 /\ batches' = Slices(Sorted(fs), w)
  BY <1>3
<1>8. Len(batchResults') <= Len(batches') /\ InOrder'
  BY <1>4 DEF InOrder
<1>9. \A c \in ToolCalls : ~ batchCalls'[c].open
  OBVIOUS
<1>10. driver' = "python"
  OBVIOUS
<1> QED BY <1>5, <1>6, <1>7, <1>8, <1>9, <1>10 DEF BatchesInv

(* A run opens the next batch of its list; a model's call takes the next index. *)
LEMMA OpenCallKeeps ==
    ASSUME BatchesInv, NEW c \in ToolCalls,
           NextBatch(c) \/ \E files \in SUBSET TreeFiles : ProcessBatch(c, files)
    PROVE  BatchesInv'
<1>1. BatchTypes /\ Len(batchResults) \in Nat
  BY DEF BatchesInv, BatchTypes
<1>2. PICK index, fs : /\ OpenCall(c, index, fs)
                       /\ index = Len(batchResults) /\ fs \in Seq(TreeFiles)
                       /\ driver \in {"python", "model"}
                       /\ driver = "python" =>
                             /\ Len(batchResults) < Len(batches)
                             /\ fs = batches[Len(batchResults) + 1]
                             /\ \A d \in ToolCalls : ~ batchCalls[d].open
  <2>1. CASE NextBatch(c)
    <3>1. batches \in Seq(Seq(TreeFiles)) /\ Len(batchResults) < Len(batches)
      BY <1>1, <2>1 DEF NextBatch, BatchTypes
    <3>2. Len(batchResults) + 1 \in 1 .. Len(batches)
      BY <1>1, <3>1
    <3>3. batches[Len(batchResults) + 1] \in Seq(TreeFiles)
      BY <3>1, <3>2, ElementOfSeq
    <3> QED BY <2>1, <3>1, <3>3 DEF NextBatch
  <2>2. CASE \E files \in SUBSET TreeFiles : ProcessBatch(c, files)
    <3>1. PICK files \in SUBSET TreeFiles : ProcessBatch(c, files)
      BY <2>2
    <3>2. Sorted(files) \in Seq(TreeFiles)
      BY TreeLists
    <3> QED BY <3>1, <3>2 DEF ProcessBatch
  <2> QED BY <2>1, <2>2
<1> USE DEF OpenCall
<1>3. /\ UNCHANGED <<merging, batchSize, driver, batches, batchResults, aggregate, report>>
      /\ batchCalls' = [batchCalls EXCEPT ![c] =
                          [open |-> TRUE, index |-> index, files |-> fs]]
  BY <1>2
<1>4. BatchTypes'
  <2>1. [open |-> TRUE, index |-> index, files |-> fs]
           \in [open : BOOLEAN, index : Nat, files : Seq(TreeFiles)]
    BY <1>1, <1>2
  <2>2. batchCalls' \in [ToolCalls -> [open : BOOLEAN, index : Nat, files : Seq(TreeFiles)]]
    BY <1>1, <1>3, <2>1 DEF BatchTypes
  <2> QED BY <1>1, <1>3, <2>2 DEF BatchTypes
<1>5. /\ batchCalls'[c] = [open |-> TRUE, index |-> index, files |-> fs]
      /\ \A d \in ToolCalls : d # c => batchCalls'[d] = batchCalls[d]
  BY <1>1, <1>3 DEF BatchTypes
<1>6. CASE driver = "model"
  BY <1>3, <1>4, <1>6 DEF BatchesInv, InOrder, Kept
<1>7. CASE driver = "python"
  <2>1. /\ Len(batchResults) <= Len(batches) /\ InOrder /\ aggregate = Kept(OutputsOf(batchResults))
        /\ \E f \in SUBSET TreeFiles, w \in Nat : w > 0 /\ batches = Slices(Sorted(f), w)
    BY <1>7 DEF BatchesInv
  <2>2. \A d \in ToolCalls : batchCalls'[d].open => d = c
    BY <1>2, <1>5, <1>7
  <2>3. InOrder'
    BY <1>3, <2>1 DEF InOrder
  <2>4. \A d \in ToolCalls : batchCalls'[d].open =>
           /\ Len(batchResults') < Len(batches')
           /\ batchCalls'[d].index = Len(batchResults')
           /\ batchCalls'[d].files = batches'[Len(batchResults') + 1]
    BY <1>2, <1>3, <1>5, <1>7, <2>2
  <2> QED BY <1>3, <1>4, <1>7, <2>1, <2>2, <2>3, <2>4 DEF BatchesInv, Kept
<1> QED BY <1>2, <1>6, <1>7

(* A result is recorded at the place its batch had in the listing.         *)
LEMMA EndBatchKeeps ==
    ASSUME BatchesInv, NEW c \in ToolCalls, NEW failed \in BOOLEAN, EndBatch(c, failed)
    PROVE  BatchesInv'
<1> USE DEF EndBatch
<1> DEFINE r == [index |-> batchCalls[c].index, files |-> batchCalls[c].files,
                 failed |-> failed]
<1>1. BatchTypes /\ aggregate = Kept(OutputsOf(batchResults))
  BY DEF BatchesInv
<1>2. /\ batchCalls[c] \in [open : BOOLEAN, index : Nat, files : Seq(TreeFiles)]
      /\ batchResults \in Seq(Results)
  BY <1>1 DEF BatchTypes
<1>3. r \in Results /\ r.failed = failed /\ r.files = batchCalls[c].files
      /\ r.index = batchCalls[c].index
  BY <1>2 DEF Results
<1>4. batchResults' = Append(batchResults, r)
  OBVIOUS
<1> HIDE DEF r
<1>5. /\ batchResults' \in Seq(Results) /\ Len(batchResults') = Len(batchResults) + 1
      /\ Len(batchResults) \in Nat
      /\ \A i \in 1 .. Len(batchResults) : batchResults'[i] = batchResults[i]
      /\ batchResults'[Len(batchResults) + 1] = r
  BY <1>2, <1>3, <1>4, AppendProperties, LenProperties
<1>6. aggregate' = Kept(OutputsOf(batchResults))'
  <2>1. OutputsOf(Append(batchResults, r)) =
           IF r.failed THEN OutputsOf(batchResults) ELSE Append(OutputsOf(batchResults), r.files)
    BY <1>2, <1>3, OneMoreOutput
  <2>2. OutputsOf(batchResults) \in Seq(Seq(TreeFiles)) /\ r.files \in Seq(TreeFiles)
    BY <1>2, <1>3, OutputTypes DEF Results
  <2>3. Kept(Append(OutputsOf(batchResults), r.files)) = Merge(Kept(OutputsOf(batchResults)), r.files)
    BY <1>1, <2>2, KeptFacts DEF BatchTypes
  <2>4. aggregate' = Kept(OutputsOf(Append(batchResults, r)))
    BY <1>1, <1>3, <2>1, <2>3
  <2> QED BY <1>4, <2>4 DEF Kept
<1>7. BatchTypes'
  <2>1. NoCall \in [open : BOOLEAN, index : Nat, files : Seq(TreeFiles)]
    BY DEF NoCall
  <2>2. batchCalls' \in [ToolCalls -> [open : BOOLEAN, index : Nat, files : Seq(TreeFiles)]]
    BY <1>1, <2>1 DEF BatchTypes
  <2> QED BY <1>1, <1>5, <2>2 DEF BatchTypes
<1>8. CASE driver = "python"
  <2>1. /\ Len(batchResults) < Len(batches)
        /\ batchCalls[c].index = Len(batchResults)
        /\ batchCalls[c].files = batches[Len(batchResults) + 1]
        /\ InOrder
        /\ \A d \in ToolCalls : batchCalls[d].open => d = c
        /\ \E f \in SUBSET TreeFiles, w \in Nat : w > 0 /\ batches = Slices(Sorted(f), w)
    BY <1>8 DEF BatchesInv
  <2>2. Len(batches) \in Nat
    BY <1>1 DEF BatchTypes
  <2>3. InOrder'
    <3> SUFFICES ASSUME NEW i \in 1 .. Len(batchResults')
                 PROVE  batchResults'[i].index = i - 1 /\ batchResults'[i].files = batches[i]
      BY DEF InOrder
    <3>1. i \in 1 .. Len(batchResults) \/ i = Len(batchResults) + 1
      BY <1>5
    <3>2. CASE i \in 1 .. Len(batchResults)
      BY <1>5, <2>1, <3>2 DEF InOrder
    <3>3. CASE i = Len(batchResults) + 1
      BY <1>3, <1>5, <2>1, <3>3
    <3> QED BY <3>1, <3>2, <3>3
  <2>4. \A d \in ToolCalls : ~ batchCalls'[d].open
    BY <1>1, <2>1 DEF BatchTypes, NoCall
  <2>5. Len(batchResults') <= Len(batches')
    BY <1>5, <2>1, <2>2
  <2> QED BY <1>6, <1>7, <1>8, <2>1, <2>3, <2>4, <2>5 DEF BatchesInv
<1>9. CASE driver # "python"
  BY <1>6, <1>7, <1>9 DEF BatchesInv
<1> QED BY <1>8, <1>9

(* A report, by the run or by finalize, holds the results and outputs stored so far. *)
LEMMA RunReportsKeeps == BatchesInv /\ (RunReports \/ Finalize) => BatchesInv'
<1> SUFFICES ASSUME BatchesInv, RunReports \/ Finalize PROVE BatchesInv'
  OBVIOUS
<1>1. /\ UNCHANGED <<merging, batchSize, batches, batchCalls, batchResults, aggregate>>
      /\ report' = [total |-> Len(FlattenSeq(FilesOf(batchResults))),
                    failed |-> FailedAmong(batchResults),
                    results |-> batchResults,
                    aggregate |-> aggregate]
  BY DEF RunReports, Finalize, ReportNow, FilesOf
<1>2. BatchTypes /\ aggregate = Kept(OutputsOf(batchResults))
  BY DEF BatchesInv
<1>3. report'.total \in Nat
  <2>1. batchResults \in Seq(Results)
    BY <1>2 DEF BatchTypes
  <2>2. /\ DOMAIN batchResults = 1 .. Len(batchResults) /\ Len(batchResults) \in Nat
        /\ \A i \in 1 .. Len(batchResults) : batchResults[i] \in Results
    BY <2>1, ElementOfSeq
  <2>3. FilesOf(batchResults) \in [1 .. Len(batchResults) -> Seq(TreeFiles)]
    BY <2>2 DEF FilesOf, Results
  <2>4. FilesOf(batchResults) \in Seq(Seq(TreeFiles))
    BY <2>2, <2>3
  <2>5. FlattenSeq(FilesOf(batchResults)) \in Seq(TreeFiles)
    BY <2>4, FlattenType
  <2>6. Len(FlattenSeq(FilesOf(batchResults))) \in Nat
    BY <2>5
  <2> QED BY <1>1, <2>6
<1>4. driver' \in {"reported", "finalized"}
  BY DEF RunReports, Finalize
<1>5. BatchTypes'
  BY <1>1, <1>2, <1>3, <1>4 DEF BatchTypes
<1>6. InOrder' = InOrder
  BY <1>1 DEF InOrder
<1>7. CASE Finalize
  <2>1. driver' = "finalized"
    BY <1>7 DEF Finalize
  <2> QED BY <1>1, <1>2, <1>5, <2>1 DEF BatchesInv, Kept
<1>8. CASE RunReports
  <2>1. driver = "python" /\ driver' = "reported" /\ Len(batchResults) = Len(batches)
    BY <1>8 DEF RunReports
  <2>2. /\ InOrder
        /\ \E f \in SUBSET TreeFiles, w \in Nat : w > 0 /\ batches = Slices(Sorted(f), w)
    BY <2>1 DEF BatchesInv
  <2> QED BY <1>1, <1>2, <1>5, <1>6, <2>1, <2>2 DEF BatchesInv, Kept
<1> QED BY <1>7, <1>8

(* A cancelled or failed run keeps the results that it has stored. *)
LEMMA StopRunKeeps == BatchesInv /\ StopRun => BatchesInv'
<1> SUFFICES ASSUME BatchesInv, StopRun PROVE BatchesInv'
  OBVIOUS
<1>1. BatchTypes'
  <2>1. batchCalls' \in [ToolCalls -> [open : BOOLEAN, index : Nat, files : Seq(TreeFiles)]]
    BY DEF StopRun, NoCall
  <2> QED BY <2>1 DEF BatchesInv, BatchTypes, StopRun
<1>2. aggregate' = Kept(OutputsOf(batchResults))'
  BY DEF BatchesInv, StopRun, Kept
<1> QED BY <1>1, <1>2 DEF BatchesInv, StopRun

(* Every step of the orchestrator keeps its inductive invariant. *)
LEMMA StepBatches == BatchesInv /\ [OrchestratorNext]_orchestratorVars => BatchesInv'
<1> SUFFICES ASSUME BatchesInv, [OrchestratorNext]_orchestratorVars PROVE BatchesInv'
  OBVIOUS
<1>1. CASE UNCHANGED orchestratorVars
  BY <1>1 DEF orchestratorVars, BatchesInv, BatchTypes, InOrder, Kept
<1>2. ASSUME NEW size \in BatchSizes, RunModel(size) PROVE BatchesInv'
  <2>1. BatchTypes'
    BY <1>2 DEF RunModel, BatchesInv, BatchTypes
  <2> QED BY <1>2, <2>1 DEF RunModel, BatchesInv, Kept
<1> QED BY <1>1, <1>2, RunBatchesKeeps, OpenCallKeeps, EndBatchKeeps, RunReportsKeeps,
           StopRunKeeps DEF OrchestratorNext

(* The results of a run are those of its own batches, in their order, and  *)
(* what was merged is what is kept of the outputs of the good ones.        *)
THEOREM BatchesInvariance == OrchestratorSpec => []BatchesInv
  BY InitBatches, StepBatches, PTL DEF OrchestratorSpec

(* Batches, calls and results keep their types however the calls overlap.  *)
THEOREM OrchestratorTypes == OrchestratorSpec => []OrchestratorTypeOK
<1>1. ASSUME BatchesInv PROVE OrchestratorTypeOK
  <2>1. BatchTypes /\ aggregate = Kept(OutputsOf(batchResults))
    BY <1>1 DEF BatchesInv
  <2>2. \A i \in DOMAIN batches : batches[i] \in Seq(TreeFiles)
    BY <2>1 DEF BatchTypes
  <2>3. \A c \in ToolCalls : /\ batchCalls[c].open \in BOOLEAN
                             /\ batchCalls[c].index \in Nat
                             /\ batchCalls[c].files \in Seq(TreeFiles)
    BY <2>1 DEF BatchTypes
  <2>4. \A i \in DOMAIN batchResults : batchResults[i] \in Results
    BY <2>1 DEF BatchTypes
  <2>5. \A i \in DOMAIN aggregate : aggregate[i] \in Seq(TreeFiles)
    <3> SUFFICES ASSUME NEW i \in DOMAIN aggregate PROVE aggregate[i] \in Seq(TreeFiles)
      OBVIOUS
    <3>1. OutputsOf(batchResults) \in Seq(Seq(TreeFiles))
      BY <2>1, OutputTypes DEF BatchTypes
    <3>2. aggregate \in Seq(Seq(TreeFiles))
      BY <2>1, <3>1, KeptFacts, <<>> \in Seq(TreeFiles) DEF BatchTypes
    <3> QED BY <3>2, ElementOfSeq
  <2> QED BY <2>1, <2>2, <2>3, <2>4, <2>5 DEF OrchestratorTypeOK, BatchTypes, Results
<1> QED BY <1>1, BatchesInvariance, PTL

(* For any files and batch size, a report of run_orchestrator_batches is   *)
(* about the whole listing of its own run and about nothing else, and what *)
(* it aggregates is what the sub-agent's kind keeps of the good outputs.   *)
THEOREM ReportsAreWhole == OrchestratorSpec => []ReportIsWhole
<1>1. ASSUME BatchesInv PROVE ReportIsWhole
  <2> SUFFICES ASSUME driver = "reported"
               PROVE  /\ FilesOf(report.results) = batches
                      /\ \A i \in DOMAIN report.results : report.results[i].index = i - 1
                      /\ report.aggregate = Kept(OutputsOf(report.results))
                      /\ report.failed = Len(report.results) - Len(OutputsOf(report.results))
                      /\ report.total =
                            Cardinality(UNION {ToSet(batches[i]) : i \in DOMAIN batches})
    BY DEF ReportIsWhole, FilesOf
  <2>1. /\ BatchTypes /\ aggregate = Kept(OutputsOf(batchResults))
        /\ Len(batchResults) = Len(batches) /\ InOrder
        /\ report.results = batchResults /\ report.aggregate = aggregate
        /\ report.failed = FailedAmong(batchResults)
        /\ report.total = Len(FlattenSeq(FilesOf(batchResults)))
    BY <1>1 DEF BatchesInv
  <2>2. PICK fs \in SUBSET TreeFiles, w \in Nat : w > 0 /\ batches = Slices(Sorted(fs), w)
    BY <1>1 DEF BatchesInv
  <2>3. /\ batchResults \in Seq(Results) /\ batches \in Seq(Seq(TreeFiles))
        /\ DOMAIN batchResults = 1 .. Len(batches) /\ DOMAIN batches = 1 .. Len(batches)
    BY <2>1 DEF BatchTypes
  <2>4. FilesOf(batchResults) = batches
    BY <2>1, <2>3 DEF FilesOf, InOrder
  <2>5. report.failed = Len(report.results) - Len(OutputsOf(report.results))
    BY <2>1, <2>3, OutputTypes
  <2>6. report.total = Cardinality(UNION {ToSet(batches[i]) : i \in DOMAIN batches})
    <3>1. /\ Sorted(fs) \in Seq(TreeFiles) /\ fs \in SUBSET Nat /\ IsFiniteSet(fs)
      BY TreeLists
    <3>2. FlattenSeq(batches) = Sorted(fs)
      BY <2>2, <3>1, SliceFacts
    <3>3. UNION {ToSet(batches[i]) : i \in DOMAIN batches} = ToSet(Sorted(fs))
      BY <2>2, <3>1, SlicesCover
    <3>4. /\ Cardinality(fs) \in Nat /\ Sorted(fs) \in [1 .. Cardinality(fs) -> fs]
          /\ \A x \in fs : \E i \in 1 .. Cardinality(fs) : Sorted(fs)[i] = x
      BY <3>1, SortedFacts
    <3>5. Len(Sorted(fs)) = Cardinality(fs) /\ ToSet(Sorted(fs)) = fs
      BY <3>4 DEF ToSet
    <3> QED BY <2>1, <2>4, <3>2, <3>3, <3>5
  <2>7. \A i \in DOMAIN report.results : report.results[i].index = i - 1
    BY <2>1, <2>3 DEF InOrder
  <2> QED BY <2>1, <2>4, <2>5, <2>6, <2>7
<1> QED BY <1>1, BatchesInvariance, PTL

=============================================================================
