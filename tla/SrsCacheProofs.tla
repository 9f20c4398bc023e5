--------------------------- MODULE SrsCacheProofs ---------------------------
(***************************************************************************)
(* For any number of clients, files, objects and entries of the cache: the *)
(* reference counts are right, so that nothing is used after it was freed  *)
(* and nothing leaks; every object has one owner; what a proof uses is     *)
(* loaded; and the cache is bounded and has one entry for a file.          *)
(*                                                                         *)
(* The counts are inductive only together with who owns what (OwnerOK),    *)
(* with what every state of a client promises (ClientOK), and with the     *)
(* cache not changing behind the back of the client that has its mutex     *)
(* (CacheOK).  That an object can be constructed at all is a pigeonhole    *)
(* argument (FreeObject): a client is in the way of one object at a time,  *)
(* except for one that evicts, and while it does the cache is not full.    *)
(***************************************************************************)
EXTENDS SrsCache, TLAPS, FiniteSetTheorems, SequenceTheorems

(* The entries of a list, and that it has one for a key. *)
Entries(s)   == {s[i] : i \in 1 .. Len(s)}
OnePerKey(s) == \A i, j \in 1 .. Len(s) : s[i].key = s[j].key => i = j
Drop1(s, i)  == SubSeq(s, 1, i - 1) \o SubSeq(s, i + 1, Len(s))

(* Whether the cache refers to an object, as a number. *)
InCache(o) == IF \E e \in Entries(cache) : e.obj = o THEN 1 ELSE 0

(* What a client has and owes in each of its states. *)
ClientOK ==
    \A c \in Clients :
        /\ pc[c] \in {"lookup", "make", "check", "barrier"} =>
               handle[c] = Null /\ arg[c] \in Paths
        /\ pc[c] \in {"get", "use"} => handle[c] # Null
        /\ ob[c] # Null <=> pc[c] \in {"check", "barrier", "delete"}
        /\ handle[c] # Null => arg[c] = path[handle[c]]
        /\ next[c] = "make" =>
               /\ pc[c] = "delete" /\ lock = c
               /\ handle[c] = Null /\ arg[c] \in Paths
        /\ pc[c] = "delete" /\ handle[c] # Null => lock = c
        /\ got[c] > 0 => pc[c] = "get" /\ reader[handle[c]] = "done"
        /\ pc[c] = "use" => reader[handle[c]] = "done"

(* What the states of an object and of its reader have to do with each other. *)
ObjectOK ==
    \A o \in Objects :
        /\ ref[o] > 0 => life[o] = "live"
        /\ life[o] = "free" => reader[o] = "none" /\ o \notin mapped \cup pinned
        /\ life[o] = "live" => reader[o] \in {"reading", "done"} /\ o \in pinned
        /\ reader[o] \in {"spawned", "reading"} => o \in mapped /\ o \in pinned
        /\ reader[o] = "done" => loaded[o] = Arrays

(* Who constructs or deletes an object has it alone, *)
OwnsAlone ==
    \A c \in Clients : ob[c] # Null =>
        /\ ref[ob[c]] = 0
        /\ pc[c] \in {"check", "barrier"} => life[ob[c]] = "making" /\ path[ob[c]] = arg[c]
        /\ pc[c] = "check" => reader[ob[c]] = "none" /\ ob[c] \in mapped \ pinned
        /\ pc[c] = "barrier" => reader[ob[c]] # "none" /\ ob[c] \in pinned
        /\ pc[c] = "delete" => life[ob[c]] = "live"
        /\ \A d \in Clients \ {c} : ob[d] # ob[c]

(* an object without references has such a client, *)
NoneLeaks ==
    \A o \in Objects : life[o] # "free" /\ ref[o] = 0 => \E c \in Clients : ob[c] = o

(* and a file is mapped only for its reader or its constructor. *)
MappingOK ==
    \A o \in mapped : \/ reader[o] \in {"spawned", "reading"}
                      \/ \E c \in Clients : pc[c] = "check" /\ ob[c] = o

OwnerOK == OwnsAlone /\ NoneLeaks /\ MappingOK

(* The cache, and what the client that has its mutex knows of it. *)
CacheOK ==
    /\ OnePerKey(cache)
    /\ \A e \in Entries(cache) : path[e.obj] = e.key
    /\ Len(cache) <= Spare + 1
    /\ lock # Null => Len(cache) <= Spare
    /\ \A c \in Clients : lock = c =>
           /\ pc[c] \in {"make", "check", "barrier", "delete"}
           /\ pc[c] # "delete" \/ next[c] = "make" =>
                  \A e \in Entries(cache) : e.key # arg[c]

RefsOK == \A o \in Objects : ref[o] = Cardinality(Holders(o)) + InCache(o)

IInv == TypeOK /\ ClientOK /\ ObjectOK /\ OwnerOK /\ CacheOK /\ RefsOK

-----------------------------------------------------------------------------
(* Lists with one entry for a key *)

(* What Without removes from SRS_cache::list is one entry, and no other. *)
LEMMA DropEntry ==
    ASSUME NEW S, NEW s \in Seq(S), NEW i \in 1 .. Len(s), OnePerKey(s)
    PROVE  /\ Drop1(s, i) \in Seq(S)
           /\ Len(Drop1(s, i)) = Len(s) - 1
           /\ OnePerKey(Drop1(s, i))
           /\ Entries(Drop1(s, i)) = {e \in Entries(s) : e.key # s[i].key}
<1> DEFINE t == Drop1(s, i)
<1> DEFINE a == SubSeq(s, 1, i - 1)
<1> DEFINE b == SubSeq(s, i + 1, Len(s))
<1> DEFINE at(k) == IF k < i THEN k ELSE k + 1
<1>1. a \in Seq(S) /\ Len(a) = i - 1 /\ \A k \in 1 .. i - 1 : a[k] = s[k]
  OBVIOUS
<1>2. b \in Seq(S) /\ Len(b) = Len(s) - i /\ \A k \in 1 .. Len(s) - i : b[k] = s[k + i]
  OBVIOUS
<1>3. t = a \o b
  BY DEF Drop1
<1> HIDE DEF a, b, t
<1>4. t \in Seq(S) /\ Len(t) = Len(s) - 1
  BY <1>1, <1>2, <1>3
<1>5. \A k \in 1 .. Len(t) : at(k) \in 1 .. Len(s) /\ at(k) # i /\ t[k] = s[at(k)]
  BY <1>1, <1>2, <1>3, <1>4
<1>6. OnePerKey(t)
  <2> SUFFICES ASSUME NEW j \in 1 .. Len(t), NEW k \in 1 .. Len(t), t[j].key = t[k].key
               PROVE  j = k
    BY DEF OnePerKey
  <2>1. at(j) = at(k)
    BY <1>5 DEF OnePerKey
  <2> QED BY <2>1, <1>4
<1>7. \A e \in Entries(t) : e \in Entries(s) /\ e.key # s[i].key
  <2> SUFFICES ASSUME NEW k \in 1 .. Len(t) PROVE t[k] \in Entries(s) /\ t[k].key # s[i].key
    BY DEF Entries
  <2> QED BY <1>5 DEF Entries, OnePerKey
<1>8. \A e \in Entries(s) : e.key # s[i].key => e \in Entries(t)
  <2> SUFFICES ASSUME NEW j \in 1 .. Len(s), s[j].key # s[i].key PROVE s[j] \in Entries(t)
    BY DEF Entries
  <2> DEFINE k == IF j < i THEN j ELSE j - 1
  <2>1. k \in 1 .. Len(t) /\ at(k) = j
    BY <1>4
  <2> QED BY <2>1, <1>5 DEF Entries
<1>9. Entries(t) = {e \in Entries(s) : e.key # s[i].key}
  BY <1>7, <1>8
<1> QED BY <1>4, <1>6, <1>9 DEF t

(* push_front: one entry more, for a key the list did not have. *)
LEMMA PushEntry ==
    ASSUME NEW S, NEW s \in Seq(S), NEW e \in S, OnePerKey(s),
           \A x \in Entries(s) : x.key # e.key
    PROVE  /\ <<e>> \o s \in Seq(S)
           /\ Len(<<e>> \o s) = Len(s) + 1
           /\ OnePerKey(<<e>> \o s)
           /\ Entries(<<e>> \o s) = Entries(s) \cup {e}
<1> DEFINE t == <<e>> \o s
<1>1. t \in Seq(S) /\ Len(t) = Len(s) + 1 /\ t[1] = e
      /\ \A k \in 2 .. Len(t) : k - 1 \in 1 .. Len(s) /\ t[k] = s[k - 1]
  OBVIOUS
<1> HIDE DEF t
<1>0. /\ \A k \in 1 .. Len(s) : s[k] \in Entries(s)
      /\ \A k \in 1 .. Len(t) : t[k] \in Entries(t)
  BY DEF Entries
<1>2. OnePerKey(t)
  <2> SUFFICES ASSUME NEW j \in 1 .. Len(t), NEW k \in 1 .. Len(t), t[j].key = t[k].key
               PROVE  j = k
    BY DEF OnePerKey
  <2>1. \A m \in 2 .. Len(t) : t[m].key # e.key
    BY <1>1 DEF Entries
  <2>2. CASE j = 1 \/ k = 1
    BY <1>1, <2>1, <2>2
  <2>3. CASE j # 1 /\ k # 1
    BY <1>1, <2>3 DEF OnePerKey
  <2> QED BY <2>2, <2>3
<1>3. \A x \in Entries(t) : x \in Entries(s) \cup {e}
  <2> SUFFICES ASSUME NEW k \in 1 .. Len(t) PROVE t[k] \in Entries(s) \cup {e}
    BY DEF Entries
  <2>1. CASE k = 1
    BY <1>1, <2>1
  <2>2. CASE k \in 2 .. Len(t)
    BY <1>0, <1>1, <2>2
  <2> QED BY <1>1, <2>1, <2>2
<1>4. \A x \in Entries(s) : x \in Entries(t)
  <2> SUFFICES ASSUME NEW k \in 1 .. Len(s) PROVE s[k] \in Entries(t)
    BY DEF Entries
  <2>1. k + 1 \in 2 .. Len(t) /\ t[k + 1] = s[k]
    BY <1>1
  <2>2. k + 1 \in 1 .. Len(t)
    BY <2>1
  <2> QED BY <2>1, <2>2, <1>0
<1>5. e \in Entries(t)
  BY <1>1 DEF Entries
<1>6. Entries(t) = Entries(s) \cup {e}
  BY <1>3, <1>4, <1>5
<1> QED BY <1>1, <1>2, <1>6 DEF t

(* The cache refers to an object at most once, since its path is the key. *)
LEMMA CachedCount ==
    ASSUME TypeOK, CacheOK, NEW o \in Objects
    PROVE  Cardinality(Cached(o)) = InCache(o)
<1>1. CASE \E e \in Entries(cache) : e.obj = o
  <2>1. PICK i \in 1 .. Len(cache) : cache[i].obj = o
    BY <1>1 DEF Entries
  <2>2. \A j \in 1 .. Len(cache) : cache[j].obj = o => j = i
    <3> SUFFICES ASSUME NEW j \in 1 .. Len(cache), cache[j].obj = o PROVE j = i
      OBVIOUS
    <3>1. cache[i] \in Entries(cache) /\ cache[j] \in Entries(cache)
      BY DEF Entries
    <3>2. cache[i].key = cache[j].key
      BY <2>1, <3>1 DEF CacheOK
    <3> QED BY <3>2 DEF CacheOK, OnePerKey
  <2>3. Cached(o) = {i}
    BY <2>1, <2>2 DEF Cached
  <2> QED BY <1>1, <2>3, FS_Singleton DEF InCache
<1>2. CASE ~ \E e \in Entries(cache) : e.obj = o
  <2>1. Cached(o) = {}
    BY <1>2 DEF Cached, Entries
  <2> QED BY <1>2, <2>1, FS_EmptySet DEF InCache
<1> QED BY <1>1, <1>2

-----------------------------------------------------------------------------
(* The references of clients *)

LEMMA HoldersFinite == \A o : IsFiniteSet(Holders(o)) /\ Cardinality(Holders(o)) \in Nat
<1> TAKE o
<1>1. Holders(o) \in SUBSET Clients
  BY DEF Holders
<1>2. IsFiniteSet(Holders(o))
  BY <1>1, FS_Subset, SrsAssumption
<1> QED BY <1>2, FS_CardinalityType

(* A client that had no SRS gets one: one holder more. *)
LEMMA HoldersGain ==
    ASSUME TypeOK, NEW c \in Clients, NEW o \in Objects, handle[c] = Null,
           handle' = [handle EXCEPT ![c] = o]
    PROVE  /\ Cardinality(Holders(o)') = Cardinality(Holders(o)) + 1
           /\ \A x \in Objects \ {o} : Holders(x)' = Holders(x)
<1>1. o # Null
  BY SrsAssumption
<1>2. Holders(o)' = Holders(o) \cup {c} /\ c \notin Holders(o)
  BY <1>1 DEF Holders, TypeOK
<1>3. \A x \in Objects \ {o} : Holders(x)' = Holders(x)
  BY SrsAssumption DEF Holders, TypeOK
<1> QED BY <1>2, <1>3, HoldersFinite, FS_AddElement

(* A client drops its SRS: one holder less. *)
LEMMA HoldersLose ==
    ASSUME TypeOK, NEW c \in Clients, handle[c] # Null,
           handle' = [handle EXCEPT ![c] = Null]
    PROVE  /\ Cardinality(Holders(handle[c])) > 0
           /\ Cardinality({d \in Clients : handle'[d] = handle[c]})
                  = Cardinality(Holders(handle[c])) - 1
           /\ \A x \in Objects \ {handle[c]} : Holders(x)' = Holders(x)
<1> DEFINE o == handle[c]
<1>0. o \in Objects
  BY DEF TypeOK
<1>1. {d \in Clients : handle'[d] = o} = Holders(o) \ {c} /\ c \in Holders(o)
  BY DEF Holders, TypeOK
<1>2. \A x \in Objects \ {o} : Holders(x)' = Holders(x)
  BY SrsAssumption DEF Holders, TypeOK
<1>3. Cardinality(Holders(o)) > 0
  BY <1>1, HoldersFinite, FS_EmptySet
<1> QED BY <1>1, <1>2, <1>3, HoldersFinite, FS_RemoveElement

(* Whoever holds an SRS is counted. *)
LEMMA HeldIsCounted ==
    ASSUME IInv, NEW c \in Clients, handle[c] # Null
    PROVE  /\ handle[c] \in Objects
           /\ ref[handle[c]] > 0
           /\ life[handle[c]] = "live"
<1>1. handle[c] \in Objects
  BY DEF IInv, TypeOK
<1>2. Holders(handle[c]) # {}
  BY DEF Holders
<1>3. Cardinality(Holders(handle[c])) > 0
  BY <1>2, HoldersFinite, FS_EmptySet
<1>4. ref[handle[c]] > 0
  BY <1>1, <1>3, HoldersFinite DEF IInv, RefsOK, InCache
<1> QED BY <1>1, <1>4 DEF IInv, ObjectOK

(* So is an entry of the cache. *)
LEMMA CachedIsCounted ==
    ASSUME IInv, NEW e \in Entries(cache)
    PROVE  /\ e.obj \in Objects /\ e.key \in Paths
           /\ ref[e.obj] > 0
           /\ life[e.obj] = "live"
<1>1. e.obj \in Objects /\ e.key \in Paths
  <2>1. PICK i \in 1 .. Len(cache) : e = cache[i]
    BY DEF Entries
  <2>2. cache[i] \in [key : Paths, obj : Objects]
    BY ElementOfSeq DEF IInv, TypeOK
  <2> QED BY <2>1, <2>2
<1>2. ref[e.obj] > 0
  BY <1>1, HoldersFinite DEF IInv, RefsOK, InCache
<1> QED BY <1>1, <1>2 DEF IInv, ObjectOK

(* An image of a finite set is no larger. *)
LEMMA ImageBound ==
    ASSUME NEW S, IsFiniteSet(S), NEW f, f \in [S -> {f[x] : x \in S}]
    PROVE  /\ IsFiniteSet({f[x] : x \in S})
           /\ Cardinality({f[x] : x \in S}) \in Nat
           /\ Cardinality({f[x] : x \in S}) <= Cardinality(S)
<1>1. f \in Surjection(S, {f[x] : x \in S})
  BY DEF Surjection
<1> QED BY <1>1, FS_Surjection, FS_CardinalityType

(* There is memory for the object that a client is about to construct. *)
LEMMA FreeObject ==
    ASSUME IInv, NEW c \in Clients, pc[c] = "make"
    PROVE  \E o \in Objects : life[o] = "free"
<1> SUFFICES ASSUME \A o \in Objects : life[o] # "free" PROVE FALSE
  OBVIOUS
<1> DEFINE Others == Clients \ {c}
<1> DEFINE has == [d \in Others |-> IF ob[d] # Null THEN ob[d] ELSE handle[d]]
<1> DEFINE obj == [i \in 1 .. Len(cache) |-> cache[i].obj]
<1> DEFINE H == {has[d] : d \in Others}
<1> DEFINE C == {obj[i] : i \in 1 .. Len(cache)}
<1> DEFINE X == {IF lock \in Clients THEN handle[lock] ELSE Null}
<1>1. Len(cache) \in Nat /\ Len(cache) <= Spare + 1 /\ (lock # Null => Len(cache) <= Spare)
  BY DEF IInv, TypeOK, CacheOK
<1>2. Cardinality(Clients) \in Nat /\ IsFiniteSet(Others)
      /\ Cardinality(Others) = Cardinality(Clients) - 1
  BY SrsAssumption, FS_CardinalityType, FS_RemoveElement
<1>3. IsFiniteSet(H) /\ Cardinality(H) \in Nat /\ Cardinality(H) <= Cardinality(Clients) - 1
  <2> HIDE DEF has
  <2>1. has \in [Others -> H]
    BY DEF has
  <2> QED BY <1>2, <2>1, ImageBound
<1>4. IsFiniteSet(1 .. Len(cache)) /\ Cardinality(1 .. Len(cache)) = Len(cache)
  BY <1>1, FS_Interval
<1>5. IsFiniteSet(C) /\ Cardinality(C) \in Nat /\ Cardinality(C) <= Len(cache)
  <2> HIDE DEF obj
  <2>1. obj \in [1 .. Len(cache) -> C]
    BY DEF obj
  <2> QED BY <1>4, <2>1, ImageBound
<1>6. ob[c] = Null /\ handle[c] = Null
  BY DEF IInv, ClientOK
<1>7. \A o \in Objects : o \in H \cup C \/ (lock # Null /\ o \in X)
  <2> SUFFICES ASSUME NEW o \in Objects, o \notin C
               PROVE  o \in H \/ (lock # Null /\ o \in X)
    OBVIOUS
  <2>1. CASE ref[o] = 0
    <3>1. PICK d \in Clients : ob[d] = o
      BY <2>1 DEF IInv, OwnerOK, OwnsAlone, NoneLeaks, MappingOK
    <3>2. o # Null
      BY SrsAssumption
    <3> QED BY <3>1, <3>2, <1>6
  <2>2. CASE ref[o] # 0
    <3>1. InCache(o) = 0
      BY DEF InCache, Entries
    <3>2. Holders(o) # {}
      <4>1. ref[o] = Cardinality(Holders(o)) + InCache(o)
        BY DEF IInv, RefsOK
      <4>2. Holders(o) = {} => Cardinality(Holders(o)) = 0
        BY FS_EmptySet
      <4> QED BY <2>2, <3>1, <4>1, <4>2
    <3>3. PICK d \in Clients : handle[d] = o
      BY <3>2 DEF Holders
    <3>4. o # Null
      BY SrsAssumption
    <3>5. ob[d] # Null => lock = d
      BY <3>3, <3>4 DEF IInv, ClientOK
    <3> QED BY <3>3, <3>4, <3>5, <1>6, SrsAssumption
  <2> QED BY <2>1, <2>2
<1>8. IsFiniteSet(H \cup C) /\ Cardinality(H \cup C) \in Nat
      /\ Cardinality(H \cup C) <= Cardinality(Clients) - 1 + Len(cache)
  <2> HIDE DEF H, C
  <2>1. Cardinality(H \cup C) = Cardinality(H) + Cardinality(C) - Cardinality(H \cap C)
        /\ IsFiniteSet(H \cup C)
    BY <1>3, <1>5, FS_Union
  <2>2. Cardinality(H \cap C) \in Nat
    BY <1>3, FS_Intersection, FS_CardinalityType
  <2> QED BY <2>1, <2>2, <1>1, <1>2, <1>3, <1>5, FS_CardinalityType
<1> HIDE DEF H, C
<1>9. CASE lock = Null
  <2>1. Objects \in SUBSET (H \cup C)
    BY <1>7, <1>9
  <2>2. Cardinality(Objects) <= Cardinality(H \cup C)
    BY <2>1, <1>8, FS_Subset
  <2> QED BY <2>2, <1>1, <1>2, <1>8, SrsAssumption, FS_CardinalityType
<1>10. CASE lock # Null
  <2> DEFINE h == IF lock \in Clients THEN handle[lock] ELSE Null
  <2>1. Objects \in SUBSET ((H \cup C) \cup {h})
    BY <1>7
  <2>2. IsFiniteSet((H \cup C) \cup {h})
        /\ Cardinality((H \cup C) \cup {h}) <= Cardinality(H \cup C) + 1
    <3> HIDE DEF h
    <3> DEFINE B == H \cup C
    <3> HIDE DEF B
    <3>1. IsFiniteSet(B) /\ Cardinality(B) \in Nat
      BY <1>8 DEF B
    <3>2. IsFiniteSet(B \cup {h}) /\ Cardinality(B \cup {h}) <= Cardinality(B) + 1
      BY <3>1, FS_AddElement
    <3> QED BY <3>2 DEF B
  <2>3. Cardinality(Objects) <= Cardinality((H \cup C) \cup {h})
    <3> HIDE DEF h
    <3> QED BY <2>1, <2>2, FS_Subset
  <2>4. Cardinality((H \cup C) \cup {h}) \in Nat
    BY <2>2, FS_CardinalityType
  <2> HIDE DEF h
  <2> QED BY <2>2, <2>3, <2>4, <1>1, <1>2, <1>8, <1>10, SrsAssumption, FS_CardinalityType
<1> QED BY <1>9, <1>10

-----------------------------------------------------------------------------
(* One lemma for each operation *)

(* An object without references is not in the hands of anybody. *)
LEMMA Unreferenced ==
    ASSUME IInv, NEW o \in Objects, ref[o] = 0
    PROVE  /\ \A d \in Clients : handle[d] # o
           /\ \A e \in Entries(cache) : e.obj # o
<1>1. o # Null
  BY SrsAssumption
<1>2. \A d \in Clients : handle[d] # o
  BY <1>1, HeldIsCounted
<1> QED BY <1>2, CachedIsCounted

(* What a client knows of the object it constructs or deletes. *)
LEMMA Owned ==
    ASSUME IInv, NEW c \in Clients, pc[c] \in {"check", "barrier", "delete"}
    PROVE  /\ ob[c] \in Objects /\ ob[c] # Null /\ ref[ob[c]] = 0
           /\ \A d \in Clients : handle[d] # ob[c]
           /\ \A d \in Clients \ {c} : ob[d] # ob[c]
           /\ \A e \in Entries(cache) : e.obj # ob[c]
<1>1. ob[c] # Null
  BY DEF IInv, ClientOK
<1>2. ob[c] \in Objects
  BY <1>1 DEF IInv, TypeOK
<1>3. ref[ob[c]] = 0 /\ \A d \in Clients \ {c} : ob[d] # ob[c]
  BY <1>1 DEF IInv, OwnerOK, OwnsAlone, NoneLeaks, MappingOK
<1> QED BY <1>1, <1>2, <1>3, Unreferenced

LEMMA RefsStay == ASSUME RefsOK, UNCHANGED <<ref, handle, cache>> PROVE RefsOK'
BY DEF RefsOK, Holders, InCache

LEMMA TryNewKeeps == ASSUME IInv, NEW c \in Clients, NEW p \in Paths, TryNew(c, p) PROVE IInv'
<1> USE SrsAssumption DEF IInv, TryNew, objVars, clientVars
<1>1. TypeOK'
  BY DEF TypeOK, Getters
<1>2. ClientOK'
  BY HeldIsCounted DEF ClientOK, TypeOK
<1>3. ObjectOK'
  BY DEF ObjectOK, TypeOK
<1>4. OwnerOK'
  BY HeldIsCounted DEF OwnerOK, OwnsAlone, NoneLeaks, MappingOK, TypeOK, ObjectOK, ClientOK
<1>5. CacheOK'
  BY DEF CacheOK, TypeOK
<1>6. RefsOK'
  BY RefsStay
<1> QED BY <1>1, <1>2, <1>3, <1>4, <1>5, <1>6

LEMMA MapFailsKeeps == ASSUME IInv, NEW c \in Clients, MapFails(c) PROVE IInv'
<1> USE SrsAssumption DEF IInv, MapFails, Goto, Unlock, objVars, clientVars
<1>1. TypeOK'
  BY DEF TypeOK, Getters
<1>2. ClientOK'
  BY DEF ClientOK, TypeOK
<1>3. ObjectOK'
  BY DEF ObjectOK, TypeOK
<1>4. OwnerOK'
  BY DEF OwnerOK, OwnsAlone, NoneLeaks, MappingOK, TypeOK, ObjectOK, ClientOK
<1>5. CacheOK'
  BY DEF CacheOK, TypeOK
<1>6. RefsOK'
  BY RefsStay
<1> QED BY <1>1, <1>2, <1>3, <1>4, <1>5, <1>6

(* Map takes an object that nobody has (FreeObject). *)
LEMMA MapKeeps == ASSUME IInv, NEW c \in Clients, Map(c) PROVE IInv'
<1> DEFINE o == CHOOSE x \in Objects : life[x] = "free"
<1>0. o \in Objects /\ life[o] = "free"
  BY FreeObject DEF Map
<1>A. /\ pc[c] = "make" /\ pc' = [pc EXCEPT ![c] = "check"]
      /\ life' = [life EXCEPT ![o] = "making"]
      /\ path' = [path EXCEPT ![o] = arg[c]]
      /\ mapped' = mapped \cup {o}
      /\ ob' = [ob EXCEPT ![c] = o]
      /\ UNCHANGED <<ref, pinned, reader, loaded, cache, lock, prover, next, handle, arg, got>>
  BY DEF Map, Goto
<1> HIDE DEF o
<1>B. ref[o] = 0 /\ o # Null
  BY <1>0, SrsAssumption DEF IInv, ObjectOK, TypeOK
<1>C. /\ \A d \in Clients : handle[d] # o
      /\ \A e \in Entries(cache) : e.obj # o
  BY <1>0, <1>B, Unreferenced
<1>D. \A d \in Clients : ob[d] # o
  BY <1>0, <1>B DEF IInv, OwnerOK, OwnsAlone, ClientOK
<1>E. arg[c] \in Paths /\ handle[c] = Null /\ ob[c] = Null
  BY <1>A DEF IInv, ClientOK
<1> USE DEF IInv
<1>1. TypeOK'
  BY <1>0, <1>A, <1>E DEF TypeOK
<1>2. ClientOK'
  BY <1>0, <1>A, <1>B, <1>C, <1>E, HeldIsCounted DEF ClientOK, TypeOK
<1>3. ObjectOK'
  BY <1>0, <1>A, <1>B DEF ObjectOK, TypeOK
<1>4. OwnerOK'
  <2>1. OwnsAlone'
    BY <1>0, <1>A, <1>B, <1>D, <1>E DEF OwnerOK, OwnsAlone, ObjectOK, ClientOK, TypeOK
  <2>2. NoneLeaks'
    <3> SUFFICES ASSUME NEW x \in Objects, life'[x] # "free", ref[x] = 0, x # o
                 PROVE  \E d \in Clients : ob'[d] = x
      BY <1>0, <1>A DEF NoneLeaks, TypeOK
    <3>1. PICK d \in Clients : ob[d] = x
      BY <1>0, <1>A DEF OwnerOK, NoneLeaks, TypeOK
    <3> QED BY <3>1, <1>A, <1>E, SrsAssumption DEF TypeOK
  <2>3. MappingOK'
    BY <1>0, <1>A, <1>E DEF OwnerOK, MappingOK, TypeOK
  <2> QED BY <2>1, <2>2, <2>3 DEF OwnerOK
<1>5. CacheOK'
  BY <1>0, <1>A, <1>C, CachedIsCounted DEF CacheOK, TypeOK
<1>6. RefsOK'
  BY <1>A, RefsStay
<1> QED BY <1>1, <1>2, <1>3, <1>4, <1>5, <1>6

LEMMA SpawnKeeps == ASSUME IInv, NEW c \in Clients, Spawn(c) PROVE IInv'
<1>0. /\ pc[c] = "check" /\ pc' = [pc EXCEPT ![c] = "barrier"]
      /\ pinned' = pinned \cup {ob[c]}
      /\ reader' = [reader EXCEPT ![ob[c]] = "spawned"]
      /\ UNCHANGED <<life, path, mapped, loaded, ref, cache, lock, prover, next, handle, arg, ob, got>>
  BY DEF Spawn, Goto, clientVars
<1>A. /\ ob[c] \in Objects /\ ob[c] # Null /\ ref[ob[c]] = 0
      /\ \A d \in Clients : handle[d] # ob[c]
      /\ \A d \in Clients \ {c} : ob[d] # ob[c]
  BY <1>0, Owned
<1>B. life[ob[c]] = "making" /\ reader[ob[c]] = "none"
  BY <1>0, <1>A DEF IInv, OwnerOK, OwnsAlone, NoneLeaks, MappingOK
<1>C. ob[c] \in mapped
  BY <1>0, <1>A DEF IInv, OwnerOK, OwnsAlone
<1> USE DEF IInv
<1>1. TypeOK'
  BY <1>0, <1>A DEF TypeOK
<1>2. ClientOK'
  BY <1>0, <1>A, <1>B, HeldIsCounted DEF ClientOK, TypeOK
<1>3. ObjectOK'
  BY <1>0, <1>A, <1>B, <1>C DEF ObjectOK, TypeOK
<1>4. OwnerOK'
  BY <1>0, <1>A, <1>B DEF OwnerOK, OwnsAlone, NoneLeaks, MappingOK, ClientOK, TypeOK
<1>5. CacheOK'
  BY <1>0 DEF CacheOK, TypeOK
<1>6. RefsOK'
  BY <1>0, RefsStay
<1> QED BY <1>1, <1>2, <1>3, <1>4, <1>5, <1>6

(* A constructor that fails leaves nothing behind. *)
LEMMA CheckFailsKeeps == ASSUME IInv, NEW c \in Clients, CheckFails(c) PROVE IInv'
<1>0. /\ pc[c] = "check" /\ pc' = [pc EXCEPT ![c] = "idle"]
      /\ mapped' = mapped \ {ob[c]}
      /\ life' = [life EXCEPT ![ob[c]] = "free"]
      /\ path' = [path EXCEPT ![ob[c]] = Null]
      /\ ob' = [ob EXCEPT ![c] = Null]
      /\ arg' = [arg EXCEPT ![c] = Null]
      /\ lock' = IF lock = c THEN Null ELSE lock
      /\ UNCHANGED <<pinned, reader, loaded, ref, cache, prover, next, handle, got>>
  BY DEF CheckFails, Goto, Unlock, Unmapped
<1>A. /\ ob[c] \in Objects /\ ob[c] # Null /\ ref[ob[c]] = 0
      /\ \A d \in Clients : handle[d] # ob[c]
      /\ \A d \in Clients \ {c} : ob[d] # ob[c]
      /\ \A e \in Entries(cache) : e.obj # ob[c]
  BY <1>0, Owned
<1>B. /\ reader[ob[c]] = "none" /\ life[ob[c]] = "making" /\ ob[c] \notin pinned
      /\ handle[c] = Null /\ next[c] = "idle"
  BY <1>0, <1>A DEF IInv, OwnerOK, OwnsAlone, ClientOK, TypeOK
<1> USE DEF IInv
<1>1. TypeOK'
  BY <1>0, <1>A DEF TypeOK
<1>2. ClientOK'
  BY <1>0, <1>A, <1>B, HeldIsCounted, SrsAssumption DEF ClientOK, TypeOK
<1>3. ObjectOK'
  BY <1>0, <1>A, <1>B DEF ObjectOK, TypeOK
<1>4. OwnerOK'
  <2>1. OwnsAlone'
    BY <1>0, <1>A, <1>B DEF OwnerOK, OwnsAlone, ClientOK, TypeOK
  <2>2. NoneLeaks'
    BY <1>0, <1>A, <1>B DEF OwnerOK, NoneLeaks, TypeOK
  <2>3. MappingOK'
    BY <1>0, <1>A, <1>B DEF OwnerOK, MappingOK, TypeOK
  <2> QED BY <2>1, <2>2, <2>3 DEF OwnerOK
<1>5. CacheOK'
  <2>1. \A e \in Entries(cache) : path'[e.obj] = e.key
    BY <1>0, <1>A, CachedIsCounted DEF CacheOK, TypeOK
  <2> QED BY <2>1, <1>0, SrsAssumption DEF CacheOK, TypeOK
<1>6. RefsOK'
  BY <1>0, RefsStay
<1> QED BY <1>1, <1>2, <1>3, <1>4, <1>5, <1>6

(* The constructor returns: the client's reference, and the cache's. *)
LEMMA MadeKeeps == ASSUME IInv, NEW c \in Clients, Made(c) PROVE IInv'
<1>o. PICK o : o = ob[c]
  OBVIOUS
<1>e. PICK e : e = [key |-> arg[c], obj |-> o]
  OBVIOUS
<1>0. /\ pc[c] = "barrier" /\ reader[o] # "spawned"
      /\ pc' = [pc EXCEPT ![c] = "idle"]
      /\ life' = [life EXCEPT ![o] = "live"]
      /\ handle' = [handle EXCEPT ![c] = o]
      /\ ob' = [ob EXCEPT ![c] = Null]
      /\ lock' = IF lock = c THEN Null ELSE lock
      /\ UNCHANGED <<path, mapped, pinned, reader, loaded, prover, next, arg, got>>
  BY <1>o DEF Made, Goto, Unlock, BarrierOpen
<1>00. \/ lock = c /\ cache' = <<e>> \o cache /\ ref' = [ref EXCEPT ![o] = 2]
       \/ lock # c /\ cache' = cache /\ ref' = [ref EXCEPT ![o] = 1]
  BY <1>o, <1>e DEF Made
<1>A. /\ o \in Objects /\ o # Null /\ ref[o] = 0
      /\ \A d \in Clients : handle[d] # o
      /\ \A d \in Clients \ {c} : ob[d] # o
      /\ \A x \in Entries(cache) : x.obj # o
  BY <1>o, <1>0, Owned
<1>B. /\ reader[o] \in {"reading", "done"} /\ o \in pinned /\ life[o] = "making"
      /\ handle[c] = Null /\ next[c] = "idle" /\ arg[c] \in Paths /\ got[c] = 0
  BY <1>o, <1>0, <1>A, SrsAssumption DEF IInv, OwnerOK, OwnsAlone, ClientOK, TypeOK, Getters
<1>C. path[o] = arg[c]
  BY <1>o, <1>0, <1>A DEF IInv, OwnerOK, OwnsAlone
<1>D. ref' \in [Objects -> Nat] /\ ref'[o] > 0 /\ \A x \in Objects \ {o} : ref'[x] = ref[x]
  <2>1. PICK n \in {1, 2} : ref' = [ref EXCEPT ![o] = n]
    BY <1>00
  <2> QED BY <2>1, <1>A DEF IInv, TypeOK
<1>E. lock = c => /\ cache' \in Seq([key : Paths, obj : Objects])
                  /\ Len(cache') = Len(cache) + 1
                  /\ OnePerKey(cache')
                  /\ Entries(cache') = Entries(cache) \cup {e}
  <2> SUFFICES ASSUME lock = c PROVE /\ cache' \in Seq([key : Paths, obj : Objects])
                                     /\ Len(cache') = Len(cache) + 1
                                     /\ OnePerKey(cache')
                                     /\ Entries(cache') = Entries(cache) \cup {e}
    OBVIOUS
  <2>1. cache' = <<e>> \o cache
    BY <1>00
  <2>2. \A x \in Entries(cache) : x.key # e.key
    BY <1>e, <1>0 DEF IInv, CacheOK
  <2>3. e \in [key : Paths, obj : Objects]
    BY <1>e, <1>A, <1>B
  <2>4. cache \in Seq([key : Paths, obj : Objects]) /\ OnePerKey(cache)
    BY DEF IInv, TypeOK, CacheOK
  <2> DEFINE S == [key : Paths, obj : Objects]
  <2> HIDE DEF S
  <2>5. cache \in Seq(S) /\ e \in S
    BY <2>3, <2>4 DEF S
  <2>6. /\ <<e>> \o cache \in Seq(S)
        /\ Len(<<e>> \o cache) = Len(cache) + 1
        /\ OnePerKey(<<e>> \o cache)
        /\ Entries(<<e>> \o cache) = Entries(cache) \cup {e}
    BY <2>2, <2>4, <2>5, PushEntry
  <2> QED BY <2>1, <2>6 DEF S
<1>F. e.key = arg[c] /\ e.obj = o
  BY <1>e
<1> USE DEF IInv
<1>1. TypeOK'
  <2>1. cache' \in Seq([key : Paths, obj : Objects])
    BY <1>00, <1>E DEF TypeOK
  <2> QED BY <2>1, <1>0, <1>A, <1>D DEF TypeOK
<1>2. ClientOK'
  BY <1>0, <1>A, <1>B, <1>C, SrsAssumption DEF ClientOK, TypeOK
<1>3. ObjectOK'
  BY <1>0, <1>A, <1>B, <1>D DEF ObjectOK, TypeOK
<1>4. OwnerOK'
  <2>1. OwnsAlone'
    BY <1>o, <1>0, <1>A, <1>D DEF OwnerOK, OwnsAlone, ClientOK, TypeOK
  <2>2. NoneLeaks'
    BY <1>o, <1>0, <1>A, <1>D DEF OwnerOK, NoneLeaks, TypeOK
  <2>3. MappingOK'
    BY <1>o, <1>0, <1>A, <1>B DEF OwnerOK, MappingOK, TypeOK
  <2> QED BY <2>1, <2>2, <2>3 DEF OwnerOK
<1>5. CacheOK'
  <2>1. CASE lock = c
    BY <2>1, <1>0, <1>A, <1>C, <1>E, <1>F, SrsAssumption DEF CacheOK, TypeOK
  <2>2. CASE lock # c
    BY <2>2, <1>0, <1>00 DEF CacheOK, TypeOK
  <2> QED BY <2>1, <2>2
<1>6. RefsOK'
  <2>1. /\ Cardinality(Holders(o)') = Cardinality(Holders(o)) + 1
        /\ \A x \in Objects \ {o} : Holders(x)' = Holders(x)
    BY <1>0, <1>A, <1>B, HoldersGain
  <2>2. /\ InCache(o) = 0 /\ InCache(o)' = (IF lock = c THEN 1 ELSE 0)
        /\ \A x \in Objects \ {o} : InCache(x)' = InCache(x)
    BY <1>A, <1>E, <1>F, <1>00 DEF InCache
  <2>3. ref'[o] = IF lock = c THEN 2 ELSE 1
    BY <1>00, <1>A DEF TypeOK
  <2>4. Cardinality(Holders(o)) = 0
    BY <1>A, <2>2, HoldersFinite DEF RefsOK
  <2>5. ref'[o] = Cardinality(Holders(o)') + InCache(o)'
    BY <2>1, <2>2, <2>3, <2>4
  <2>6. \A x \in Objects \ {o} : ref'[x] = Cardinality(Holders(x)') + InCache(x)'
    BY <2>1, <2>2, <1>D DEF RefsOK
  <2>7. \A x \in Objects : (ref[x] = Cardinality(Holders(x)) + InCache(x))'
    BY <2>5, <2>6
  <2> QED BY <2>7 DEF RefsOK
<1> QED BY <1>1, <1>2, <1>3, <1>4, <1>5, <1>6

(* The object is freed; the mutex is kept if the client goes on to construct one. *)
LEMMA DeleteKeeps == ASSUME IInv, NEW c \in Clients, Delete(c) PROVE IInv'
<1>0. /\ pc[c] = "delete" /\ reader[ob[c]] \in {"none", "done"}
      /\ life' = [life EXCEPT ![ob[c]] = "free"]
      /\ path' = [path EXCEPT ![ob[c]] = Null]
      /\ pinned' = pinned \ {ob[c]}
      /\ reader' = [reader EXCEPT ![ob[c]] = "none"]
      /\ loaded' = [loaded EXCEPT ![ob[c]] = 0]
      /\ ob' = [ob EXCEPT ![c] = Null]
      /\ pc' = [pc EXCEPT ![c] = next[c]]
      /\ next' = [next EXCEPT ![c] = "idle"]
      /\ lock' = IF next[c] = "idle" /\ lock = c THEN Null ELSE lock
      /\ UNCHANGED <<mapped, ref, cache, prover, handle, arg, got>>
  BY DEF Delete, Goto, Unlock, Joined
<1>A. /\ ob[c] \in Objects /\ ob[c] # Null /\ ref[ob[c]] = 0
      /\ \A d \in Clients : handle[d] # ob[c]
      /\ \A d \in Clients \ {c} : ob[d] # ob[c]
      /\ \A e \in Entries(cache) : e.obj # ob[c]
  BY <1>0, Owned
<1>B. life[ob[c]] = "live" /\ next[c] \in {"idle", "make"}
  BY <1>0, <1>A DEF IInv, OwnerOK, OwnsAlone, TypeOK
<1>C. ob[c] \notin mapped
  BY <1>0, <1>A DEF IInv, OwnerOK, MappingOK
<1> USE DEF IInv
<1>1. TypeOK'
  BY <1>0, <1>A, <1>B, SrsAssumption DEF TypeOK
<1>2. ClientOK'
  BY <1>0, <1>A, <1>B, HeldIsCounted, SrsAssumption DEF ClientOK, TypeOK
<1>3. ObjectOK'
  BY <1>0, <1>A, <1>C DEF ObjectOK, TypeOK
<1>4. OwnerOK'
  <2>1. OwnsAlone'
    BY <1>0, <1>A DEF OwnerOK, OwnsAlone, ClientOK, TypeOK
  <2>2. NoneLeaks'
    BY <1>0, <1>A DEF OwnerOK, NoneLeaks, TypeOK
  <2>3. MappingOK'
    BY <1>0, <1>A, <1>C DEF OwnerOK, MappingOK, TypeOK
  <2> QED BY <2>1, <2>2, <2>3 DEF OwnerOK
<1>5. CacheOK'
  <2>1. \A e \in Entries(cache) : path'[e.obj] = e.key
    BY <1>0, <1>A, CachedIsCounted DEF CacheOK, TypeOK
  <2> QED BY <2>1, <1>0, <1>B, SrsAssumption DEF CacheOK, TypeOK
<1>6. RefsOK'
  BY <1>0, RefsStay
<1> QED BY <1>1, <1>2, <1>3, <1>4, <1>5, <1>6

(* The thread of an object works alone. *)
LEMMA ReadKeeps == ASSUME IInv, NEW o \in Objects, Read(o) PROVE IInv'
<1> USE SrsAssumption DEF IInv, objVars, clientVars
<1>1. CASE Reader_Start(o)
  <2> USE <1>1 DEF Reader_Start
  <2>1. TypeOK' /\ ObjectOK'
    BY DEF TypeOK, ObjectOK
  <2>2. ClientOK'
    BY HeldIsCounted DEF ClientOK, TypeOK
  <2>3. OwnerOK'
    BY DEF OwnerOK, OwnsAlone, NoneLeaks, MappingOK, TypeOK
  <2>4. CacheOK' /\ RefsOK'
    BY RefsStay DEF CacheOK
  <2> QED BY <2>1, <2>2, <2>3, <2>4
<1>2. CASE Reader_Points(o)
  <2> USE <1>2 DEF Reader_Points
  <2>1. TypeOK' /\ ObjectOK'
    BY DEF TypeOK, ObjectOK
  <2>2. ClientOK'
    BY DEF ClientOK
  <2>3. OwnerOK'
    BY DEF OwnerOK, OwnsAlone, NoneLeaks, MappingOK
  <2>4. CacheOK' /\ RefsOK'
    BY RefsStay DEF CacheOK
  <2> QED BY <2>1, <2>2, <2>3, <2>4
<1>3. CASE Reader_End(o)
  <2> USE <1>3 DEF Reader_End, Unmapped
  <2>0. \A c \in Clients : pc[c] = "check" => ob[c] # o
    BY DEF OwnerOK, OwnsAlone, ClientOK
  <2>1. TypeOK' /\ ObjectOK'
    BY DEF TypeOK, ObjectOK
  <2>2. ClientOK'
    BY HeldIsCounted DEF ClientOK, TypeOK
  <2>3. OwnerOK'
    BY <2>0 DEF OwnerOK, OwnsAlone, NoneLeaks, MappingOK, TypeOK
  <2>4. CacheOK' /\ RefsOK'
    BY RefsStay DEF CacheOK
  <2> QED BY <2>1, <2>2, <2>3, <2>4
<1> QED BY <1>1, <1>2, <1>3 DEF Read

(* The steps of a proof do not touch references or the cache. *)
LEMMA ProveKeeps ==
    ASSUME IInv, NEW c \in Clients, Prove(c) \/ Get(c) \/ Use(c) \/ Proved(c)
    PROVE  IInv'
<1> USE SrsAssumption DEF IInv, objVars, clientVars
<1>0. got \in [Clients -> 0 .. Getters] /\ Getters \in Nat /\ Getters > 0
  BY DEF TypeOK, Getters
<1>1. CASE Prove(c) \/ Use(c) \/ Proved(c)
  <2> USE <1>1 DEF Prove, Use, Proved, Goto
  <2>0. PICK p \in {"get", "use", "idle"}, r \in Clients \cup {Null}, g \in 0 .. Getters :
            /\ pc' = [pc EXCEPT ![c] = p] /\ prover' = r
            /\ got' = [got EXCEPT ![c] = g]
    BY <1>0 DEF TypeOK
  <2>1. TypeOK' /\ ObjectOK'
    BY <2>0 DEF TypeOK, ObjectOK
  <2>2. ClientOK'
    BY <1>0 DEF ClientOK, TypeOK
  <2>3. OwnerOK'
    BY DEF OwnerOK, OwnsAlone, NoneLeaks, MappingOK, ClientOK, TypeOK
  <2>4. CacheOK' /\ RefsOK'
    BY RefsStay DEF CacheOK, TypeOK
  <2> QED BY <2>1, <2>2, <2>3, <2>4
<1>2. CASE Get(c)
  <2> USE <1>2 DEF Get
  <2>0. handle[c] \in Objects /\ reader[handle[c]] = "done"
    BY HeldIsCounted DEF ClientOK, ObjectOK
  <2>1. TypeOK' /\ ObjectOK'
    BY <1>0 DEF TypeOK, ObjectOK
  <2>2. ClientOK'
    BY <2>0, <1>0 DEF ClientOK, TypeOK
  <2>3. OwnerOK'
    BY DEF OwnerOK, OwnsAlone, NoneLeaks, MappingOK, ClientOK, TypeOK
  <2>4. CacheOK' /\ RefsOK'
    BY RefsStay DEF CacheOK, TypeOK
  <2> QED BY <2>1, <2>2, <2>3, <2>4
<1> QED BY <1>1, <1>2

(* A client that had no SRS gets one that is live: a hit, or a clone. *)
LEMMA GainKeeps ==
    ASSUME IInv, NEW c \in Clients, NEW o \in Objects,
           pc[c] \in {"idle", "lookup"}, handle[c] = Null, life[o] = "live", ref[o] > 0,
           ref' = [ref EXCEPT ![o] = @ + 1],
           handle' = [handle EXCEPT ![c] = o],
           arg' = [arg EXCEPT ![c] = path[o]],
           pc' = [pc EXCEPT ![c] = "idle"],
           UNCHANGED <<objVars, lock, prover, next, ob, got>>,
           cache' \in Seq([key : Paths, obj : Objects]), Len(cache') = Len(cache),
           OnePerKey(cache'), Entries(cache') = Entries(cache)
    PROVE  IInv'
<1> USE SrsAssumption DEF IInv, objVars
<1>0. lock # c /\ got[c] = 0
  BY DEF CacheOK, ClientOK, TypeOK, Getters
<1>1. TypeOK' /\ ObjectOK'
  BY DEF TypeOK, ObjectOK
<1>2. ClientOK'
  BY <1>0 DEF ClientOK, TypeOK
<1>3. OwnerOK'
  BY DEF OwnerOK, OwnsAlone, NoneLeaks, MappingOK, ClientOK, TypeOK
<1>4. CacheOK'
  BY <1>0 DEF CacheOK, TypeOK
<1>5. RefsOK'
  <2>1. /\ Cardinality(Holders(o)') = Cardinality(Holders(o)) + 1
        /\ \A x \in Objects \ {o} : Holders(x)' = Holders(x)
    BY HoldersGain
  <2>2. \A x \in Objects : InCache(x)' = InCache(x) /\ InCache(x) \in Nat
    BY DEF InCache
  <2>3. (ref[o] = Cardinality(Holders(o)) + InCache(o))'
    BY <2>1, <2>2, HoldersFinite DEF RefsOK, TypeOK
  <2>4. \A x \in Objects \ {o} : (ref[x] = Cardinality(Holders(x)) + InCache(x))'
    BY <2>1, <2>2 DEF RefsOK, TypeOK
  <2>5. \A x \in Objects : (ref[x] = Cardinality(Holders(x)) + InCache(x))'
    BY <2>3, <2>4
  <2> QED BY <2>5 DEF RefsOK
<1> QED BY <1>1, <1>2, <1>3, <1>4, <1>5

(* The entry that was found is moved to the front: the list has the same entries. *)
LEMMA HitKeeps == ASSUME IInv, NEW c \in Clients, Hit(c) PROVE IInv'
<1>1. PICK i \in Hits(arg[c]) :
          /\ cache' = <<cache[i]>> \o Without(i)
          /\ ref' = [ref EXCEPT ![cache[i].obj] = @ + 1]
          /\ handle' = [handle EXCEPT ![c] = cache[i].obj]
  BY DEF Hit, Copy
<1>2. PICK e : e = cache[i]
  OBVIOUS
<1>3. i \in 1 .. Len(cache) /\ e.key = arg[c] /\ e \in Entries(cache)
  BY <1>2 DEF Hits, Entries
<1>4. e.obj \in Objects /\ e.key \in Paths /\ ref[e.obj] > 0 /\ life[e.obj] = "live"
      /\ path[e.obj] = e.key
  BY <1>3, CachedIsCounted DEF IInv, CacheOK
<1> DEFINE S == [key : Paths, obj : Objects]
<1> DEFINE t == Drop1(cache, i)
<1> HIDE DEF S, t
<1>5. cache \in Seq(S) /\ OnePerKey(cache) /\ e \in S
  <2>1. cache \in Seq(S) /\ OnePerKey(cache)
    BY DEF IInv, TypeOK, CacheOK, S
  <2> QED BY <2>1, <1>2, <1>3, ElementOfSeq
<1>6. /\ t \in Seq(S) /\ Len(t) = Len(cache) - 1 /\ OnePerKey(t)
      /\ Entries(t) = {x \in Entries(cache) : x.key # e.key}
  BY <1>2, <1>3, <1>5, DropEntry DEF t
<1>7. /\ <<e>> \o t \in Seq(S) /\ Len(<<e>> \o t) = Len(t) + 1 /\ OnePerKey(<<e>> \o t)
      /\ Entries(<<e>> \o t) = Entries(t) \cup {e}
  BY <1>5, <1>6, PushEntry
<1>8. cache' = <<e>> \o t
  BY <1>1, <1>2 DEF Without, Drop1, t
<1>9. \A x \in Entries(cache) : x.key = e.key => x = e
  <2> SUFFICES ASSUME NEW j \in 1 .. Len(cache), cache[j].key = e.key PROVE cache[j] = e
    BY DEF Entries
  <2> QED BY <1>2, <1>3, <1>5 DEF OnePerKey
<1>10. Entries(cache') = Entries(cache)
  BY <1>3, <1>6, <1>7, <1>8, <1>9
<1>11. cache' \in Seq(S) /\ Len(cache') = Len(cache) /\ OnePerKey(cache')
  BY <1>5, <1>6, <1>7, <1>8
<1>12. pc[c] = "lookup" /\ handle[c] = Null /\ arg' = [arg EXCEPT ![c] = path[e.obj]]
  BY <1>3, <1>4 DEF Hit, IInv, ClientOK, TypeOK
<1> QED
  <2> PICK o : o = e.obj
    OBVIOUS
  <2>1. /\ ref' = [ref EXCEPT ![o] = @ + 1]
        /\ handle' = [handle EXCEPT ![c] = o]
        /\ pc' = [pc EXCEPT ![c] = "idle"]
        /\ UNCHANGED <<objVars, lock, prover, next, ob, got>>
    BY <1>1, <1>2 DEF Hit, Goto
  <2> QED BY <1>4, <1>10, <1>11, <1>12, <2>1, GainKeeps DEF S

LEMMA CloneKeeps == ASSUME IInv, NEW c \in Clients, NEW d \in Clients, Clone(c, d) PROVE IInv'
<1> PICK o : o = handle[c]
  OBVIOUS
<1>1. o \in Objects /\ ref[o] > 0 /\ life[o] = "live" /\ arg[c] = path[o]
  BY HeldIsCounted DEF Clone, IInv, ClientOK
<1>2. /\ pc[d] = "idle" /\ handle[d] = Null /\ pc' = [pc EXCEPT ![d] = "idle"]
      /\ ref' = [ref EXCEPT ![o] = @ + 1]
      /\ handle' = [handle EXCEPT ![d] = o]
      /\ arg' = [arg EXCEPT ![d] = path[o]]
      /\ cache' = cache /\ UNCHANGED <<objVars, lock, prover, next, ob, got>>
  BY <1>1 DEF Clone, Copy, IInv, TypeOK
<1>3. cache \in Seq([key : Paths, obj : Objects]) /\ OnePerKey(cache)
  BY DEF IInv, TypeOK, CacheOK
<1> QED BY <1>1, <1>2, <1>3, GainKeeps

(* What ~SRS does to the states of the objects and of the client that is idle *)
(* or in lookup(), wherever the reference was.                                *)
LEMMA ReleaseOwner ==
    ASSUME IInv, NEW c \in Clients, NEW o \in Objects, NEW where \in {"idle", "make"},
           pc[c] \in {"idle", "lookup"}, life[o] = "live", ref[o] > 0,
           Release(c, o, where), UNCHANGED objVars,
           \A d \in Clients \ {c} : arg'[d] = arg[d]
    PROVE  /\ ref' \in [Objects -> Nat] /\ ref'[o] = ref[o] - 1
           /\ \A x \in Objects \ {o} : ref'[x] = ref[x]
           /\ pc' = [pc EXCEPT ![c] = IF ref[o] = 1 THEN "delete" ELSE where]
           /\ ob' = [ob EXCEPT ![c] = IF ref[o] = 1 THEN o ELSE @]
           /\ next' = [next EXCEPT ![c] = IF ref[o] = 1 THEN where ELSE @]
           /\ ob[c] = Null /\ next[c] = "idle" /\ got[c] = 0 /\ lock # c
           /\ ObjectOK' /\ OwnerOK'
<1> USE SrsAssumption DEF IInv, objVars
<1>1. ob[c] = Null /\ next[c] = "idle" /\ got[c] = 0 /\ lock # c
  BY DEF ClientOK, CacheOK, TypeOK, Getters
<1>2. /\ ref' \in [Objects -> Nat] /\ ref'[o] = ref[o] - 1
      /\ \A x \in Objects \ {o} : ref'[x] = ref[x]
  BY DEF Release, TypeOK
<1>3. /\ pc' = [pc EXCEPT ![c] = IF ref[o] = 1 THEN "delete" ELSE where]
      /\ ob' = [ob EXCEPT ![c] = IF ref[o] = 1 THEN o ELSE @]
      /\ next' = [next EXCEPT ![c] = IF ref[o] = 1 THEN where ELSE @]
  BY DEF Release, Goto, TypeOK
<1>4. ObjectOK'
  BY <1>2 DEF ObjectOK, TypeOK
<1>5. \A d \in Clients : ob[d] # o
  BY DEF OwnerOK, OwnsAlone
<1>6. OwnsAlone'
  <2> SUFFICES ASSUME NEW d \in Clients, ob'[d] # Null
               PROVE  (/\ ref[ob[d]] = 0
                       /\ pc[d] \in {"check", "barrier"} =>
                              life[ob[d]] = "making" /\ path[ob[d]] = arg[d]
                       /\ pc[d] = "check" => reader[ob[d]] = "none" /\ ob[d] \in mapped \ pinned
                       /\ pc[d] = "barrier" => reader[ob[d]] # "none" /\ ob[d] \in pinned
                       /\ pc[d] = "delete" => life[ob[d]] = "live"
                       /\ \A x \in Clients \ {d} : ob[x] # ob[d])'
    BY DEF OwnsAlone
  <2>1. CASE d = c
    <3>1. ref[o] = 1 /\ ob'[c] = o /\ pc'[c] = "delete"
      BY <2>1, <1>1, <1>3 DEF TypeOK
    <3> QED BY <2>1, <3>1, <1>2, <1>3, <1>5 DEF TypeOK
  <2>2. CASE d # c
    <3>1. ob'[d] = ob[d] /\ pc'[d] = pc[d] /\ ob[d] \in Objects \ {o}
      BY <2>2, <1>3, <1>5 DEF TypeOK
    <3>2. ref'[ob[d]] = ref[ob[d]]
      BY <3>1, <1>2
    <3>3. ob'[c] # ob[d]
      BY <2>2, <3>1, <1>1, <1>3 DEF TypeOK
    <3>4. \A x \in Clients \ {d} : ob'[x] # ob[d]
      BY <2>2, <3>1, <3>3, <1>3 DEF OwnerOK, OwnsAlone, TypeOK
    <3>5. UNCHANGED <<life, path, mapped, pinned, reader>> /\ arg'[d] = arg[d]
      BY <2>2
    <3> QED BY <3>1, <3>2, <3>4, <3>5 DEF OwnerOK, OwnsAlone
  <2> QED BY <2>1, <2>2
<1>7. NoneLeaks'
  <2> SUFFICES ASSUME NEW x \in Objects, life[x] # "free", ref'[x] = 0
               PROVE  \E d \in Clients : ob'[d] = x
    BY DEF NoneLeaks
  <2>1. CASE x = o
    BY <2>1, <1>2, <1>3 DEF TypeOK
  <2>2. CASE x # o
    <3>1. PICK d \in Clients : ob[d] = x
      BY <2>2, <1>2 DEF OwnerOK, NoneLeaks
    <3> QED BY <3>1, <1>1, <1>3 DEF TypeOK
  <2> QED BY <2>1, <2>2
<1>8. MappingOK'
  BY <1>1, <1>3 DEF OwnerOK, MappingOK, TypeOK
<1> QED BY <1>1, <1>2, <1>3, <1>4, <1>6, <1>7, <1>8 DEF OwnerOK

LEMMA DropKeeps == ASSUME IInv, NEW c \in Clients, Drop(c) PROVE IInv'
<1> USE SrsAssumption DEF IInv
<1>o. PICK o : o = handle[c]
  OBVIOUS
<1>0. /\ pc[c] = "idle" /\ handle[c] # Null /\ Release(c, o, "idle")
      /\ handle' = [handle EXCEPT ![c] = Null]
      /\ arg' = [arg EXCEPT ![c] = Null]
      /\ UNCHANGED objVars /\ UNCHANGED <<cache, lock, prover, got>>
  BY <1>o DEF Drop
<1>1. o \in Objects /\ ref[o] > 0 /\ life[o] = "live"
  BY <1>o, <1>0, HeldIsCounted
<1>2. /\ ref' \in [Objects -> Nat] /\ ref'[o] = ref[o] - 1
      /\ \A x \in Objects \ {o} : ref'[x] = ref[x]
      /\ pc' = [pc EXCEPT ![c] = IF ref[o] = 1 THEN "delete" ELSE "idle"]
      /\ ob' = [ob EXCEPT ![c] = IF ref[o] = 1 THEN o ELSE @]
      /\ next' = [next EXCEPT ![c] = IF ref[o] = 1 THEN "idle" ELSE @]
      /\ ob[c] = Null /\ next[c] = "idle" /\ got[c] = 0 /\ lock # c
      /\ ObjectOK' /\ OwnerOK'
  <2>1. \A d \in Clients \ {c} : arg'[d] = arg[d]
    BY <1>0 DEF TypeOK
  <2> QED BY <1>0, <1>1, <2>1, ReleaseOwner
<1>3. TypeOK'
  BY <1>0, <1>1, <1>2 DEF TypeOK, objVars
<1>4. ClientOK'
  BY <1>0, <1>1, <1>2 DEF ClientOK, TypeOK, objVars
<1>5. CacheOK'
  BY <1>0, <1>2 DEF CacheOK, TypeOK, objVars
<1>6. RefsOK'
  <2>1. /\ Cardinality(Holders(o)') = Cardinality(Holders(o)) - 1
        /\ \A x \in Objects \ {o} : Holders(x)' = Holders(x)
    BY <1>o, <1>0, HoldersLose DEF Holders
  <2>2. \A x \in Objects : InCache(x)' = InCache(x) /\ InCache(x) \in Nat
    BY <1>0 DEF InCache
  <2>3. (ref[o] = Cardinality(Holders(o)) + InCache(o))'
    BY <1>1, <1>2, <2>1, <2>2, HoldersFinite DEF RefsOK
  <2>4. \A x \in Objects \ {o} : (ref[x] = Cardinality(Holders(x)) + InCache(x))'
    BY <1>2, <2>1, <2>2 DEF RefsOK
  <2>5. \A x \in Objects : (ref[x] = Cardinality(Holders(x)) + InCache(x))'
    BY <2>3, <2>4
  <2> QED BY <2>5 DEF RefsOK
<1> QED BY <1>2, <1>3, <1>4, <1>5, <1>6

(* An entry leaves the cache, and its reference with it. *)
LEMMA EntryOut ==
    ASSUME IInv, NEW o \in Objects, NEW i \in 1 .. Len(cache), o = cache[i].obj,
           cache' = Without(i), handle' = handle,
           ref' \in [Objects -> Nat], ref'[o] = ref[o] - 1,
           \A x \in Objects \ {o} : ref'[x] = ref[x]
    PROVE  /\ cache' \in Seq([key : Paths, obj : Objects])
           /\ Len(cache') = Len(cache) - 1 /\ OnePerKey(cache')
           /\ \A e \in Entries(cache') : e \in Entries(cache)
           /\ RefsOK'
<1> DEFINE S == [key : Paths, obj : Objects]
<1>1. cache \in Seq(S) /\ OnePerKey(cache) /\ cache' = Drop1(cache, i)
  BY DEF IInv, TypeOK, CacheOK, Without, Drop1
<1>2. /\ cache' \in Seq(S) /\ Len(cache') = Len(cache) - 1 /\ OnePerKey(cache')
      /\ Entries(cache') = {e \in Entries(cache) : e.key # cache[i].key}
  <2> HIDE DEF S
  <2> QED BY <1>1, DropEntry
<1>3. cache[i] \in Entries(cache) /\ path[o] = cache[i].key
  BY DEF IInv, CacheOK, Entries
<1>4. \A e \in Entries(cache) : e.key = cache[i].key => e.obj = o
  <2> SUFFICES ASSUME NEW j \in 1 .. Len(cache), cache[j].key = cache[i].key
               PROVE  cache[j].obj = o
    BY DEF Entries
  <2> QED BY <1>1 DEF OnePerKey
<1>5. /\ InCache(o) = 1 /\ InCache(o)' = 0
      /\ \A x \in Objects \ {o} : InCache(x)' = InCache(x)
  <2>1. InCache(o) = 1
    BY <1>3 DEF InCache
  <2>2. \A e \in Entries(cache') : e.obj # o
    BY <1>2, <1>3 DEF IInv, CacheOK
  <2>3. \A x \in Objects \ {o} : (\E e \in Entries(cache') : e.obj = x)
                                   <=> (\E e \in Entries(cache) : e.obj = x)
    BY <1>2, <1>4
  <2> QED BY <2>1, <2>2, <2>3 DEF InCache
<1>6. \A x \in Objects : Holders(x)' = Holders(x)
  BY DEF Holders
<1>7. (ref[o] = Cardinality(Holders(o)) + InCache(o))'
  BY <1>5, <1>6, HoldersFinite DEF IInv, RefsOK
<1>8. \A x \in Objects \ {o} : (ref[x] = Cardinality(Holders(x)) + InCache(x))'
  BY <1>5, <1>6 DEF IInv, RefsOK
<1>9. \A x \in Objects : (ref[x] = Cardinality(Holders(x)) + InCache(x))'
  BY <1>7, <1>8
<1>10. RefsOK'
  BY <1>9 DEF RefsOK
<1> QED BY <1>2, <1>10

LEMMA EvictKeeps == ASSUME IInv, NEW c \in Clients, Evict(c) PROVE IInv'
<1> USE SrsAssumption DEF IInv
<1>0. PICK i \in 1 .. Len(cache) :
        /\ pc[c] = "idle" /\ handle[c] # Null /\ lock = Null
        /\ cache' = Without(i)
        /\ Release(c, cache[i].obj, "idle")
        /\ lock' = IF ref[cache[i].obj] = 1 THEN c ELSE Null
        /\ UNCHANGED objVars /\ UNCHANGED <<prover, handle, arg, got>>
  BY DEF Evict, Hits
<1>o. PICK o : o = cache[i].obj
  OBVIOUS
<1>1. o \in Objects /\ ref[o] > 0 /\ life[o] = "live"
  BY <1>o, CachedIsCounted DEF Entries
<1>2. /\ ref' \in [Objects -> Nat] /\ ref'[o] = ref[o] - 1
      /\ \A x \in Objects \ {o} : ref'[x] = ref[x]
      /\ pc' = [pc EXCEPT ![c] = IF ref[o] = 1 THEN "delete" ELSE "idle"]
      /\ ob' = [ob EXCEPT ![c] = IF ref[o] = 1 THEN o ELSE @]
      /\ next' = [next EXCEPT ![c] = IF ref[o] = 1 THEN "idle" ELSE @]
      /\ ob[c] = Null /\ next[c] = "idle" /\ got[c] = 0 /\ lock # c
      /\ ObjectOK' /\ OwnerOK'
  BY <1>o, <1>0, <1>1, ReleaseOwner
<1>3. /\ cache' \in Seq([key : Paths, obj : Objects])
      /\ Len(cache') = Len(cache) - 1 /\ OnePerKey(cache')
      /\ \A e \in Entries(cache') : e \in Entries(cache)
      /\ RefsOK'
  BY <1>o, <1>0, <1>1, <1>2, EntryOut
<1>4. lock' = IF ref[o] = 1 THEN c ELSE Null
  BY <1>o, <1>0
<1>5. TypeOK'
  BY <1>0, <1>1, <1>2, <1>3, <1>4 DEF TypeOK, objVars
<1>6. ClientOK'
  <2>1. CASE ref[o] = 1
    <3>1. /\ pc' = [pc EXCEPT ![c] = "delete"] /\ ob' = [ob EXCEPT ![c] = o]
          /\ next' = next /\ lock' = c /\ o # Null
      BY <2>1, <1>1, <1>2, <1>4 DEF TypeOK
    <3>2. \A d \in Clients : next[d] = "idle"
      BY <1>0 DEF ClientOK, TypeOK
    <3>3. \A d \in Clients \ {c} : pc[d] = "delete" => handle[d] = Null
      BY <1>0 DEF ClientOK, TypeOK
    <3>4. handle[c] # Null /\ arg[c] = path[handle[c]]
      BY <1>0 DEF ClientOK
    <3>5. UNCHANGED <<handle, arg, path, reader, got>>
      BY <1>0 DEF objVars
    <3>6. /\ pc'[c] = "delete" /\ ob'[c] # Null /\ got[c] = 0
          /\ \A d \in Clients \ {c} : pc'[d] = pc[d] /\ ob'[d] = ob[d]
      BY <3>1, <1>2 DEF TypeOK
    <3>7. lock' = c /\ next' = next
      BY <3>1
    <3> HIDE DEF IInv
    <3>8. ClientOK
      BY DEF IInv
    <3> QED BY <3>2, <3>3, <3>4, <3>5, <3>6, <3>7, <3>8 DEF ClientOK
  <2>2. CASE ref[o] # 1
    <3>1. pc' = pc /\ ob' = ob /\ next' = next /\ lock' = Null
      BY <2>2, <1>0, <1>2, <1>4 DEF TypeOK
    <3> QED BY <3>1, <1>0 DEF ClientOK, TypeOK, objVars
  <2> QED BY <2>1, <2>2
<1>7. CacheOK'
  <2>1. Len(cache) \in Nat /\ Len(cache) <= Spare + 1 /\ path' = path
    BY <1>0 DEF CacheOK, TypeOK, objVars
  <2>2. \A d \in Clients : lock' = d => d = c /\ pc'[c] = "delete" /\ next'[c] = "idle"
    BY <1>0, <1>2, <1>4 DEF TypeOK
  <2> QED BY <1>3, <2>1, <2>2 DEF CacheOK
<1> QED BY <1>2, <1>3, <1>5, <1>6, <1>7

(* A lookup that finds nothing keeps the mutex and makes room. *)
LEMMA MissKeeps == ASSUME IInv, NEW c \in Clients, Miss(c) PROVE IInv'
<1> USE SrsAssumption DEF IInv
<1>0. /\ pc[c] = "lookup" /\ lock = Null /\ lock' = c
      /\ UNCHANGED objVars /\ UNCHANGED <<prover, handle, arg, got>>
  BY DEF Miss
<1>1. \A e \in Entries(cache) : e.key # arg[c]
  BY DEF Miss, Hits, Entries
<1>2. handle[c] = Null /\ arg[c] \in Paths /\ Len(cache) \in Nat
  BY <1>0 DEF ClientOK, TypeOK
<1>3. CASE Full
  <2>i. PICK i : i = Len(cache)
    OBVIOUS
  <2>0. i \in 1 .. Len(cache) /\ cache' = Without(i) /\ Release(c, cache[i].obj, "make")
    BY <1>2, <1>3, <2>i DEF Miss, Full
  <2>o. PICK o : o = cache[i].obj
    OBVIOUS
  <2>1. o \in Objects /\ ref[o] > 0 /\ life[o] = "live"
    BY <2>0, <2>o, CachedIsCounted DEF Entries
  <2>2. /\ ref' \in [Objects -> Nat] /\ ref'[o] = ref[o] - 1
        /\ \A x \in Objects \ {o} : ref'[x] = ref[x]
        /\ pc' = [pc EXCEPT ![c] = IF ref[o] = 1 THEN "delete" ELSE "make"]
        /\ ob' = [ob EXCEPT ![c] = IF ref[o] = 1 THEN o ELSE @]
        /\ next' = [next EXCEPT ![c] = IF ref[o] = 1 THEN "make" ELSE @]
        /\ ob[c] = Null /\ next[c] = "idle" /\ got[c] = 0 /\ lock # c
        /\ ObjectOK' /\ OwnerOK'
    BY <2>o, <1>0, <2>0, <2>1, ReleaseOwner
  <2>3. /\ cache' \in Seq([key : Paths, obj : Objects])
        /\ Len(cache') = Len(cache) - 1 /\ OnePerKey(cache')
        /\ \A e \in Entries(cache') : e \in Entries(cache)
        /\ RefsOK'
    BY <2>o, <1>0, <2>0, <2>1, <2>2, EntryOut
  <2>4. TypeOK'
    BY <1>0, <2>1, <2>2, <2>3 DEF TypeOK, objVars
  <2>5. ClientOK'
    BY <1>0, <1>2, <2>1, <2>2 DEF ClientOK, TypeOK, objVars
  <2>6. CacheOK'
    <3>1. Len(cache) <= Spare + 1 /\ path' = path /\ arg' = arg
      BY <1>0 DEF CacheOK, objVars
    <3>2. pc'[c] \in {"delete", "make"}
      BY <2>2 DEF TypeOK
    <3> QED BY <1>0, <1>1, <1>2, <2>3, <3>1, <3>2 DEF CacheOK
  <2> QED BY <2>2, <2>3, <2>4, <2>5, <2>6
<1>4. CASE ~Full
  <2>0. pc' = [pc EXCEPT ![c] = "make"] /\ UNCHANGED <<cache, ref, ob, next>>
    BY <1>4 DEF Miss, Goto
  <2>1. TypeOK' /\ ObjectOK'
    BY <1>0, <2>0 DEF TypeOK, ObjectOK, objVars
  <2>2. ClientOK'
    BY <1>0, <1>2, <2>0 DEF ClientOK, TypeOK, objVars
  <2>3. OwnerOK'
    BY <1>0, <2>0 DEF OwnerOK, OwnsAlone, NoneLeaks, MappingOK, ClientOK, TypeOK, objVars
  <2>4. CacheOK'
    BY <1>0, <1>1, <1>2, <1>4, <2>0 DEF CacheOK, TypeOK, objVars, Full
  <2>5. RefsOK'
    BY <1>0, <2>0, RefsStay
  <2> QED BY <2>1, <2>2, <2>3, <2>4, <2>5
<1> QED BY <1>3, <1>4

-----------------------------------------------------------------------------
(* The invariant, and what follows from it *)

LEMMA InitIInv == Init => IInv
<1> SUFFICES ASSUME Init PROVE IInv
  OBVIOUS
<1> USE SrsAssumption DEF Init
<1>0. Len(cache) = 0 /\ Entries(cache) = {}
  BY DEF Entries
<1>1. TypeOK
  BY DEF TypeOK, Getters
<1>2. ClientOK /\ ObjectOK
  BY DEF ClientOK, ObjectOK
<1>3. OwnerOK
  BY DEF OwnerOK, OwnsAlone, NoneLeaks, MappingOK
<1>4. CacheOK
  BY <1>0 DEF CacheOK, OnePerKey
<1>5. RefsOK
  <2> SUFFICES ASSUME NEW o \in Objects PROVE Cardinality(Holders(o)) + InCache(o) = 0
    BY DEF RefsOK
  <2>1. Holders(o) = {}
    BY DEF Holders
  <2>2. InCache(o) = 0
    BY <1>0 DEF InCache
  <2> QED BY <2>1, <2>2, FS_EmptySet
<1> QED BY <1>1, <1>2, <1>3, <1>4, <1>5 DEF IInv

LEMMA NextIInv == IInv /\ [Next]_vars => IInv'
<1> SUFFICES ASSUME IInv, [Next]_vars PROVE IInv'
  OBVIOUS
<1>1. CASE UNCHANGED vars
  <2> USE <1>1 DEF vars, objVars, clientVars, IInv
  <2>1. TypeOK' /\ ClientOK' /\ ObjectOK'
    BY DEF TypeOK, ClientOK, ObjectOK
  <2>2. OwnerOK' /\ CacheOK'
    BY DEF OwnerOK, OwnsAlone, NoneLeaks, MappingOK, CacheOK
  <2> QED BY <2>1, <2>2, RefsStay
<1>2. CASE \E o \in Objects : Read(o)
  BY <1>2, ReadKeeps
<1>3. ASSUME NEW c \in Clients, Work(c) PROVE IInv'
  BY <1>3, MapKeeps, MapFailsKeeps, SpawnKeeps, CheckFailsKeeps, MadeKeeps, DeleteKeeps DEF Work
<1> QED BY <1>1, <1>2, <1>3, TryNewKeeps, HitKeeps, MissKeeps, CloneKeeps, DropKeeps,
           EvictKeeps, ProveKeeps DEF Next

(* The invariant holds in every reachable state. *)
THEOREM IInvAlways == Spec => []IInv
BY InitIInv, NextIInv, PTL DEF Spec

(* The cache is right, for every number of entries that it may keep: never *)
(* more than Spare + 1, one for a file, each for its own file; and every    *)
(* variable has its type.                                                   *)
THEOREM CacheIsRightAlways == Spec => []CacheIsRight
<1>1. IInv => CacheIsRight
  <2> SUFFICES ASSUME IInv PROVE CacheIsRight
    OBVIOUS
  <2>1. \A i \in 1 .. Len(cache) : path[cache[i].obj] = cache[i].key
    BY DEF IInv, CacheOK, Entries
  <2> QED BY <2>1 DEF CacheIsRight, IInv, CacheOK, OnePerKey
<1> QED BY <1>1, IInvAlways, PTL

(* ref_cnt is the number of references, for any number of threads that copy, *)
(* drop and evict: an object is freed only when nobody refers to it.          *)
THEOREM RefsCountHoldersAlways == Spec => []RefsCountHolders
<1>1. IInv => RefsCountHolders
  BY CachedCount DEF IInv, RefsCountHolders, RefsOK, ObjectOK
<1> QED BY <1>1, IInvAlways, PTL

(* Every object has one owner: one client constructs or deletes it, none    *)
(* without references is forgotten, and whatever step of a constructor      *)
(* fails, no mapping and no pinned memory is left over.                     *)
THEOREM OneOwnerAlways == Spec => []OneOwner
<1>1. IInv => OneOwner
  <2> SUFFICES ASSUME IInv PROVE OneOwner
    OBVIOUS
  <2>1. \A c \in Clients : ob[c] # Null => life[ob[c]] # "free"
    BY DEF IInv, OwnerOK, OwnsAlone, ClientOK
  <2>2. pinned \subseteq {o \in Objects : life[o] # "free"}
    BY DEF IInv, ObjectOK, TypeOK
  <2> QED BY <2>1, <2>2 DEF IInv, OwnerOK, OwnsAlone, NoneLeaks, MappingOK, OneOwner
<1> QED BY <1>1, IInvAlways, PTL

(* A proof uses points that are all loaded, in memory that is allocated and *)
(* of the file it asked for, though constructors return before their reader *)
(* is done; and a reader never writes to memory that is freed.              *)
THEOREM PointsAreLoadedAlways == Spec => []PointsAreLoaded
<1>1. IInv => PointsAreLoaded
  <2> SUFFICES ASSUME IInv PROVE PointsAreLoaded
    OBVIOUS
  <2>1. \A o \in Objects : reader[o] \in {"spawned", "reading"} =>
            o \in pinned /\ o \in mapped /\ life[o] # "free"
    BY DEF IInv, ObjectOK
  <2>2. ASSUME NEW c \in Clients, pc[c] = "use"
        PROVE  /\ loaded[handle[c]] = Arrays
               /\ handle[c] \in pinned /\ path[handle[c]] = arg[c]
    <3>1. handle[c] # Null /\ reader[handle[c]] = "done" /\ arg[c] = path[handle[c]]
      BY <2>2 DEF IInv, ClientOK
    <3>2. handle[c] \in Objects /\ life[handle[c]] = "live"
      BY <3>1, HeldIsCounted
    <3> QED BY <3>1, <3>2 DEF IInv, ObjectOK
  <2> QED BY <2>1, <2>2 DEF PointsAreLoaded
<1> QED BY <1>1, IInvAlways, PTL
=============================================================================
