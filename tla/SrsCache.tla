------------------------------ MODULE SrsCache ------------------------------
(***************************************************************************)
(* The SRS of the C2 prover (c2/cuda/groth16_srs.cuh, c2/src/lib.rs): an   *)
(* object with the points of one parameter file, counted references to it, *)
(* and the process-wide cache of the objects used last.                    *)
(*                                                                         *)
(* The constructor maps the file, checks its layout, allocates pinned      *)
(* memory and leaves the reading of the points to a thread that holds the  *)
(* object's mutex until it is done; it returns once that thread has the    *)
(* mutex.  Every getter takes the mutex, so a getter waits for the points. *)
(* Whoever drops the last reference deletes the object: it joins the       *)
(* thread and frees the memory, possibly with the cache's mutex in hand.   *)
(*                                                                         *)
(* A client is a thread of the Rust program that has at most one SRS.  It  *)
(* does one thing at a time with it, as the borrow checker demands; clones *)
(* go to other clients.  Objects are reused like memory: there are enough  *)
(* of them for all that can be alive at a time.                            *)
(*                                                                         *)
(* A definition whose name has a suffix after _ is the one that follows it *)
(* with a plausible mistake in it: a property must notice its use.         *)
(***************************************************************************)
EXTENDS Integers, Sequences, FiniteSets

CONSTANTS Clients,   \* threads of the Rust program
          Paths,     \* parameter files
          Objects,   \* addresses of inner
          Spare,     \* the 3 of list.size() > 3
          Arrays,    \* the number of arrays of points: h, l, a, b_g1 and b_g2
          Null

ASSUME SrsAssumption ==
    /\ Spare \in Nat /\ Arrays \in Nat
    /\ Null \notin Clients \cup Objects
    /\ IsFiniteSet(Objects) /\ IsFiniteSet(Clients)
    /\ Cardinality(Objects) > Spare + Cardinality(Clients)

Getters == Arrays + 1   \* a proof gets the verifying key and the arrays

VARIABLES
    life,     \* object -> "free", "making" (in its constructor) or "live"
    path,     \* object -> its file
    ref,      \* object -> ref_cnt
    mapped,   \* the objects whose file is mapped
    pinned,   \* the objects with pinned memory
    reader,   \* object -> read_th: "none", "spawned", "reading" (has the mutex), "done"
    loaded,   \* object -> arrays read
    cache,    \* SRS_cache::list, the most recently used first
    lock,     \* who has SRS_cache::mtx
    prover,   \* who has the mutex of generate_groth16_proofs_c
    pc,       \* client -> what it is doing
    next,     \* client -> what it does after a deletion
    handle,   \* client -> its SRS
    arg,      \* client -> the file it asked for
    ob,       \* client -> the object it constructs or deletes
    got       \* client -> getters called by its proof

objVars    == <<life, path, mapped, pinned, reader, loaded>>
clientVars == <<next, handle, arg, ob, got>>
vars == <<objVars, ref, cache, lock, prover, pc, clientVars>>

Init ==
    /\ life = [o \in Objects |-> "free"]
    /\ path = [o \in Objects |-> Null]
    /\ ref = [o \in Objects |-> 0]
    /\ mapped = {} /\ pinned = {}
    /\ reader = [o \in Objects |-> "none"]
    /\ loaded = [o \in Objects |-> 0]
    /\ cache = <<>> /\ lock = Null /\ prover = Null
    /\ pc = [c \in Clients |-> "idle"]
    /\ next = [c \in Clients |-> "idle"]
    /\ handle = [c \in Clients |-> Null]
    /\ arg = [c \in Clients |-> Null]
    /\ ob = [c \in Clients |-> Null]
    /\ got = [c \in Clients |-> 0]

Goto(c, where) == pc' = [pc EXCEPT ![c] = where]

(* The cache's mutex is released, if c has it, on every way out of lookup. *)
Unlock(c) == lock' = IF lock = c THEN Null ELSE lock

(* The copy constructor and operator by_value count one more reference. *)
Copy_NoCount(o) == ref' = ref
Copy(o) == ref' = [ref EXCEPT ![o] = @ + 1]

(* ~SRS: whoever takes the count from 1 to 0 goes on to delete the object. *)
Release_Late(c, o, where) ==
    /\ ref' = [ref EXCEPT ![o] = @ - 1]
    /\ Goto(c, where)
    /\ UNCHANGED <<ob, next>>
Release(c, o, where) ==
    /\ ref' = [ref EXCEPT ![o] = @ - 1]
    /\ IF ref[o] = 1
         THEN /\ Goto(c, "delete")
              /\ ob' = [ob EXCEPT ![c] = o]
              /\ next' = [next EXCEPT ![c] = where]
         ELSE /\ Goto(c, where)
              /\ UNCHANGED <<ob, next>>

-----------------------------------------------------------------------------
(* create_SRS *)

(* SRS::try_new, with cache or without. *)
TryNew(c, p) ==
    /\ pc[c] = "idle" /\ handle[c] = Null
    /\ arg' = [arg EXCEPT ![c] = p]
    /\ pc' \in {[pc EXCEPT ![c] = where] : where \in {"lookup", "make"}}
    /\ UNCHANGED <<objVars, ref, cache, lock, prover, next, handle, ob, got>>

Hits(p) == {i \in 1 .. Len(cache) : cache[i].key = p}
Without(i) == SubSeq(cache, 1, i - 1) \o SubSeq(cache, i + 1, Len(cache))

(* lookup() finds the key: the entry moves to the front and is copied. *)
Hit(c) ==
    /\ pc[c] = "lookup" /\ lock = Null
    /\ \E i \in Hits(arg[c]) :
         /\ cache' = <<cache[i]>> \o Without(i)
         /\ Copy(cache[i].obj)
         /\ handle' = [handle EXCEPT ![c] = cache[i].obj]
    /\ Goto(c, "idle")
    /\ UNCHANGED <<objVars, lock, prover, next, arg, ob, got>>

(* lookup() does not find it: it keeps the mutex, and drops the least      *)
(* recently used entry of a full cache before it constructs the new one.   *)
Full_OffByOne == Len(cache) > Spare + 1
Full == Len(cache) > Spare

Miss(c) ==
    /\ pc[c] = "lookup" /\ lock = Null /\ Hits(arg[c]) = {}
    /\ lock' = c
    /\ IF Full
         THEN /\ cache' = Without(Len(cache))
              /\ Release(c, cache[Len(cache)].obj, "make")
         ELSE /\ Goto(c, "make")
              /\ UNCHANGED <<cache, ref, ob, next>>
    /\ UNCHANGED <<objVars, prover, handle, arg, got>>

(* new inner, up to the mapping of the file. *)
Map(c) ==
    /\ pc[c] = "make"
    /\ LET o == CHOOSE x \in Objects : life[x] = "free"
       IN /\ life' = [life EXCEPT ![o] = "making"]
          /\ path' = [path EXCEPT ![o] = arg[c]]
          /\ mapped' = mapped \cup {o}
          /\ ob' = [ob EXCEPT ![c] = o]
    /\ Goto(c, "check")
    /\ UNCHANGED <<ref, pinned, reader, loaded, cache, lock, prover, next, handle, arg, got>>

(* There is no GPU, or the file cannot be opened or mapped: the exception  *)
(* leaves before anything is acquired.                                     *)
MapFails(c) ==
    /\ pc[c] = "make"
    /\ Goto(c, "idle") /\ Unlock(c)
    /\ arg' = [arg EXCEPT ![c] = Null]
    /\ UNCHANGED <<objVars, ref, cache, prover, next, handle, ob, got>>

(* The sizes agree with the file's: pinned memory is allocated, and the    *)
(* thread that reads the points is started.                                *)
Spawn(c) ==
    /\ pc[c] = "check"
    /\ pinned' = pinned \cup {ob[c]}
    /\ reader' = [reader EXCEPT ![ob[c]] = "spawned"]
    /\ Goto(c, "barrier")
    /\ UNCHANGED <<life, path, mapped, loaded, ref, cache, lock, prover, clientVars>>

(* The layout does not match, or there is no memory: the file is unmapped  *)
(* and inner is freed with the exception.                                  *)
Unmapped(o) == mapped \ {o}

CheckFails(c) ==
    /\ pc[c] = "check"
    /\ mapped' = Unmapped(ob[c])
    /\ life' = [life EXCEPT ![ob[c]] = "free"]
    /\ path' = [path EXCEPT ![ob[c]] = Null]
    /\ ob' = [ob EXCEPT ![c] = Null]
    /\ arg' = [arg EXCEPT ![c] = Null]
    /\ Goto(c, "idle") /\ Unlock(c)
    /\ UNCHANGED <<pinned, reader, loaded, ref, cache, prover, next, handle, got>>

(* barrier.wait(): the reader has the mutex of the object. *)
BarrierOpen_Always(o) == TRUE
BarrierOpen(o) == reader[o] # "spawned"

(* The constructor returns.  A cached SRS goes to the front of the list,   *)
(* which counts one reference besides the one returned; the temporaries of *)
(* make_pair are copied and destroyed meanwhile, unseen by anyone else.    *)
Made(c) ==
    /\ pc[c] = "barrier" /\ BarrierOpen(ob[c])
    /\ life' = [life EXCEPT ![ob[c]] = "live"]
    /\ IF lock = c
         THEN /\ cache' = <<[key |-> arg[c], obj |-> ob[c]]>> \o cache
              /\ ref' = [ref EXCEPT ![ob[c]] = 2]
         ELSE /\ ref' = [ref EXCEPT ![ob[c]] = 1]
              /\ UNCHANGED cache
    /\ handle' = [handle EXCEPT ![c] = ob[c]]
    /\ ob' = [ob EXCEPT ![c] = Null]
    /\ Goto(c, "idle") /\ Unlock(c)
    /\ UNCHANGED <<path, mapped, pinned, reader, loaded, prover, next, arg, got>>

-----------------------------------------------------------------------------
(* read_th of an object *)

(* It takes the object's mutex and lets the constructor go on. *)
Reader_Start(o) ==
    /\ reader[o] = "spawned"
    /\ reader' = [reader EXCEPT ![o] = "reading"]
    /\ UNCHANGED <<life, path, mapped, pinned, loaded, ref, cache, lock, prover, pc, clientVars>>

Reader_Points_Again(o) ==
    /\ reader[o] = "reading"
    /\ loaded' = [loaded EXCEPT ![o] = IF @ = Arrays THEN 0 ELSE @ + 1]
    /\ UNCHANGED <<life, path, mapped, pinned, reader, ref, cache, lock, prover, pc, clientVars>>
Reader_Points(o) ==
    /\ reader[o] = "reading" /\ loaded[o] < Arrays
    /\ loaded' = [loaded EXCEPT ![o] = @ + 1]
    /\ UNCHANGED <<life, path, mapped, pinned, reader, ref, cache, lock, prover, pc, clientVars>>

Reader_End(o) ==
    /\ reader[o] = "reading" /\ loaded[o] = Arrays
    /\ mapped' = Unmapped(o)
    /\ reader' = [reader EXCEPT ![o] = "done"]
    /\ UNCHANGED <<life, path, pinned, loaded, ref, cache, lock, prover, pc, clientVars>>

-----------------------------------------------------------------------------
(* What a client does with its SRS *)

(* clone_SRS; the clone is sent to another client. *)
Clone(c, d) ==
    /\ pc[c] = "idle" /\ handle[c] # Null
    /\ pc[d] = "idle" /\ handle[d] = Null
    /\ Copy(handle[c])
    /\ handle' = [handle EXCEPT ![d] = handle[c]]
    /\ arg' = [arg EXCEPT ![d] = arg[c]]
    /\ UNCHANGED <<objVars, cache, lock, prover, pc, next, ob, got>>

(* drop_SRS *)
Drop(c) ==
    /\ pc[c] = "idle" /\ handle[c] # Null
    /\ Release(c, handle[c], "idle")
    /\ handle' = [handle EXCEPT ![c] = Null]
    /\ arg' = [arg EXCEPT ![c] = Null]
    /\ UNCHANGED <<objVars, cache, lock, prover, got>>

(* evict_SRS: the entry with the path of the client's SRS is removed; the  *)
(* entry may be of another object than the client's, one that nobody else  *)
(* refers to.  The mutex is held until a deletion is through.              *)
Evict(c) ==
    /\ pc[c] = "idle" /\ handle[c] # Null /\ lock = Null
    /\ \E i \in Hits(path[handle[c]]) :
         /\ cache' = Without(i)
         /\ Release(c, cache[i].obj, "idle")
         /\ lock' = IF ref[cache[i].obj] = 1 THEN c ELSE Null
    /\ UNCHANGED <<objVars, prover, handle, arg, got>>

(* ~SRS_internal, at the end of ~SRS: join the reader and free the memory. *)
Joined(o) == reader[o] \in {"none", "done"}

Delete(c) ==
    /\ pc[c] = "delete" /\ Joined(ob[c])
    /\ life' = [life EXCEPT ![ob[c]] = "free"]
    /\ path' = [path EXCEPT ![ob[c]] = Null]
    /\ pinned' = pinned \ {ob[c]}
    /\ reader' = [reader EXCEPT ![ob[c]] = "none"]
    /\ loaded' = [loaded EXCEPT ![ob[c]] = 0]
    /\ ob' = [ob EXCEPT ![c] = Null]
    /\ Goto(c, next[c])
    /\ next' = [next EXCEPT ![c] = "idle"]
    /\ IF next[c] = "idle" THEN Unlock(c) ELSE UNCHANGED lock
    /\ UNCHANGED <<mapped, ref, cache, prover, handle, arg, got>>

(* generate_groth16_proofs_c: one call at a time gets the verifying key    *)
(* and the slices, each under the object's mutex, and then uses them       *)
(* without it.                                                             *)
Prove(c) ==
    /\ pc[c] = "idle" /\ handle[c] # Null /\ prover = Null
    /\ prover' = c
    /\ Goto(c, "get")
    /\ UNCHANGED <<objVars, ref, cache, lock, clientVars>>

Get(c) ==
    /\ pc[c] = "get" /\ got[c] < Getters
    /\ reader[handle[c]] # "reading"
    /\ got' = [got EXCEPT ![c] = @ + 1]
    /\ UNCHANGED <<objVars, ref, cache, lock, prover, pc, next, handle, arg, ob>>

Use(c) ==
    /\ pc[c] = "get" /\ got[c] = Getters
    /\ got' = [got EXCEPT ![c] = 0]
    /\ Goto(c, "use")
    /\ UNCHANGED <<objVars, ref, cache, lock, prover, next, handle, arg, ob>>

Proved(c) ==
    /\ pc[c] = "use"
    /\ prover' = Null
    /\ Goto(c, "idle")
    /\ UNCHANGED <<objVars, ref, cache, lock, clientVars>>

-----------------------------------------------------------------------------
(* What the construction and deletion of an object consist of. *)
Work(c) == Map(c) \/ MapFails(c) \/ Spawn(c) \/ CheckFails(c) \/ Made(c) \/ Delete(c)
Read(o) == Reader_Start(o) \/ Reader_Points(o) \/ Reader_End(o)

Next ==
    \/ \E c \in Clients : \/ \E p \in Paths : TryNew(c, p)
                          \/ Hit(c) \/ Miss(c) \/ Work(c)
                          \/ \E d \in Clients : Clone(c, d)
                          \/ Drop(c) \/ Evict(c)
                          \/ Prove(c) \/ Get(c) \/ Use(c) \/ Proved(c)
    \/ \E o \in Objects : Read(o)

Spec == Init /\ [][Next]_vars

(* A thread inside the library runs; nobody need ask for anything.  The    *)
(* wait for a mutex may be unfair.                                         *)
FairSpec ==
    /\ Spec
    /\ \A c \in Clients : WF_vars(Work(c)) /\ WF_vars(Get(c)) /\ WF_vars(Use(c))
    /\ \A o \in Objects : WF_vars(Read(o))

-----------------------------------------------------------------------------
(* Properties *)

(* The variables of the references, of the cache and of every object in    *)
(* any phase have their types.                                             *)
TypeOK ==
    /\ life \in [Objects -> {"free", "making", "live"}]
    /\ path \in [Objects -> Paths \cup {Null}]
    /\ ref \in [Objects -> Nat]
    /\ mapped \subseteq Objects /\ pinned \subseteq Objects
    /\ reader \in [Objects -> {"none", "spawned", "reading", "done"}]
    /\ loaded \in [Objects -> 0 .. Arrays]
    /\ cache \in Seq([key : Paths, obj : Objects])
    /\ {lock, prover} \subseteq Clients \cup {Null}
    /\ pc \in [Clients -> {"idle", "lookup", "make", "check", "barrier",
                           "delete", "get", "use"}]
    /\ next \in [Clients -> {"idle", "make"}]
    /\ handle \in [Clients -> Objects \cup {Null}]
    /\ arg \in [Clients -> Paths \cup {Null}]
    /\ ob \in [Clients -> Objects \cup {Null}]
    /\ got \in [Clients -> 0 .. Getters]

(* Who refers to an object: the clients that have it and the cache. *)
Holders(o) == {c \in Clients : handle[c] = o}
Cached(o)  == {i \in 1 .. Len(cache) : cache[i].obj = o}

(* ref_cnt, which copies, drops, evictions and a full cache change from    *)
(* different threads, is the number of references to a live object, and    *)
(* there are none to an object that is being made or is freed: nothing is  *)
(* used after it was freed.                                                *)
RefsCountHolders ==
    \A o \in Objects :
        /\ ref[o] = Cardinality(Holders(o)) + Cardinality(Cached(o))
        /\ ref[o] > 0 => life[o] = "live"

(* Every object has one owner at a time.  At most one client constructs or  *)
(* deletes it, and then nobody refers to it; one that nobody refers to is   *)
(* with the client that dropped the last reference, so that none leaks;     *)
(* and, whatever step of a constructor fails, no mapping and no pinned      *)
(* memory is left without an owner.                                         *)
OneOwner ==
    /\ \A c \in Clients : ob[c] # Null =>
           /\ ref[ob[c]] = 0 /\ life[ob[c]] # "free"
           /\ \A d \in Clients \ {c} : ob[d] # ob[c]
    /\ \A o \in Objects : life[o] # "free" /\ ref[o] = 0 => \E c \in Clients : ob[c] = o
    /\ \A o \in mapped : \/ reader[o] \in {"spawned", "reading"}
                         \/ \E c \in Clients : pc[c] = "check" /\ ob[c] = o
    /\ pinned \subseteq {o \in Objects : life[o] # "free"}

(* The thread that reads the points writes to memory that is allocated,    *)
(* and what a proof uses is all of the points of the file it asked for,    *)
(* although the SRS was handed out before any of them was read.            *)
PointsAreLoaded ==
    /\ \A o \in Objects : reader[o] \in {"spawned", "reading"} =>
           o \in pinned /\ o \in mapped /\ life[o] # "free"
    /\ \A c \in Clients : pc[c] = "use" =>
           /\ loaded[handle[c]] = Arrays
           /\ handle[c] \in pinned /\ path[handle[c]] = arg[c]

(* The cache has at most Spare + 1 entries (four), one for a file, each    *)
(* for its own file; all variables have their types.                       *)
CacheIsRight ==
    /\ TypeOK
    /\ Len(cache) <= Spare + 1
    /\ \A i, j \in 1 .. Len(cache) : cache[i].key = cache[j].key => i = j
    /\ \A i \in 1 .. Len(cache) : path[cache[i].obj] = cache[i].key

(* A lookup or an eviction that has the cache's mutex gives it back, though *)
(* it joins the reader of an entry it drops and waits for the reader of the *)
(* object it constructs; and a deletion, under the mutex or not, ends.      *)
CacheIsReleased ==
    \A c \in Clients : (lock = c \/ pc[c] = "delete") ~> (lock # c /\ pc[c] # "delete")
=============================================================================
