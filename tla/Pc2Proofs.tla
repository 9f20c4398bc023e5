------------------------------ MODULE Pc2Proofs ------------------------------
(*****************************************************************************)
(* The batcher of PC2, for every number of streams, buffers, bundles and      *)
(* writers: a callback always finds a place for its buffer, although          *)
(* pc2_batcher_t::size is asked before a stream starts and says nothing of    *)
(* the buffers that the other streams hold; the flush of a partition finds    *)
(* both bundles used alike, and the next partition both pools filled.         *)
(*                                                                            *)
(* The invariant counts.  Every buffer taken from a full bundle makes room    *)
(* for itself sooner or later: the bundle it leaves becomes an empty one.     *)
(* So the places in empty bundles, plus the buffers taken from the bundle at  *)
(* hand, are those of the empty bundles at the start plus the buffers that    *)
(* are out (DiskOK), a buffer being out as long as its stream or its callback *)
(* has it (Out, StreamsOK), which only a resource that waits can own          *)
(* (MainOK).  Bundles are neither lost nor doubled (WritersOK), and those     *)
(* full or on their way to the disk have a buffer in every place (GoodDisk).  *)
(*                                                                            *)
(* Nor are buffers, or bundles, at two places.  Every bundle is at one spot   *)
(* (Located), no two writers have the same one (WritersApart), and the slots  *)
(* in use (Kept) together with the places of the buffers that are out         *)
(* (OutMap) show each buffer once (Owned).                                    *)
(*****************************************************************************)
EXTENDS Pc2, TLAPS, FiniteSetTheorems, SequenceTheorems

(* What flush needs: a partial bundle is flushed by the last partition, or has *)
(* one place left.  Otherwise it takes every other buffer and runs on into the *)
(* next bundle.  do_pc2 meets this because of its sizes: it gives a sector of  *)
(* several files on GPUs (16 MiB and up) 64 streams, bundles have 64 buffers,  *)
(* and all streams use the same number of buffers, so no partial bundle is     *)
(* left at all.  tools/pc2.cu gives 16 MiB 8 streams, to which this does not   *)
(* apply.                                                                      *)
FlushesInBounds ==
    mpc = "flush" /\ part + 1 < cfg.parts => batcher.ib \in {0, cfg.bundle - 1}

(* The threads *)

Fields  == {"state", "wc", "wr", "sc", "sr", "pool", "last", "done", "start", "replica", "column"}
States  == {"IDLE", "DATA_READ", "DATA_WAIT", "HASH_COLUMN", "HASH_COLUMN_LEAVES", "HASH_LEAF",
            "HASH_WAIT", "DONE"}
Waiting == {"HASH_COLUMN_LEAVES", "HASH_WAIT"}
Kinds   == {"column", "leaves", "inner"}
Asked   == [kind : Kinds, c : BufferIds \cup {Null}, r : BufferIds \cup {Null}]
Ops     == [op : {"unlock", "done"}] \cup [op : {"bundle"}, buf : BufferIds]
Jobs    == [res : Streams, ops : Seq(Ops)]

(* The last thing a callback does is to say so. *)
OpsOK(ops) == /\ Len(ops) \in 1 .. 4
              /\ \A k \in 1 .. Len(ops) : ops[k].op = "done" <=> k = Len(ops)

MainOK ==
    /\ cfg \in Configs
    /\ part \in Nat
    /\ mpc \in {"start", "loop", "load", "flush", "writers", "lock", "recv", "join", "done"}
    /\ mpc \notin {"join", "done"} => part < cfg.parts
    /\ cur \in Streams
    /\ DOMAIN res = Streams
    /\ \A r \in Streams : /\ DOMAIN res[r] = Fields
                          /\ res[r].state \in States /\ res[r].done \in BOOLEAN
                          /\ res[r].state \notin Waiting => res[r].done
                          /\ mpc \notin {"loop", "load"} => res[r].state \notin Waiting
    /\ mpc = "load" => res[cur].state = "DATA_READ"
    /\ mpc = "flush" => \A r \in Streams : res[r].state = "DONE"

(* What a stream or a callback does for a resource, the resource waits for. *)
StreamsOK ==
    /\ stream \in [Streams -> {Null} \cup Asked]
    /\ jobs \in Seq(Jobs)
    /\ \A r \in Streams : stream[r] # Null => ~res[r].done
    /\ \A i \in 1 .. Len(jobs) :
          /\ OpsOK(jobs[i].ops)
          /\ ~res[jobs[i].res].done /\ stream[jobs[i].res] = Null
    /\ \A i, k \in 1 .. Len(jobs) : jobs[i].res = jobs[k].res => i = k

-----------------------------------------------------------------------------
(* The disk side, d standing for Disk or for what a call leaves behind *)

Whole(d, o) == \A j \in Slot : d.bundles[o][j] \in BufferIds

DiskType ==
    [bundles : [Objects -> [Slot -> BufferIds \cup {Null}]],
     pools   : [full : Seq(Objects), empty : Seq(Objects), disk : Seq(Objects)],
     batcher : [unbundle : Objects \cup {Null}, bundle : Objects \cup {Null}, iu : Slot, ib : Slot]]

GoodDisk(d) ==
    /\ d \in DiskType
    /\ d.batcher.unbundle = Null => d.batcher.iu = 0
    /\ d.batcher.bundle = Null => d.batcher.ib = 0
    /\ \A i \in 1 .. Len(d.pools.full) : Whole(d, d.pools.full[i])
    /\ \A i \in 1 .. Len(d.pools.disk) : Whole(d, d.pools.disk[i])
    /\ d.batcher.unbundle # Null =>
          \A j \in Slot : j >= d.batcher.iu => d.bundles[d.batcher.unbundle][j] \in BufferIds
    /\ d.batcher.bundle # Null =>
          \A j \in Slot : j < d.batcher.ib => d.bundles[d.batcher.bundle][j] \in BufferIds

One(object) == IF object = Null THEN 0 ELSE 1

(* Buffers that can be had, places for buffers in empty bundles, bundles *)
Available(d) == (IF d.batcher.unbundle = Null THEN 0 ELSE cfg.bundle - d.batcher.iu)
                + Len(d.pools.full) * cfg.bundle
Places(d)    == (IF d.batcher.bundle = Null THEN 0 ELSE cfg.bundle - d.batcher.ib)
                + Len(d.pools.empty) * cfg.bundle
Bundles(d)   == Len(d.pools.full) + Len(d.pools.empty) + Len(d.pools.disk)
                + One(d.batcher.unbundle) + One(d.batcher.bundle)

(* The buffers that a stream or a callback holds, by resource and by place   *)
(* from the end of what the callback does                                    *)
Count(s) == One(s.c) + One(s.r)
InStream(r, k) == stream[r] # Null /\ k <= 1 + Count(stream[r])
InJob(job, k)  == k <= Len(job.ops) /\ job.ops[Len(job.ops) + 1 - k].op = "bundle"
InJobs(r, k)   == \E i \in 1 .. Len(jobs) : jobs[i].res = r /\ InJob(jobs[i], k)
Out == {p \in Streams \X (2 .. 4) : InStream(p[1], p[2]) \/ InJobs(p[1], p[2])}

(* As long as there is a partition to come, or to be finished *)
Alive == /\ mpc \notin {"join", "done"}
         /\ mpc \in {"writers", "lock", "recv"} => part + 1 < cfg.parts

Running == mpc \in {"loop", "load", "flush"}
Busy    == {w \in Writers : writer[w].object # Null}
Early(r) == \/ res[r].state = "IDLE" /\ res[r].sc = ResetScheduler(LeafItems)
            \/ res[r].state \in {"DATA_READ", "DATA_WAIT"}

DiskOK ==
    /\ GoodDisk(Disk)
    /\ ~Running => batcher.unbundle = Null /\ batcher.bundle = Null
    /\ Running /\ batcher.unbundle # Null /\ batcher.iu = 0 => \A r \in Streams : Early(r)
    /\ Places(Disk) + batcher.iu = cfg.empty * cfg.bundle + Cardinality(Out)

WritersOK ==
    /\ writer \in [Writers -> [running : BOOLEAN, object : Objects \cup {Null}]]
    /\ \A w \in Writers : /\ writer[w].object # Null => Whole(Disk, writer[w].object) /\ writer[w].running
                          /\ Running => writer[w].running
                          /\ mpc \in {"start", "lock", "recv"} => ~writer[w].running
                          /\ ~writer[w].running => pools.disk = <<>>
    /\ Running => ~terminate
    /\ Bundles(Disk) + Cardinality(Busy) = cfg.full + cfg.empty

IInv == MainOK /\ StreamsOK /\ (Alive => DiskOK /\ WritersOK)

-----------------------------------------------------------------------------
(* The call *)
LEMMA CallFacts ==
    ASSUME cfg \in Configs
    PROVE  /\ cfg.streams \in Nat /\ cfg.streams > 0 /\ cfg.parts \in Nat /\ cfg.parts > 0
           /\ cfg.bundle \in Nat /\ cfg.bundle > 0 /\ cfg.full \in Nat /\ cfg.full > 0
           /\ cfg.empty \in Nat /\ cfg.empty > 0
           /\ 0 \in Slot /\ Slot \subseteq Nat /\ Streams \subseteq Nat /\ 0 \in Streams
           /\ Null \notin Objects /\ Null \notin BufferIds /\ Null \notin Asked
<1>1. cfg \in ConfigType
  BY Pc2Assumption
<1>2. /\ cfg.streams \in Nat /\ cfg.streams > 0 /\ cfg.parts \in Nat /\ cfg.parts > 0
      /\ cfg.bundle \in Nat /\ cfg.bundle > 0 /\ cfg.full \in Nat /\ cfg.full > 0
      /\ cfg.empty \in Nat /\ cfg.empty > 0
  BY <1>1 DEF ConfigType
<1>3. Objects \subseteq Nat /\ BufferIds \subseteq Nat
  BY <1>2 DEF Objects, BufferIds
<1>4. Null \notin Objects /\ Null \notin BufferIds
  BY <1>3, Pc2Assumption
<1>5. Null \notin Asked
  <2>1. Asked \subseteq [kind : {"column", "leaves", "inner"}, c : Nat \cup {Null}, r : Nat \cup {Null}]
    BY <1>3 DEF Asked, Kinds
  <2> QED BY <2>1, Pc2Assumption
<1>6. 0 \in Slot /\ Slot \subseteq Nat
  BY <1>2 DEF Slot
<1>7. Streams \subseteq Nat /\ 0 \in Streams
  BY <1>2 DEF Streams, StreamCount
<1> QED BY <1>2, <1>4, <1>5, <1>6, <1>7

(* A state of the disk side is a record of three records. *)
LEMMA DiskFields ==
    ASSUME NEW d \in DiskType
    PROVE  /\ d.bundles \in [Objects -> [Slot -> BufferIds \cup {Null}]]
           /\ d.pools.full \in Seq(Objects) /\ d.pools.empty \in Seq(Objects)
           /\ d.pools.disk \in Seq(Objects)
           /\ d.batcher.unbundle \in Objects \cup {Null} /\ d.batcher.bundle \in Objects \cup {Null}
           /\ d.batcher.iu \in Slot /\ d.batcher.ib \in Slot
BY DEF DiskType

(* The head and the rest of a pool *)
LEMMA PoolHead ==
    ASSUME NEW S, NEW s \in Seq(S), s # <<>>
    PROVE  /\ Head(s) \in S /\ Tail(s) \in Seq(S) /\ Len(s) \in Nat /\ Len(s) > 0
           /\ Head(s) = s[1] /\ Len(Tail(s)) = Len(s) - 1
           /\ \A i \in 1 .. Len(s) - 1 : i + 1 \in 1 .. Len(s) /\ Tail(s)[i] = s[i + 1]
OBVIOUS

(* A pool with one more bundle *)
LEMMA PoolPut ==
    ASSUME NEW S, NEW s \in Seq(S), NEW x \in S
    PROVE  /\ Append(s, x) \in Seq(S) /\ Len(s) \in Nat /\ Len(Append(s, x)) = Len(s) + 1
           /\ \A i \in 1 .. Len(s) + 1 :
                Append(s, x)[i] = IF i = Len(s) + 1 THEN x ELSE s[i]
OBVIOUS

(* Multiples of a bundle *)
LEMMA Products ==
    ASSUME NEW n \in Nat, NEW b \in Nat
    PROVE  n * b \in Nat /\ (n + 1) * b = n * b + b
OBVIOUS

-----------------------------------------------------------------------------
(* pc2_batcher_t::dequeue, when size() said that there is a buffer *)
LEMMA DequeueEffect ==
    ASSUME cfg \in Configs, NEW d \in DiskType, GoodDisk(d), Available(d) >= 1,
           NEW e, e = Dequeue(d).disk
    PROVE  /\ Dequeue(d).buf \in BufferIds
           /\ GoodDisk(e)
           /\ e.bundles = d.bundles /\ e.pools.disk = d.pools.disk
           /\ Places(e) + e.batcher.iu = (Places(d) + d.batcher.iu) + 1
           /\ Available(e) = Available(d) - 1
           /\ Bundles(e) = Bundles(d)
           /\ e.batcher.unbundle # Null => e.batcher.iu # 0
<1>0. d \in DiskType
  BY DEF GoodDisk
<1>a. PICK b \in Nat : b = cfg.bundle /\ b > 0 /\ Slot = 0 .. b - 1
                       /\ Null \notin Objects /\ Null \notin BufferIds
  BY CallFacts DEF Slot
<1>1. /\ d.bundles \in [Objects -> [Slot -> BufferIds \cup {Null}]]
      /\ d.pools.full \in Seq(Objects) /\ d.pools.empty \in Seq(Objects)
      /\ d.pools.disk \in Seq(Objects)
      /\ d.batcher.unbundle \in Objects \cup {Null} /\ d.batcher.bundle \in Objects \cup {Null}
      /\ d.batcher.iu \in Slot /\ d.batcher.ib \in Slot
  BY <1>0, DiskFields
<1>2. PICK i \in Nat : i = d.batcher.iu /\ i < b /\ i \in Slot
  BY <1>1, <1>a
<1>3. d.batcher.unbundle = Null => d.pools.full # <<>>
  <2> SUFFICES ASSUME d.batcher.unbundle = Null, d.pools.full = <<>> PROVE FALSE
    OBVIOUS
  <2>1. Len(d.pools.full) = 0
    OBVIOUS
  <2>2. Available(d) = 0 + 0 * b
    BY <1>a, <2>1 DEF Available
  <2> QED BY <2>2, <1>a
<1>4. PICK object \in Objects, fs \in Seq(Objects) :
         /\ object = IF d.batcher.unbundle = Null THEN Head(d.pools.full) ELSE d.batcher.unbundle
         /\ fs = IF d.batcher.unbundle = Null THEN Tail(d.pools.full) ELSE d.pools.full
  BY <1>1, <1>3, PoolHead
<1>5. PICK es \in Seq(Objects), u \in Objects \cup {Null}, n \in Slot :
         /\ es = IF i + 1 = b THEN Append(d.pools.empty, object) ELSE d.pools.empty
         /\ u = IF i + 1 = b THEN Null ELSE object
         /\ n = IF i + 1 = b THEN 0 ELSE i + 1
  <2>1. (IF i + 1 = b THEN Append(d.pools.empty, object) ELSE d.pools.empty) \in Seq(Objects)
    BY <1>1, <1>4, PoolPut
  <2>2. (IF i + 1 = b THEN 0 ELSE i + 1) \in Slot
    BY <1>a, <1>2
  <2> QED BY <2>1, <2>2
<1>d. PICK z : z = e
  OBVIOUS
<1>6. z = [d EXCEPT !.pools.full = fs, !.pools.empty = es, !.batcher.unbundle = u,
                    !.batcher.iu = n]
  BY <1>d, <1>a, <1>2, <1>3, <1>4, <1>5 DEF Dequeue
<1>7. Dequeue(d).buf = d.bundles[object][i]
  BY <1>2, <1>3, <1>4 DEF Dequeue
<1>8. /\ z \in DiskType
      /\ z.bundles = d.bundles
      /\ z.pools.full = fs /\ z.pools.empty = es /\ z.pools.disk = d.pools.disk
      /\ z.batcher.unbundle = u /\ z.batcher.bundle = d.batcher.bundle
      /\ z.batcher.iu = n /\ z.batcher.ib = d.batcher.ib
  <2>1. z.bundles = d.bundles
    BY <1>0, <1>6 DEF DiskType
  <2>2. z.pools.full = fs /\ z.pools.empty = es /\ z.pools.disk = d.pools.disk
    BY <1>0, <1>6 DEF DiskType
  <2>3. /\ z.batcher.unbundle = u /\ z.batcher.bundle = d.batcher.bundle
        /\ z.batcher.iu = n /\ z.batcher.ib = d.batcher.ib
    BY <1>0, <1>6 DEF DiskType
  <2>4. z \in DiskType
    BY <1>0, <1>6 DEF DiskType
  <2> QED BY <2>1, <2>2, <2>3, <2>4
<1>9. \A j \in Slot : j >= i => d.bundles[object][j] \in BufferIds
  <2>1. CASE d.batcher.unbundle = Null
    <3>1. 1 \in 1 .. Len(d.pools.full) /\ object = d.pools.full[1]
      BY <1>1, <1>3, <1>4, <2>1, PoolHead
    <3> QED BY <3>1 DEF GoodDisk, Whole
  <2>2. CASE d.batcher.unbundle # Null
    BY <1>2, <1>4, <2>2 DEF GoodDisk
  <2> QED BY <2>1, <2>2
<1>10. Dequeue(d).buf \in BufferIds
  BY <1>2, <1>7, <1>9
<1>11. GoodDisk(z)
  <2>1. u = Null => n = 0
    BY <1>5, <1>a
  <2>2. \A k \in 1 .. Len(fs) : Whole(z, fs[k])
    <3> SUFFICES ASSUME NEW k \in 1 .. Len(fs) PROVE Whole(d, fs[k])
      BY <1>8 DEF Whole
    <3>1. CASE d.batcher.unbundle = Null
      <4>1. /\ k \in 1 .. Len(d.pools.full) - 1 /\ fs[k] = d.pools.full[k + 1]
            /\ k + 1 \in 1 .. Len(d.pools.full)
        BY <1>1, <1>3, <1>4, <3>1, PoolHead
      <4> QED BY <4>1 DEF GoodDisk
    <3>2. CASE d.batcher.unbundle # Null
      BY <1>4, <3>2 DEF GoodDisk
    <3> QED BY <3>1, <3>2
  <2>3. u # Null => \A j \in Slot : j >= n => d.bundles[u][j] \in BufferIds
    BY <1>5, <1>9, <1>a, <1>2
  <2>4. \A k \in 1 .. Len(d.pools.disk) : Whole(z, d.pools.disk[k])
    BY <1>8 DEF GoodDisk, Whole
  <2> QED BY <1>8, <2>1, <2>2, <2>3, <2>4 DEF GoodDisk
<1>12. z.batcher.unbundle # Null => z.batcher.iu # 0
  BY <1>5, <1>8, <1>2
<1>13. PICK ne \in Nat, nf \in Nat, nd \in Nat, me \in Nat, mf \in Nat :
          /\ ne = Len(d.pools.empty) /\ nf = Len(d.pools.full) /\ nd = Len(d.pools.disk)
          /\ me = Len(es) /\ mf = Len(fs)
  <2>1. /\ Len(d.pools.empty) \in Nat /\ Len(d.pools.full) \in Nat /\ Len(d.pools.disk) \in Nat
        /\ Len(es) \in Nat /\ Len(fs) \in Nat
    BY <1>1, <1>4, <1>5
  <2> QED BY <2>1
<1>b. /\ i + 1 = b => me = ne + 1
      /\ i + 1 # b => me = ne
      /\ d.batcher.unbundle = Null => nf = mf + 1 /\ i = 0
      /\ d.batcher.unbundle # Null => nf = mf
  <2>1. i + 1 = b => me = ne + 1
    BY <1>1, <1>4, <1>5, <1>13, PoolPut
  <2>2. i + 1 # b => me = ne
    BY <1>5, <1>13
  <2>3. d.batcher.unbundle = Null => nf = mf + 1
    BY <1>1, <1>3, <1>4, <1>13, PoolHead
  <2>4. d.batcher.unbundle = Null => i = 0
    BY <1>2 DEF GoodDisk
  <2>5. d.batcher.unbundle # Null => nf = mf
    BY <1>4, <1>13
  <2> QED BY <2>1, <2>2, <2>3, <2>4, <2>5
<1>c. PICK y0 \in Int, eb \in Nat, mb \in Nat, fb \in Nat, gb \in Nat :
         /\ y0 = IF d.batcher.bundle = Null THEN 0 ELSE b - d.batcher.ib
         /\ eb = ne * b /\ mb = me * b /\ fb = nf * b /\ gb = mf * b
         /\ me = ne + 1 => mb = eb + b
         /\ nf = mf + 1 => fb = gb + b
  <2>1. (IF d.batcher.bundle = Null THEN 0 ELSE b - d.batcher.ib) \in Int
    BY <1>1, <1>a
  <2>2. /\ ne * b \in Nat /\ me * b \in Nat /\ nf * b \in Nat /\ mf * b \in Nat
        /\ (ne + 1) * b = ne * b + b /\ (mf + 1) * b = mf * b + b
    BY <1>a, <1>13, Products
  <2> QED BY <2>1, <2>2
<1>14. Places(z) + z.batcher.iu = (Places(d) + d.batcher.iu) + 1
  <2>1. Places(d) = y0 + eb /\ d.batcher.iu = i
    BY <1>a, <1>2, <1>13, <1>c DEF Places
  <2>2. Places(z) = y0 + mb /\ z.batcher.iu = n
    BY <1>8, <1>a, <1>13, <1>c DEF Places
  <2>3. mb + n = eb + i + 1
    <3>1. CASE i + 1 = b
      BY <3>1, <1>b, <1>c, <1>5
    <3>2. CASE i + 1 # b
      <4>1. mb = eb /\ n = i + 1
        BY <3>2, <1>b, <1>c, <1>5
      <4> QED BY <4>1
    <3> QED BY <3>1, <3>2
  <2>4. n \in Nat
    BY <1>5, <1>a
  <2>5. (y0 + mb) + n = ((y0 + eb) + i) + 1
    BY <2>3, <2>4
  <2> QED BY <2>1, <2>2, <2>5
<1>15. Available(z) = Available(d) - 1
  <2>1. Available(z) = (IF u = Null THEN 0 ELSE b - n) + gb
    BY <1>8, <1>a, <1>13, <1>c DEF Available
  <2>2. (IF u = Null THEN 0 ELSE b - n) = b - (i + 1)
    BY <1>5, <1>a, <1>2
  <2>3. CASE d.batcher.unbundle = Null
    <3>1. Available(d) = 0 + fb
      BY <1>a, <1>13, <1>c, <2>3 DEF Available
    <3>2. i = 0 /\ fb = gb + b
      BY <2>3, <1>b, <1>c
    <3> QED BY <2>1, <2>2, <3>1, <3>2
  <2>4. CASE d.batcher.unbundle # Null
    <3>1. Available(d) = (b - i) + fb
      BY <1>2, <1>a, <1>13, <1>c, <2>4 DEF Available
    <3>2. fb = gb
      BY <2>4, <1>b, <1>c
    <3> QED BY <2>1, <2>2, <3>1, <3>2
  <2> QED BY <2>3, <2>4
<1>16. Bundles(z) = Bundles(d)
  <2>0. PICK y \in Nat : y = One(d.batcher.bundle)
    BY DEF One
  <2>1. Bundles(z) = mf + me + nd + One(u) + y
    BY <1>8, <1>13, <2>0 DEF Bundles
  <2>2. Bundles(d) = nf + ne + nd + One(d.batcher.unbundle) + y
    BY <1>13, <2>0 DEF Bundles
  <2>3. PICK p \in Nat, q \in Nat : /\ p = One(u) /\ q = One(d.batcher.unbundle)
                                    /\ p = IF i + 1 = b THEN 0 ELSE 1
                                    /\ q = IF d.batcher.unbundle = Null THEN 0 ELSE 1
    BY <1>a, <1>5, <1>4 DEF One
  <2>4. me + p = ne + 1 /\ mf + 1 = nf + q
    BY <2>3, <1>b
  <2>5. Bundles(z) = mf + me + nd + p + y /\ Bundles(d) = nf + ne + nd + q + y
    BY <2>1, <2>2, <2>3
  <2> QED BY <2>4, <2>5
<1> QED BY <1>d, <1>8, <1>10, <1>11, <1>12, <1>14, <1>15, <1>16

(* pc2_batcher_t::enqueue, with a place for the buffer *)
LEMMA BundleEffect ==
    ASSUME cfg \in Configs, NEW d \in DiskType, GoodDisk(d), CanBundle(d), NEW buf \in BufferIds,
           NEW e, e = Bundle(d, buf)
    PROVE  /\ GoodDisk(e)
           /\ \A o \in Objects : Whole(d, o) => Whole(e, o)
           /\ Places(d) = Places(e) + 1 /\ Places(e) \in Nat
           /\ Bundles(e) = Bundles(d)
           /\ e.batcher.unbundle = d.batcher.unbundle /\ e.batcher.iu = d.batcher.iu
<1>0. d \in DiskType
  BY DEF GoodDisk
<1>a. PICK b \in Nat : b = cfg.bundle /\ b > 0 /\ Slot = 0 .. b - 1
                       /\ Null \notin Objects /\ Null \notin BufferIds
  BY CallFacts DEF Slot
<1>1. /\ d.bundles \in [Objects -> [Slot -> BufferIds \cup {Null}]]
      /\ d.pools.full \in Seq(Objects) /\ d.pools.empty \in Seq(Objects)
      /\ d.pools.disk \in Seq(Objects)
      /\ d.batcher.unbundle \in Objects \cup {Null} /\ d.batcher.bundle \in Objects \cup {Null}
      /\ d.batcher.iu \in Slot /\ d.batcher.ib \in Slot
  BY <1>0, DiskFields
<1>2. PICK i \in Nat : i = d.batcher.ib /\ i < b /\ i \in Slot
  BY <1>1, <1>a
<1>3. d.batcher.bundle = Null => d.pools.empty # <<>>
  BY DEF CanBundle
<1>4. PICK object \in Objects, es \in Seq(Objects) :
         /\ object = IF d.batcher.bundle = Null THEN Head(d.pools.empty) ELSE d.batcher.bundle
         /\ es = IF d.batcher.bundle = Null THEN Tail(d.pools.empty) ELSE d.pools.empty
  BY <1>1, <1>3, PoolHead
<1>5. PICK ds \in Seq(Objects), u \in Objects \cup {Null}, n \in Slot :
         /\ ds = IF i + 1 = b THEN Append(d.pools.disk, object) ELSE d.pools.disk
         /\ u = IF i + 1 = b THEN Null ELSE object
         /\ n = IF i + 1 = b THEN 0 ELSE i + 1
  <2>1. (IF i + 1 = b THEN Append(d.pools.disk, object) ELSE d.pools.disk) \in Seq(Objects)
    BY <1>1, <1>4, PoolPut
  <2>2. (IF i + 1 = b THEN 0 ELSE i + 1) \in Slot
    BY <1>a, <1>2
  <2> QED BY <2>1, <2>2
<1>d. PICK z : z = e
  OBVIOUS
<1>6. z = [d EXCEPT !.bundles[object][i] = buf, !.pools.empty = es, !.pools.disk = ds,
                    !.batcher.bundle = u, !.batcher.ib = n]
  BY <1>d, <1>a, <1>2, <1>4, <1>5 DEF Bundle
<1>8. /\ z \in DiskType
      /\ z.bundles = [d.bundles EXCEPT ![object][i] = buf]
      /\ z.pools.full = d.pools.full /\ z.pools.empty = es /\ z.pools.disk = ds
      /\ z.batcher.unbundle = d.batcher.unbundle /\ z.batcher.bundle = u
      /\ z.batcher.iu = d.batcher.iu /\ z.batcher.ib = n
  <2>1. z.bundles = [d.bundles EXCEPT ![object][i] = buf]
    BY <1>0, <1>6 DEF DiskType
  <2>2. z.pools.full = d.pools.full /\ z.pools.empty = es /\ z.pools.disk = ds
    BY <1>0, <1>6 DEF DiskType
  <2>3. /\ z.batcher.unbundle = d.batcher.unbundle /\ z.batcher.bundle = u
        /\ z.batcher.iu = d.batcher.iu /\ z.batcher.ib = n
    BY <1>0, <1>6 DEF DiskType
  <2>4. z.bundles \in [Objects -> [Slot -> BufferIds \cup {Null}]]
    BY <1>0, <1>2, <2>1 DEF DiskType
  <2>5. z \in DiskType
    BY <1>0, <1>6, <2>1, <2>4 DEF DiskType
  <2> QED BY <2>1, <2>2, <2>3, <2>5
<1>9. /\ \A o \in Objects, j \in Slot :
            d.bundles[o][j] \in BufferIds => z.bundles[o][j] \in BufferIds
      /\ z.bundles[object][i] \in BufferIds
  BY <1>1, <1>2, <1>8
<1>10. \A o \in Objects : Whole(d, o) => Whole(z, o)
  BY <1>9 DEF Whole
<1>11. \A j \in Slot : j < i + 1 => z.bundles[object][j] \in BufferIds
  <2> SUFFICES ASSUME NEW j \in Slot, j < i + 1 PROVE z.bundles[object][j] \in BufferIds
    OBVIOUS
  <2>1. CASE j = i
    BY <1>9, <2>1
  <2>2. CASE j # i
    <3>1. j < i
      BY <2>2, <1>a
    <3>2. d.batcher.bundle # Null
      BY <1>2, <3>1, <1>a DEF GoodDisk
    <3> QED BY <1>2, <1>4, <1>9, <3>1, <3>2 DEF GoodDisk
  <2> QED BY <2>1, <2>2
<1>12. GoodDisk(z)
  <2>1. u = Null => n = 0
    BY <1>5, <1>a
  <2>2. \A k \in 1 .. Len(d.pools.full) : Whole(z, d.pools.full[k])
    BY <1>1, <1>10 DEF GoodDisk
  <2>3. \A k \in 1 .. Len(ds) : Whole(z, ds[k])
    <3> SUFFICES ASSUME NEW k \in 1 .. Len(ds) PROVE Whole(z, ds[k])
      OBVIOUS
    <3>1. CASE i + 1 = b
      <4>1. Whole(z, object)
        BY <1>11, <3>1, <1>a DEF Whole
      <4>2. Len(ds) = Len(d.pools.disk) + 1 /\ Len(d.pools.disk) \in Nat
            /\ ds[k] = IF k = Len(d.pools.disk) + 1 THEN object ELSE d.pools.disk[k]
        BY <1>1, <1>4, <1>5, <3>1, PoolPut
      <4>3. CASE k = Len(d.pools.disk) + 1
        BY <4>1, <4>2, <4>3
      <4>4. CASE k # Len(d.pools.disk) + 1
        <5>1. k \in 1 .. Len(d.pools.disk) /\ ds[k] = d.pools.disk[k]
          BY <4>2, <4>4
        <5>2. Whole(d, d.pools.disk[k]) /\ d.pools.disk[k] \in Objects
          BY <5>1, <1>1 DEF GoodDisk
        <5> QED BY <5>1, <5>2, <1>10
      <4> QED BY <4>3, <4>4
    <3>2. CASE i + 1 # b
      BY <1>1, <1>5, <1>10, <3>2 DEF GoodDisk
    <3> QED BY <3>1, <3>2
  <2>4. d.batcher.unbundle # Null =>
          \A j \in Slot : j >= d.batcher.iu => z.bundles[d.batcher.unbundle][j] \in BufferIds
    BY <1>1, <1>9 DEF GoodDisk
  <2>5. u # Null => \A j \in Slot : j < n => z.bundles[u][j] \in BufferIds
    BY <1>5, <1>11
  <2>6. d.batcher.unbundle = Null => d.batcher.iu = 0
    BY DEF GoodDisk
  <2> QED BY <1>8, <2>1, <2>2, <2>3, <2>4, <2>5, <2>6 DEF GoodDisk
<1>13. PICK ne \in Nat, nf \in Nat, nd \in Nat, me \in Nat, md \in Nat :
          /\ ne = Len(d.pools.empty) /\ nf = Len(d.pools.full) /\ nd = Len(d.pools.disk)
          /\ me = Len(es) /\ md = Len(ds)
  <2>1. /\ Len(d.pools.empty) \in Nat /\ Len(d.pools.full) \in Nat /\ Len(d.pools.disk) \in Nat
        /\ Len(es) \in Nat /\ Len(ds) \in Nat
    BY <1>1, <1>4, <1>5
  <2> QED BY <2>1
<1>b. /\ i + 1 = b => md = nd + 1
      /\ i + 1 # b => md = nd
      /\ d.batcher.bundle = Null => ne = me + 1 /\ i = 0
      /\ d.batcher.bundle # Null => ne = me
  <2>1. i + 1 = b => md = nd + 1
    BY <1>1, <1>4, <1>5, <1>13, PoolPut
  <2>2. i + 1 # b => md = nd
    BY <1>5, <1>13
  <2>3. d.batcher.bundle = Null => ne = me + 1
    BY <1>1, <1>3, <1>4, <1>13, PoolHead
  <2>4. d.batcher.bundle = Null => i = 0
    BY <1>2 DEF GoodDisk
  <2>5. d.batcher.bundle # Null => ne = me
    BY <1>4, <1>13
  <2> QED BY <2>1, <2>2, <2>3, <2>4, <2>5
<1>c. PICK eb \in Nat, mb \in Nat :
         /\ eb = ne * b /\ mb = me * b
         /\ ne = me + 1 => eb = mb + b
  <2>1. ne * b \in Nat /\ me * b \in Nat /\ (me + 1) * b = me * b + b
    BY <1>a, <1>13, Products
  <2> QED BY <2>1
<1>14. Places(d) = (b - i) + mb
  <2>1. CASE d.batcher.bundle = Null
    <3>1. Places(d) = 0 + eb
      BY <1>a, <1>13, <1>c, <2>1 DEF Places
    <3> QED BY <3>1, <2>1, <1>b, <1>c
  <2>2. CASE d.batcher.bundle # Null
    BY <1>2, <1>13, <1>a, <1>b, <1>c, <2>2 DEF Places
  <2> QED BY <2>1, <2>2
<1>15. Places(z) = (b - (i + 1)) + mb
  <2>1. Places(z) = (IF u = Null THEN 0 ELSE b - n) + mb
    BY <1>8, <1>a, <1>13, <1>c DEF Places
  <2>2. (IF u = Null THEN 0 ELSE b - n) = b - (i + 1)
    BY <1>5, <1>a, <1>2
  <2> QED BY <2>1, <2>2
<1>16. Places(d) = Places(z) + 1 /\ Places(z) \in Nat
  <2>1. b - (i + 1) \in Nat /\ b - i = (b - (i + 1)) + 1
    BY <1>2
  <2>2. (b - i) + mb = ((b - (i + 1)) + mb) + 1 /\ (b - (i + 1)) + mb \in Nat
    BY <2>1
  <2> QED BY <2>2, <1>14, <1>15
<1>17. Bundles(z) = Bundles(d)
  <2>0. PICK y \in Nat : y = One(d.batcher.unbundle)
    BY DEF One
  <2>1. Bundles(z) = nf + me + md + y + One(u)
    BY <1>8, <1>13, <2>0 DEF Bundles
  <2>2. Bundles(d) = nf + ne + nd + y + One(d.batcher.bundle)
    BY <1>13, <2>0 DEF Bundles
  <2>3. PICK p \in Nat, q \in Nat : /\ p = One(u) /\ q = One(d.batcher.bundle)
                                    /\ p = IF i + 1 = b THEN 0 ELSE 1
                                    /\ q = IF d.batcher.bundle = Null THEN 0 ELSE 1
    BY <1>a, <1>5, <1>4 DEF One
  <2>4. md + p = nd + 1 /\ me + 1 = ne + q
    BY <2>3, <1>b
  <2>5. Bundles(z) = nf + me + md + y + p /\ Bundles(d) = nf + ne + nd + y + q
    BY <2>1, <2>2, <2>3
  <2> QED BY <2>4, <2>5
<1> QED BY <1>d, <1>8, <1>10, <1>12, <1>16, <1>17

-----------------------------------------------------------------------------
(* The buffers that streams and callbacks hold *)

LEMMA SamePairs ==
    ASSUME NEW X, NEW Y, X \subseteq Streams \X (2 .. 4), Y \subseteq Streams \X (2 .. 4),
           \A r \in Streams, k \in 2 .. 4 : <<r, k>> \in X <=> <<r, k>> \in Y
    PROVE  X = Y
<1>1. ASSUME NEW p \in Streams \X (2 .. 4) PROVE p \in X <=> p \in Y
  <2>1. PICK a \in Streams, b \in 2 .. 4 : p = <<a, b>>
    OBVIOUS
  <2> QED BY <2>1
<1> QED BY <1>1

(* Out has a size. *)
LEMMA OutFinite ==
    ASSUME cfg \in Configs
    PROVE  IsFiniteSet(Out) /\ Cardinality(Out) \in Nat
<1>1. IsFiniteSet(Streams)
  <2>1. 0 \in Int /\ cfg.streams - 1 \in Int
    BY CallFacts
  <2>2. Streams = 0 .. cfg.streams - 1
    BY DEF Streams, StreamCount
  <2> QED BY <2>1, <2>2, FS_Interval
<1>2. IsFiniteSet(2 .. 4)
  <2>1. 2 \in Int /\ 4 \in Int
    OBVIOUS
  <2> QED BY <2>1, FS_Interval
<1>3. IsFiniteSet(Streams \X (2 .. 4))
  BY <1>1, <1>2, FS_Product
<1>4. Out \in SUBSET (Streams \X (2 .. 4))
  BY DEF Out
<1> QED BY <1>3, <1>4, FS_Subset, FS_CardinalityType

(* Adding n places of one resource *)
LEMMA AddOut ==
    ASSUME NEW S, IsFiniteSet(S), NEW r, NEW n \in 0 .. 2, NEW T,
           T = S \cup {<<r, k>> : k \in 2 .. 1 + n}, \A k \in 2 .. 4 : <<r, k>> \notin S
    PROVE  Cardinality(T) = Cardinality(S) + n
<1>0. Cardinality(S) \in Nat
  BY FS_CardinalityType
<1>1. CASE n = 0
  <2>1. T = S
    BY <1>1
  <2> QED BY <2>1, <1>0, <1>1
<1>2. CASE n = 1
  <2>1. T = S \cup {<<r, 2>>}
    BY <1>2
  <2>2. <<r, 2>> \notin S
    OBVIOUS
  <2>3. Cardinality(S \cup {<<r, 2>>}) = Cardinality(S) + 1
    BY <2>2, FS_AddElement
  <2> QED BY <2>1, <2>3, <1>2
<1>3. CASE n = 2
  <2>1. T = (S \cup {<<r, 2>>}) \cup {<<r, 3>>}
    BY <1>3
  <2>2. <<r, 2>> \notin S /\ <<r, 3>> \notin S \cup {<<r, 2>>}
    OBVIOUS
  <2>3. IsFiniteSet(S \cup {<<r, 2>>}) /\ Cardinality(S \cup {<<r, 2>>}) = Cardinality(S) + 1
    BY <2>2, FS_AddElement
  <2>4. Cardinality((S \cup {<<r, 2>>}) \cup {<<r, 3>>}) = Cardinality(S \cup {<<r, 2>>}) + 1
    BY <2>2, <2>3, FS_AddElement
  <2>5. Cardinality(T) = (Cardinality(S) + 1) + 1
    BY <2>1, <2>3, <2>4
  <2> QED BY <2>5, <1>3, <1>0
<1> QED BY <1>1, <1>2, <1>3

(* A resource that waits for nothing holds nothing. *)
LEMMA OutDone ==
    ASSUME MainOK, StreamsOK, NEW r \in Streams, res[r].done
    PROVE  /\ stream[r] = Null
           /\ \A i \in 1 .. Len(jobs) : jobs[i].res # r
           /\ \A k \in 2 .. 4 : <<r, k>> \notin Out
<1>1. stream[r] = Null /\ \A i \in 1 .. Len(jobs) : jobs[i].res # r
  BY DEF StreamsOK
<1> QED BY <1>1 DEF Out, InStream, InJobs

(* A stream is asked to do something. *)
LEMMA OutAsk ==
    ASSUME MainOK, StreamsOK, NEW r \in Streams, res[r].done, NEW a \in Asked,
           stream' = [stream EXCEPT ![r] = a], UNCHANGED <<cfg, jobs>>
    PROVE  /\ Count(a) \in 0 .. 2 /\ Cardinality(Out') = Cardinality(Out) + Count(a)
           /\ Out' = Out \cup {<<r, k>> : k \in 2 .. 1 + Count(a)}
<1>0. cfg \in Configs
  BY DEF MainOK
<1>1. Count(a) \in 0 .. 2
  BY DEF Count, One
<1>2. PICK n \in 0 .. 2 : n = Count(a)
  BY <1>1
<1>3. stream[r] = Null /\ (\A i \in 1 .. Len(jobs) : jobs[i].res # r)
      /\ \A k \in 2 .. 4 : <<r, k>> \notin Out
  BY OutDone
<1>4. a # Null /\ DOMAIN stream = Streams
  BY <1>0, CallFacts DEF StreamsOK
<1>5. Out' = Out \cup {<<r, k>> : k \in 2 .. 1 + n}
  <2>1. Streams' = Streams
    BY DEF Streams, StreamCount
  <2>2. \A s \in Streams, k \in 2 .. 4 : InJobs(s, k)' <=> InJobs(s, k)
    BY DEF InJobs, InJob
  <2>3. \A s \in Streams, k \in 2 .. 4 : s # r => (InStream(s, k)' <=> InStream(s, k))
    BY <1>4 DEF InStream, Count
  <2>4. \A k \in 2 .. 4 : InStream(r, k)' <=> k <= 1 + n
    BY <1>2, <1>4 DEF InStream, Count
  <2>5. \A k \in 2 .. 4 : ~InJobs(r, k)
    BY <1>3 DEF InJobs
  <2>6. ASSUME NEW s \in Streams, NEW k \in 2 .. 4
        PROVE  <<s, k>> \in Out' <=> <<s, k>> \in Out \cup {<<r, m>> : m \in 2 .. 1 + n}
    <3>1. <<s, k>> \in Out' <=> InStream(s, k)' \/ InJobs(s, k)'
      BY <2>1 DEF Out
    <3>2. <<s, k>> \in Out <=> InStream(s, k) \/ InJobs(s, k)
      BY DEF Out
    <3>3. CASE s = r
      <4>1. <<s, k>> \in Out' <=> k <= 1 + n
        BY <3>1, <3>3, <2>2, <2>4, <2>5
      <4>2. <<s, k>> \notin Out
        BY <1>3, <3>3
      <4>3. <<s, k>> \in {<<r, m>> : m \in 2 .. 1 + n} <=> k <= 1 + n
        BY <3>3
      <4> QED BY <4>1, <4>2, <4>3
    <3>4. CASE s # r
      <4>1. <<s, k>> \in Out' <=> <<s, k>> \in Out
        BY <3>1, <3>2, <3>4, <2>2, <2>3
      <4>2. <<s, k>> \notin {<<r, m>> : m \in 2 .. 1 + n}
        BY <3>4
      <4> QED BY <4>1, <4>2
    <3> QED BY <3>3, <3>4
  <2>7. Out \subseteq Streams \X (2 .. 4) /\ Out' \subseteq Streams \X (2 .. 4)
        /\ {<<r, m>> : m \in 2 .. 1 + n} \subseteq Streams \X (2 .. 4)
    BY <2>1 DEF Out
  <2>8. PICK X, Y : X = Out' /\ Y = Out \cup {<<r, m>> : m \in 2 .. 1 + n}
    OBVIOUS
  <2>9. X \subseteq Streams \X (2 .. 4) /\ Y \subseteq Streams \X (2 .. 4)
    BY <2>7, <2>8
  <2>10. \A s \in Streams, k \in 2 .. 4 : <<s, k>> \in X <=> <<s, k>> \in Y
    BY <2>6, <2>8
  <2>11. X = Y
    BY <2>9, <2>10, SamePairs
  <2> QED BY <2>8, <2>11
<1>6. IsFiniteSet(Out)
  BY <1>0, OutFinite
<1>7. PICK S, T : S = Out /\ T = Out'
  OBVIOUS
<1>8. Cardinality(T) = Cardinality(S) + n
  BY <1>3, <1>5, <1>6, <1>7, AddOut
<1>9. Out' = Out \cup {<<r, k>> : k \in 2 .. 1 + Count(a)}
  BY <1>2, <1>5
<1>10. Cardinality(Out') = Cardinality(Out) + Count(a)
  BY <1>2, <1>7, <1>8
<1> QED BY <1>1, <1>9, <1>10

(* Short sequences put together *)
LEMMA PutLast ==
    ASSUME NEW S, NEW s \in Seq(S), NEW u \in Seq(S), NEW t \in Seq(S), Len(u) = 1,
           Len(t) = Len(s) + 1, \A i \in 1 .. Len(s) : t[i] = s[i], t[Len(s) + 1] = u[1]
    PROVE  s \o u = t
<1>2. PICK c : c = s \o u
  OBVIOUS
<1>3. /\ c \in Seq(S) /\ Len(c) = Len(s) + 1
      /\ \A i \in 1 .. Len(s) + 1 : c[i] = IF i <= Len(s) THEN s[i] ELSE u[i - Len(s)]
  <2>1. /\ s \o u \in Seq(S) /\ Len(s \o u) = Len(s) + Len(u)
        /\ \A i \in 1 .. Len(s) + Len(u) :
              (s \o u)[i] = IF i <= Len(s) THEN s[i] ELSE u[i - Len(s)]
    BY ConcatProperties
  <2> QED BY <1>2, <2>1
<1>4. PICK n \in Nat : n = Len(s)
  OBVIOUS
<1>5. \A i \in 1 .. n + 1 : c[i] = t[i]
  BY <1>3, <1>4
<1>6. c = t
  BY <1>3, <1>4, <1>5, SeqEqual
<1> QED BY <1>2, <1>6

(* What a callback does, put together from its parts *)
LEMMA Cat ==
    ASSUME NEW x, NEW y, NEW z, NEW w
    PROVE  /\ <<>> \o <<>> = <<>> /\ <<x>> \o <<>> = <<x>> /\ <<>> \o <<x>> = <<x>>
           /\ <<x>> \o <<y>> = <<x, y>> /\ <<x, y>> \o <<>> = <<x, y>>
           /\ <<x, y>> \o <<z>> = <<x, y, z>> /\ <<x, y, z>> \o <<w>> = <<x, y, z, w>>
<1>0. PICK S : S = {x, y, z, w}
  OBVIOUS
<1>a. x \in S /\ y \in S /\ z \in S /\ w \in S
  BY <1>0
<1>1. <<>> \o <<>> = <<>>
  OBVIOUS
<1>2. <<x>> \o <<>> = <<x>>
  OBVIOUS
<1>3. <<>> \o <<x>> = <<x>>
  OBVIOUS
<1>4. <<x>> \o <<y>> = <<x, y>>
  <2>1. PICK s \in Seq(S), t \in Seq(S), u \in Seq(S) : s = <<x>> /\ t = <<x, y>> /\ u = <<y>>
    <3>1. <<x>> \in Seq(S) /\ <<x, y>> \in Seq(S) /\ <<y>> \in Seq(S)
      BY <1>a
    <3> QED BY <3>1
  <2>2. Len(u) = 1 /\ Len(t) = Len(s) + 1 /\ (\A i \in 1 .. Len(s) : t[i] = s[i]) /\ t[Len(s) + 1] = u[1]
    BY <2>1
  <2>3. s \o u = t
    BY <2>2, PutLast
  <2> QED BY <2>1, <2>3
<1>5. <<x, y>> \o <<>> = <<x, y>>
  OBVIOUS
<1>6. <<x, y>> \o <<z>> = <<x, y, z>>
  <2>1. PICK s \in Seq(S), t \in Seq(S), u \in Seq(S) : s = <<x, y>> /\ t = <<x, y, z>> /\ u = <<z>>
    <3>1. <<x, y>> \in Seq(S) /\ <<x, y, z>> \in Seq(S) /\ <<z>> \in Seq(S)
      BY <1>a
    <3> QED BY <3>1
  <2>2. Len(u) = 1 /\ Len(t) = Len(s) + 1 /\ (\A i \in 1 .. Len(s) : t[i] = s[i]) /\ t[Len(s) + 1] = u[1]
    BY <2>1
  <2>3. s \o u = t
    BY <2>2, PutLast
  <2> QED BY <2>1, <2>3
<1>7. <<x, y, z>> \o <<w>> = <<x, y, z, w>>
  <2>1. PICK s \in Seq(S), t \in Seq(S), u \in Seq(S) : s = <<x, y, z>> /\ t = <<x, y, z, w>> /\ u = <<w>>
    <3>1. <<x, y, z>> \in Seq(S) /\ <<x, y, z, w>> \in Seq(S) /\ <<w>> \in Seq(S)
      BY <1>a
    <3> QED BY <3>1
  <2>2. Len(u) = 1 /\ Len(t) = Len(s) + 1 /\ (\A i \in 1 .. Len(s) : t[i] = s[i]) /\ t[Len(s) + 1] = u[1]
    BY <2>1
  <2>3. s \o u = t
    BY <2>2, PutLast
  <2> QED BY <2>1, <2>3
<1> QED BY <1>1, <1>2, <1>3, <1>4, <1>5, <1>6, <1>7

(* The callback of an operation gives back what the operation holds, then says *)
(* that it is done.                                                           *)
LEMMA CallbackFacts ==
    ASSUME cfg \in Configs, NEW r \in Streams, NEW s \in Asked, NEW job, job = Callback(r, s)
    PROVE  /\ job \in Jobs /\ job.res = r /\ OpsOK(job.ops)
           /\ \A k \in 2 .. 4 : InJob(job, k) <=> k <= 1 + Count(s)
<1>0. s.c \in BufferIds \cup {Null} /\ s.r \in BufferIds \cup {Null}
  BY DEF Asked
<1>1. PICK ops : ops = job.ops
  OBVIOUS
<1>2. job = [res |-> r, ops |-> ops]
  BY <1>1 DEF Callback
<1> DEFINE un  == [op |-> "unlock"]
           don == [op |-> "done"]
           bc  == [op |-> "bundle", buf |-> s.c]
           br  == [op |-> "bundle", buf |-> s.r]
           last == s.kind = "inner" /\ res[r].last
<1>3. ops = (IF last THEN <<un>> ELSE <<>>) \o (IF s.c # Null THEN <<bc>> ELSE <<>>)
            \o (IF s.r # Null THEN <<br>> ELSE <<>>) \o <<don>>
  BY <1>1 DEF Callback
<1>4. un \in Ops /\ don \in Ops /\ un.op = "unlock" /\ don.op = "done" /\ bc.op = "bundle" /\ br.op = "bundle"
  BY DEF Ops
<1>5. (s.c # Null => bc \in Ops) /\ (s.r # Null => br \in Ops)
  BY <1>0 DEF Ops
<1> HIDE DEF un, don, bc, br, last
<1>6. ops \in Seq(Ops) /\ OpsOK(ops)
      /\ \A k \in 2 .. 4 : (k <= Len(ops) /\ ops[Len(ops) + 1 - k].op = "bundle") <=> k <= 1 + Count(s)
  <2>1. CASE s.c = Null /\ s.r = Null
    <3>1. Count(s) = 0
      BY <2>1 DEF Count, One
    <3>2. CASE last
      <4>1. ops = <<un, don>>
        BY <1>3, <2>1, <3>2, Cat
      <4> QED BY <4>1, <3>1, <1>4 DEF OpsOK
    <3>3. CASE ~last
      <4>1. ops = <<don>>
        BY <1>3, <2>1, <3>3, Cat
      <4> QED BY <4>1, <3>1, <1>4 DEF OpsOK
    <3> QED BY <3>2, <3>3
  <2>2. CASE s.c # Null /\ s.r = Null
    <3>1. Count(s) = 1
      BY <2>2 DEF Count, One
    <3>2. CASE last
      <4>1. ops = <<un, bc, don>>
        BY <1>3, <2>2, <3>2, Cat
      <4> QED BY <4>1, <3>1, <1>4, <1>5, <2>2 DEF OpsOK
    <3>3. CASE ~last
      <4>1. ops = <<bc, don>>
        BY <1>3, <2>2, <3>3, Cat
      <4> QED BY <4>1, <3>1, <1>4, <1>5, <2>2 DEF OpsOK
    <3> QED BY <3>2, <3>3
  <2>3. CASE s.c = Null /\ s.r # Null
    <3>1. Count(s) = 1
      BY <2>3 DEF Count, One
    <3>2. CASE last
      <4>1. ops = <<un, br, don>>
        BY <1>3, <2>3, <3>2, Cat
      <4> QED BY <4>1, <3>1, <1>4, <1>5, <2>3 DEF OpsOK
    <3>3. CASE ~last
      <4>1. ops = <<br, don>>
        BY <1>3, <2>3, <3>3, Cat
      <4> QED BY <4>1, <3>1, <1>4, <1>5, <2>3 DEF OpsOK
    <3> QED BY <3>2, <3>3
  <2>4. CASE s.c # Null /\ s.r # Null
    <3>1. Count(s) = 2
      BY <2>4 DEF Count, One
    <3>2. CASE last
      <4>5. ops = <<un>> \o <<bc>> \o <<br>> \o <<don>>
        BY <1>3, <2>4, <3>2
      <4>6. <<un>> \o <<bc>> = <<un, bc>> /\ <<un, bc>> \o <<br>> = <<un, bc, br>>
        BY Cat
      <4>7. <<un, bc, br>> \o <<don>> = <<un, bc, br, don>>
        BY Cat
      <4>1. ops = <<un, bc, br, don>>
        BY <4>5, <4>6, <4>7
      <4> QED BY <4>1, <3>1, <1>4, <1>5, <2>4 DEF OpsOK
    <3>3. CASE ~last
      <4>1. ops = <<bc, br, don>>
        BY <1>3, <2>4, <3>3, Cat
      <4> QED BY <4>1, <3>1, <1>4, <1>5, <2>4 DEF OpsOK
    <3> QED BY <3>2, <3>3
  <2> QED BY <2>1, <2>2, <2>3, <2>4
<1> QED BY <1>2, <1>6 DEF Jobs, InJob

(* A stream has done what it was asked to and hands over its callback. *)
LEMMA OutNotify ==
    ASSUME MainOK, StreamsOK, NEW r \in Streams, stream[r] # Null, Notify(r), cfg' = cfg,
           DOMAIN res' = Streams, \A s \in Streams : res'[s].done = res[s].done
    PROVE  Out' = Out /\ StreamsOK'
<1>0. cfg \in Configs
  BY DEF MainOK
<1>1. stream[r] \in Asked /\ stream \in [Streams -> {Null} \cup Asked] /\ jobs \in Seq(Jobs)
  BY DEF StreamsOK
<1>2. PICK s \in Asked : s = stream[r]
  BY <1>1
<1>3. PICK job : job = Callback(r, s)
  OBVIOUS
<1>4. /\ job \in Jobs /\ job.res = r /\ OpsOK(job.ops)
      /\ \A k \in 2 .. 4 : InJob(job, k) <=> k <= 1 + Count(s)
  BY <1>0, <1>3, CallbackFacts
<1>5. jobs' = Append(jobs, job) /\ stream' = [stream EXCEPT ![r] = Null]
  BY <1>2, <1>3 DEF Notify
<1>6. PICK n \in Nat : n = Len(jobs)
  BY <1>1
<1>7. /\ jobs' \in Seq(Jobs) /\ Len(jobs') = n + 1
      /\ \A i \in 1 .. n + 1 : jobs'[i] = IF i = n + 1 THEN job ELSE jobs[i]
  BY <1>1, <1>4, <1>5, <1>6, PoolPut
<1>8. \A i \in 1 .. n : jobs[i].res # r
  BY <1>6 DEF StreamsOK
<1>9. Streams' = Streams /\ BufferIds' = BufferIds /\ Asked' = Asked /\ Ops' = Ops /\ Jobs' = Jobs
  BY DEF Streams, StreamCount, BufferIds, Asked, Ops, Jobs
<1>10. Out' = Out
  <2>1. \A t \in Streams, k \in 2 .. 4 : t # r => (InStream(t, k)' <=> InStream(t, k))
    BY <1>1, <1>5 DEF InStream, Count
  <2>2. \A k \in 2 .. 4 : ~InStream(r, k)' /\ (InStream(r, k) <=> k <= 1 + Count(s))
    BY <1>1, <1>2, <1>5 DEF InStream
  <2>3. \A t \in Streams, k \in 2 .. 4 : InJobs(t, k)' <=> InJobs(t, k) \/ (t = r /\ InJob(job, k))
    <3> SUFFICES ASSUME NEW t \in Streams, NEW k \in 2 .. 4
                 PROVE  InJobs(t, k)' <=> InJobs(t, k) \/ (t = r /\ InJob(job, k))
      OBVIOUS
    <3>1. InJobs(t, k)' <=> \E i \in 1 .. n + 1 : jobs'[i].res = t /\ InJob(jobs'[i], k)
      BY <1>7 DEF InJobs, InJob
    <3>2. InJobs(t, k) <=> \E i \in 1 .. n : jobs[i].res = t /\ InJob(jobs[i], k)
      BY <1>6 DEF InJobs
    <3> QED BY <3>1, <3>2, <1>4, <1>7
  <2>4. \A k \in 2 .. 4 : ~InJobs(r, k)
    BY <1>6, <1>8 DEF InJobs
  <2>5. \A t \in Streams, k \in 2 .. 4 :
           (InStream(t, k)' \/ InJobs(t, k)') <=> (InStream(t, k) \/ InJobs(t, k))
    BY <2>1, <2>2, <2>3, <2>4, <1>4
  <2>6. \A t \in Streams, k \in 2 .. 4 : <<t, k>> \in Out' <=> <<t, k>> \in Out
    BY <2>5, <1>9 DEF Out
  <2>7. PICK X, Y : X = Out' /\ Y = Out
    OBVIOUS
  <2>8. X \subseteq Streams \X (2 .. 4) /\ Y \subseteq Streams \X (2 .. 4)
    BY <2>7, <1>9 DEF Out
  <2>9. \A t \in Streams, k \in 2 .. 4 : <<t, k>> \in X <=> <<t, k>> \in Y
    BY <2>6, <2>7
  <2>10. X = Y
    BY <2>8, <2>9, SamePairs
  <2> QED BY <2>7, <2>10
<1>11. StreamsOK'
  <2>1. stream' \in [Streams -> {Null} \cup Asked]
    BY <1>1, <1>5
  <2>2. ~res[r].done
    BY DEF StreamsOK
  <2>3. \A t \in Streams : stream'[t] # Null => ~res'[t].done
    BY <1>1, <1>5 DEF StreamsOK
  <2>4. \A i \in 1 .. n + 1 : /\ OpsOK(jobs'[i].ops)
                              /\ ~res'[jobs'[i].res].done /\ stream'[jobs'[i].res] = Null
    <3> SUFFICES ASSUME NEW i \in 1 .. n + 1
                 PROVE  /\ OpsOK(jobs'[i].ops)
                        /\ ~res'[jobs'[i].res].done /\ stream'[jobs'[i].res] = Null
      OBVIOUS
    <3>1. CASE i = n + 1
      BY <3>1, <1>1, <1>4, <1>5, <1>7, <2>2
    <3>2. CASE i # n + 1
      <4>1. i \in 1 .. Len(jobs) /\ jobs'[i] = jobs[i] /\ jobs[i].res \in Streams
        <5>1. i \in 1 .. Len(jobs) /\ jobs'[i] = jobs[i]
          BY <3>2, <1>6, <1>7
        <5>2. jobs[i] \in Jobs
          BY <5>1, <1>1
        <5> QED BY <5>1, <5>2 DEF Jobs
      <4>2. OpsOK(jobs[i].ops) /\ ~res[jobs[i].res].done /\ stream[jobs[i].res] = Null
        BY <4>1 DEF StreamsOK
      <4> QED BY <4>1, <4>2, <1>1, <1>5
    <3> QED BY <3>1, <3>2
  <2>5. \A i, k \in 1 .. n + 1 : jobs'[i].res = jobs'[k].res => i = k
    BY <1>4, <1>6, <1>7, <1>8 DEF StreamsOK
  <2> QED BY <2>1, <2>3, <2>4, <2>5, <1>7, <1>9 DEF StreamsOK, OpsOK
<1> QED BY <1>10, <1>11

(* One step of a callback *)
LEMMA OutRun ==
    ASSUME MainOK, StreamsOK, jobs # <<>>, UNCHANGED <<cfg, stream>>,
           NEW job, NEW op, job = Head(jobs), op = Head(job.ops),
           jobs' = IF Len(job.ops) = 1 THEN Tail(jobs) ELSE [jobs EXCEPT ![1].ops = Tail(@)],
           DOMAIN res' = Streams,
           \A s \in Streams : res'[s].done = IF op.op = "done" /\ s = job.res THEN TRUE ELSE res[s].done
    PROVE  /\ job.res \in Streams /\ op \in Ops /\ ~res[job.res].done
           /\ op.op = "bundle" => /\ Cardinality(Out) = Cardinality(Out') + 1
                                  /\ Cardinality(Out') \in Nat
                                  /\ <<job.res, Len(job.ops)>> \in Out
                                  /\ Out' = Out \ {<<job.res, Len(job.ops)>>}
           /\ op.op # "bundle" => Out' = Out
           /\ StreamsOK'
<1>0. cfg \in Configs
  BY DEF MainOK
<1>1. stream \in [Streams -> {Null} \cup Asked] /\ jobs \in Seq(Jobs)
  BY DEF StreamsOK
<1>2. PICK n \in Nat : n = Len(jobs) /\ n > 0 /\ job = jobs[1] /\ 1 \in 1 .. n
  BY <1>1, PoolHead
<1>3. job \in Jobs
  BY <1>1, <1>2
<1>4. PICK ops \in Seq(Ops), q \in Streams : ops = job.ops /\ q = job.res
  BY <1>3 DEF Jobs
<1>5. /\ OpsOK(ops) /\ ~res[q].done /\ stream[q] = Null
      /\ \A i \in 2 .. n : jobs[i].res # q
  <2>1. 1 \in 1 .. Len(jobs)
    BY <1>2
  <2>2. OpsOK(jobs[1].ops) /\ ~res[jobs[1].res].done /\ stream[jobs[1].res] = Null
    BY <2>1 DEF StreamsOK
  <2>3. \A i \in 2 .. n : jobs[i].res # jobs[1].res
    <3> SUFFICES ASSUME NEW i \in 2 .. n, jobs[i].res = jobs[1].res PROVE FALSE
      OBVIOUS
    <3>1. i \in 1 .. Len(jobs) /\ i # 1
      BY <1>2
    <3> QED BY <3>1, <2>1 DEF StreamsOK
  <2> QED BY <1>2, <1>4, <2>2, <2>3
<1>6. PICK L \in 1 .. 4 : L = Len(ops) /\ \A k \in 1 .. L : ops[k].op = "done" <=> k = L
  BY <1>5 DEF OpsOK
<1>7. ops # <<>> /\ op = ops[1] /\ op \in Ops
  <2>1. ops # <<>>
    BY <1>6
  <2> QED BY <2>1, <1>4, PoolHead
<1>8. op.op = "done" <=> L = 1
  BY <1>6, <1>7
<1>9. Streams' = Streams /\ BufferIds' = BufferIds /\ Asked' = Asked /\ Ops' = Ops /\ Jobs' = Jobs
  BY DEF Streams, StreamCount, BufferIds, Asked, Ops, Jobs
<1>10. \A t \in Streams, k \in 2 .. 4 : InStream(t, k)' <=> InStream(t, k)
  BY DEF InStream, Count
<1>11. \A t \in Streams, k \in 2 .. 4 :
          /\ <<t, k>> \in Out <=> InStream(t, k) \/ InJobs(t, k)
          /\ <<t, k>> \in Out' <=> InStream(t, k) \/ InJobs(t, k)'
  BY <1>9, <1>10 DEF Out
<1>12. Out \subseteq Streams \X (2 .. 4) /\ Out' \subseteq Streams \X (2 .. 4)
  BY <1>9 DEF Out
<1>13. \A t \in Streams, k \in 2 .. 4 :
          InJobs(t, k) <=> \/ t = q /\ InJob(job, k)
                           \/ \E i \in 2 .. n : jobs[i].res = t /\ InJob(jobs[i], k)
  <2>1. \A i \in 1 .. n : i = 1 \/ i \in 2 .. n
    OBVIOUS
  <2>2. \A i \in 2 .. n : i \in 1 .. n
    OBVIOUS
  <2> QED BY <1>2, <1>4, <2>1, <2>2 DEF InJobs
<1>14. CASE L = 1
  <2>1. /\ jobs' \in Seq(Jobs) /\ Len(jobs') = n - 1
        /\ \A i \in 1 .. n - 1 : i + 1 \in 1 .. n /\ jobs'[i] = jobs[i + 1]
    <3>1. jobs' = Tail(jobs)
      BY <1>4, <1>6, <1>14
    <3> QED BY <3>1, <1>1, <1>2, PoolHead
  <2>2. \A t \in Streams, k \in 2 .. 4 : InJobs(t, k)' <=> InJobs(t, k)
    <3> SUFFICES ASSUME NEW t \in Streams, NEW k \in 2 .. 4 PROVE InJobs(t, k)' <=> InJobs(t, k)
      OBVIOUS
    <3>1. ~InJob(job, k)
      BY <1>4, <1>6, <1>14 DEF InJob
    <3>2. InJobs(t, k)' <=> \E i \in 1 .. n - 1 : jobs'[i].res = t /\ InJob(jobs'[i], k)
      BY <2>1 DEF InJobs, InJob
    <3>3. \A i \in 1 .. n - 1 : i + 1 \in 2 .. n
      OBVIOUS
    <3>4. \A i \in 2 .. n : i - 1 \in 1 .. n - 1 /\ (i - 1) + 1 = i
      OBVIOUS
    <3>5. ASSUME NEW i \in 2 .. n, jobs[i].res = t /\ InJob(jobs[i], k)
          PROVE  \E l \in 1 .. n - 1 : jobs'[l].res = t /\ InJob(jobs'[l], k)
      <4>1. i - 1 \in 1 .. n - 1 /\ jobs'[i - 1] = jobs[i]
        BY <3>4, <2>1
      <4> QED BY <4>1, <3>5
    <3>6. ASSUME NEW i \in 1 .. n - 1, jobs'[i].res = t /\ InJob(jobs'[i], k)
          PROVE  \E l \in 2 .. n : jobs[l].res = t /\ InJob(jobs[l], k)
      BY <3>3, <2>1, <3>6
    <3> QED BY <1>13, <3>1, <3>2, <3>5, <3>6
  <2>3. Out' = Out
    <3>1. PICK X, Y : X = Out' /\ Y = Out
      OBVIOUS
    <3>2. \A t \in Streams, k \in 2 .. 4 : <<t, k>> \in X <=> <<t, k>> \in Y
      BY <3>1, <1>11, <2>2
    <3>3. X \subseteq Streams \X (2 .. 4) /\ Y \subseteq Streams \X (2 .. 4)
      BY <3>1, <1>12
    <3>4. X = Y
      BY <3>2, <3>3, SamePairs
    <3> QED BY <3>1, <3>4
  <2>4. op.op # "bundle"
    BY <1>8, <1>14
  <2>5. StreamsOK'
    <3>1. stream' \in [Streams -> {Null} \cup Asked]
      BY <1>1
    <3>2. \A t \in Streams : stream'[t] # Null => ~res'[t].done
      BY <1>4, <1>5 DEF StreamsOK
    <3>3. \A i \in 1 .. n - 1 : /\ OpsOK(jobs'[i].ops)
                                /\ ~res'[jobs'[i].res].done /\ stream'[jobs'[i].res] = Null
      <4> SUFFICES ASSUME NEW i \in 1 .. n - 1
                   PROVE  /\ OpsOK(jobs'[i].ops)
                          /\ ~res'[jobs'[i].res].done /\ stream'[jobs'[i].res] = Null
        OBVIOUS
      <4>1. i + 1 \in 2 .. n /\ i + 1 \in 1 .. Len(jobs) /\ jobs'[i] = jobs[i + 1]
        BY <1>2, <2>1
      <4>2. jobs[i + 1] \in Jobs
        BY <4>1, <1>1
      <4>3. jobs[i + 1].res \in Streams /\ jobs[i + 1].res # q
        BY <4>1, <4>2, <1>5 DEF Jobs
      <4>4. OpsOK(jobs[i + 1].ops) /\ ~res[jobs[i + 1].res].done /\ stream[jobs[i + 1].res] = Null
        BY <4>1 DEF StreamsOK
      <4> QED BY <4>1, <4>3, <4>4, <1>4
    <3>4. \A i, k \in 1 .. n - 1 : jobs'[i].res = jobs'[k].res => i = k
      <4> SUFFICES ASSUME NEW i \in 1 .. n - 1, NEW k \in 1 .. n - 1, jobs'[i].res = jobs'[k].res
                   PROVE  i = k
        OBVIOUS
      <4>1. /\ i + 1 \in 1 .. Len(jobs) /\ jobs'[i] = jobs[i + 1]
            /\ k + 1 \in 1 .. Len(jobs) /\ jobs'[k] = jobs[k + 1]
        BY <1>2, <2>1
      <4>2. i + 1 = k + 1
        BY <4>1 DEF StreamsOK
      <4> QED BY <4>2
    <3> QED BY <2>1, <3>1, <3>2, <3>3, <3>4, <1>9 DEF StreamsOK, OpsOK
  <2> QED BY <2>3, <2>4, <2>5, <1>4, <1>5, <1>7
<1>15. CASE L > 1
  <2>0. op.op # "done"
    BY <1>8, <1>15, SMTT(30)
  <2>1. PICK rest \in Seq(Ops) : /\ rest = Tail(ops) /\ Len(rest) = L - 1
                                 /\ \A k \in 1 .. L - 1 : rest[k] = ops[k + 1]
    <3>1. /\ Tail(ops) \in Seq(Ops) /\ Len(Tail(ops)) = Len(ops) - 1
          /\ \A k \in 1 .. Len(ops) - 1 : Tail(ops)[k] = ops[k + 1]
      BY <1>7, PoolHead
    <3> QED BY <3>1, <1>6
  <2>2. PICK job1 : job1 = [job EXCEPT !.ops = Tail(@)]
    OBVIOUS
  <2>4. job1 = [job EXCEPT !.ops = Tail(@)]
    BY <2>2
  <2>3. job1.res = q /\ job1.ops = rest /\ job1 \in Jobs
    <3>1. job1.res = job.res /\ job1.ops = Tail(job.ops)
      BY <1>3, <2>2 DEF Jobs
    <3>2. Tail(job.ops) \in Seq(Ops)
      BY <1>4, <2>1
    <3>3. job1 \in Jobs
      BY <1>3, <2>2, <3>2 DEF Jobs
    <3> QED BY <3>1, <3>3, <1>4, <2>1
  <2>5. jobs' = [jobs EXCEPT ![1] = job1]
    <3>1. jobs' = [jobs EXCEPT ![1].ops = Tail(@)]
      <4>1. Len(job.ops) # 1
        BY <1>4, <1>6, <1>15, SMTT(30)
      <4> QED BY <4>1
    <3>2. jobs[1] = job
      BY <1>2
    <3> QED BY <3>1, <3>2, <2>4, <1>2, <1>1
  <2>6. /\ jobs' \in Seq(Jobs) /\ Len(jobs') = n
        /\ \A i \in 1 .. n : jobs'[i] = IF i = 1 THEN job1 ELSE jobs[i]
    <3>1. 1 \in 1 .. Len(jobs)
      BY <1>2
    <3>2. /\ [jobs EXCEPT ![1] = job1] \in Seq(Jobs)
          /\ Len([jobs EXCEPT ![1] = job1]) = Len(jobs)
          /\ \A i \in 1 .. Len(jobs) : [jobs EXCEPT ![1] = job1][i] = IF i = 1 THEN job1 ELSE jobs[i]
      BY <3>1, <1>1, <2>3
    <3> QED BY <3>2, <2>5, <1>2
  <2>7. \A k \in 2 .. 4 : InJob(job1, k) <=> InJob(job, k) /\ k # L
    <3> SUFFICES ASSUME NEW k \in 2 .. 4 PROVE InJob(job1, k) <=> InJob(job, k) /\ k # L
      OBVIOUS
    <3>1. CASE k <= L - 1
      <4>1. (L - 1) + 1 - k \in 1 .. L - 1 /\ ((L - 1) + 1 - k) + 1 = L + 1 - k
        BY <3>1
      <4>2. rest[(L - 1) + 1 - k] = ops[L + 1 - k]
        BY <4>1, <2>1
      <4>3. InJob(job1, k) <=> rest[(L - 1) + 1 - k].op = "bundle"
        BY <2>1, <2>3, <3>1 DEF InJob
      <4>4. InJob(job, k) <=> ops[L + 1 - k].op = "bundle"
        BY <1>4, <1>6, <3>1 DEF InJob
      <4> QED BY <4>2, <4>3, <4>4, <3>1
    <3>2. CASE ~(k <= L - 1)
      <4>1. ~InJob(job1, k)
        BY <2>1, <2>3, <3>2 DEF InJob
      <4>2. InJob(job, k) => k = L
        BY <1>4, <1>6, <3>2 DEF InJob
      <4> QED BY <4>1, <4>2
    <3> QED BY <3>1, <3>2
  <2>8. \A t \in Streams, k \in 2 .. 4 :
          InJobs(t, k)' <=> \/ t = q /\ InJob(job1, k)
                            \/ \E i \in 2 .. n : jobs[i].res = t /\ InJob(jobs[i], k)
    <3> SUFFICES ASSUME NEW t \in Streams, NEW k \in 2 .. 4
                 PROVE  InJobs(t, k)' <=> \/ t = q /\ InJob(job1, k)
                            \/ \E i \in 2 .. n : jobs[i].res = t /\ InJob(jobs[i], k)
      OBVIOUS
    <3>1. InJobs(t, k)' <=> \E i \in 1 .. n : jobs'[i].res = t /\ InJob(jobs'[i], k)
      BY <2>6 DEF InJobs, InJob
    <3>2. \A i \in 1 .. n : i = 1 \/ i \in 2 .. n
      OBVIOUS
    <3>3. \A i \in 2 .. n : i \in 1 .. n /\ i # 1
      OBVIOUS
    <3>4. jobs'[1] = job1 /\ \A i \in 2 .. n : jobs'[i] = jobs[i]
      BY <3>3, <2>6, <1>2
    <3>5. ASSUME NEW i \in 1 .. n, jobs'[i].res = t /\ InJob(jobs'[i], k)
          PROVE  \/ t = q /\ InJob(job1, k)
                 \/ \E l \in 2 .. n : jobs[l].res = t /\ InJob(jobs[l], k)
      <4>1. CASE i = 1
        BY <4>1, <3>5, <3>4, <2>3
      <4>2. CASE i \in 2 .. n
        BY <4>2, <3>5, <3>4
      <4> QED BY <4>1, <4>2, <3>2
    <3>6. ASSUME t = q /\ InJob(job1, k)
          PROVE  \E i \in 1 .. n : jobs'[i].res = t /\ InJob(jobs'[i], k)
      BY <3>6, <3>4, <2>3, <1>2
    <3>7. ASSUME NEW l \in 2 .. n, jobs[l].res = t /\ InJob(jobs[l], k)
          PROVE  \E i \in 1 .. n : jobs'[i].res = t /\ InJob(jobs'[i], k)
      BY <3>7, <3>4, <3>3
    <3> QED BY <3>1, <3>5, <3>6, <3>7
  <2>9. L \in 2 .. 4
    BY <1>15
  <2>10. \A t \in Streams, k \in 2 .. 4 :
            InJobs(t, k)' <=> InJobs(t, k) /\ <<t, k>> # <<q, L>>
    <3> SUFFICES ASSUME NEW t \in Streams, NEW k \in 2 .. 4
                 PROVE  InJobs(t, k)' <=> InJobs(t, k) /\ ~(t = q /\ k = L)
      OBVIOUS
    <3> QED BY <1>5, <1>13, <2>7, <2>8
  <2>11. \A t \in Streams, k \in 2 .. 4 : <<t, k>> \in Out' <=> <<t, k>> \in Out \ {<<q, L>>}
    <3>1. ~InStream(q, L)
      BY <1>5 DEF InStream
    <3> QED BY <1>11, <2>10, <3>1
  <2>12. Out' = Out \ {<<q, L>>}
    <3>1. PICK X, Y : X = Out' /\ Y = Out \ {<<q, L>>}
      OBVIOUS
    <3>2. \A t \in Streams, k \in 2 .. 4 : <<t, k>> \in X <=> <<t, k>> \in Y
      BY <3>1, <2>11
    <3>3. X \subseteq Streams \X (2 .. 4) /\ Y \subseteq Streams \X (2 .. 4)
      BY <3>1, <1>12
    <3>4. X = Y
      BY <3>2, <3>3, SamePairs
    <3> QED BY <3>1, <3>4
  <2>13. <<q, L>> \in Out <=> op.op = "bundle"
    <3>1. ~InStream(q, L)
      BY <1>5 DEF InStream
    <3>2. InJob(job, L) <=> op.op = "bundle"
      BY <1>4, <1>6, <1>7 DEF InJob
    <3> QED BY <1>5, <1>11, <1>13, <2>9, <3>1, <3>2
  <2>14. op.op = "bundle" => Cardinality(Out) = Cardinality(Out') + 1 /\ Cardinality(Out') \in Nat
    <3> HAVE op.op = "bundle"
    <3>1. IsFiniteSet(Out) /\ Cardinality(Out) \in Nat
      BY <1>0, OutFinite
    <3>2. IsFiniteSet(Out \ {<<q, L>>}) /\ Cardinality(Out \ {<<q, L>>}) = Cardinality(Out) - 1
      BY <3>1, <2>13, FS_RemoveElement
    <3>3. Cardinality(Out \ {<<q, L>>}) \in Nat
      BY <3>2, FS_CardinalityType
    <3>4. Cardinality(Out') = Cardinality(Out) - 1 /\ Cardinality(Out') \in Nat
      BY <2>12, <3>2, <3>3
    <3> QED BY <3>1, <3>4
  <2>15. op.op # "bundle" => Out' = Out
    BY <2>12, <2>13
  <2>16. StreamsOK'
    <3>1. stream' \in [Streams -> {Null} \cup Asked]
      BY <1>1
    <3>2. \A t \in Streams : stream'[t] # Null => ~res'[t].done
      BY <2>0 DEF StreamsOK
    <3>3. OpsOK(rest)
      <4>1. \A k \in 1 .. L - 1 : rest[k].op = "done" <=> k = L - 1
        <5> SUFFICES ASSUME NEW k \in 1 .. L - 1 PROVE rest[k].op = "done" <=> k = L - 1
          OBVIOUS
        <5>1. k + 1 \in 1 .. L /\ rest[k] = ops[k + 1]
          BY <2>1
        <5>2. rest[k].op = "done" <=> k + 1 = L
          BY <5>1, <1>6
        <5> QED BY <5>2
      <4>2. L - 1 \in 1 .. 4 /\ Len(rest) = L - 1
        BY <2>1, <1>15
      <4> QED BY <4>1, <4>2 DEF OpsOK
    <3>4. \A i \in 1 .. n : /\ OpsOK(jobs'[i].ops) /\ jobs'[i].res = jobs[i].res
                            /\ ~res'[jobs'[i].res].done /\ stream'[jobs'[i].res] = Null
      <4> SUFFICES ASSUME NEW i \in 1 .. n
                   PROVE  /\ OpsOK(jobs'[i].ops) /\ jobs'[i].res = jobs[i].res
                          /\ ~res'[jobs'[i].res].done /\ stream'[jobs'[i].res] = Null
        OBVIOUS
      <4>1. OpsOK(jobs[i].ops) /\ ~res[jobs[i].res].done /\ stream[jobs[i].res] = Null
        BY <1>2 DEF StreamsOK
      <4>2. jobs[i] \in Jobs
        BY <1>1, <1>2
      <4>3. jobs[i].res \in Streams
        BY <4>2 DEF Jobs
      <4>4. jobs'[i].res = jobs[i].res
        BY <1>2, <1>4, <2>3, <2>6
      <4>5. OpsOK(jobs'[i].ops)
        BY <2>3, <2>6, <3>3, <4>1
      <4> QED BY <2>0, <4>1, <4>3, <4>4, <4>5
    <3>5. \A i, k \in 1 .. n : jobs'[i].res = jobs'[k].res => i = k
      BY <3>4, <1>2 DEF StreamsOK
    <3> QED BY <2>6, <3>1, <3>2, <3>4, <3>5, <1>9 DEF StreamsOK, OpsOK
  <2> QED BY <2>12, <2>13, <2>14, <2>15, <2>16, <1>4, <1>5, <1>6, <1>7
<1> QED BY <1>14, <1>15, <1>6

-----------------------------------------------------------------------------
(* The main thread and its resources *)

LEMMA MainInit == Init => MainOK
<1> SUFFICES ASSUME Init PROVE MainOK
  OBVIOUS
<1>1. cfg \in Configs
  BY DEF Init
<1>2. part \in Nat /\ mpc = "start" /\ cur = 0 /\ part < cfg.parts
  BY <1>1, CallFacts DEF Init
<1>3. 0 \in Streams
  BY <1>1, CallFacts
<1>4. DOMAIN res = Streams
  BY DEF Init
<1>5. \A r \in Streams : DOMAIN res[r] = Fields /\ res[r].state = "IDLE" /\ res[r].done = TRUE
  BY DEF Init, Fields
<1> QED BY <1>1, <1>2, <1>3, <1>4, <1>5 DEF MainOK, States, Waiting

(* The main thread goes round the resources. *)
LEMMA NextResourceKeeps ==
    ASSUME cfg \in Configs, cur \in Streams, NextResource
    PROVE  cur' \in Streams
<1>1. PICK n \in Nat, k \in Nat : n = cfg.streams /\ k = cur /\ n > 0 /\ Streams = 0 .. n - 1
  BY CallFacts DEF Streams, StreamCount
<1>2. (k + 1) % n \in 0 .. n - 1
  BY <1>1
<1> QED BY <1>1, <1>2 DEF NextResource, StreamCount

(* A visit changes one resource. *)
LEMMA VisitMain ==
    ASSUME MainOK, NEW r \in Streams, cfg' = cfg, part' = part, mpc = "loop", cur = r,
           mpc' \in {"loop", "load"}, cur' \in Streams, DOMAIN res' = Streams,
           \A s \in Streams \ {r} : res'[s] = res[s],
           DOMAIN res'[r] = Fields, res'[r].state \in States, res'[r].done \in BOOLEAN,
           res'[r].state \notin Waiting => res'[r].done,
           mpc' = "load" => cur' = r /\ res'[r].state = "DATA_READ"
    PROVE  MainOK'
<1>1. Streams' = Streams
  BY DEF Streams, StreamCount
<1>2. cfg' \in Configs /\ part' \in Nat /\ part' < cfg'.parts
  BY DEF MainOK
<1>3. \A s \in Streams : DOMAIN res[s] = Fields /\ res[s].state \in States /\ res[s].done \in BOOLEAN
                         /\ (res[s].state \notin Waiting => res[s].done)
  BY DEF MainOK
<1>4. \A s \in Streams : DOMAIN res'[s] = Fields /\ res'[s].state \in States /\ res'[s].done \in BOOLEAN
                         /\ (res'[s].state \notin Waiting => res'[s].done)
  BY <1>3
<1>5. mpc' = "load" => res'[cur'].state = "DATA_READ"
  OBVIOUS
<1> QED BY <1>1, <1>2, <1>4, <1>5 DEF MainOK

(* What the visits of the main thread do to it and to its resources *)
LEMMA MainKeepsVisit ==
    ASSUME MainOK, StreamsOK, NEW r \in Streams, Visit(r)
    PROVE  MainOK' /\ mpc = "loop" /\ mpc' \in {"loop", "load"}
<1>0. cfg \in Configs /\ cur \in Streams /\ DOMAIN res = Streams /\ DOMAIN res[r] = Fields
      /\ res[r].state \in States /\ res[r].done \in BOOLEAN
      /\ (res[r].state \notin Waiting => res[r].done)
  BY DEF MainOK
<1>1. CASE Idle(r)
  <2>1. PICK c, t : c = SchedulerNext(res[r].sc, res[r].pool) /\ t = SchedulerNext(res[r].sr, c.bufs)
    OBVIOUS
  <2>2. mpc = "loop" /\ cur = r /\ res[r].state = "IDLE" /\ NextResource /\ cfg' = cfg /\ part' = part
        /\ mpc' = mpc
    BY <1>1 DEF Idle, At, VisitFrame
  <2>3. res' = [res EXCEPT ![r].sc = c.sched, ![r].sr = t.sched, ![r].pool = t.bufs,
                           ![r].wc = c.work, ![r].wr = t.work, ![r].last = ~c.more,
                           ![r].state = IF c.work.leaf THEN "DATA_READ" ELSE "HASH_LEAF"]
    BY <1>1, <2>1 DEF Idle
  <2>4. DOMAIN res' = Streams /\ \A s \in Streams \ {r} : res'[s] = res[s]
    BY <1>0, <2>3
  <2>5. /\ DOMAIN res'[r] = Fields /\ res'[r].state \in {"DATA_READ", "HASH_LEAF"}
        /\ res'[r].done = res[r].done
    BY <1>0, <2>3 DEF Fields
  <2>6. cur' \in Streams
    BY <1>0, <2>2, NextResourceKeeps
  <2>7. res[r].done
    BY <1>0, <2>2 DEF Waiting
  <2>8. /\ res'[r].state \in States /\ mpc' # "load"
        /\ cfg' = cfg /\ part' = part /\ mpc = "loop" /\ cur = r /\ mpc' \in {"loop", "load"}
    BY <2>2, <2>5 DEF States
  <2>9. res'[r].done /\ res'[r].done \in BOOLEAN /\ DOMAIN res'[r] = Fields
    BY <1>0, <2>5, <2>7
  <2> QED BY <1>0, <2>4, <2>6, <2>8, <2>9, VisitMain, ZenonT(40)
<1>2. CASE ReadData(r)
  <2>1. mpc = "loop" /\ cur = r /\ res[r].state = "DATA_READ" /\ cfg' = cfg /\ part' = part
        /\ mpc' = "load" /\ cur' = cur
    BY <1>2 DEF ReadData, At, VisitFrame
  <2>2. PICK x : res' = [res EXCEPT ![r].start = x]
    BY <1>2 DEF ReadData
  <2>3. DOMAIN res' = Streams /\ \A s \in Streams \ {r} : res'[s] = res[s]
    BY <1>0, <2>2
  <2>4. DOMAIN res'[r] = Fields /\ res'[r].state = res[r].state /\ res'[r].done = res[r].done
    BY <1>0, <2>2 DEF Fields
  <2> QED BY <1>0, <2>1, <2>3, <2>4, VisitMain
<1>3. CASE WaitData(r)
  <2>1. mpc = "loop" /\ cur = r /\ res[r].state = "DATA_WAIT" /\ cfg' = cfg /\ part' = part
        /\ mpc' = mpc /\ NextResource
    BY <1>3 DEF WaitData, At, VisitFrame
  <2>2. PICK x : res' = [res EXCEPT ![r].replica = x,
               ![r].state = IF cfg.rOnly THEN "HASH_COLUMN_LEAVES" ELSE "HASH_COLUMN"]
    BY <1>3 DEF WaitData
  <2>3. DOMAIN res' = Streams /\ \A s \in Streams \ {r} : res'[s] = res[s]
    BY <1>0, <2>2
  <2>4. /\ DOMAIN res'[r] = Fields /\ res'[r].state \in {"HASH_COLUMN_LEAVES", "HASH_COLUMN"}
        /\ res'[r].done = res[r].done
    BY <1>0, <2>2 DEF Fields
  <2>5. cur' \in Streams
    BY <1>0, <2>1, NextResourceKeeps
  <2>6. res[r].done
    BY <1>0, <2>1 DEF Waiting
  <2> QED BY <2>1, <2>3, <2>4, <2>5, <2>6, VisitMain DEF States, Waiting
<1>4. CASE HashColumn(r) \/ HashColumnLeaves(r) \/ HashLeaf(r)
  <2>1. mpc = "loop" /\ cur = r /\ cfg' = cfg /\ part' = part /\ mpc' = mpc /\ NextResource
    BY <1>4 DEF HashColumn, HashColumnLeaves, HashLeaf, At, VisitFrame
  <2>2. PICK x \in {"HASH_COLUMN_LEAVES", "HASH_WAIT"} :
           res' = [res EXCEPT ![r].done = FALSE, ![r].state = x]
    BY <1>4 DEF HashColumn, HashColumnLeaves, HashLeaf
  <2>3. DOMAIN res' = Streams /\ \A s \in Streams \ {r} : res'[s] = res[s]
    BY <1>0, <2>2
  <2>4. DOMAIN res'[r] = Fields /\ res'[r].state = x /\ res'[r].done = FALSE
    BY <1>0, <2>2 DEF Fields
  <2>5. cur' \in Streams
    BY <1>0, <2>1, NextResourceKeeps
  <2> QED BY <2>1, <2>3, <2>4, <2>5, VisitMain DEF States, Waiting
<1>5. CASE HashWait(r)
  <2>1. mpc = "loop" /\ cur = r /\ res[r].done /\ cfg' = cfg /\ part' = part /\ mpc' = mpc /\ NextResource
    BY <1>5 DEF HashWait, At, VisitFrame
  <2>2. PICK x \in {"DONE", "IDLE"} : res' = [res EXCEPT ![r].state = x]
    BY <1>5 DEF HashWait
  <2>3. DOMAIN res' = Streams /\ \A s \in Streams \ {r} : res'[s] = res[s]
    BY <1>0, <2>2
  <2>4. DOMAIN res'[r] = Fields /\ res'[r].state = x /\ res'[r].done = res[r].done
    BY <1>0, <2>2 DEF Fields
  <2>5. cur' \in Streams
    BY <1>0, <2>1, NextResourceKeeps
  <2> QED BY <2>1, <2>3, <2>4, <2>5, VisitMain DEF States, Waiting
<1>6. CASE Pass(r)
  <2>1. mpc = "loop" /\ cur = r /\ cfg' = cfg /\ part' = part /\ mpc' = mpc /\ NextResource /\ res' = res
    BY <1>6 DEF Pass, VisitFrame
  <2>2. cur' \in Streams
    BY <1>0, <2>1, NextResourceKeeps
  <2> QED BY <1>0, <2>1, <2>2, VisitMain
<1> QED BY <1>1, <1>2, <1>3, <1>4, <1>5, <1>6 DEF Visit

(* Nobody but the main thread changes the state of a resource. *)
LEMMA MainOther ==
    ASSUME MainOK, cfg' = cfg, part' = part, mpc' = mpc, cur' = cur, DOMAIN res' = Streams,
           \A s \in Streams : /\ DOMAIN res'[s] = Fields /\ res'[s].state = res[s].state
                              /\ res'[s].done \in BOOLEAN
                              /\ res[s].state \notin Waiting => res'[s].done
    PROVE  MainOK'
<1>1. Streams' = Streams
  BY DEF Streams, StreamCount
<1> QED BY <1>1 DEF MainOK

(* What the other steps of the main thread do to them *)
LEMMA MainKeepsMain ==
    ASSUME MainOK, StreamsOK,
           \/ StartPartition \/ LoadPage \/ AllDone \/ Flush \/ WritersDone \/ LockResults
           \/ SpawnCpu \/ WriteRoots
    PROVE  MainOK'
<1>0. cfg \in Configs /\ cur \in Streams /\ DOMAIN res = Streams
      /\ \A s \in Streams : /\ DOMAIN res[s] = Fields
                            /\ res[s].state \in States /\ res[s].done \in BOOLEAN
                            /\ (res[s].state \notin Waiting => res[s].done)
  BY DEF MainOK
<1>1. Streams' = Streams /\ cfg' = cfg
  BY DEF Streams, StreamCount, StartPartition, LoadPage, AllDone, Flush, WritersDone, LockResults,
         SpawnCpu, WriteRoots, VisitFrame, HashFrame
<1>2. CASE StartPartition
  <2>1. part' = part /\ mpc' = "loop" /\ cur' = 0 /\ mpc = "start" /\ res' = [r \in Streams |-> Reset(r)]
    BY <1>2 DEF StartPartition
  <2>2. \A s \in Streams : DOMAIN res'[s] = Fields /\ res'[s].state = "IDLE" /\ res'[s].done = TRUE
    BY <2>1, <1>0 DEF Reset, Fields
  <2>3. 0 \in Streams
    BY <1>0, CallFacts
  <2>4. DOMAIN res' = Streams
    BY <2>1
  <2> QED BY <1>1, <2>1, <2>2, <2>3, <2>4 DEF MainOK, States, Waiting
<1>3. CASE LoadPage
  <2>1. part' = part /\ mpc = "load" /\ res[cur].state = "DATA_READ" /\ res[cur].done
    BY <1>0, <1>3 DEF LoadPage, VisitFrame, MainOK, Waiting
  <2>2. \/ res' = res /\ mpc' = mpc /\ cur' = cur
        \/ res' = [res EXCEPT ![cur].state = "DATA_WAIT"] /\ mpc' = "loop" /\ NextResource
    BY <1>3 DEF LoadPage
  <2>3. CASE res' = res /\ mpc' = mpc /\ cur' = cur
    BY <1>0, <1>1, <2>1, <2>3, MainOther
  <2>4. CASE res' = [res EXCEPT ![cur].state = "DATA_WAIT"] /\ mpc' = "loop" /\ NextResource
    <3>1. cur' \in Streams
      BY <1>0, <2>4, NextResourceKeeps
    <3>2. DOMAIN res' = Streams
      BY <1>0, <2>4
    <3>3. \A s \in Streams : /\ DOMAIN res'[s] = Fields /\ res'[s].done = res[s].done
                             /\ res'[s].state = IF s = cur THEN "DATA_WAIT" ELSE res[s].state
      BY <1>0, <2>4 DEF Fields
    <3> QED BY <1>0, <1>1, <2>1, <2>4, <3>1, <3>2, <3>3 DEF MainOK, States, Waiting
  <2> QED BY <2>2, <2>3, <2>4
<1>4. CASE AllDone
  BY <1>0, <1>1, <1>4 DEF AllDone, VisitFrame, MainOK, States, Waiting
<1>5. CASE Flush
  BY <1>0, <1>1, <1>5 DEF Flush, MainOK, States, Waiting
<1>6. CASE WritersDone
  BY <1>0, <1>1, <1>6 DEF WritersDone, HashFrame, MainOK, States, Waiting
<1>7. CASE LockResults
  BY <1>0, <1>1, <1>7 DEF LockResults, HashFrame, MainOK, States, Waiting
<1>8. CASE SpawnCpu
  BY <1>0, <1>1, <1>8 DEF SpawnCpu, HashFrame, MainOK, States, Waiting
<1>9. CASE WriteRoots
  BY <1>0, <1>1, <1>9 DEF WriteRoots, HashFrame, MainOK, States, Waiting
<1> QED BY <1>2, <1>3, <1>4, <1>5, <1>6, <1>7, <1>8, <1>9

(* A stream touches the column of its resource at most. *)
LEMMA MainKeepsGpu ==
    ASSUME MainOK, NEW r \in Streams, Gpu(r)
    PROVE  /\ MainOK' /\ cfg' = cfg /\ stream[r] # Null /\ Notify(r) /\ DOMAIN res' = Streams
           /\ \A s \in Streams : /\ res'[s].done = res[s].done /\ res'[s].state = res[s].state
                                 /\ res'[s].sc = res[s].sc
           /\ UNCHANGED <<part, mpc, cur, bundles, pools, batcher, writer, terminate>>
<1>0. DOMAIN res = Streams
      /\ \A s \in Streams : /\ DOMAIN res[s] = Fields
                            /\ res[s].state \in States /\ res[s].done \in BOOLEAN
                            /\ (res[s].state \notin Waiting => res[s].done)
  BY DEF MainOK
<1>1. cfg' = cfg /\ stream[r] # Null /\ Notify(r)
      /\ UNCHANGED <<part, mpc, cur, bundles, pools, batcher, writer, terminate>>
  BY DEF Gpu, GpuColumn, GpuLeaves, GpuInner, GpuFrame, mainVars
<1>2. res' = res \/ \E x : res' = [res EXCEPT ![r].column = x]
  BY DEF Gpu, GpuColumn, GpuLeaves, GpuInner
<1>3. /\ DOMAIN res' = Streams
      /\ \A s \in Streams : /\ DOMAIN res'[s] = Fields
                            /\ res'[s].done = res[s].done /\ res'[s].state = res[s].state
                            /\ res'[s].sc = res[s].sc
  <2>1. CASE res' = res
    BY <1>0, <2>1
  <2>2. ASSUME NEW x, res' = [res EXCEPT ![r].column = x]
        PROVE  /\ DOMAIN res' = Streams
               /\ \A s \in Streams : /\ DOMAIN res'[s] = Fields
                            /\ res'[s].done = res[s].done /\ res'[s].state = res[s].state
                            /\ res'[s].sc = res[s].sc
    BY <1>0, <2>2 DEF Fields
  <2> QED BY <1>2, <2>1, <2>2
<1>4. MainOK'
  BY <1>0, <1>1, <1>3, MainOther
<1> QED BY <1>1, <1>3, <1>4

(* One step of a callback may finish its resource. *)
LEMMA MainKeepsRun ==
    ASSUME MainOK, StreamsOK, RunCallback,
           NEW job, NEW op, job = Head(jobs), op = Head(job.ops), job.res \in Streams
    PROVE  /\ MainOK' /\ cfg' = cfg /\ stream' = stream /\ DOMAIN res' = Streams
           /\ \A s \in Streams : /\ res'[s].state = res[s].state /\ res'[s].sc = res[s].sc
                                 /\ res'[s].done = IF op.op = "done" /\ s = job.res THEN TRUE ELSE res[s].done
           /\ UNCHANGED <<part, mpc, cur, writer, terminate>>
<1>0. DOMAIN res = Streams
      /\ \A s \in Streams : /\ DOMAIN res[s] = Fields
                            /\ res[s].state \in States /\ res[s].done \in BOOLEAN
                            /\ (res[s].state \notin Waiting => res[s].done)
  BY DEF MainOK
<1>1. cfg' = cfg /\ stream' = stream /\ UNCHANGED <<part, mpc, cur, writer, terminate>>
  BY DEF RunCallback, mainVars, gpuVars
<1>2. \/ op.op # "done" /\ res' = res
      \/ op.op = "done" /\ res' = [res EXCEPT ![job.res].done = TRUE]
  BY DEF RunCallback
<1>3. /\ DOMAIN res' = Streams
      /\ \A s \in Streams : /\ DOMAIN res'[s] = Fields
                            /\ res'[s].state = res[s].state /\ res'[s].sc = res[s].sc
                            /\ res'[s].done = IF op.op = "done" /\ s = job.res THEN TRUE ELSE res[s].done
  <2>1. CASE op.op # "done" /\ res' = res
    BY <1>0, <2>1
  <2>2. CASE op.op = "done" /\ res' = [res EXCEPT ![job.res].done = TRUE]
    <3>1. DOMAIN res' = Streams
      BY <1>0, <2>2
    <3>2. \A s \in Streams : DOMAIN res'[s] = Fields /\ res'[s].state = res[s].state /\ res'[s].sc = res[s].sc
      BY <1>0, <2>2 DEF Fields
    <3>3. \A s \in Streams : res'[s].done = IF s = job.res THEN TRUE ELSE res[s].done
      BY <1>0, <2>2 DEF Fields
    <3> QED BY <2>2, <3>1, <3>2, <3>3
  <2> QED BY <1>2, <2>1, <2>2
<1>4. MainOK'
  BY <1>0, <1>1, <1>3, MainOther
<1> QED BY <1>1, <1>3, <1>4

-----------------------------------------------------------------------------
(* The disk side after a step *)

LEMMA NewDisk ==
    ASSUME cfg' = cfg, NEW d \in DiskType,
           bundles' = d.bundles, pools' = d.pools, batcher' = d.batcher
    PROVE  /\ GoodDisk(Disk)' <=> GoodDisk(d)
           /\ Places(Disk)' = Places(d) /\ Bundles(Disk)' = Bundles(d)
           /\ Objects' = Objects /\ \A o \in Objects : Whole(Disk, o)' <=> Whole(d, o)
<1>1. PICK e : e = Disk'
  OBVIOUS
<1>2. e = d
  BY <1>1 DEF Disk, DiskType
<1>3. Objects' = Objects /\ Slot' = Slot /\ BufferIds' = BufferIds
  BY DEF Objects, Slot, BufferIds
<1>4. DiskType' = DiskType
  BY <1>3 DEF DiskType
<1>5. \A o : Whole(Disk, o)' <=> Whole(e, o)
  BY <1>1, <1>3 DEF Whole
<1>6. Places(Disk)' = Places(e) /\ Bundles(Disk)' = Bundles(e)
  BY <1>1 DEF Places, Bundles, One
<1>7. GoodDisk(Disk)' <=> GoodDisk(e)
  BY <1>1, <1>3, <1>4 DEF GoodDisk, Whole
<1> QED BY <1>2, <1>3, <1>5, <1>6, <1>7

(* The fields of Disk *)
LEMMA DiskIs ==
    ASSUME GoodDisk(Disk), NEW d, d = Disk
    PROVE  d \in DiskType /\ d.bundles = bundles /\ d.pools = pools /\ d.batcher = batcher
BY DEF GoodDisk, Disk

(* A step that leaves the batcher, the pools and the bundles alone *)
LEMMA SameDisk ==
    ASSUME GoodDisk(Disk), UNCHANGED <<cfg, bundles, pools, batcher>>
    PROVE  /\ GoodDisk(Disk)'
           /\ Places(Disk)' = Places(Disk) /\ Bundles(Disk)' = Bundles(Disk)
           /\ Objects' = Objects /\ \A o \in Objects : Whole(Disk, o)' <=> Whole(Disk, o)
<1>1. PICK d : d = Disk
  OBVIOUS
<1>2. d \in DiskType /\ d.bundles = bundles /\ d.pools = pools /\ d.batcher = batcher
  BY <1>1, DiskIs
<1> QED BY <1>1, <1>2, NewDisk

(* A step that leaves the disk side, the streams and the callbacks alone *)
LEMMA QuietKeeps ==
    ASSUME IInv, MainOK', UNCHANGED <<cfg, stream, jobs, bundles, pools, batcher, writer>>,
           \A r \in Streams : res'[r].done = res[r].done,
           Alive' => /\ Alive
                     /\ Running' <=> Running
                     /\ Running => ~terminate'
                     /\ mpc' \in {"start", "lock", "recv"} => \A w \in Writers : ~writer[w].running
                     /\ Running /\ (\A r \in Streams : Early(r)) => \A r \in Streams : Early(r)'
    PROVE  IInv'
<1>0. MainOK /\ StreamsOK /\ cfg \in Configs
  BY DEF IInv, MainOK
<1>1. Streams' = Streams /\ BufferIds' = BufferIds /\ Asked' = Asked /\ Ops' = Ops /\ Jobs' = Jobs
  BY DEF Streams, StreamCount, BufferIds, Asked, Ops, Jobs
<1>2. StreamsOK'
  <2>1. \A i \in 1 .. Len(jobs) : jobs[i].res \in Streams
    <3>1. jobs \in Seq(Jobs)
      BY <1>0 DEF StreamsOK
    <3>2. \A i \in 1 .. Len(jobs) : jobs[i] \in Jobs
      BY <3>1
    <3> QED BY <3>2 DEF Jobs
  <2> QED BY <1>0, <1>1, <2>1 DEF StreamsOK, OpsOK
<1>3. Out' = Out
  BY <1>1 DEF Out, InStream, InJobs, InJob, Count
<1>4. ASSUME Alive' PROVE DiskOK' /\ WritersOK'
  <2>1. DiskOK /\ WritersOK
    BY <1>4 DEF IInv
  <2>2. /\ GoodDisk(Disk)'
        /\ Places(Disk)' = Places(Disk) /\ Bundles(Disk)' = Bundles(Disk)
        /\ Objects' = Objects /\ \A o \in Objects : Whole(Disk, o)' <=> Whole(Disk, o)
    BY <2>1, SameDisk DEF DiskOK
  <2>3. (Running /\ batcher.unbundle # Null /\ batcher.iu = 0 => \A r \in Streams : Early(r))'
    BY <1>1, <1>4, <2>1 DEF DiskOK
  <2>4. (Places(Disk) + batcher.iu = cfg.empty * cfg.bundle + Cardinality(Out))'
    BY <1>3, <2>1, <2>2 DEF DiskOK
  <2>5. (~Running => batcher.unbundle = Null /\ batcher.bundle = Null)'
    BY <1>4, <2>1 DEF DiskOK
  <2>6. Busy' = Busy
    BY DEF Busy
  <2>7. \A w \in Writers : writer[w].object # Null => writer[w].object \in Objects
    BY <2>1 DEF WritersOK
  <2>8. WritersOK'
    BY <1>4, <2>1, <2>2, <2>6, <2>7 DEF WritersOK
  <2> QED BY <2>2, <2>3, <2>4, <2>5, <2>8 DEF DiskOK
<1> QED BY <1>2, <1>4 DEF IInv

(* The first item of a scheduler is a leaf. *)
LEMMA FirstIsLeaf ==
    ASSUME NEW bs, NEW s, s = ResetScheduler(LeafItems), NEW c, c = SchedulerNext(s, bs)
    PROVE  c.work.leaf
<1>1. PICK n \in Nat : n = LeafItems /\ n > 0
  BY Pc2Assumption
<1>2. PICK st : st = [i \in 1 .. n |-> WorkItem(1, n - i, TRUE)]
  OBVIOUS
<1>3. s.stack = st
  BY <1>1, <1>2 DEF ResetScheduler
<1>4. Len(st) = n /\ n \in 1 .. n
  BY <1>1, <1>2
<1>5. Last(st) = st[n]
  BY <1>4 DEF Last
<1>6. st[n] = WorkItem(1, n - n, TRUE)
  BY <1>2, <1>4
<1>7. PICK top : top = WorkItem(1, n - n, TRUE)
  OBVIOUS
<1>8. top.leaf = TRUE /\ DOMAIN top = {"layer", "node", "leaf", "deps", "buf", "inputs"}
  BY <1>7 DEF WorkItem
<1>9. Last(s.stack) = top
  BY <1>3, <1>5, <1>6, <1>7
<1>10. PICK x : c.work = [top EXCEPT !.buf = x]
  BY <1>9 DEF SchedulerNext
<1>11. [top EXCEPT !.buf = x].leaf = top.leaf
  BY <1>8
<1> QED BY <1>8, <1>10, <1>11

(* Visits without buffers *)
LEMMA QuietVisits ==
    ASSUME IInv, NEW r \in Streams, Visit(r), Idle(r) \/ ReadData(r) \/ HashWait(r) \/ Pass(r)
    PROVE  IInv'
<1>0. MainOK /\ StreamsOK
  BY DEF IInv
<1>1. MainOK' /\ mpc = "loop" /\ mpc' \in {"loop", "load"}
  BY <1>0, MainKeepsVisit
<1>2. UNCHANGED <<cfg, part, stream, jobs, bundles, pools, batcher, writer, terminate>>
  BY DEF Idle, ReadData, HashWait, Pass, VisitFrame, diskVars, gpuVars
<1>3. DOMAIN res = Streams /\ DOMAIN res[r] = Fields
  BY <1>0 DEF MainOK
<1>4. Alive /\ Running /\ Running' /\ ~terminate
  <2>1. Alive /\ Running /\ Running'
    BY <1>1 DEF Alive, Running
  <2> QED BY <2>1 DEF IInv, WritersOK
<1>5. /\ \A s \in Streams : res'[s].done = res[s].done
      /\ (\A s \in Streams : Early(s)) => \A s \in Streams : Early(s)'
  <2>1. CASE Idle(r)
    <3>1. PICK c, t : c = SchedulerNext(res[r].sc, res[r].pool) /\ t = SchedulerNext(res[r].sr, c.bufs)
      BY SMTT(30)
    <3>2. res' = [res EXCEPT ![r].sc = c.sched, ![r].sr = t.sched, ![r].pool = t.bufs,
                             ![r].wc = c.work, ![r].wr = t.work, ![r].last = ~c.more,
                             ![r].state = IF c.work.leaf THEN "DATA_READ" ELSE "HASH_LEAF"]
      BY <2>1, <3>1 DEF Idle
    <3>3. /\ \A s \in Streams \ {r} : res'[s] = res[s]
          /\ res'[r].done = res[r].done
          /\ res'[r].state = IF c.work.leaf THEN "DATA_READ" ELSE "HASH_LEAF"
      BY <1>3, <3>2, SMTT(30) DEF Fields
    <3>4. res[r].state = "IDLE"
      BY <2>1 DEF Idle, At
    <3>5. Early(r) => Early(r)'
      <4> HAVE Early(r)
      <4>1. res[r].sc = ResetScheduler(LeafItems)
        BY <3>4 DEF Early
      <4>2. c.work.leaf
        BY <3>1, <4>1, FirstIsLeaf
      <4> QED BY <3>3, <4>2 DEF Early
    <3>6. \A s \in Streams \ {r} : Early(s) => Early(s)'
      BY <3>3 DEF Early
    <3> QED BY <3>3, <3>5, <3>6
  <2>2. CASE ReadData(r)
    <3>1. PICK x : res' = [res EXCEPT ![r].start = x]
      BY <2>2 DEF ReadData
    <3>2. \A s \in Streams : res'[s].done = res[s].done /\ res'[s].state = res[s].state /\ res'[s].sc = res[s].sc
      BY <1>3, <3>1 DEF Fields
    <3> QED BY <3>2 DEF Early
  <2>3. CASE HashWait(r)
    <3>1. PICK x : res' = [res EXCEPT ![r].state = x]
      BY <2>3 DEF HashWait
    <3>2. \A s \in Streams : res'[s].done = res[s].done
      BY <1>3, <3>1 DEF Fields
    <3>3. ~Early(r)
      BY <2>3 DEF HashWait, At, Early
    <3> QED BY <3>2, <3>3
  <2>4. CASE Pass(r)
    BY <2>4 DEF Pass, Early
  <2> QED BY <2>1, <2>2, <2>3, <2>4
<1>6. mpc' \notin {"start", "lock", "recv"}
  BY <1>1
<1> QED BY <1>1, <1>2, <1>4, <1>5, <1>6, QuietKeeps

(* The main thread between partitions, the CPU thread and the reader *)
LEMMA QuietSteps ==
    ASSUME IInv,
           \/ LoadPage \/ AllDone \/ WritersDone \/ LockResults \/ SpawnCpu \/ WriteRoots
           \/ Cpu \/ Reader \/ UNCHANGED vars
    PROVE  IInv'
<1>0. MainOK /\ StreamsOK /\ DOMAIN res = Streams /\ \A s \in Streams : DOMAIN res[s] = Fields
  BY DEF IInv, MainOK
<1>1. UNCHANGED <<cfg, stream, jobs, bundles, pools, batcher, writer, terminate>>
  BY DEF LoadPage, AllDone, WritersDone, LockResults, SpawnCpu, WriteRoots, VisitFrame, HashFrame,
         diskVars, gpuVars, Cpu, CpuCopy, CpuHash, Reader, ReaderFrame, vars
<1>2. CASE LoadPage
  <2>1. MainOK' /\ part' = part /\ mpc = "load"
    BY <1>0, <1>2, MainKeepsMain DEF LoadPage, VisitFrame
  <2>2. cur \in Streams /\ res[cur].state = "DATA_READ"
    BY <1>0, <2>1 DEF MainOK
  <2>3. mpc' \in {"loop", "load"} /\ (res' = res \/ res' = [res EXCEPT ![cur].state = "DATA_WAIT"])
    BY <1>2, <2>1 DEF LoadPage
  <2>4. \A s \in Streams : res'[s].done = res[s].done /\ (Early(s) => Early(s)')
    <3>1. CASE res' = res
      BY <3>1 DEF Early
    <3>2. CASE res' = [res EXCEPT ![cur].state = "DATA_WAIT"]
      <4>1. \A s \in Streams : /\ res'[s].done = res[s].done /\ res'[s].sc = res[s].sc
                               /\ res'[s].state = IF s = cur THEN "DATA_WAIT" ELSE res[s].state
        BY <1>0, <3>2 DEF Fields
      <4> QED BY <4>1 DEF Early
    <3> QED BY <2>3, <3>1, <3>2
  <2>5. Alive /\ Running /\ Running' /\ ~terminate /\ mpc' \notin {"start", "lock", "recv"}
    <3>1. Alive /\ Running /\ Running' /\ mpc' \notin {"start", "lock", "recv"}
      BY <2>1, <2>3 DEF Alive, Running
    <3> QED BY <3>1 DEF IInv, WritersOK
  <2> QED BY <1>1, <2>1, <2>4, <2>5, QuietKeeps
<1>3. CASE AllDone
  <2>1. MainOK' /\ part' = part /\ mpc = "loop" /\ mpc' = "flush" /\ res' = res
    BY <1>0, <1>3, MainKeepsMain DEF AllDone, VisitFrame
  <2>2. Alive /\ Running /\ Running' /\ ~terminate /\ mpc' \notin {"start", "lock", "recv"}
    <3>1. Alive /\ Running /\ Running'
      BY <2>1 DEF Alive, Running
    <3> QED BY <3>1, <2>1 DEF IInv, WritersOK
  <2>3. \A s \in Streams : Early(s) => Early(s)'
    BY <2>1 DEF Early
  <2> QED BY <1>1, <2>1, <2>2, <2>3, QuietKeeps
<1>4. CASE WritersDone
  <2>1. MainOK' /\ part' = part /\ mpc = "writers" /\ mpc' = "lock" /\ res' = res
    BY <1>0, <1>4, MainKeepsMain DEF WritersDone, HashFrame
  <2>2. \A w \in Writers : ~writer[w].running
    BY <1>4 DEF WritersDone, Stopped
  <2>3. (Alive' <=> Alive) /\ ~Running /\ ~Running'
    BY <1>1, <2>1 DEF Alive, Running
  <2> QED BY <1>1, <2>1, <2>2, <2>3, QuietKeeps
<1>5. CASE LockResults
  <2>1. MainOK' /\ part' = part /\ mpc = "lock" /\ mpc' = "recv" /\ res' = res
    BY <1>0, <1>5, MainKeepsMain DEF LockResults, HashFrame
  <2>2. (Alive' <=> Alive) /\ ~Running /\ ~Running'
    BY <1>1, <2>1 DEF Alive, Running
  <2>3. Alive => \A w \in Writers : ~writer[w].running
    BY <2>1 DEF IInv, WritersOK
  <2> QED BY <1>1, <2>1, <2>2, <2>3, QuietKeeps
<1>6. CASE SpawnCpu
  <2>1. MainOK' /\ mpc = "recv" /\ mpc' \in {"start", "join"} /\ res' = res
        /\ (mpc' = "start" => part + 1 < cfg.parts)
    BY <1>0, <1>6, MainKeepsMain DEF SpawnCpu, HashFrame
  <2>2. (Alive' => Alive) /\ ~Running /\ ~Running'
    BY <1>1, <2>1 DEF Alive, Running
  <2>3. Alive => \A w \in Writers : ~writer[w].running
    BY <2>1 DEF IInv, WritersOK
  <2> QED BY <1>1, <2>1, <2>2, <2>3, QuietKeeps
<1>7. CASE WriteRoots
  <2>1. MainOK' /\ mpc' = "done" /\ res' = res
    BY <1>0, <1>7, MainKeepsMain DEF WriteRoots, HashFrame
  <2>2. ~Alive'
    BY <2>1 DEF Alive
  <2> QED BY <1>1, <2>1, <2>2, QuietKeeps
<1>8. CASE Cpu \/ Reader \/ UNCHANGED vars
  <2>1. part' = part /\ mpc' = mpc /\ cur' = cur /\ res' = res
    BY <1>8 DEF Cpu, CpuCopy, CpuHash, Reader, ReaderFrame, vars, mainVars
  <2>2. MainOK'
    BY <1>0, <1>1, <2>1, MainOther DEF MainOK
  <2>3. (Alive' <=> Alive) /\ (Running' <=> Running) /\ \A s \in Streams : Early(s)' <=> Early(s)
    BY <1>1, <2>1 DEF Alive, Running, Early
  <2>4. Alive => /\ Running => ~terminate
                 /\ mpc \in {"start", "lock", "recv"} => \A w \in Writers : ~writer[w].running
    BY DEF IInv, WritersOK
  <2>5. Running' = Running
    BY <2>1 DEF Running
  <2> QED BY <1>1, <2>1, <2>2, <2>3, <2>4, <2>5, QuietKeeps
<1> QED BY <1>2, <1>3, <1>4, <1>5, <1>6, <1>7, <1>8

-----------------------------------------------------------------------------
(* Visits that take buffers *)

LEMMA SizeMeans ==
    ASSUME cfg \in Configs, GoodDisk(Disk), NEW n \in Nat
    PROVE  Available(Disk) \in Int /\ (BatcherSize >= n => Available(Disk) >= n)
<1>1. PICK d : d = Disk
  OBVIOUS
<1>2. d \in DiskType /\ d.bundles = bundles /\ d.pools = pools /\ d.batcher = batcher
  BY <1>1, DiskIs
<1>3. PICK b \in Nat : b = cfg.bundle /\ Slot \subseteq Nat
  BY CallFacts
<1>4. /\ pools.full \in Seq(Objects) /\ pools.empty \in Seq(Objects)
      /\ batcher.iu \in Slot /\ batcher.ib \in Slot
  BY <1>2, DiskFields
<1>5. Len(pools.full) \in Nat /\ Len(pools.empty) \in Nat /\ batcher.iu \in Nat /\ batcher.ib \in Nat
  <2>1. Len(pools.full) \in Nat /\ Len(pools.empty) \in Nat
    BY <1>4
  <2>2. batcher.iu \in Nat /\ batcher.ib \in Nat
    BY <1>3, <1>4
  <2> QED BY <2>1, <2>2
<1>6. Len(pools.full) * b \in Nat /\ Len(pools.empty) * b \in Nat
  BY <1>5, Products
<1>7. PICK x \in Int, y \in Int :
         /\ x = (IF batcher.unbundle = Null THEN 0 ELSE b - batcher.iu) + Len(pools.full) * b
         /\ y = (IF batcher.bundle = Null THEN 0 ELSE b - batcher.ib) + Len(pools.empty) * b
  <2>1. /\ (IF batcher.unbundle = Null THEN 0 ELSE b - batcher.iu) \in Int
        /\ (IF batcher.bundle = Null THEN 0 ELSE b - batcher.ib) \in Int
    BY <1>5
  <2>2. /\ (IF batcher.unbundle = Null THEN 0 ELSE b - batcher.iu) + Len(pools.full) * b \in Int
        /\ (IF batcher.bundle = Null THEN 0 ELSE b - batcher.ib) + Len(pools.empty) * b \in Int
    BY <1>6, <2>1
  <2> QED BY <2>2
<1>8. BatcherSize = IF x < y THEN x ELSE y
  BY <1>3, <1>7 DEF BatcherSize
<1>9. Available(Disk) = x
  BY <1>3, <1>7 DEF Available, Disk
<1> QED BY <1>8, <1>9

(* A step that leaves the streams and the callbacks alone *)
LEMMA StreamsSame ==
    ASSUME StreamsOK, UNCHANGED <<cfg, stream, jobs>>, \A r \in Streams : res'[r].done = res[r].done
    PROVE  StreamsOK' /\ Out' = Out
<1>1. Streams' = Streams /\ BufferIds' = BufferIds /\ Asked' = Asked /\ Ops' = Ops /\ Jobs' = Jobs
  BY DEF Streams, StreamCount, BufferIds, Asked, Ops, Jobs
<1>2. \A i \in 1 .. Len(jobs) : jobs[i].res \in Streams
  <2>1. jobs \in Seq(Jobs)
    BY DEF StreamsOK
  <2>2. \A i \in 1 .. Len(jobs) : jobs[i] \in Jobs
    BY <2>1
  <2> QED BY <2>2 DEF Jobs
<1>3. StreamsOK'
  BY <1>1, <1>2 DEF StreamsOK, OpsOK
<1>4. Out' = Out
  BY <1>1 DEF Out, InStream, InJobs, InJob, Count
<1> QED BY <1>3, <1>4

(* A resource that waits for its stream *)
LEMMA StreamsAsk ==
    ASSUME MainOK, StreamsOK, NEW r \in Streams, res[r].done, NEW a \in Asked,
           stream' = [stream EXCEPT ![r] = a], UNCHANGED <<cfg, jobs>>,
           ~res'[r].done, \A s \in Streams \ {r} : res'[s].done = res[s].done
    PROVE  StreamsOK'
<1>0. cfg \in Configs
  BY DEF MainOK
<1>1. Streams' = Streams /\ BufferIds' = BufferIds /\ Asked' = Asked /\ Ops' = Ops /\ Jobs' = Jobs
  BY DEF Streams, StreamCount, BufferIds, Asked, Ops, Jobs
<1>2. stream \in [Streams -> {Null} \cup Asked] /\ jobs \in Seq(Jobs)
  BY DEF StreamsOK
<1>3. stream' \in [Streams -> {Null} \cup Asked]
  BY <1>2
<1>4. \A s \in Streams : stream'[s] # Null => ~res'[s].done
  BY <1>2 DEF StreamsOK
<1>5. \A i \in 1 .. Len(jobs) : jobs[i].res \in Streams /\ jobs[i].res # r
  <2>1. \A i \in 1 .. Len(jobs) : jobs[i] \in Jobs
    BY <1>2
  <2>2. \A i \in 1 .. Len(jobs) : jobs[i].res # r
    BY OutDone
  <2> QED BY <2>1, <2>2 DEF Jobs
<1>6. \A i \in 1 .. Len(jobs) : /\ OpsOK(jobs[i].ops)
                                /\ ~res'[jobs[i].res].done /\ stream'[jobs[i].res] = Null
  BY <1>2, <1>5 DEF StreamsOK
<1>7. \A i, k \in 1 .. Len(jobs) : jobs[i].res = jobs[k].res => i = k
  BY DEF StreamsOK
<1> QED BY <1>1, <1>2, <1>3, <1>4, <1>6, <1>7 DEF StreamsOK, OpsOK

(* A step of the main loop, or beside it, that leaves the disk side e behind *)
LEMMA WorkKeeps ==
    ASSUME IInv, MainOK', StreamsOK', mpc \in {"loop", "load"}, mpc' \in {"loop", "load"},
           UNCHANGED <<cfg, part, writer, terminate>>,
           NEW e \in DiskType, bundles' = e.bundles, pools' = e.pools, batcher' = e.batcher,
           GoodDisk(e), \A o \in Objects : Whole(Disk, o) => Whole(e, o),
           Bundles(e) = Bundles(Disk),
           Places(e) + e.batcher.iu = cfg.empty * cfg.bundle + Cardinality(Out'),
           e.batcher.unbundle # Null /\ e.batcher.iu = 0 => \A r \in Streams : Early(r)'
    PROVE  IInv'
<1>1. Alive /\ Running /\ Running'
  BY DEF Alive, Running
<1>2. DiskOK /\ WritersOK
  BY <1>1 DEF IInv
<1>3. /\ GoodDisk(Disk)'
      /\ Places(Disk)' = Places(e) /\ Bundles(Disk)' = Bundles(e)
      /\ Objects' = Objects /\ \A o \in Objects : Whole(Disk, o)' <=> Whole(e, o)
  BY NewDisk
<1>4. Streams' = Streams
  BY DEF Streams, StreamCount
<1>5. DiskOK'
  BY <1>1, <1>3, <1>4 DEF DiskOK
<1>6. \A w \in Writers : writer[w].object # Null => writer[w].object \in Objects
  BY <1>2 DEF WritersOK
<1>7. Busy' = Busy
  BY DEF Busy
<1>8. \A w \in Writers : writer[w].running
  BY <1>1, <1>2 DEF WritersOK
<1>9. WritersOK'
  BY <1>1, <1>2, <1>3, <1>6, <1>7, <1>8 DEF WritersOK
<1> QED BY <1>5, <1>9 DEF IInv

(* One buffer taken from the batcher *)
LEMMA TakeOne ==
    ASSUME cfg \in Configs, NEW d, GoodDisk(d), Available(d) \in Int, Available(d) >= 1,
           Places(d) + d.batcher.iu \in Int
    PROVE  LET e == Dequeue(d).disk
           IN  /\ Dequeue(d).buf \in BufferIds
               /\ GoodDisk(e) /\ e \in DiskType
               /\ \A o \in Objects : Whole(d, o) => Whole(e, o)
               /\ Places(e) + e.batcher.iu = (Places(d) + d.batcher.iu) + 1
               /\ Available(e) = Available(d) - 1
               /\ Bundles(e) = Bundles(d)
               /\ e.batcher.unbundle # Null => e.batcher.iu # 0
<1>1. PICK e : e = Dequeue(d).disk
  OBVIOUS
<1>2. d \in DiskType
  BY DEF GoodDisk
<1>3. /\ Dequeue(d).buf \in BufferIds
      /\ GoodDisk(e)
      /\ e.bundles = d.bundles /\ e.pools.disk = d.pools.disk
      /\ Places(e) + e.batcher.iu = (Places(d) + d.batcher.iu) + 1
      /\ Available(e) = Available(d) - 1
      /\ Bundles(e) = Bundles(d)
      /\ e.batcher.unbundle # Null => e.batcher.iu # 0
  BY <1>1, <1>2, DequeueEffect
<1>4. \A o \in Objects : Whole(d, o) => Whole(e, o)
  BY <1>3 DEF Whole
<1>5. e \in DiskType
  BY <1>3 DEF GoodDisk
<1> QED BY <1>1, <1>3, <1>4, <1>5

(* What holds while the main thread works *)
LEMMA WorkFacts ==
    ASSUME IInv, mpc \in {"loop", "load"}, NEW d, d = Disk
    PROVE  /\ cfg \in Configs /\ GoodDisk(d) /\ d \in DiskType
           /\ d.bundles = bundles /\ d.pools = pools /\ d.batcher = batcher
           /\ cfg.empty * cfg.bundle \in Nat /\ Cardinality(Out) \in Nat
           /\ Places(d) + d.batcher.iu = cfg.empty * cfg.bundle + Cardinality(Out)
           /\ Places(d) + d.batcher.iu \in Nat
           /\ d.batcher.unbundle # Null /\ d.batcher.iu = 0 => \A r \in Streams : Early(r)
<1>1. Alive /\ Running
  BY DEF Alive, Running
<1>2. DiskOK /\ MainOK
  BY <1>1 DEF IInv
<1>3. cfg \in Configs /\ GoodDisk(d)
  BY <1>2 DEF DiskOK, MainOK
<1>4. d \in DiskType /\ d.bundles = bundles /\ d.pools = pools /\ d.batcher = batcher
  BY <1>3, DiskIs
<1>5. cfg.empty * cfg.bundle \in Nat
  BY <1>3, CallFacts, Products
<1>6. Cardinality(Out) \in Nat
  BY <1>3, OutFinite
<1>7. Places(d) + d.batcher.iu = cfg.empty * cfg.bundle + Cardinality(Out)
  BY <1>2, <1>4 DEF DiskOK
<1>8. Places(d) + d.batcher.iu \in Nat
  <2>1. PICK x \in Nat, y \in Nat : x = cfg.empty * cfg.bundle /\ y = Cardinality(Out)
    BY <1>5, <1>6
  <2>2. x + y \in Nat
    OBVIOUS
  <2> QED BY <2>1, <2>2, <1>7
<1>9. d.batcher.unbundle # Null /\ d.batcher.iu = 0 => \A r \in Streams : Early(r)
  BY <1>1, <1>2, <1>4 DEF DiskOK
<1> QED BY <1>3, <1>4, <1>5, <1>6, <1>7, <1>8, <1>9

(* DATA_WAIT takes a buffer and gives it back at once. *)
LEMMA WaitDataKeeps ==
    ASSUME IInv, NEW r \in Streams, Visit(r), WaitData(r)
    PROVE  IInv'
<1>0. MainOK /\ StreamsOK
  BY DEF IInv
<1>1. MainOK' /\ mpc = "loop" /\ mpc' \in {"loop", "load"}
  BY <1>0, MainKeepsVisit
<1>2. PICK d : d = Disk
  OBVIOUS
<1>3. /\ cfg \in Configs /\ GoodDisk(d) /\ d \in DiskType
      /\ d.bundles = bundles /\ d.pools = pools /\ d.batcher = batcher
      /\ Places(d) + d.batcher.iu = cfg.empty * cfg.bundle + Cardinality(Out)
      /\ Places(d) + d.batcher.iu \in Nat
  BY <1>1, <1>2, WorkFacts
<1>4. Available(d) \in Int /\ Available(d) >= 1
  <2>1. BatcherSize >= 1
    BY DEF WaitData, DataReady
  <2> QED BY <1>2, <1>3, <2>1, SizeMeans
<1>5. PICK e, buf : e = Dequeue(d).disk /\ buf = Dequeue(d).buf
  OBVIOUS
<1>6. /\ buf \in BufferIds
      /\ GoodDisk(e) /\ e \in DiskType
      /\ \A o \in Objects : Whole(d, o) => Whole(e, o)
      /\ Places(e) + e.batcher.iu = (Places(d) + d.batcher.iu) + 1
      /\ Bundles(e) = Bundles(d)
      /\ e.batcher.unbundle # Null => e.batcher.iu # 0
  BY <1>3, <1>4, <1>5, TakeOne
<1>7. PICK f : f = Bundle(e, buf)
  OBVIOUS
<1>8. CanBundle(e) /\ SetDisk(f)
  BY <1>2, <1>5, <1>7 DEF WaitData
<1>9. /\ GoodDisk(f)
      /\ \A o \in Objects : Whole(e, o) => Whole(f, o)
      /\ Places(e) = Places(f) + 1 /\ Places(f) \in Nat
      /\ Bundles(f) = Bundles(e)
      /\ f.batcher.unbundle = e.batcher.unbundle /\ f.batcher.iu = e.batcher.iu
  BY <1>3, <1>6, <1>7, <1>8, BundleEffect
<1>10. f \in DiskType
  BY <1>9 DEF GoodDisk
<1>11. e.batcher.iu \in Nat
  <2>1. e.batcher.iu \in Slot /\ Slot \subseteq Nat
    BY <1>3, <1>6, DiskFields, CallFacts
  <2> QED BY <2>1
<1>12. UNCHANGED <<cfg, part, stream, jobs, writer, terminate>>
  BY DEF WaitData, VisitFrame, gpuVars
<1>13. \A s \in Streams : res'[s].done = res[s].done
  <2>1. PICK x, y : res' = [res EXCEPT ![r].replica = x, ![r].state = y]
    BY DEF WaitData
  <2>2. DOMAIN res = Streams /\ DOMAIN res[r] = Fields
    BY <1>0 DEF MainOK
  <2> QED BY <2>1, <2>2 DEF Fields
<1>14. StreamsOK' /\ Out' = Out
  BY <1>0, <1>12, <1>13, StreamsSame
<1>15. Places(f) + f.batcher.iu = cfg.empty * cfg.bundle + Cardinality(Out')
  <2>1. PICK p \in Nat, i \in Nat, q \in Nat :
           p = Places(f) /\ i = f.batcher.iu /\ q = Places(d) + d.batcher.iu
    BY <1>3, <1>9, <1>11
  <2>2. (p + 1) + i = q + 1
    BY <2>1, <1>6, <1>9
  <2>3. p + i = q
    BY <2>2
  <2> QED BY <2>1, <2>3, <1>3, <1>14
<1>16. bundles' = f.bundles /\ pools' = f.pools /\ batcher' = f.batcher
  BY <1>8 DEF SetDisk
<1>17. \A o \in Objects : Whole(Disk, o) => Whole(f, o)
  BY <1>2, <1>6, <1>9
<1>18. Bundles(f) = Bundles(Disk)
  BY <1>2, <1>6, <1>9
<1>19. ~(f.batcher.unbundle # Null /\ f.batcher.iu = 0)
  BY <1>6, <1>9
<1> QED BY <1>1, <1>9, <1>10, <1>12, <1>14, <1>15, <1>16, <1>17, <1>18, <1>19, WorkKeeps

(* A buffer taken from the batcher, or none *)
LEMMA MaybeTake ==
    ASSUME cfg \in Configs, NEW d, GoodDisk(d), Available(d) \in Int,
           Places(d) + d.batcher.iu \in Int, NEW buf, NEW e,
           \/ Available(d) >= 1 /\ buf = Dequeue(d).buf /\ e = Dequeue(d).disk
           \/ buf = Null /\ e = d
    PROVE  /\ buf \in BufferIds \cup {Null} /\ One(buf) \in 0 .. 1
           /\ GoodDisk(e) /\ e \in DiskType
           /\ \A o \in Objects : Whole(d, o) => Whole(e, o)
           /\ Places(e) + e.batcher.iu = (Places(d) + d.batcher.iu) + One(buf)
           /\ Available(e) = Available(d) - One(buf)
           /\ Bundles(e) = Bundles(d)
           /\ e.batcher.unbundle # Null /\ e.batcher.iu = 0 =>
                 d.batcher.unbundle # Null /\ d.batcher.iu = 0
<1>1. CASE Available(d) >= 1 /\ buf = Dequeue(d).buf /\ e = Dequeue(d).disk
  <2>1. /\ buf \in BufferIds
        /\ GoodDisk(e) /\ e \in DiskType
        /\ \A o \in Objects : Whole(d, o) => Whole(e, o)
        /\ Places(e) + e.batcher.iu = (Places(d) + d.batcher.iu) + 1
        /\ Available(e) = Available(d) - 1
        /\ Bundles(e) = Bundles(d)
        /\ e.batcher.unbundle # Null => e.batcher.iu # 0
    BY <1>1, TakeOne
  <2>2. One(buf) = 1
    BY <2>1, CallFacts DEF One
  <2> QED BY <1>1, <2>1, <2>2
<1>2. CASE buf = Null /\ e = d
  <2>1. One(buf) = 0 /\ e = d /\ buf = Null
    BY <1>2 DEF One
  <2>2. e \in DiskType
    BY <2>1 DEF GoodDisk
  <2>3. Places(d) + d.batcher.iu = (Places(d) + d.batcher.iu) + 0 /\ Available(d) = Available(d) - 0
    OBVIOUS
  <2> QED BY <1>2, <2>1, <2>2, <2>3
<1> QED BY <1>1, <1>2

(* A stream is asked to do something with the buffers taken for it. *)
LEMMA AskKeeps ==
    ASSUME IInv, NEW r \in Streams, Visit(r), res[r].done, ~Early(r),
           NEW a \in Asked, stream' = [stream EXCEPT ![r] = a],
           UNCHANGED <<cfg, part, jobs, writer, terminate>>,
           NEW x, res' = [res EXCEPT ![r].done = FALSE, ![r].state = x],
           NEW d, d = Disk, NEW e \in DiskType, SetDisk(e), GoodDisk(e),
           \A o \in Objects : Whole(d, o) => Whole(e, o),
           Bundles(e) = Bundles(d),
           Places(e) + e.batcher.iu = (Places(d) + d.batcher.iu) + Count(a),
           e.batcher.unbundle # Null /\ e.batcher.iu = 0 =>
              d.batcher.unbundle # Null /\ d.batcher.iu = 0
    PROVE  IInv'
<1>0. MainOK /\ StreamsOK
  BY DEF IInv
<1>1. MainOK' /\ mpc = "loop" /\ mpc' \in {"loop", "load"}
  BY <1>0, MainKeepsVisit
<1>2. /\ cfg \in Configs
      /\ d.bundles = bundles /\ d.pools = pools /\ d.batcher = batcher
      /\ cfg.empty * cfg.bundle \in Nat /\ Cardinality(Out) \in Nat
      /\ Places(d) + d.batcher.iu = cfg.empty * cfg.bundle + Cardinality(Out)
      /\ (d.batcher.unbundle # Null /\ d.batcher.iu = 0 => \A s \in Streams : Early(s))
  BY <1>1, WorkFacts
<1>3. Count(a) \in 0 .. 2 /\ Cardinality(Out') = Cardinality(Out) + Count(a)
  BY <1>0, OutAsk
<1>4. ~res'[r].done /\ \A s \in Streams \ {r} : res'[s].done = res[s].done
  <2>1. DOMAIN res = Streams /\ DOMAIN res[r] = Fields
    BY <1>0 DEF MainOK
  <2> QED BY <2>1 DEF Fields
<1>5. StreamsOK'
  BY <1>0, <1>4, StreamsAsk
<1>6. Places(e) + e.batcher.iu = cfg.empty * cfg.bundle + Cardinality(Out')
  <2>1. PICK p \in Nat, q \in Nat, n \in Nat :
           p = cfg.empty * cfg.bundle /\ q = Cardinality(Out) /\ n = Count(a)
    BY <1>2, <1>3
  <2>2. Places(e) + e.batcher.iu = (p + q) + n /\ Cardinality(Out') = q + n
    BY <1>2, <1>3, <2>1
  <2>3. (p + q) + n = p + (q + n)
    OBVIOUS
  <2> QED BY <2>1, <2>2, <2>3
<1>7. bundles' = e.bundles /\ pools' = e.pools /\ batcher' = e.batcher
  BY DEF SetDisk
<1>8. ~(e.batcher.unbundle # Null /\ e.batcher.iu = 0)
  BY <1>2
<1>9. (\A o \in Objects : Whole(Disk, o) => Whole(e, o)) /\ Bundles(e) = Bundles(Disk)
  OBVIOUS
<1> QED BY <1>1, <1>5, <1>6, <1>7, <1>8, <1>9, WorkKeeps

(* HASH_COLUMN and HASH_COLUMN_LEAVES take one buffer at most. *)
LEMMA HashColumnKeeps ==
    ASSUME IInv, NEW r \in Streams, Visit(r), HashColumn(r) \/ HashColumnLeaves(r)
    PROVE  IInv'
<1>0. MainOK /\ StreamsOK
  BY DEF IInv
<1>1. mpc = "loop"
  BY <1>0, MainKeepsVisit
<1>2. PICK d : d = Disk
  OBVIOUS
<1>3. /\ cfg \in Configs /\ GoodDisk(d)
      /\ Places(d) + d.batcher.iu \in Nat
  BY <1>1, <1>2, WorkFacts
<1>4. PICK take \in BOOLEAN : take = (HashColumn(r) \/ ~cfg.rOnly)
  OBVIOUS
<1>5. /\ res[r].done /\ ~Early(r) /\ (take => BatcherSize >= 1)
      /\ UNCHANGED <<cfg, part, jobs, writer, terminate>>
  <2>1. CASE HashColumn(r)
    BY <1>0, <2>1 DEF HashColumn, At, Early, VisitFrame, MainOK, Waiting
  <2>2. CASE HashColumnLeaves(r) /\ ~HashColumn(r)
    BY <1>4, <2>2 DEF HashColumnLeaves, LeavesReady, At, Early, VisitFrame
  <2> QED BY <2>1, <2>2
<1>6. PICK e, buf : /\ take => buf = Dequeue(d).buf /\ e = Dequeue(d).disk
                    /\ ~take => buf = Null /\ e = d
  OBVIOUS
<1>7. SetDisk(e) /\ \E k \in Kinds : stream' = [stream EXCEPT ![r] = [kind |-> k, c |-> buf, r |-> Null]]
  <2>1. CASE HashColumn(r)
    BY <1>2, <1>4, <1>6, <2>1 DEF HashColumn, Kinds
  <2>2. CASE HashColumnLeaves(r) /\ ~HashColumn(r)
    BY <1>2, <1>4, <1>6, <2>2 DEF HashColumnLeaves, Kinds
  <2> QED BY <2>1, <2>2
<1>8a. PICK k \in Kinds : stream' = [stream EXCEPT ![r] = [kind |-> k, c |-> buf, r |-> Null]]
  BY <1>7
<1>8. PICK a : a = [kind |-> k, c |-> buf, r |-> Null] /\ stream' = [stream EXCEPT ![r] = a]
  BY <1>8a
<1>9. PICK x : res' = [res EXCEPT ![r].done = FALSE, ![r].state = x]
  BY DEF HashColumn, HashColumnLeaves
<1>10. Available(d) \in Int /\ (take => Available(d) >= 1)
  <2>1. Available(d) \in Int /\ (BatcherSize >= 1 => Available(d) >= 1)
    BY <1>2, <1>3, SizeMeans
  <2> QED BY <2>1, <1>5
<1>11. /\ buf \in BufferIds \cup {Null} /\ One(buf) \in 0 .. 1
       /\ GoodDisk(e) /\ e \in DiskType
       /\ \A o \in Objects : Whole(d, o) => Whole(e, o)
       /\ Places(e) + e.batcher.iu = (Places(d) + d.batcher.iu) + One(buf)
       /\ Bundles(e) = Bundles(d)
       /\ e.batcher.unbundle # Null /\ e.batcher.iu = 0 =>
             d.batcher.unbundle # Null /\ d.batcher.iu = 0
  <2>1. Places(d) + d.batcher.iu \in Int
    BY <1>3
  <2>2. \/ Available(d) >= 1 /\ buf = Dequeue(d).buf /\ e = Dequeue(d).disk
        \/ buf = Null /\ e = d
    BY <1>6, <1>10
  <2> QED BY <1>3, <1>10, <2>1, <2>2, MaybeTake
<1>12. a \in Asked /\ Count(a) = One(buf)
  <2>1. a \in Asked
    BY <1>8, <1>11 DEF Asked
  <2>2. a.c = buf /\ a.r = Null
    BY <1>8
  <2>3. Count(a) = One(buf) + 0
    BY <2>2 DEF Count, One
  <2> QED BY <2>1, <2>3, <1>11
<1> QED BY <1>2, <1>5, <1>7, <1>8, <1>9, <1>11, <1>12, AskKeeps

(* HASH_LEAF takes two buffers at most, as size() said it can. *)
LEMMA HashLeafKeeps ==
    ASSUME IInv, NEW r \in Streams, Visit(r), HashLeaf(r)
    PROVE  IInv'
<1>0. MainOK /\ StreamsOK
  BY DEF IInv
<1>1. mpc = "loop"
  BY <1>0, MainKeepsVisit
<1>2. PICK d : d = Disk
  OBVIOUS
<1>3. /\ cfg \in Configs /\ GoodDisk(d)
      /\ Places(d) + d.batcher.iu \in Nat
  BY <1>1, <1>2, WorkFacts
<1>4. /\ res[r].done /\ ~Early(r) /\ BatcherSize >= LeafBuffers(r)
      /\ UNCHANGED <<cfg, part, jobs, writer, terminate>>
  BY <1>0 DEF HashLeaf, LeafReady, At, Early, VisitFrame, MainOK, Waiting
<1>5. PICK x : res' = [res EXCEPT ![r].done = FALSE, ![r].state = x]
  BY DEF HashLeaf
<1>6. PICK gotC : gotC = IF cfg.rOnly THEN [buf |-> Null, disk |-> d] ELSE Dequeue(d)
  OBVIOUS
<1>7. PICK e, bc : bc = gotC.buf /\ e = gotC.disk
  OBVIOUS
<1>8. PICK gotR : gotR = IF WritesR(r) THEN Dequeue(e) ELSE [buf |-> Null, disk |-> e]
  OBVIOUS
<1>9. PICK f, br : br = gotR.buf /\ f = gotR.disk
  OBVIOUS
<1>10. SetDisk(f) /\ stream' = [stream EXCEPT ![r] = [kind |-> "inner", c |-> bc, r |-> br]]
  <2>1. [[buf |-> Null, disk |-> d] EXCEPT !.disk = e] = [buf |-> Null, disk |-> e]
    OBVIOUS
  <2> QED BY <1>2, <1>6, <1>7, <1>8, <1>9, <2>1 DEF HashLeaf
<1>11. Available(d) \in Int /\ Available(d) >= LeafBuffers(r)
  <2>1. LeafBuffers(r) \in Nat
    BY DEF LeafBuffers
  <2> QED BY <1>2, <1>3, <1>4, <2>1, SizeMeans
<1>12. /\ ~cfg.rOnly => Available(d) >= 1
       /\ ~cfg.rOnly /\ WritesR(r) => Available(d) >= 2
       /\ WritesR(r) => Available(d) >= 1
  BY <1>11 DEF LeafBuffers
<1>13. \/ Available(d) >= 1 /\ bc = Dequeue(d).buf /\ e = Dequeue(d).disk
       \/ bc = Null /\ e = d
  BY <1>6, <1>7, <1>12
<1>14. /\ bc \in BufferIds \cup {Null} /\ One(bc) \in 0 .. 1
       /\ GoodDisk(e) /\ e \in DiskType
       /\ \A o \in Objects : Whole(d, o) => Whole(e, o)
       /\ Places(e) + e.batcher.iu = (Places(d) + d.batcher.iu) + One(bc)
       /\ Available(e) = Available(d) - One(bc)
       /\ Bundles(e) = Bundles(d)
       /\ e.batcher.unbundle # Null /\ e.batcher.iu = 0 =>
             d.batcher.unbundle # Null /\ d.batcher.iu = 0
  <2>1. Places(d) + d.batcher.iu \in Int
    BY <1>3
  <2> QED BY <1>3, <1>11, <1>13, <2>1, MaybeTake
<1>15. Available(e) \in Int /\ (WritesR(r) => Available(e) >= 1)
  <2>1. cfg.rOnly => One(bc) = 0
    BY <1>6, <1>7 DEF One
  <2> QED BY <1>11, <1>12, <1>14, <2>1
<1>16. \/ Available(e) >= 1 /\ br = Dequeue(e).buf /\ f = Dequeue(e).disk
       \/ br = Null /\ f = e
  BY <1>8, <1>9, <1>15
<1>17. /\ br \in BufferIds \cup {Null} /\ One(br) \in 0 .. 1
       /\ GoodDisk(f) /\ f \in DiskType
       /\ \A o \in Objects : Whole(e, o) => Whole(f, o)
       /\ Places(f) + f.batcher.iu = (Places(e) + e.batcher.iu) + One(br)
       /\ Bundles(f) = Bundles(e)
       /\ f.batcher.unbundle # Null /\ f.batcher.iu = 0 =>
             e.batcher.unbundle # Null /\ e.batcher.iu = 0
  <2>1. Places(e) + e.batcher.iu \in Int
    BY <1>3, <1>14
  <2> QED BY <1>3, <1>14, <1>15, <1>16, <2>1, MaybeTake
<1>18. PICK a : a = [kind |-> "inner", c |-> bc, r |-> br]
  OBVIOUS
<1>19. a \in Asked
  BY <1>14, <1>17, <1>18 DEF Asked, Kinds
<1>20. Count(a) = One(bc) + One(br)
  BY <1>18 DEF Count
<1>21. Places(f) + f.batcher.iu = (Places(d) + d.batcher.iu) + Count(a)
  <2>1. PICK p \in Nat, i \in Nat, k \in Nat :
           p = Places(d) + d.batcher.iu /\ i = One(bc) /\ k = One(br)
    BY <1>3, <1>14, <1>17
  <2>2. Places(f) + f.batcher.iu = (p + i) + k
    BY <2>1, <1>14, <1>17
  <2>3. (p + i) + k = p + (i + k)
    OBVIOUS
  <2> QED BY <2>1, <2>2, <2>3, <1>20
<1>22. stream' = [stream EXCEPT ![r] = a]
  BY <1>10, <1>18
<1>23. (\A o \in Objects : Whole(d, o) => Whole(f, o)) /\ Bundles(f) = Bundles(d)
  BY <1>14, <1>17
<1>24. f.batcher.unbundle # Null /\ f.batcher.iu = 0 => d.batcher.unbundle # Null /\ d.batcher.iu = 0
  BY <1>14, <1>17
<1> QED BY <1>2, <1>4, <1>5, <1>10, <1>17, <1>19, <1>21, <1>22, <1>23, <1>24, AskKeeps

-----------------------------------------------------------------------------
(* The streams and their callbacks *)

LEMMA GpuKeeps ==
    ASSUME IInv, NEW r \in Streams, Gpu(r)
    PROVE  IInv'
<1>0. MainOK /\ StreamsOK
  BY DEF IInv
<1>1. /\ MainOK' /\ cfg' = cfg /\ stream[r] # Null /\ Notify(r) /\ DOMAIN res' = Streams
      /\ \A s \in Streams : /\ res'[s].done = res[s].done /\ res'[s].state = res[s].state
                            /\ res'[s].sc = res[s].sc
      /\ UNCHANGED <<part, mpc, cur, bundles, pools, batcher, writer, terminate>>
  BY <1>0, MainKeepsGpu
<1>2. Out' = Out /\ StreamsOK'
  BY <1>0, <1>1, OutNotify
<1>3. mpc \in {"loop", "load"}
  <2>1. ~res[r].done
    BY <1>0, <1>1 DEF StreamsOK
  <2> QED BY <1>0, <2>1 DEF MainOK
<1>4. PICK d : d = Disk
  OBVIOUS
<1>5. /\ GoodDisk(d) /\ d \in DiskType
      /\ d.bundles = bundles /\ d.pools = pools /\ d.batcher = batcher
      /\ Places(d) + d.batcher.iu = cfg.empty * cfg.bundle + Cardinality(Out)
      /\ (d.batcher.unbundle # Null /\ d.batcher.iu = 0 => \A s \in Streams : Early(s))
  BY <1>3, <1>4, WorkFacts
<1>6. \A s \in Streams : Early(s) => Early(s)'
  BY <1>1 DEF Early
<1>7. /\ bundles' = d.bundles /\ pools' = d.pools /\ batcher' = d.batcher
      /\ \A o \in Objects : Whole(Disk, o) => Whole(d, o)
      /\ Bundles(d) = Bundles(Disk)
      /\ Places(d) + d.batcher.iu = cfg.empty * cfg.bundle + Cardinality(Out')
  BY <1>1, <1>2, <1>4, <1>5
<1>8. d.batcher.unbundle # Null /\ d.batcher.iu = 0 => \A s \in Streams : Early(s)'
  BY <1>5, <1>6
<1>9. mpc' \in {"loop", "load"}
  BY <1>1, <1>3
<1> QED BY <1>1, <1>2, <1>3, <1>5, <1>7, <1>8, <1>9, WorkKeeps

(* A callback gives a buffer back, or says that the resource is done. *)
LEMMA RunCallbackKeeps ==
    ASSUME IInv, RunCallback
    PROVE  IInv'
<1>0. MainOK /\ StreamsOK
  BY DEF IInv
<1>1. PICK job, op : job = Head(jobs) /\ op = Head(job.ops)
  OBVIOUS
<1>2. jobs # <<>> /\ jobs' = IF Len(job.ops) = 1 THEN Tail(jobs) ELSE [jobs EXCEPT ![1].ops = Tail(@)]
  BY <1>1 DEF RunCallback
<1>3. job.res \in Streams
  <2>1. jobs \in Seq(Jobs)
    BY <1>0 DEF StreamsOK
  <2>2. job \in Jobs
    BY <1>1, <1>2, <2>1, PoolHead
  <2> QED BY <2>2 DEF Jobs
<1>4. /\ MainOK' /\ cfg' = cfg /\ stream' = stream /\ DOMAIN res' = Streams
      /\ \A s \in Streams : /\ res'[s].state = res[s].state /\ res'[s].sc = res[s].sc
                            /\ res'[s].done = IF op.op = "done" /\ s = job.res THEN TRUE ELSE res[s].done
      /\ UNCHANGED <<part, mpc, cur, writer, terminate>>
  BY <1>0, <1>1, <1>3, MainKeepsRun, ZenonT(40)
<1>5. /\ op \in Ops /\ ~res[job.res].done
      /\ op.op = "bundle" => Cardinality(Out) = Cardinality(Out') + 1 /\ Cardinality(Out') \in Nat
      /\ op.op # "bundle" => Out' = Out
      /\ StreamsOK'
  <2>1. UNCHANGED <<cfg, stream>> /\ DOMAIN res' = Streams
    BY <1>4
  <2>2. \A s \in Streams : res'[s].done = IF op.op = "done" /\ s = job.res THEN TRUE ELSE res[s].done
    BY <1>4
  <2>3. job = Head(jobs) /\ op = Head(job.ops)
    BY <1>1
  <2> QED BY <1>0, <1>2, <2>1, <2>2, <2>3, OutRun, ZenonT(40)
<1>6. mpc \in {"loop", "load"} /\ mpc' \in {"loop", "load"}
  BY <1>0, <1>3, <1>4, <1>5 DEF MainOK
<1>7. PICK d : d = Disk
  OBVIOUS
<1>8. /\ cfg \in Configs /\ GoodDisk(d) /\ d \in DiskType
      /\ d.bundles = bundles /\ d.pools = pools /\ d.batcher = batcher
      /\ cfg.empty * cfg.bundle \in Nat
      /\ Places(d) + d.batcher.iu = cfg.empty * cfg.bundle + Cardinality(Out)
      /\ (d.batcher.unbundle # Null /\ d.batcher.iu = 0 => \A s \in Streams : Early(s))
  BY <1>6, <1>7, WorkFacts
<1>9. \A s \in Streams : Early(s) => Early(s)'
  BY <1>4 DEF Early
<1>10. CASE op.op # "bundle"
  <2>1. UNCHANGED <<bundles, pools, batcher>>
    BY <1>1, <1>10 DEF RunCallback
  <2>2. /\ bundles' = d.bundles /\ pools' = d.pools /\ batcher' = d.batcher
        /\ \A o \in Objects : Whole(Disk, o) => Whole(d, o)
        /\ Bundles(d) = Bundles(Disk)
        /\ Places(d) + d.batcher.iu = cfg.empty * cfg.bundle + Cardinality(Out')
    BY <1>5, <1>7, <1>8, <1>10, <2>1
  <2>3. d.batcher.unbundle # Null /\ d.batcher.iu = 0 => \A s \in Streams : Early(s)'
    BY <1>8, <1>9
  <2> QED BY <1>4, <1>5, <1>6, <1>8, <2>2, <2>3, WorkKeeps
<1>11. CASE op.op = "bundle"
  <2>1. op.buf \in BufferIds
    BY <1>5, <1>11 DEF Ops
  <2>2. PICK buf \in BufferIds : buf = op.buf
    BY <2>1
  <2>a. PICK e : e = Bundle(d, buf)
    OBVIOUS
  <2>3. CanBundle(d) /\ SetDisk(e)
    BY <1>1, <1>7, <1>11, <2>2, <2>a DEF RunCallback
  <2>4. /\ GoodDisk(e)
        /\ \A o \in Objects : Whole(d, o) => Whole(e, o)
        /\ Places(d) = Places(e) + 1 /\ Places(e) \in Nat
        /\ Bundles(e) = Bundles(d)
        /\ e.batcher.unbundle = d.batcher.unbundle /\ e.batcher.iu = d.batcher.iu
    BY <1>8, <2>a, <2>3, BundleEffect
  <2>5. e \in DiskType
    BY <2>4 DEF GoodDisk
  <2>6. d.batcher.iu \in Nat
    <3>1. d.batcher.iu \in Slot /\ Slot \subseteq Nat
      BY <1>8, DiskFields, CallFacts
    <3> QED BY <3>1
  <2>7. Places(e) + e.batcher.iu = cfg.empty * cfg.bundle + Cardinality(Out')
    <3>1. PICK p \in Nat, i \in Nat, q \in Nat, k \in Nat :
             p = Places(e) /\ i = d.batcher.iu /\ q = cfg.empty * cfg.bundle /\ k = Cardinality(Out')
      BY <1>5, <1>8, <1>11, <2>4, <2>6
    <3>2. (p + 1) + i = q + (k + 1)
      BY <3>1, <1>5, <1>8, <1>11, <2>4
    <3>3. p + i = q + k
      BY <3>2
    <3> QED BY <3>1, <3>3, <2>4
  <2>8. bundles' = e.bundles /\ pools' = e.pools /\ batcher' = e.batcher
    BY <2>3 DEF SetDisk
  <2>9. (\A o \in Objects : Whole(Disk, o) => Whole(e, o)) /\ Bundles(e) = Bundles(Disk)
    BY <1>7, <2>4
  <2>10. e.batcher.unbundle # Null /\ e.batcher.iu = 0 => \A s \in Streams : Early(s)'
    BY <1>8, <1>9, <2>4
  <2> QED BY <1>4, <1>5, <1>6, <2>4, <2>5, <2>7, <2>8, <2>9, <2>10, WorkKeeps
<1> QED BY <1>10, <1>11

-----------------------------------------------------------------------------
(* The writers *)

(* Bundles moved between the pools *)
LEMMA PoolsMove ==
    ASSUME cfg \in Configs, GoodDisk(Disk), UNCHANGED <<cfg, bundles, batcher>>,
           NEW fs \in Seq(Objects), NEW es \in Seq(Objects), NEW ds \in Seq(Objects),
           pools' = [full |-> fs, empty |-> es, disk |-> ds],
           \A i \in 1 .. Len(fs) : Whole(Disk, fs[i]),
           \A i \in 1 .. Len(ds) : Whole(Disk, ds[i])
    PROVE  /\ GoodDisk(Disk)'
           /\ Objects' = Objects /\ \A o \in Objects : Whole(Disk, o)' <=> Whole(Disk, o)
           /\ es = pools.empty => Places(Disk)' = Places(Disk)
           /\ Bundles(Disk)' = Len(fs) + Len(es) + Len(ds) + One(batcher.unbundle) + One(batcher.bundle)
<1>1. PICK d : d = Disk
  OBVIOUS
<1>2. d \in DiskType /\ d.bundles = bundles /\ d.pools = pools /\ d.batcher = batcher
  BY <1>1, DiskIs
<1>3. PICK e : e = [bundles |-> d.bundles, batcher |-> d.batcher,
                    pools |-> [full |-> fs, empty |-> es, disk |-> ds]]
  OBVIOUS
<1>4. /\ e.bundles = d.bundles /\ e.batcher = d.batcher
      /\ e.pools = [full |-> fs, empty |-> es, disk |-> ds]
      /\ e.pools.full = fs /\ e.pools.empty = es /\ e.pools.disk = ds
  BY <1>3
<1>5. e \in DiskType
  BY <1>2, <1>3 DEF DiskType
<1>6. bundles' = e.bundles /\ pools' = e.pools /\ batcher' = e.batcher
  BY <1>2, <1>4
<1>7. \A o : Whole(e, o) <=> Whole(d, o)
  BY <1>4 DEF Whole
<1>8. GoodDisk(e)
  <2>1. GoodDisk(d)
    BY <1>1
  <2>2. \A i \in 1 .. Len(fs) : Whole(e, fs[i])
    BY <1>1, <1>7
  <2>3. \A i \in 1 .. Len(ds) : Whole(e, ds[i])
    BY <1>1, <1>7
  <2> QED BY <1>4, <1>5, <2>1, <2>2, <2>3 DEF GoodDisk
<1>9. /\ GoodDisk(Disk)' <=> GoodDisk(e)
      /\ Places(Disk)' = Places(e) /\ Bundles(Disk)' = Bundles(e)
      /\ Objects' = Objects /\ \A o \in Objects : Whole(Disk, o)' <=> Whole(e, o)
  BY <1>5, <1>6, NewDisk
<1>10. es = pools.empty => Places(e) = Places(d)
  BY <1>2, <1>4 DEF Places
<1>11. Bundles(e) = Len(fs) + Len(es) + Len(ds) + One(batcher.unbundle) + One(batcher.bundle)
  BY <1>2, <1>4 DEF Bundles
<1> QED BY <1>1, <1>7, <1>8, <1>9, <1>10, <1>11

(* What the writers hold is whole, if nothing but writer changes. *)
LEMMA NewWriters ==
    ASSUME writer' \in [Writers -> [running : BOOLEAN, object : Objects \cup {Null}]],
           Objects' = Objects, \A o \in Objects : Whole(Disk, o)' <=> Whole(Disk, o),
           \A x \in Writers : writer'[x].object # Null =>
               Whole(Disk, writer'[x].object) /\ writer'[x].running
    PROVE  /\ (writer \in [Writers -> [running : BOOLEAN, object : Objects \cup {Null}]])'
           /\ (\A x \in Writers : writer[x].object # Null =>
                  Whole(Disk, writer[x].object) /\ writer[x].running)'
<1>1. SUFFICES ASSUME NEW x \in Writers, writer'[x].object # Null
               PROVE  (Whole(Disk, writer[x].object))' /\ writer'[x].running
  OBVIOUS
<1>2. PICK o \in Objects : o = writer'[x].object
  BY <1>1
<1>3. Whole(Disk, o)' /\ writer'[x].running
  BY <1>1, <1>2
<1> QED BY <1>2, <1>3 DEF Whole, Disk

(* A writer takes a bundle, returns it written, or stops. *)
LEMMA WriterKeeps ==
    ASSUME IInv, NEW w \in Writers, Writer(w)
    PROVE  IInv'
<1>0. MainOK /\ StreamsOK /\ cfg \in Configs
  BY DEF IInv, MainOK
<1>1. UNCHANGED <<cfg, part, mpc, cur, res, stream, jobs, bundles, batcher, terminate>>
  BY DEF Writer, TakeBundle, WriteBundle, StopWriter, mainVars, gpuVars, diskVars
<1>2. MainOK'
  BY <1>0, <1>1, MainOther DEF MainOK
<1>3. StreamsOK' /\ Out' = Out
  BY <1>0, <1>1, StreamsSame
<1>4. (Alive' <=> Alive) /\ (Running' <=> Running) /\ Streams' = Streams
      /\ \A r \in Streams : Early(r)' <=> Early(r)
  BY <1>1 DEF Alive, Running, Streams, StreamCount, Early
<1>5. ASSUME Alive PROVE DiskOK' /\ WritersOK'
  <2>0. DiskOK /\ WritersOK /\ GoodDisk(Disk)
    BY <1>5 DEF IInv, DiskOK
  <2>1. PICK d : d = Disk
    OBVIOUS
  <2>2. d \in DiskType /\ d.bundles = bundles /\ d.pools = pools /\ d.batcher = batcher
    BY <2>0, <2>1, DiskIs
  <2>3. pools.full \in Seq(Objects) /\ pools.empty \in Seq(Objects) /\ pools.disk \in Seq(Objects)
    BY <2>2, DiskFields
  <2>4. pools = [full |-> pools.full, empty |-> pools.empty, disk |-> pools.disk]
    BY <2>2 DEF DiskType
  <2>5. PICK nf \in Nat, ne \in Nat, nd \in Nat, u \in Nat, v \in Nat :
           /\ nf = Len(pools.full) /\ ne = Len(pools.empty) /\ nd = Len(pools.disk)
           /\ u = One(batcher.unbundle) /\ v = One(batcher.bundle)
    <3>1. Len(pools.full) \in Nat /\ Len(pools.empty) \in Nat /\ Len(pools.disk) \in Nat
      BY <2>3
    <3>2. One(batcher.unbundle) \in Nat /\ One(batcher.bundle) \in Nat
      BY DEF One
    <3> QED BY <3>1, <3>2
  <2>6. Bundles(Disk) = nf + ne + nd + u + v
    BY <2>5 DEF Bundles, Disk
  <2>7. (\A i \in 1 .. nf : Whole(Disk, pools.full[i])) /\ \A i \in 1 .. nd : Whole(Disk, pools.disk[i])
    BY <2>0, <2>5 DEF GoodDisk, Disk
  <2>8. /\ writer \in [Writers -> [running : BOOLEAN, object : Objects \cup {Null}]]
        /\ \A x \in Writers : /\ writer[x].object # Null => Whole(Disk, writer[x].object) /\ writer[x].running
                              /\ Running => writer[x].running
                              /\ mpc \in {"start", "lock", "recv"} => ~writer[x].running
                              /\ ~writer[x].running => pools.disk = <<>>
        /\ Running => ~terminate
        /\ Bundles(Disk) + Cardinality(Busy) = cfg.full + cfg.empty
    BY <2>0 DEF WritersOK
  <2>9. IsFiniteSet(Busy) /\ Cardinality(Busy) \in Nat
    <3>1. Busy \in SUBSET Writers
      BY DEF Busy
    <3> QED BY <3>1, Pc2Assumption, FS_Subset, FS_CardinalityType
  <2>10. /\ ~Running => batcher.unbundle = Null /\ batcher.bundle = Null
         /\ Running /\ batcher.unbundle # Null /\ batcher.iu = 0 => \A r \in Streams : Early(r)
         /\ Places(Disk) + batcher.iu = cfg.empty * cfg.bundle + Cardinality(Out)
    BY <2>0 DEF DiskOK
  <2>11. Null \notin Objects
    BY <1>0, CallFacts
  <2>12. CASE TakeBundle(w)
    <3>1. /\ writer[w] = Polling /\ pools.disk # <<>>
          /\ writer' = [writer EXCEPT ![w] = Holding(Head(pools.disk))]
          /\ pools' = [pools EXCEPT !.disk = Tail(@)]
      BY <2>12 DEF TakeBundle
    <3>2. PICK h \in Objects, t \in Seq(Objects) :
             /\ h = Head(pools.disk) /\ t = Tail(pools.disk) /\ nd = Len(t) + 1 /\ Whole(Disk, h)
             /\ \A i \in 1 .. Len(t) : Whole(Disk, t[i])
      <4>1. /\ Head(pools.disk) \in Objects /\ Tail(pools.disk) \in Seq(Objects) /\ nd > 0
            /\ Head(pools.disk) = pools.disk[1] /\ Len(Tail(pools.disk)) = nd - 1
            /\ \A i \in 1 .. nd - 1 : i + 1 \in 1 .. nd /\ Tail(pools.disk)[i] = pools.disk[i + 1]
        BY <2>3, <2>5, <3>1, PoolHead
      <4>2. Whole(Disk, Head(pools.disk))
        BY <2>7, <4>1
      <4>3. \A i \in 1 .. nd - 1 : Whole(Disk, Tail(pools.disk)[i])
        BY <2>7, <4>1
      <4>4. PICK t \in Seq(Objects) : t = Tail(pools.disk)
        BY <4>1
      <4>5. PICK l \in Nat : l = Len(t)
        BY <4>4
      <4>6. l = nd - 1
        BY <4>1, <4>4, <4>5
      <4>7. nd = l + 1
        BY <4>6
      <4>8. \A i \in 1 .. l : Whole(Disk, t[i])
        BY <4>3, <4>4, <4>6
      <4>9. nd = Len(t) + 1 /\ \A i \in 1 .. Len(t) : Whole(Disk, t[i])
        BY <4>5, <4>7, <4>8
      <4> QED BY <4>1, <4>2, <4>4, <4>9
    <3>3. pools' = [full |-> pools.full, empty |-> pools.empty, disk |-> t]
      BY <2>4, <3>1, <3>2
    <3>4. /\ GoodDisk(Disk)'
          /\ Objects' = Objects /\ \A o \in Objects : Whole(Disk, o)' <=> Whole(Disk, o)
          /\ Places(Disk)' = Places(Disk)
          /\ Bundles(Disk)' = nf + ne + Len(t) + u + v
      BY <1>0, <1>1, <2>0, <2>3, <2>5, <2>7, <3>2, <3>3, PoolsMove
    <3>5. w \notin Busy /\ Busy' = Busy \cup {w}
      <4>1. writer[w].object = Null
        BY <3>1 DEF Polling
      <4>2. writer'[w].object = h /\ \A x \in Writers \ {w} : writer'[x] = writer[x]
        BY <2>8, <3>1, <3>2 DEF Holding
      <4> QED BY <2>11, <4>1, <4>2 DEF Busy
    <3>6. Cardinality(Busy') = Cardinality(Busy) + 1
      BY <2>9, <3>5, FS_AddElement
    <3>7. Bundles(Disk)' + Cardinality(Busy') = cfg.full + cfg.empty
      <4>0. Len(t) \in Nat
        BY <3>2
      <4>1. PICK c \in Nat, l \in Nat : c = Cardinality(Busy) /\ l = Len(t)
        BY <2>9, <4>0
      <4>2. Bundles(Disk)' = nf + ne + l + u + v /\ Bundles(Disk) = nf + ne + (l + 1) + u + v
        BY <2>6, <3>2, <3>4, <4>1
      <4>3. (nf + ne + (l + 1) + u + v) + c = (nf + ne + l + u + v) + (c + 1)
        OBVIOUS
      <4> QED BY <2>8, <3>6, <4>1, <4>2, <4>3
    <3>8. DiskOK'
      BY <1>1, <1>3, <1>4, <2>10, <3>4 DEF DiskOK
    <3>9. /\ writer' \in [Writers -> [running : BOOLEAN, object : Objects \cup {Null}]]
          /\ writer'[w] = Holding(h) /\ \A x \in Writers \ {w} : writer'[x] = writer[x]
      BY <2>8, <3>1, <3>2 DEF Holding
    <3>10. writer'[w].object = h /\ writer'[w].running /\ writer[w].running
      BY <3>1, <3>9 DEF Holding, Polling
    <3>11. \A x \in Writers : writer[x].running
      BY <2>8, <3>1
    <3>12. \A x \in Writers : writer[x].object # Null => writer[x].object \in Objects
      BY <2>8
    <3>13. \A x \in Writers : /\ writer'[x].object # Null => Whole(Disk, writer'[x].object)
                              /\ writer'[x].running
      BY <2>8, <3>2, <3>9, <3>10, <3>11
    <3>15. /\ (writer \in [Writers -> [running : BOOLEAN, object : Objects \cup {Null}]])'
           /\ (\A x \in Writers : writer[x].object # Null =>
                  Whole(Disk, writer[x].object) /\ writer[x].running)'
      BY <3>4, <3>9, <3>13, NewWriters
    <3>14. mpc \notin {"start", "lock", "recv"}
      BY <2>8, <3>10
    <3> QED BY <1>1, <1>4, <2>8, <3>7, <3>8, <3>13, <3>14, <3>15 DEF WritersOK
  <2>13. CASE WriteBundle(w)
    <3>1. /\ writer[w].object # Null
          /\ writer' = [writer EXCEPT ![w] = Polling]
          /\ pools' = [pools EXCEPT !.full = Append(@, writer[w].object)]
      BY <2>13 DEF WriteBundle
    <3>2. PICK h \in Objects : h = writer[w].object /\ Whole(Disk, h)
      BY <2>8, <3>1
    <3>3. PICK t \in Seq(Objects) : /\ t = Append(pools.full, h) /\ Len(t) = nf + 1
                                    /\ \A i \in 1 .. Len(t) : Whole(Disk, t[i])
      <4>1. /\ Append(pools.full, h) \in Seq(Objects) /\ Len(Append(pools.full, h)) = nf + 1
            /\ \A i \in 1 .. nf + 1 :
                 Append(pools.full, h)[i] = IF i = nf + 1 THEN h ELSE pools.full[i]
        BY <2>3, <2>5, PoolPut
      <4>2. \A i \in 1 .. nf + 1 : Whole(Disk, Append(pools.full, h)[i])
        BY <2>7, <3>2, <4>1
      <4> QED BY <4>1, <4>2
    <3>4. pools' = [full |-> t, empty |-> pools.empty, disk |-> pools.disk]
      BY <2>4, <3>1, <3>2, <3>3
    <3>5. /\ GoodDisk(Disk)'
          /\ Objects' = Objects /\ \A o \in Objects : Whole(Disk, o)' <=> Whole(Disk, o)
          /\ Places(Disk)' = Places(Disk)
          /\ Bundles(Disk)' = (nf + 1) + ne + nd + u + v
      <4>1. \A i \in 1 .. Len(pools.disk) : Whole(Disk, pools.disk[i])
        BY <2>5, <2>7
      <4>2. UNCHANGED <<cfg, bundles, batcher>>
        BY <1>1
      <4>3. \A i \in 1 .. Len(t) : Whole(Disk, t[i])
        BY <3>3
      <4>4. /\ GoodDisk(Disk)'
            /\ Objects' = Objects /\ \A o \in Objects : Whole(Disk, o)' <=> Whole(Disk, o)
            /\ Places(Disk)' = Places(Disk)
            /\ Bundles(Disk)' = Len(t) + Len(pools.empty) + Len(pools.disk)
                                + One(batcher.unbundle) + One(batcher.bundle)
        BY <1>0, <2>0, <2>3, <3>4, <4>1, <4>2, <4>3, PoolsMove
      <4>5. Len(t) = nf + 1
        BY <3>3
      <4> QED BY <2>5, <4>4, <4>5
    <3>6. w \in Busy /\ Busy' = Busy \ {w}
      <4>1. writer'[w].object = Null /\ \A x \in Writers \ {w} : writer'[x] = writer[x]
        BY <2>8, <3>1 DEF Polling
      <4> QED BY <3>1, <4>1 DEF Busy
    <3>7. Cardinality(Busy') = Cardinality(Busy) - 1
      BY <2>9, <3>6, FS_RemoveElement
    <3>8. Bundles(Disk)' + Cardinality(Busy') = cfg.full + cfg.empty
      <4>1. PICK c \in Nat : c = Cardinality(Busy)
        BY <2>9
      <4>2. (nf + ne + nd + u + v) + c = ((nf + 1) + ne + nd + u + v) + (c - 1)
        OBVIOUS
      <4> QED BY <2>6, <2>8, <3>5, <3>7, <4>1, <4>2
    <3>9. DiskOK'
      BY <1>1, <1>3, <1>4, <2>10, <3>5 DEF DiskOK
    <3>10. /\ writer' \in [Writers -> [running : BOOLEAN, object : Objects \cup {Null}]]
           /\ writer'[w].object = Null /\ writer'[w].running /\ writer[w].running
           /\ \A x \in Writers \ {w} : writer'[x] = writer[x]
      BY <2>8, <3>1 DEF Polling
    <3>11. \A x \in Writers : writer[x].object # Null => writer[x].object \in Objects
      BY <2>8
    <3>12. \A x \in Writers : /\ writer'[x].object # Null => Whole(Disk, writer'[x].object) /\ writer'[x].running
                              /\ writer'[x].running <=> writer[x].running
      BY <2>8, <3>10
    <3>14. /\ (writer \in [Writers -> [running : BOOLEAN, object : Objects \cup {Null}]])'
           /\ (\A x \in Writers : writer[x].object # Null =>
                  Whole(Disk, writer[x].object) /\ writer[x].running)'
      BY <3>5, <3>10, <3>12, NewWriters
    <3>13. pools'.disk = pools.disk
      BY <3>4
    <3> QED BY <1>1, <1>4, <2>8, <3>8, <3>9, <3>12, <3>13, <3>14 DEF WritersOK
  <2>14. CASE StopWriter(w)
    <3>1. /\ writer[w] = Polling /\ terminate /\ pools.disk = <<>>
          /\ writer' = [writer EXCEPT ![w] = Stopped] /\ pools' = pools
      BY <2>14 DEF StopWriter, WriterMayStop, diskVars
    <3>2. /\ GoodDisk(Disk)'
          /\ Places(Disk)' = Places(Disk) /\ Bundles(Disk)' = Bundles(Disk)
          /\ Objects' = Objects /\ \A o \in Objects : Whole(Disk, o)' <=> Whole(Disk, o)
      BY <1>1, <2>0, <3>1, SameDisk
    <3>3. /\ writer' \in [Writers -> [running : BOOLEAN, object : Objects \cup {Null}]]
          /\ writer'[w].object = Null /\ ~writer'[w].running /\ writer[w].object = Null
          /\ \A x \in Writers \ {w} : writer'[x] = writer[x]
      BY <2>8, <3>1 DEF Polling, Stopped
    <3>4. Busy' = Busy
      BY <3>3 DEF Busy
    <3>5. DiskOK'
      BY <1>1, <1>3, <1>4, <2>10, <3>2 DEF DiskOK
    <3>6. \A x \in Writers : writer[x].object # Null => writer[x].object \in Objects
      BY <2>8
    <3>7. ~Running
      BY <2>8, <3>1
    <3>8. \A x \in Writers : writer'[x].object # Null => Whole(Disk, writer'[x].object) /\ writer'[x].running
      BY <2>8, <3>3
    <3>10. /\ (writer \in [Writers -> [running : BOOLEAN, object : Objects \cup {Null}]])'
           /\ (\A x \in Writers : writer[x].object # Null =>
                  Whole(Disk, writer[x].object) /\ writer[x].running)'
      BY <3>2, <3>3, <3>8, NewWriters
    <3>9. mpc \in {"start", "lock", "recv"} => \A x \in Writers : ~writer'[x].running
      BY <2>8, <3>3
    <3> QED BY <1>1, <1>4, <2>8, <3>1, <3>2, <3>4, <3>5, <3>7, <3>9, <3>10 DEF WritersOK
  <2> QED BY <2>12, <2>13, <2>14 DEF Writer
<1> QED BY <1>2, <1>3, <1>4, <1>5 DEF IInv

-----------------------------------------------------------------------------
(* The batcher between two partitions *)

(* More bundles have room for more buffers. *)
LEMMA Multiples ==
    ASSUME NEW b \in Nat, NEW p \in Nat, NEW q \in Nat, p < q
    PROVE  p * b + b <= q * b
<1>1. PICK k \in Nat : q = p + 1 + k
  <2>1. q - p - 1 \in Nat /\ q = p + 1 + (q - p - 1)
    OBVIOUS
  <2> QED BY <2>1
<1>2. q * b = (p + 1) * b + k * b
  BY <1>1
<1>3. (p + 1) * b = p * b + b /\ k * b \in Nat /\ p * b \in Nat
  BY Products
<1> QED BY <1>2, <1>3

(* A number is a multiple of a bundle and a place in a bundle in one way only. *)
LEMMA Euclid ==
    ASSUME NEW b \in Nat, NEW m \in Nat, NEW n \in Nat, NEW i \in 0 .. b - 1, NEW j \in 0 .. b - 1,
           m * b + i = n * b + j
    PROVE  m = n /\ i = j
<1>2. PICK x \in Nat, y \in Nat : x = m * b /\ y = n * b
  BY Products
<1>3. ~(m < n)
  <2>1. m < n => x + b <= y
    BY <1>2, Multiples
  <2> QED BY <1>2, <2>1
<1>4. ~(n < m)
  <2>1. n < m => y + b <= x
    BY <1>2, Multiples
  <2> QED BY <1>2, <2>1
<1>5. m = n
  BY <1>3, <1>4
<1> QED BY <1>2, <1>5

(* Outside the loop no stream and no callback holds a buffer. *)
LEMMA OutEmpty ==
    ASSUME MainOK, StreamsOK, mpc \notin {"loop", "load"} \/ \A r \in Streams : res[r].done
    PROVE  /\ \A r \in Streams : res[r].done /\ stream[r] = Null
           /\ Len(jobs) = 0 /\ Out = {} /\ Cardinality(Out) = 0
<1>1. \A r \in Streams : res[r].done
  BY DEF MainOK
<1>2. \A r \in Streams : /\ stream[r] = Null
                         /\ \A i \in 1 .. Len(jobs) : jobs[i].res # r
                         /\ \A k \in 2 .. 4 : <<r, k>> \notin Out
  BY <1>1, OutDone
<1>3. Out = {}
  <2>1. Out \subseteq Streams \X (2 .. 4) /\ {} \subseteq Streams \X (2 .. 4)
    BY DEF Out
  <2> QED BY <1>2, <2>1, SamePairs
<1>4. Len(jobs) = 0
  <2>1. jobs \in Seq(Jobs)
    BY DEF StreamsOK
  <2>2. ASSUME Len(jobs) # 0 PROVE FALSE
    <3>1. 1 \in 1 .. Len(jobs) /\ jobs[1] \in Jobs
      BY <2>1, <2>2
    <3>2. jobs[1].res \in Streams
      BY <3>1 DEF Jobs
    <3> QED BY <1>2, <3>1, <3>2
  <2> QED BY <2>2
<1> QED BY <1>1, <1>2, <1>3, <1>4, FS_EmptySet

(* Then as many buffers of one bundle are used as of the other. *)
LEMMA Balance ==
    ASSUME cfg \in Configs, GoodDisk(Disk),
           Places(Disk) + batcher.iu = cfg.empty * cfg.bundle + Cardinality(Out),
           Cardinality(Out) = 0
    PROVE  /\ batcher.ib = batcher.iu
           /\ Len(pools.empty) + One(batcher.bundle) = cfg.empty
<1>1. PICK d : d = Disk
  OBVIOUS
<1>2. d \in DiskType /\ d.bundles = bundles /\ d.pools = pools /\ d.batcher = batcher
  BY <1>1, DiskIs
<1>3. PICK b \in Nat, m \in Nat, n \in Nat :
         b = cfg.bundle /\ b > 0 /\ m = cfg.empty /\ n = Len(pools.empty) /\ Slot = 0 .. b - 1
  <2>1. pools.empty \in Seq(Objects)
    BY <1>2, DiskFields
  <2>2. Len(pools.empty) \in Nat
    BY <2>1
  <2> QED BY <2>2, CallFacts DEF Slot
<1>4. batcher.iu \in 0 .. b - 1 /\ batcher.ib \in 0 .. b - 1
  BY <1>2, <1>3, DiskFields
<1>5. PICK i \in 0 .. b - 1, j \in 0 .. b - 1 : i = batcher.iu /\ j = batcher.ib
  BY <1>4
<1>6. n * b \in Nat /\ m * b \in Nat /\ (n + 1) * b = n * b + b
  BY Products
<1>7. PICK x \in Nat, y \in Nat : x = n * b /\ y = m * b
  BY <1>6
<1>8. CASE batcher.bundle = Null
  <2>1. j = 0
    BY <1>2, <1>5, <1>8, <1>1 DEF GoodDisk
  <2>2. Places(Disk) = 0 + n * b
    BY <1>3, <1>8 DEF Places, Disk
  <2>3. 0 + x + i = y + 0
    BY <1>3, <1>5, <1>7, <2>2
  <2>4. n * b + i = m * b + j
    BY <1>7, <2>1, <2>3
  <2>5. n = m /\ i = j
    BY <2>4, Euclid
  <2> QED BY <1>3, <1>5, <1>8, <2>5 DEF One
<1>9. CASE batcher.bundle # Null
  <2>2. Places(Disk) = (b - j) + n * b
    BY <1>3, <1>5, <1>9 DEF Places, Disk
  <2>3. ((b - j) + x) + i = y + 0
    BY <1>3, <1>5, <1>7, <2>2
  <2>4. x + b + i = y + j
    BY <2>3
  <2>5. (n + 1) * b + i = m * b + j
    BY <1>6, <1>7, <2>4
  <2>6. n + 1 = m /\ i = j
    BY <2>5, Euclid
  <2> QED BY <1>3, <1>5, <1>9, <2>6 DEF One
<1> QED BY <1>8, <1>9

(* What the next partition finds: all bundles are in the two pools. *)
LEMMA AtStart ==
    ASSUME IInv, mpc = "start"
    PROVE  /\ DiskOK /\ WritersOK
           /\ batcher.unbundle = Null /\ batcher.bundle = Null /\ batcher.iu = 0 /\ batcher.ib = 0
           /\ Len(pools.empty) = cfg.empty /\ Len(pools.full) = cfg.full /\ pools.disk = <<>>
           /\ Busy = {}
<1>0. MainOK /\ StreamsOK /\ cfg \in Configs /\ DiskOK /\ WritersOK
  BY DEF IInv, MainOK, Alive
<1>1. GoodDisk(Disk) /\ batcher.unbundle = Null /\ batcher.bundle = Null
  BY <1>0 DEF DiskOK, Running
<1>2. batcher.iu = 0 /\ batcher.ib = 0
  BY <1>1 DEF GoodDisk, Disk
<1>3. Cardinality(Out) = 0
  BY <1>0, OutEmpty
<1>4. /\ Len(pools.empty) \in Nat /\ Len(pools.full) \in Nat
      /\ cfg.empty \in Nat /\ cfg.full \in Nat
  <2>1. PICK d : d = Disk
    OBVIOUS
  <2>2. d \in DiskType /\ d.pools = pools
    BY <1>1, <2>1, DiskIs
  <2>3. pools.full \in Seq(Objects) /\ pools.empty \in Seq(Objects)
    BY <2>2, DiskFields
  <2> QED BY <1>0, <2>3, CallFacts
<1>5. Len(pools.empty) = cfg.empty
  <2>1. Len(pools.empty) + One(batcher.bundle) = cfg.empty
    BY <1>0, <1>1, <1>3, Balance DEF DiskOK
  <2>2. One(batcher.bundle) = 0
    BY <1>1 DEF One
  <2> QED BY <1>4, <2>1, <2>2
<1>6. \A w \in Writers : ~writer[w].running
  BY <1>0 DEF WritersOK
<1>7. Busy = {}
  BY <1>0, <1>6 DEF WritersOK, Busy
<1>8. pools.disk = <<>>
  BY <1>0, <1>6, Pc2Assumption DEF WritersOK
<1>9. Len(pools.full) = cfg.full
  <2>1. Bundles(Disk) = Len(pools.full) + Len(pools.empty) + Len(pools.disk) + 0 + 0
    BY <1>1 DEF Bundles, Disk, One
  <2>2. Len(pools.disk) = 0 /\ Cardinality(Busy) = 0
    BY <1>7, <1>8, FS_EmptySet
  <2>3. Bundles(Disk) + 0 = cfg.full + cfg.empty
    BY <1>0, <2>2 DEF WritersOK
  <2> QED BY <1>4, <1>5, <2>1, <2>2, <2>3
<1> QED BY <1>0, <1>1, <1>2, <1>5, <1>7, <1>8, <1>9

(* The writers and the batcher start with a bundle of each pool. *)
LEMMA StartPartitionKeeps ==
    ASSUME IInv, StartPartition
    PROVE  IInv'
<1>0. MainOK /\ StreamsOK /\ cfg \in Configs /\ mpc = "start" /\ mpc' = "loop"
  BY DEF IInv, MainOK, StartPartition
<1>1. MainOK'
  BY <1>0, MainKeepsMain
<1>2. /\ DiskOK /\ WritersOK
      /\ batcher.unbundle = Null /\ batcher.bundle = Null /\ batcher.iu = 0 /\ batcher.ib = 0
      /\ Len(pools.empty) = cfg.empty /\ Len(pools.full) = cfg.full /\ pools.disk = <<>>
  BY <1>0, AtStart
<1>3. /\ UNCHANGED <<cfg, part, bundles, stream, jobs>>
      /\ res' = [r \in Streams |-> Reset(r)] /\ ~terminate'
      /\ writer' = [w \in Writers |-> Polling]
      /\ pools' = [pools EXCEPT !.full = Tail(@), !.empty = Tail(@)]
      /\ batcher' = [unbundle |-> Head(pools.full), bundle |-> Head(pools.empty),
                     iu |-> 0, ib |-> 0]
  BY DEF StartPartition, gpuVars
<1>4. \A r \in Streams : res[r].done
  BY <1>0, OutEmpty
<1>5. \A r \in Streams : /\ res'[r].done = TRUE /\ res'[r].state = "IDLE"
                         /\ res'[r].sc = ResetScheduler(LeafItems)
  <2>1. \A r \in Streams : DOMAIN res[r] = Fields
    BY <1>0 DEF MainOK
  <2> QED BY <1>3, <2>1 DEF Reset, Fields
<1>6. StreamsOK' /\ Out' = Out
  <2>1. \A r \in Streams : res[r].done = TRUE
    BY <1>0, <1>4 DEF MainOK
  <2>2. \A r \in Streams : res'[r].done = res[r].done
    BY <1>5, <2>1
  <2> QED BY <1>0, <1>3, <2>2, StreamsSame
<1>7. Cardinality(Out') = 0
  BY <1>0, <1>6, OutEmpty
<1>8. Running' /\ Streams' = Streams
  BY <1>0, <1>3 DEF Running, Streams, StreamCount
<1>9. \A r \in Streams : Early(r)'
  BY <1>5, <1>8 DEF Early
<1>10. PICK d : d = Disk
  OBVIOUS
<1>11. d \in DiskType /\ d.bundles = bundles /\ d.pools = pools /\ d.batcher = batcher /\ GoodDisk(d)
  BY <1>2, <1>10, DiskIs DEF DiskOK
<1>12. /\ pools.full \in Seq(Objects) /\ pools.empty \in Seq(Objects) /\ pools.disk \in Seq(Objects)
       /\ d.bundles \in [Objects -> [Slot -> BufferIds \cup {Null}]]
  BY <1>11, DiskFields
<1>13. PICK b \in Nat, m \in Nat, n \in Nat :
          /\ b = cfg.bundle /\ m = cfg.empty /\ n = cfg.full /\ b > 0 /\ m > 0 /\ n > 0
          /\ Slot = 0 .. b - 1 /\ 0 \in Slot /\ Null \notin Objects
  BY <1>0, CallFacts DEF Slot
<1>14. pools.full # <<>> /\ pools.empty # <<>>
  BY <1>2, <1>13
<1>15. PICK hf \in Objects, tf \in Seq(Objects) :
          /\ hf = Head(pools.full) /\ tf = Tail(pools.full) /\ Len(tf) = n - 1 /\ Whole(d, hf)
          /\ \A i \in 1 .. n - 1 : Whole(d, tf[i])
  <2>1. /\ Head(pools.full) \in Objects /\ Tail(pools.full) \in Seq(Objects)
        /\ Head(pools.full) = pools.full[1] /\ Len(Tail(pools.full)) = n - 1
        /\ \A i \in 1 .. n - 1 : i + 1 \in 1 .. n /\ Tail(pools.full)[i] = pools.full[i + 1]
    BY <1>2, <1>12, <1>13, <1>14, PoolHead
  <2>2. \A i \in 1 .. n : Whole(d, pools.full[i])
    BY <1>2, <1>11, <1>13 DEF GoodDisk
  <2>3. Whole(d, Head(pools.full)) /\ \A i \in 1 .. n - 1 : Whole(d, Tail(pools.full)[i])
    BY <1>13, <2>1, <2>2
  <2> QED BY <2>1, <2>3
<1>16. PICK he \in Objects, te \in Seq(Objects) :
          he = Head(pools.empty) /\ te = Tail(pools.empty) /\ Len(te) = m - 1
  <2>1. /\ Head(pools.empty) \in Objects /\ Tail(pools.empty) \in Seq(Objects)
        /\ Len(Tail(pools.empty)) = m - 1
    BY <1>2, <1>12, <1>13, <1>14, PoolHead
  <2> QED BY <2>1
<1>17. PICK e : e = [bundles |-> bundles, pools |-> [full |-> tf, empty |-> te, disk |-> <<>>],
                     batcher |-> [unbundle |-> hf, bundle |-> he, iu |-> 0, ib |-> 0]]
  OBVIOUS
<1>18. /\ e.bundles = bundles /\ e.pools = [full |-> tf, empty |-> te, disk |-> <<>>]
       /\ e.batcher = [unbundle |-> hf, bundle |-> he, iu |-> 0, ib |-> 0]
       /\ e.pools.full = tf /\ e.pools.empty = te /\ e.pools.disk = <<>>
       /\ e.batcher.unbundle = hf /\ e.batcher.bundle = he /\ e.batcher.iu = 0 /\ e.batcher.ib = 0
  BY <1>17
<1>19. bundles' = e.bundles /\ pools' = e.pools /\ batcher' = e.batcher
  <2>1. pools = [full |-> pools.full, empty |-> pools.empty, disk |-> pools.disk]
    BY <1>11 DEF DiskType
  <2> QED BY <1>2, <1>3, <1>15, <1>16, <1>18, <2>1
<1>20. e \in DiskType
  BY <1>11, <1>12, <1>13, <1>15, <1>16, <1>17 DEF DiskType
<1>21. \A o : Whole(e, o) <=> Whole(d, o)
  BY <1>11, <1>18 DEF Whole
<1>22. GoodDisk(e)
  <2>1. \A i \in 1 .. Len(e.pools.full) : Whole(e, e.pools.full[i])
    BY <1>15, <1>18, <1>21
  <2>2. \A i \in 1 .. Len(e.pools.disk) : Whole(e, e.pools.disk[i])
    BY <1>18
  <2>3. \A j \in Slot : e.bundles[hf][j] \in BufferIds
    BY <1>11, <1>15, <1>18 DEF Whole
  <2>4. \A j \in Slot : ~(j < 0)
    BY <1>13
  <2>5. e.batcher.unbundle # Null /\ e.batcher.bundle # Null
    BY <1>13, <1>18
  <2> QED BY <1>18, <1>20, <2>1, <2>2, <2>3, <2>4, <2>5 DEF GoodDisk
<1>23. /\ GoodDisk(Disk)' <=> GoodDisk(e)
       /\ Places(Disk)' = Places(e) /\ Bundles(Disk)' = Bundles(e)
       /\ Objects' = Objects /\ \A o \in Objects : Whole(Disk, o)' <=> Whole(e, o)
  BY <1>3, <1>19, <1>20, NewDisk
<1>24. Places(e) + 0 = m * b
  <2>1. Places(e) = (b - 0) + (m - 1) * b
    BY <1>13, <1>16, <1>18 DEF Places
  <2>2. PICK k \in Nat : m = k + 1 /\ k = m - 1
    BY <1>13
  <2>3. PICK x \in Nat : x = k * b /\ (k + 1) * b = x + b
    BY Products
  <2>4. (b - 0) + x + 0 = x + b
    OBVIOUS
  <2> QED BY <2>1, <2>2, <2>3, <2>4
<1>25. Bundles(e) = n + m
  <2>1. Bundles(e) = (n - 1) + (m - 1) + 0 + 1 + 1
    BY <1>13, <1>15, <1>16, <1>18 DEF Bundles, One
  <2> QED BY <2>1
<1>26. DiskOK'
  <2>1. Places(Disk)' + batcher'.iu = cfg'.empty * cfg'.bundle + Cardinality(Out')
    <3>1. m * b \in Nat
      BY Products
    <3>2. Places(e) + 0 = m * b + 0
      BY <1>24, <3>1
    <3> QED BY <1>3, <1>7, <1>13, <1>18, <1>19, <1>23, <3>2
  <2> QED BY <1>8, <1>9, <1>22, <1>23, <2>1 DEF DiskOK
<1>27. WritersOK'
  <2>1. /\ writer' \in [Writers -> [running : BOOLEAN, object : Objects \cup {Null}]]
        /\ \A w \in Writers : writer'[w].object = Null /\ writer'[w].running
    BY <1>3 DEF Polling
  <2>2. Busy' = {}
    BY <2>1 DEF Busy
  <2>3. Cardinality(Busy') = 0
    BY <2>2, FS_EmptySet
  <2>4. Bundles(Disk)' + Cardinality(Busy') = cfg'.full + cfg'.empty
    BY <1>3, <1>13, <1>23, <1>25, <2>3
  <2>5. mpc' \notin {"start", "lock", "recv"}
    BY <1>0
  <2> QED BY <1>3, <1>23, <2>1, <2>4, <2>5 DEF WritersOK
<1> QED BY <1>1, <1>6, <1>26, <1>27 DEF IInv

(* A place in a bundle is in that bundle. *)
LEMMA SameBundle ==
    ASSUME NEW b \in Nat, b > 0, NEW i \in 0 .. b - 1
    PROVE  i \div b = 0 /\ i % b = i
OBVIOUS

(* What flush leaves is as good as before, when there is nothing to flush or   *)
(* one place to fill.                                                          *)
LEMMA FlushEffect ==
    ASSUME cfg \in Configs, NEW d \in DiskType, GoodDisk(d), NEW e \in DiskType,
           d.batcher.unbundle # Null, d.batcher.bundle # Null,
           d.batcher.ib = d.batcher.iu, d.batcher.ib = cfg.bundle - 1,
           \A o \in Objects \ {d.batcher.bundle} : e.bundles[o] = d.bundles[o],
           \A j \in Slot : e.bundles[d.batcher.bundle][j] =
               IF j = d.batcher.ib THEN d.bundles[d.batcher.unbundle][j]
                                   ELSE d.bundles[d.batcher.bundle][j],
           e.pools.full = d.pools.full,
           e.pools.empty = Append(d.pools.empty, d.batcher.unbundle),
           e.pools.disk = Append(d.pools.disk, d.batcher.bundle),
           e.batcher.unbundle = Null, e.batcher.bundle = Null, e.batcher.iu = 0, e.batcher.ib = 0
    PROVE  /\ GoodDisk(e)
           /\ \A o \in Objects : Whole(d, o) => Whole(e, o)
           /\ Bundles(e) = Bundles(d)
           /\ Places(e) + e.batcher.iu = (Len(d.pools.empty) + 1) * cfg.bundle
<1>1. PICK b \in Nat : b = cfg.bundle /\ b > 0 /\ Slot = 0 .. b - 1 /\ 0 \in Slot
                       /\ Null \notin Objects /\ Null \notin BufferIds
  BY CallFacts DEF Slot
<1>2. /\ d.bundles \in [Objects -> [Slot -> BufferIds \cup {Null}]]
      /\ d.pools.full \in Seq(Objects) /\ d.pools.empty \in Seq(Objects)
      /\ d.pools.disk \in Seq(Objects)
  BY DiskFields
<1>5. PICK u \in Objects, p \in Objects, i \in Slot :
         u = d.batcher.unbundle /\ p = d.batcher.bundle /\ i = d.batcher.iu /\ i = d.batcher.ib
         /\ i = b - 1
  BY <1>1, DiskFields
<1>7. PICK g, s, t, taken : g = e.bundles /\ s = e.pools.empty /\ t = e.pools.disk
                            /\ taken = d.bundles[u][i]
  OBVIOUS
<1>3. taken \in BufferIds
  <2>1. \A j \in Slot : j >= i => d.bundles[u][j] \in BufferIds
    BY <1>5 DEF GoodDisk
  <2>2. i >= i
    BY <1>1, <1>5
  <2> QED BY <1>7, <2>1, <2>2
<1>4. /\ s \in Seq(Objects) /\ t \in Seq(Objects)
      /\ Len(s) = Len(d.pools.empty) + 1 /\ Len(t) = Len(d.pools.disk) + 1
      /\ \A k \in 1 .. Len(d.pools.disk) + 1 :
            t[k] = IF k = Len(d.pools.disk) + 1 THEN p ELSE d.pools.disk[k]
  <2>1. Append(d.pools.empty, u) \in Seq(Objects) /\ Len(Append(d.pools.empty, u)) = Len(d.pools.empty) + 1
    BY <1>2, PoolPut
  <2>2. /\ Append(d.pools.disk, p) \in Seq(Objects) /\ Len(Append(d.pools.disk, p)) = Len(d.pools.disk) + 1
        /\ \A k \in 1 .. Len(d.pools.disk) + 1 :
              Append(d.pools.disk, p)[k] = IF k = Len(d.pools.disk) + 1 THEN p ELSE d.pools.disk[k]
    BY <1>2, PoolPut
  <2>3. s = Append(d.pools.empty, u) /\ t = Append(d.pools.disk, p)
    BY <1>5, <1>7
  <2> QED BY <2>1, <2>2, <2>3
<1>6. /\ \A o \in Objects \ {p} : g[o] = d.bundles[o]
      /\ g[p][i] = taken /\ \A j \in Slot \ {i} : g[p][j] = d.bundles[p][j]
  BY <1>5, <1>7
<1>9. /\ e.bundles = g /\ e.pools.full = d.pools.full /\ e.pools.empty = s /\ e.pools.disk = t
      /\ e.batcher.unbundle = Null /\ e.batcher.bundle = Null
      /\ e.batcher.iu = 0 /\ e.batcher.ib = 0
  BY <1>7
<1>10. \A o \in Objects : Whole(d, o) => Whole(e, o)
  BY <1>3, <1>6, <1>9 DEF Whole
<1>11. Whole(e, p)
  <2>1. \A j \in Slot : j < i => d.bundles[p][j] \in BufferIds
    BY <1>5 DEF GoodDisk
  <2>2. \A j \in Slot : j = i \/ j < i
    BY <1>1, <1>5
  <2> QED BY <1>3, <1>6, <1>9, <2>1, <2>2 DEF Whole
<1>12. PICK nd \in Nat, ne \in Nat, nf \in Nat :
          nd = Len(d.pools.disk) /\ ne = Len(d.pools.empty) /\ nf = Len(d.pools.full)
  <2>1. Len(d.pools.disk) \in Nat /\ Len(d.pools.empty) \in Nat /\ Len(d.pools.full) \in Nat
    BY <1>2
  <2> QED BY <2>1
<1>13. GoodDisk(e)
  <2>1. \A k \in 1 .. nf : Whole(d, d.pools.full[k]) /\ d.pools.full[k] \in Objects
    BY <1>2, <1>12 DEF GoodDisk
  <2>2. \A k \in 1 .. nd : Whole(d, d.pools.disk[k]) /\ d.pools.disk[k] \in Objects
    BY <1>2, <1>12 DEF GoodDisk
  <2>3. \A k \in 1 .. Len(e.pools.full) : Whole(e, e.pools.full[k])
    BY <1>9, <1>10, <1>12, <2>1
  <2>4. \A k \in 1 .. nd + 1 : Whole(e, t[k])
    <3>1. ASSUME NEW k \in 1 .. nd + 1 PROVE k = nd + 1 \/ k \in 1 .. nd
      OBVIOUS
    <3> QED BY <1>4, <1>10, <1>11, <1>12, <2>2, <3>1
  <2>5. \A k \in 1 .. Len(e.pools.disk) : Whole(e, e.pools.disk[k])
    BY <1>4, <1>9, <1>12, <2>4
  <2> QED BY <1>9, <2>3, <2>5 DEF GoodDisk
<1>14. Bundles(e) = Bundles(d)
  <2>1. Bundles(e) = nf + (ne + 1) + (nd + 1) + 0 + 0
    BY <1>4, <1>9, <1>12 DEF Bundles, One
  <2>2. Bundles(d) = nf + ne + nd + 1 + 1
    BY <1>12 DEF Bundles, One
  <2> QED BY <2>1, <2>2
<1>15. Places(e) + e.batcher.iu = (Len(d.pools.empty) + 1) * cfg.bundle
  <2>1. Places(e) = 0 + (ne + 1) * b
    BY <1>1, <1>4, <1>9, <1>12 DEF Places
  <2>2. PICK x \in Nat : x = (ne + 1) * b
    BY Products
  <2>3. Places(e) = x /\ x + 0 = x
    BY <2>1, <2>2
  <2>4. (Len(d.pools.empty) + 1) * cfg.bundle = x
    BY <1>1, <1>12, <2>2
  <2> QED BY <2>3, <2>4
<1> QED BY <1>10, <1>13, <1>14, <1>15

(* flush, when there is nothing to flush, one place to fill, or no partition to follow *)
LEMMA FlushKeeps ==
    ASSUME IInv, Flush, FlushesInBounds
    PROVE  IInv'
<1>0. MainOK /\ StreamsOK /\ cfg \in Configs /\ mpc = "flush" /\ mpc' = "writers"
  BY DEF IInv, MainOK, Flush
<1>1. MainOK'
  BY <1>0, MainKeepsMain
<1>2. UNCHANGED <<cfg, part, cur, res, stream, jobs, writer>>
      /\ batcher' = [unbundle |-> Null, bundle |-> Null, iu |-> 0, ib |-> 0]
  BY DEF Flush, gpuVars
<1>3. StreamsOK' /\ Out' = Out
  BY <1>0, <1>2, StreamsSame
<1>4. Cardinality(Out) = 0 /\ Cardinality(Out') = 0
  BY <1>0, <1>3, OutEmpty
<1>5. ASSUME Alive' PROVE DiskOK' /\ WritersOK'
  <2>0. DiskOK /\ WritersOK /\ GoodDisk(Disk)
    BY <1>0 DEF IInv, Alive, DiskOK
  <2>1. PICK d : d = Disk
    OBVIOUS
  <2>2. d \in DiskType /\ d.bundles = bundles /\ d.pools = pools /\ d.batcher = batcher /\ GoodDisk(d)
    BY <2>0, <2>1, DiskIs
  <2>3. /\ pools.full \in Seq(Objects) /\ pools.empty \in Seq(Objects) /\ pools.disk \in Seq(Objects)
        /\ d.bundles \in [Objects -> [Slot -> BufferIds \cup {Null}]]
        /\ batcher.unbundle \in Objects \cup {Null} /\ batcher.bundle \in Objects \cup {Null}
        /\ batcher.iu \in Slot /\ batcher.ib \in Slot
    BY <2>2, DiskFields
  <2>4. batcher.ib = batcher.iu /\ Len(pools.empty) + One(batcher.bundle) = cfg.empty
    BY <1>0, <1>4, <2>0, Balance DEF DiskOK
  <2>5. batcher.ib \in {0, cfg.bundle - 1}
    BY <1>0, <1>2, <1>5 DEF FlushesInBounds, Alive
  <2>6. PICK b \in Nat : b = cfg.bundle /\ b > 0 /\ Slot = 0 .. b - 1 /\ 0 \in Slot
                         /\ Null \notin Objects /\ Null \notin BufferIds /\ 0 \in Streams
    BY <1>0, CallFacts DEF Slot
  <2>7. PICK nf \in Nat, ne \in Nat, nd \in Nat :
           nf = Len(pools.full) /\ ne = Len(pools.empty) /\ nd = Len(pools.disk)
    <3>1. Len(pools.full) \in Nat /\ Len(pools.empty) \in Nat /\ Len(pools.disk) \in Nat
      BY <2>3
    <3> QED BY <3>1
  <2>8. pools = [full |-> pools.full, empty |-> pools.empty, disk |-> pools.disk]
    BY <2>2 DEF DiskType
  <2>9. \E e : /\ e \in DiskType /\ GoodDisk(e)
               /\ \A o \in Objects : Whole(d, o) => Whole(e, o)
               /\ Bundles(e) = Bundles(d)
               /\ Places(e) + e.batcher.iu = cfg.empty * cfg.bundle
               /\ bundles' = e.bundles /\ pools' = e.pools /\ batcher' = e.batcher
    <3>1. CASE batcher.ib = 0
      <4>1. batcher.unbundle = Null
        <5>1. Running /\ ~Early(0)
          BY <1>0, <2>6 DEF Running, Early, MainOK
        <5> QED BY <2>0, <2>4, <2>6, <3>1, <5>1 DEF DiskOK
      <4>2. PICK s : s = IF batcher.bundle # Null THEN Append(pools.empty, batcher.bundle) ELSE pools.empty
        OBVIOUS
      <4>3. bundles' = bundles /\ pools' = [full |-> pools.full, empty |-> s, disk |-> pools.disk]
        <5>1. ~(batcher.ib > 0)
          BY <3>1
        <5>2. /\ bundles' = bundles
              /\ pools' = [pools EXCEPT
                     !.empty = IF batcher.bundle # Null THEN Append(@, batcher.bundle) ELSE @,
                     !.full = IF batcher.unbundle # Null THEN Append(@, batcher.bundle) ELSE @]
          BY <5>1 DEF Flush
        <5> QED BY <2>8, <4>1, <4>2, <5>2
      <4>4. s \in Seq(Objects) /\ Len(s) = cfg.empty /\ Len(s) = ne + One(batcher.bundle)
        <5>1. CASE batcher.bundle = Null
          BY <2>3, <2>4, <2>7, <4>2, <5>1 DEF One
        <5>2. CASE batcher.bundle # Null
          <6>1. batcher.bundle \in Objects
            BY <2>3, <5>2
          <6>2. s \in Seq(Objects) /\ Len(s) = Len(pools.empty) + 1
            BY <2>3, <4>2, <5>2, <6>1, PoolPut
          <6> QED BY <2>4, <2>7, <5>2, <6>2 DEF One
        <5> QED BY <5>1, <5>2
      <4>5. PICK e : e = [bundles |-> bundles,
                          pools   |-> [full |-> pools.full, empty |-> s, disk |-> pools.disk],
                          batcher |-> [unbundle |-> Null, bundle |-> Null, iu |-> 0, ib |-> 0]]
        OBVIOUS
      <4>6. /\ e.bundles = d.bundles /\ e.pools.full = d.pools.full /\ e.pools.empty = s
            /\ e.pools.disk = d.pools.disk
            /\ e.batcher.unbundle = Null /\ e.batcher.bundle = Null
            /\ e.batcher.iu = 0 /\ e.batcher.ib = 0
        BY <2>2, <4>5
      <4>7. e \in DiskType
        BY <2>2, <2>3, <2>6, <4>4, <4>5 DEF DiskType
      <4>8. \A o : Whole(e, o) <=> Whole(d, o)
        BY <4>6 DEF Whole
      <4>9. GoodDisk(e)
        BY <2>2, <4>6, <4>7, <4>8 DEF GoodDisk
      <4>10. Bundles(e) = Bundles(d)
        <5>1. PICK v \in Nat : v = One(batcher.bundle)
          BY DEF One
        <5>2. Bundles(e) = nf + (ne + v) + nd + 0 + 0
          BY <2>2, <2>7, <4>4, <4>6, <5>1 DEF Bundles, One
        <5>3. One(batcher.unbundle) = 0
          BY <4>1 DEF One
        <5>4. Bundles(d) = nf + ne + nd + 0 + v
          BY <2>2, <2>7, <5>1, <5>3 DEF Bundles
        <5> QED BY <5>2, <5>4
      <4>11. Places(e) + e.batcher.iu = cfg.empty * cfg.bundle
        <5>1. PICK x \in Nat : x = cfg.empty * cfg.bundle
          BY <1>0, CallFacts, Products
        <5>2. Places(e) = 0 + x
          BY <4>4, <4>6, <5>1 DEF Places
        <5> QED BY <4>6, <5>1, <5>2
      <4>12. bundles' = e.bundles /\ pools' = e.pools /\ batcher' = e.batcher
        BY <1>2, <4>3, <4>5
      <4> QED BY <4>7, <4>8, <4>9, <4>10, <4>11, <4>12
    <3>2. CASE batcher.ib # 0
      <4>1. batcher.bundle # Null /\ batcher.unbundle # Null
        BY <2>2, <2>4, <3>2 DEF GoodDisk
      <4>2. PICK u \in Objects, p \in Objects : u = batcher.unbundle /\ p = batcher.bundle
        BY <2>3, <4>1
      <4>3. PICK i \in Slot : i = batcher.iu /\ i = batcher.ib
        BY <2>3, <2>4
      <4>4. i = cfg.bundle - 1 /\ i = b - 1 /\ i > 0 /\ i \in 0 .. b - 1
        BY <2>5, <2>6, <3>2, <4>3
      <4>5. PICK taken : taken = bundles[u][i]
        OBVIOUS
      <4>6. taken \in BufferIds \cup {Null}
        BY <2>2, <2>3, <4>5
      <4>7. ElementAt(u, i + 2 * (i - i)) = taken
        <5>1. i + 2 * (i - i) = i
          BY <4>4
        <5>2. i \div b = 0 /\ i % b = i
          BY <2>6, <4>4, SameBundle
        <5>3. u + 0 = u
          BY <1>0, CallFacts DEF Objects
        <5> QED BY <2>6, <4>5, <5>1, <5>2, <5>3 DEF ElementAt
      <4>8. /\ bundles' = [bundles EXCEPT ![p] = [j \in Slot |-> IF j = i THEN taken ELSE @[j]]]
            /\ pools' = [pools EXCEPT !.disk = Append(@, p), !.empty = Append(@, u)]
        <5>1. PICK t : t = [j \in batcher.ib .. cfg.bundle - 1 |->
                               ElementAt(batcher.unbundle, batcher.iu + 2 * (j - batcher.ib))]
          OBVIOUS
        <5>2. batcher.ib > 0
          BY <4>3, <4>4
        <5>3. /\ bundles' = [bundles EXCEPT ![batcher.bundle] =
                    [j \in 0 .. cfg.bundle - 1 |-> IF j \in DOMAIN t THEN t[j] ELSE @[j]]]
              /\ pools' = [pools EXCEPT !.disk = Append(@, batcher.bundle),
                                        !.empty = Append(@, batcher.unbundle)]
          BY <5>1, <5>2 DEF Flush
        <5>4. DOMAIN t = {i}
          <6>1. DOMAIN t = i .. b - 1
            BY <2>6, <4>3, <5>1
          <6> QED BY <4>4, <6>1
        <5>5. t[i] = taken
          <6>1. i \in batcher.ib .. cfg.bundle - 1
            BY <2>6, <4>3, <4>4
          <6>2. t[i] = ElementAt(batcher.unbundle, batcher.iu + 2 * (i - batcher.ib))
            BY <5>1, <6>1
          <6> QED BY <4>2, <4>3, <4>7, <6>2
        <5>6. [j \in 0 .. cfg.bundle - 1 |-> IF j \in DOMAIN t THEN t[j] ELSE bundles[p][j]]
              = [j \in Slot |-> IF j = i THEN taken ELSE bundles[p][j]]
          BY <5>4, <5>5 DEF Slot
        <5> QED BY <4>2, <5>3, <5>6
      <4>9. PICK g, s, t : /\ g = [d.bundles EXCEPT ![p] = [j \in Slot |-> IF j = i THEN taken ELSE @[j]]]
                           /\ s = Append(d.pools.empty, u) /\ t = Append(d.pools.disk, p)
        OBVIOUS
      <4>13. PICK e : e = [bundles |-> g, pools |-> [full |-> d.pools.full, empty |-> s, disk |-> t],
                           batcher |-> [unbundle |-> Null, bundle |-> Null, iu |-> 0, ib |-> 0]]
        OBVIOUS
      <4>10. /\ e \in DiskType /\ GoodDisk(e)
             /\ \A o \in Objects : Whole(d, o) => Whole(e, o)
             /\ Bundles(e) = Bundles(d)
             /\ Places(e) + e.batcher.iu = (Len(d.pools.empty) + 1) * cfg.bundle
        <5>1. u = d.batcher.unbundle /\ p = d.batcher.bundle /\ i = d.batcher.iu /\ i = d.batcher.ib
          BY <2>2, <4>2, <4>3
        <5>2. /\ g \in [Objects -> [Slot -> BufferIds \cup {Null}]]
              /\ \A o \in Objects \ {p} : g[o] = d.bundles[o]
              /\ \A j \in Slot : g[p][j] = IF j = i THEN taken ELSE d.bundles[p][j]
          BY <2>3, <4>2, <4>3, <4>6, <4>9
        <5>3. \A j \in Slot : g[p][j] = IF j = i THEN d.bundles[u][j] ELSE d.bundles[p][j]
          BY <2>2, <4>5, <5>2
        <5>4. s \in Seq(Objects) /\ t \in Seq(Objects)
          BY <2>2, <2>3, <4>2, <4>9, PoolPut
        <5>5. e \in DiskType
          BY <2>2, <2>3, <2>6, <4>13, <5>2, <5>4 DEF DiskType
        <5>6. /\ e.bundles = g /\ e.pools.full = d.pools.full /\ e.pools.empty = s /\ e.pools.disk = t
              /\ e.batcher.unbundle = Null /\ e.batcher.bundle = Null
              /\ e.batcher.iu = 0 /\ e.batcher.ib = 0
          BY <4>13
        <5>7. /\ d.batcher.unbundle # Null /\ d.batcher.bundle # Null
              /\ d.batcher.ib = d.batcher.iu /\ d.batcher.ib = cfg.bundle - 1
          BY <2>2, <4>1, <4>3, <4>4
        <5>8. \A o \in Objects \ {d.batcher.bundle} : e.bundles[o] = d.bundles[o]
          BY <5>1, <5>2, <5>6
        <5>9. \A j \in Slot : e.bundles[d.batcher.bundle][j] =
                 IF j = d.batcher.ib THEN d.bundles[d.batcher.unbundle][j]
                                     ELSE d.bundles[d.batcher.bundle][j]
          BY <5>1, <5>3, <5>6
        <5>10. /\ e.pools.empty = Append(d.pools.empty, d.batcher.unbundle)
               /\ e.pools.disk = Append(d.pools.disk, d.batcher.bundle)
          BY <4>9, <5>1, <5>6
        <5> QED BY <1>0, <2>2, <5>5, <5>6, <5>7, <5>8, <5>9, <5>10, FlushEffect
      <4>11. Len(d.pools.empty) + 1 = cfg.empty
        BY <2>2, <2>4, <4>1 DEF One
      <4>12. bundles' = e.bundles /\ pools' = e.pools /\ batcher' = e.batcher
        <5>1. bundles' = e.bundles
          BY <2>2, <4>8, <4>9, <4>13
        <5>2. pools' = [full |-> pools.full, empty |-> s, disk |-> t]
          BY <2>2, <2>8, <4>8, <4>9
        <5>3. e.pools = [full |-> pools.full, empty |-> s, disk |-> t]
          BY <2>2, <4>13
        <5>4. batcher' = e.batcher
          BY <1>2, <4>13
        <5> QED BY <5>1, <5>2, <5>3, <5>4
      <4> QED BY <4>10, <4>11, <4>12
    <3> QED BY <3>1, <3>2
  <2>10. PICK e : /\ e \in DiskType /\ GoodDisk(e)
                  /\ \A o \in Objects : Whole(d, o) => Whole(e, o)
                  /\ Bundles(e) = Bundles(d)
                  /\ Places(e) + e.batcher.iu = cfg.empty * cfg.bundle
                  /\ bundles' = e.bundles /\ pools' = e.pools /\ batcher' = e.batcher
    BY <2>9
  <2>11. /\ GoodDisk(Disk)' <=> GoodDisk(e)
         /\ Places(Disk)' = Places(e) /\ Bundles(Disk)' = Bundles(e)
         /\ Objects' = Objects /\ \A o \in Objects : Whole(Disk, o)' <=> Whole(e, o)
    BY <1>2, <2>10, NewDisk
  <2>12. ~Running'
    BY <1>0 DEF Running
  <2>13. DiskOK'
    <3>1. batcher'.unbundle = Null /\ batcher'.bundle = Null
      BY <1>2
    <3>2. Places(Disk)' + batcher'.iu = cfg'.empty * cfg'.bundle + Cardinality(Out')
      <4>1. PICK x \in Nat : x = cfg.empty * cfg.bundle
        BY <1>0, CallFacts, Products
      <4>2. Places(Disk)' + batcher'.iu = x
        BY <2>10, <2>11, <4>1
      <4>3. x = x + 0
        OBVIOUS
      <4> QED BY <1>2, <1>4, <4>1, <4>2, <4>3
    <3> QED BY <2>10, <2>11, <2>12, <3>1, <3>2 DEF DiskOK
  <2>14. WritersOK'
    <3>1. /\ writer \in [Writers -> [running : BOOLEAN, object : Objects \cup {Null}]]
          /\ \A w \in Writers : writer[w].running /\ (writer[w].object # Null => Whole(Disk, writer[w].object))
          /\ Bundles(Disk) + Cardinality(Busy) = cfg.full + cfg.empty
      BY <1>0, <2>0 DEF WritersOK, Running
    <3>2. Busy' = Busy
      BY <1>2 DEF Busy
    <3>3. Bundles(Disk)' + Cardinality(Busy') = cfg'.full + cfg'.empty
      BY <1>2, <2>1, <2>10, <2>11, <3>1, <3>2
    <3>4. \A w \in Writers : (writer[w].object # Null => Whole(Disk, writer[w].object))'
      <4>1. \A w \in Writers : writer[w].object # Null => writer[w].object \in Objects
        BY <3>1
      <4>2. \A w \in Writers : writer[w].object # Null => Whole(e, writer[w].object)
        BY <2>1, <2>10, <3>1, <4>1
      <4> QED BY <1>2, <2>11, <4>1, <4>2
    <3>5. mpc' \notin {"start", "lock", "recv"}
      BY <1>0
    <3>6. \A w \in Writers : writer'[w].running
      BY <1>2, <3>1
    <3>7. (writer \in [Writers -> [running : BOOLEAN, object : Objects \cup {Null}]])'
      BY <1>2, <2>11, <3>1
    <3> QED BY <2>12, <3>3, <3>4, <3>5, <3>6, <3>7 DEF WritersOK
  <2> QED BY <2>13, <2>14
<1> QED BY <1>1, <1>3, <1>5 DEF IInv

-----------------------------------------------------------------------------
(* The invariant *)

(* Every call starts in it. *)
LEMMA InitHolds == Init => IInv
<1> SUFFICES ASSUME Init PROVE IInv
  OBVIOUS
<1>1. MainOK /\ cfg \in Configs
  BY MainInit DEF Init
<1>2. /\ mpc = "start" /\ stream = [r \in Streams |-> Null] /\ jobs = <<>>
      /\ writer = [w \in Writers |-> Stopped] /\ terminate = FALSE
  BY DEF Init
<1>3. StreamsOK
  BY <1>2 DEF StreamsOK
<1>4. Cardinality(Out) = 0
  BY <1>1, <1>2, <1>3, OutEmpty
<1>5. PICK b \in Nat, m \in Nat, n \in Nat :
         /\ b = cfg.bundle /\ m = cfg.empty /\ n = cfg.full /\ b > 0 /\ m > 0 /\ n > 0
         /\ Slot = 0 .. b - 1 /\ 0 \in Slot /\ Null \notin Objects
  BY <1>1, CallFacts DEF Slot
<1>6. Objects = 0 .. n + m - 1 /\ BufferIds = 0 .. n * b - 1
  BY <1>5 DEF Objects, BufferIds
<1>7. PICK g : g = [o \in Objects |-> [j \in Slot |-> IF o < n THEN o * b + j ELSE Null]]
  OBVIOUS
<1>8. \A o \in Objects, j \in Slot : o < n => o * b + j \in BufferIds
  <2>1. SUFFICES ASSUME NEW o \in Objects, NEW j \in Slot, o < n PROVE o * b + j \in BufferIds
    OBVIOUS
  <2>2. o \in Nat /\ j \in Nat /\ j < b
    BY <1>5, <1>6
  <2>3. PICK x \in Nat, y \in Nat : x = o * b /\ y = n * b
    BY <2>2, Products
  <2>4. x + b <= y
    BY <2>1, <2>2, <2>3, Multiples
  <2>5. x + j \in 0 .. y - 1
    BY <2>2, <2>4
  <2> QED BY <1>6, <2>3, <2>5
<1>9. g \in [Objects -> [Slot -> BufferIds \cup {Null}]]
  BY <1>7, <1>8
<1>10. PICK fs, es : fs = [i \in 1 .. n |-> i - 1] /\ es = [i \in 1 .. m |-> n + i - 1]
  OBVIOUS
<1>11. /\ fs \in Seq(Objects) /\ es \in Seq(Objects) /\ Len(fs) = n /\ Len(es) = m
       /\ \A i \in 1 .. n : fs[i] \in Objects /\ fs[i] < n
  <2>1. \A i \in 1 .. n : i - 1 \in Objects /\ i - 1 < n
    BY <1>5, <1>6
  <2>2. \A i \in 1 .. m : n + i - 1 \in Objects
    <3>1. \A i \in 1 .. m : n + i - 1 \in 0 .. n + m - 1
      OBVIOUS
    <3> QED BY <1>6, <3>1
  <2>3. fs \in [1 .. n -> Objects] /\ es \in [1 .. m -> Objects]
    BY <1>10, <2>1, <2>2
  <2>4. fs \in Seq(Objects) /\ es \in Seq(Objects) /\ Len(fs) = n /\ Len(es) = m
    BY <2>3, LenProperties, SeqDef
  <2> QED BY <1>10, <2>1, <2>4
<1>12. PICK d : d = [bundles |-> g, pools |-> [full |-> fs, empty |-> es, disk |-> <<>>],
                     batcher |-> [unbundle |-> Null, bundle |-> Null, iu |-> 0, ib |-> 0]]
  OBVIOUS
<1>13. bundles = g /\ pools = d.pools /\ batcher = d.batcher
  BY <1>5, <1>7, <1>10, <1>12 DEF Init, Slot
<1>14. d = Disk
  BY <1>12, <1>13 DEF Disk
<1>15. d \in DiskType
  BY <1>5, <1>9, <1>11, <1>12 DEF DiskType
<1>16. /\ d.bundles = g /\ d.pools.full = fs /\ d.pools.empty = es /\ d.pools.disk = <<>>
       /\ d.batcher.unbundle = Null /\ d.batcher.bundle = Null
       /\ d.batcher.iu = 0 /\ d.batcher.ib = 0
  BY <1>12
<1>17. GoodDisk(d)
  <2>1. \A i \in 1 .. n : Whole(d, fs[i])
    <3>1. \A o \in Objects : o < n => Whole(d, o)
      BY <1>7, <1>8, <1>16 DEF Whole
    <3> QED BY <1>11, <3>1
  <2>2. \A i \in 1 .. Len(d.pools.full) : Whole(d, d.pools.full[i])
    BY <1>11, <1>16, <2>1
  <2>3. \A i \in 1 .. Len(d.pools.disk) : Whole(d, d.pools.disk[i])
    BY <1>16
  <2> QED BY <1>15, <1>16, <2>2, <2>3 DEF GoodDisk
<1>18. DiskOK
  <2>1. PICK x \in Nat : x = m * b
    BY Products
  <2>2. Places(d) = 0 + x
    BY <1>5, <1>11, <1>16, <2>1 DEF Places
  <2>3. Places(d) + d.batcher.iu = x + 0
    BY <1>16, <2>2
  <2>4. Places(Disk) + batcher.iu = cfg.empty * cfg.bundle + Cardinality(Out)
    BY <1>4, <1>5, <1>13, <1>14, <2>1, <2>3
  <2>5. GoodDisk(Disk)
    BY <1>14, <1>17
  <2>6. batcher.unbundle = Null /\ batcher.bundle = Null
    BY <1>13, <1>16
  <2> QED BY <2>4, <2>5, <2>6 DEF DiskOK
<1>19. WritersOK
  <2>1. /\ writer \in [Writers -> [running : BOOLEAN, object : Objects \cup {Null}]]
        /\ \A w \in Writers : writer[w].object = Null /\ ~writer[w].running
    BY <1>2 DEF Stopped
  <2>2. Busy = {}
    BY <2>1 DEF Busy
  <2>3. Cardinality(Busy) = 0
    BY <2>2, FS_EmptySet
  <2>4. Bundles(d) = n + m + 0 + 0 + 0
    BY <1>11, <1>16 DEF Bundles, One
  <2>5. Bundles(Disk) + Cardinality(Busy) = cfg.full + cfg.empty
    BY <1>5, <1>14, <2>3, <2>4
  <2>6. ~Running /\ pools.disk = <<>>
    BY <1>2, <1>13, <1>16 DEF Running
  <2> QED BY <2>1, <2>5, <2>6 DEF WritersOK
<1> QED BY <1>1, <1>3, <1>18, <1>19 DEF IInv

(* Every step keeps the invariant. *)
LEMMA NextHolds ==
    ASSUME IInv, FlushesInBounds, [Next]_vars
    PROVE  IInv'
<1>1. CASE UNCHANGED vars
  BY <1>1, QuietSteps
<1>2. CASE Next
  <2>1. CASE Main
    <3>1. CASE \E r \in Streams : Visit(r)
      <4>1. PICK r \in Streams : Visit(r)
        BY <3>1
      <4>2. CASE Idle(r) \/ ReadData(r) \/ HashWait(r) \/ Pass(r)
        BY <4>1, <4>2, QuietVisits
      <4>3. CASE WaitData(r)
        BY <4>1, <4>3, WaitDataKeeps
      <4>4. CASE HashColumn(r) \/ HashColumnLeaves(r)
        BY <4>1, <4>4, HashColumnKeeps
      <4>5. CASE HashLeaf(r)
        BY <4>1, <4>5, HashLeafKeeps
      <4> QED BY <4>1, <4>2, <4>3, <4>4, <4>5 DEF Visit
    <3>2. CASE StartPartition
      BY <3>2, StartPartitionKeeps
    <3>3. CASE Flush
      BY <3>3, FlushKeeps
    <3>4. CASE LoadPage \/ AllDone \/ WritersDone \/ LockResults \/ SpawnCpu \/ WriteRoots
      BY <3>4, QuietSteps
    <3> QED BY <2>1, <3>1, <3>2, <3>3, <3>4 DEF Main
  <2>2. CASE RunCallback
    BY <2>2, RunCallbackKeeps
  <2>3. CASE Reader \/ Cpu
    BY <2>3, QuietSteps
  <2>4. CASE \E r \in Streams : Gpu(r)
    BY <2>4, GpuKeeps
  <2>5. CASE \E w \in Writers : Writer(w)
    BY <2>5, WriterKeeps
  <2> QED BY <1>2, <2>1, <2>2, <2>3, <2>4, <2>5 DEF Next
<1> QED BY <1>1, <1>2

(* The buffer of a place in Out *)
Owner(r) == CHOOSE i \in 1 .. Len(jobs) : jobs[i].res = r
Buffer(r, k) ==
    IF stream[r] # Null
    THEN IF k = 2 /\ stream[r].c # Null THEN stream[r].c ELSE stream[r].r
    ELSE jobs[Owner(r)].ops[Len(jobs[Owner(r)].ops) + 1 - k].buf

(* Every buffer that is outstanding has a place in Out of its own. *)
LEMMA OutstandingFits ==
    ASSUME MainOK, StreamsOK
    PROVE  IsFiniteSet(Outstanding) /\ Cardinality(Outstanding) <= Cardinality(Out)
<1>1. PICK f : f = [p \in Out |-> Buffer(p[1], p[2])]
  OBVIOUS
<1>2. PICK T : T = {f[p] : p \in Out}
  OBVIOUS
<1>3. f \in Surjection(Out, T)
  BY <1>1, <1>2 DEF Surjection
<1>4. IsFiniteSet(Out)
  BY OutFinite DEF MainOK
<1>5. IsFiniteSet(T) /\ Cardinality(T) <= Cardinality(Out)
  BY <1>3, <1>4, FS_Surjection
<1>6. \A r \in Streams, k \in 2 .. 4 : <<r, k>> \in Out => Buffer(r, k) \in T
  BY <1>1, <1>2
<1>7. ASSUME NEW r \in Streams, stream[r] # Null, NEW x \in {stream[r].c, stream[r].r} \ {Null}
      PROVE  x \in T
  <2>1. CASE stream[r].c # Null /\ x = stream[r].c
    <3>1. InStream(r, 2)
      <4>1. Count(stream[r]) \in {1, 2}
        BY <2>1 DEF Count, One
      <4> QED BY <1>7, <4>1 DEF InStream
    <3>2. <<r, 2>> \in Out
      BY <3>1 DEF Out
    <3>3. Buffer(r, 2) = x
      BY <1>7, <2>1 DEF Buffer
    <3>5. 2 \in 2 .. 4
      OBVIOUS
    <3>4. Buffer(r, 2) \in T
      BY <1>6, <3>2, <3>5
    <3> QED BY <3>3, <3>4
  <2>2. CASE stream[r].c # Null /\ x = stream[r].r
    <3>1. InStream(r, 3)
      <4>1. Count(stream[r]) = 2
        BY <1>7, <2>2 DEF Count, One
      <4> QED BY <1>7, <4>1 DEF InStream
    <3>2. <<r, 3>> \in Out
      BY <3>1 DEF Out
    <3>3. Buffer(r, 3) = x
      BY <1>7, <2>2 DEF Buffer
    <3>5. 3 \in 2 .. 4
      OBVIOUS
    <3>4. Buffer(r, 3) \in T
      BY <1>6, <3>2, <3>5
    <3> QED BY <3>3, <3>4
  <2>3. CASE stream[r].c = Null
    <3>0. x = stream[r].r
      BY <1>7, <2>3
    <3>1. InStream(r, 2)
      <4>1. Count(stream[r]) = 1
        BY <1>7, <2>3, <3>0 DEF Count, One
      <4> QED BY <1>7, <4>1 DEF InStream
    <3>2. <<r, 2>> \in Out
      BY <3>1 DEF Out
    <3>3. Buffer(r, 2) = x
      BY <1>7, <2>3, <3>0 DEF Buffer
    <3>5. 2 \in 2 .. 4
      OBVIOUS
    <3>4. Buffer(r, 2) \in T
      BY <1>6, <3>2, <3>5
    <3> QED BY <3>3, <3>4
  <2> QED BY <1>7, <2>1, <2>2, <2>3
<1>8. ASSUME NEW i \in 1 .. Len(jobs), NEW op \in Range(jobs[i].ops), op.op = "bundle"
      PROVE  op.buf \in T
  <2>1. /\ jobs \in Seq(Jobs) /\ OpsOK(jobs[i].ops) /\ stream[jobs[i].res] = Null
        /\ \A k \in 1 .. Len(jobs) : jobs[k].res = jobs[i].res => k = i
    BY DEF StreamsOK
  <2>2. jobs[i] \in Jobs
    BY <2>1
  <2>3. PICK s \in Seq(Ops) : s = jobs[i].ops /\ jobs[i].res \in Streams
    BY <2>2 DEF Jobs
  <2>4. PICK n \in 1 .. 4 : n = Len(s) /\ \A k \in 1 .. n : s[k].op = "done" <=> k = n
    BY <2>1, <2>3 DEF OpsOK
  <2>5. PICK k \in 1 .. n : op = s[k]
    <3>1. DOMAIN s = 1 .. n
      BY <2>3, <2>4
    <3> QED BY <2>3, <3>1 DEF Range
  <2>6. k # n
    BY <1>8, <2>4, <2>5
  <2>7. PICK q \in 2 .. 4 : q = n + 1 - k /\ n + 1 - q = k /\ q <= n
    <3>1. n + 1 - k \in 2 .. 4 /\ n + 1 - (n + 1 - k) = k /\ n + 1 - k <= n
      BY <2>6
    <3> QED BY <3>1
  <2>8. InJob(jobs[i], q)
    BY <1>8, <2>3, <2>4, <2>5, <2>7 DEF InJob
  <2>9. <<jobs[i].res, q>> \in Out
    BY <2>3, <2>8 DEF Out, InJobs
  <2>10. Owner(jobs[i].res) = i
    BY <2>1 DEF Owner
  <2>11. Buffer(jobs[i].res, q) = op.buf
    <3>1. Buffer(jobs[i].res, q) = jobs[i].ops[Len(jobs[i].ops) + 1 - q].buf
      BY <2>1, <2>10 DEF Buffer
    <3> QED BY <2>3, <2>4, <2>5, <2>7, <3>1
  <2> QED BY <1>6, <2>3, <2>9, <2>11
<1>9. Outstanding \subseteq T
  <2>1. DOMAIN jobs = 1 .. Len(jobs)
    BY DEF StreamsOK
  <2>2. \A r \in Streams :
           (IF stream[r] = Null THEN {} ELSE {stream[r].c, stream[r].r} \ {Null}) \subseteq T
    BY <1>7
  <2>3. \A i \in DOMAIN jobs :
           {op.buf : op \in {x \in Range(jobs[i].ops) : x.op = "bundle"}} \subseteq T
    BY <1>8, <2>1
  <2>4. AtStreams \subseteq T
    BY <2>2 DEF AtStreams
  <2>5. InCallbacks \subseteq T
    BY <2>3 DEF InCallbacks
  <2> QED BY <2>4, <2>5 DEF Outstanding
<1>10. /\ IsFiniteSet(Outstanding) /\ Cardinality(Outstanding) <= Cardinality(T)
       /\ Cardinality(Outstanding) \in Nat /\ Cardinality(T) \in Nat /\ Cardinality(Out) \in Nat
  BY <1>4, <1>5, <1>9, FS_Subset, FS_CardinalityType
<1> QED BY <1>5, <1>10

(* What the theorem states follows from the invariant. *)
LEMMA IInvSuffices == IInv => BundlesSuffice
<1> SUFFICES ASSUME IInv PROVE BundlesSuffice
  OBVIOUS
<1>0. MainOK /\ StreamsOK /\ cfg \in Configs
  BY DEF IInv, MainOK
<1>1. ASSUME Working
      PROVE  (IF batcher.bundle = Null THEN 0 ELSE cfg.bundle - batcher.ib)
                 + Len(pools.empty) * cfg.bundle >= Cardinality(Outstanding)
  <2>0. mpc \in {"loop", "load"}
    BY <1>1 DEF Working
  <2>1. PICK d : d = Disk
    OBVIOUS
  <2>2. /\ d \in DiskType /\ d.pools = pools /\ d.batcher = batcher
        /\ Cardinality(Out) \in Nat
        /\ Places(d) + d.batcher.iu = cfg.empty * cfg.bundle + Cardinality(Out)
        /\ Places(d) + d.batcher.iu \in Nat
    BY <2>0, <2>1, WorkFacts
  <2>3. Places(d) = (IF batcher.bundle = Null THEN 0 ELSE cfg.bundle - batcher.ib)
                    + Len(pools.empty) * cfg.bundle
    BY <2>2 DEF Places
  <2>4. PICK b \in Nat, m \in Nat, i \in Nat, n \in Nat :
           /\ b = cfg.bundle /\ m = cfg.empty /\ m > 0 /\ i = d.batcher.iu /\ i < b
           /\ n = Cardinality(Out)
    <3>1. d.batcher.iu \in Slot
      BY <2>2, DiskFields
    <3>2. d.batcher.iu \in Nat /\ d.batcher.iu < cfg.bundle
      BY <1>0, <3>1, CallFacts DEF Slot
    <3> QED BY <1>0, <2>2, <3>2, CallFacts
  <2>5. PICK y \in Nat : y = m * b /\ b <= y
    <3>1. m * b \in Nat /\ 0 * b + b <= m * b
      BY <2>4, Products, Multiples
    <3> QED BY <3>1
  <2>6. PICK p \in Int : p = Places(d)
    <3>1. PICK l \in Nat, j \in Nat : l = Len(pools.empty) /\ j = batcher.ib
      <4>1. pools.empty \in Seq(Objects) /\ batcher.ib \in Slot
        BY <2>2, DiskFields
      <4>2. Len(pools.empty) \in Nat /\ batcher.ib \in Nat
        BY <1>0, <4>1, CallFacts
      <4> QED BY <4>2
    <3>2. PICK z \in Nat : z = l * b
      BY Products
    <3>3. Places(d) = (IF batcher.bundle = Null THEN 0 ELSE b - j) + z
      BY <2>3, <2>4, <3>1, <3>2
    <3> QED BY <3>3
  <2>7. p + i = y + n
    BY <2>2, <2>4, <2>5, <2>6
  <2>8. p >= n
    BY <2>4, <2>5, <2>7
  <2>9. Cardinality(Outstanding) \in Nat /\ Cardinality(Outstanding) <= n
    BY <1>0, <2>4, OutstandingFits, FS_CardinalityType
  <2>10. p >= Cardinality(Outstanding)
    BY <2>8, <2>9
  <2> QED BY <2>3, <2>6, <2>10
<1>2. ASSUME mpc = "flush" PROVE batcher.ib = batcher.iu
  <2>1. DiskOK
    BY <1>2 DEF IInv, Alive
  <2>2. Cardinality(Out) = 0
    BY <1>0, <1>2, OutEmpty
  <2> QED BY <1>0, <2>1, <2>2, Balance DEF DiskOK
<1>3. ASSUME mpc = "start" PROVE pools.full # <<>> /\ pools.empty # <<>>
  <2>1. Len(pools.empty) = cfg.empty /\ Len(pools.full) = cfg.full
    BY <1>3, AtStart
  <2> QED BY <1>0, <2>1, CallFacts
<1> QED BY <1>1, <1>2, <1>3 DEF BundlesSuffice

(* A call stays what it is. *)
LEMMA SameCall == [Next]_vars => cfg' = cfg
<1> SUFFICES ASSUME [Next]_vars PROVE cfg' = cfg
  OBVIOUS
<1>1. CASE UNCHANGED vars
  BY <1>1 DEF vars
<1>2. CASE \/ StartPartition \/ LoadPage \/ AllDone \/ Flush \/ WritersDone \/ LockResults
           \/ SpawnCpu \/ WriteRoots
  BY <1>2 DEF StartPartition, LoadPage, AllDone, Flush, WritersDone, LockResults, SpawnCpu,
              WriteRoots, VisitFrame, HashFrame
<1>3. CASE \E r \in Streams : Visit(r)
  <2>1. PICK r \in Streams : Visit(r)
    BY <1>3
  <2>2. VisitFrame
    <3>1. CASE Idle(r)
      BY <3>1 DEF Idle
    <3>2. CASE ReadData(r) \/ HashWait(r) \/ Pass(r)
      BY <3>2 DEF ReadData, HashWait, Pass
    <3>3. CASE WaitData(r)
      BY <3>3 DEF WaitData
    <3>4. CASE HashColumn(r) \/ HashColumnLeaves(r)
      BY <3>4 DEF HashColumn, HashColumnLeaves
    <3>5. CASE HashLeaf(r)
      BY <3>5 DEF HashLeaf
    <3> QED BY <2>1, <3>1, <3>2, <3>3, <3>4, <3>5, SMTT(30) DEF Visit
  <2> QED BY <2>2 DEF VisitFrame
<1>4. CASE RunCallback \/ Reader \/ Cpu
  BY <1>4 DEF RunCallback, Reader, ReaderFrame, Cpu, CpuCopy, CpuHash
<1>5. CASE \E r \in Streams : Gpu(r)
  BY <1>5 DEF Gpu, GpuColumn, GpuLeaves, GpuInner, GpuFrame
<1>6. CASE \E w \in Writers : Writer(w)
  BY <1>6 DEF Writer, TakeBundle, WriteBundle, StopWriter
<1> QED BY <1>1, <1>2, <1>3, <1>4, <1>5, <1>6 DEF Next, Main

(* The assertions of the batcher hold, whatever the order of callbacks and      *)
(* writers: BundlesSuffice is an invariant of every behaviour in which no       *)
(* flush but the last one has more than one place to fill.                      *)
THEOREM BundlesSufficeAlways == Spec /\ []FlushesInBounds => []BundlesSuffice
<1>1. Init => IInv
  BY InitHolds
<1>2. IInv /\ FlushesInBounds /\ [Next]_vars => IInv'
  BY NextHolds
<1>3. IInv => BundlesSuffice
  BY IInvSuffices
<1> QED BY <1>1, <1>2, <1>3, PTL DEF Spec

(* A call that fills one file per tree flushes once, after which there is      *)
(* nothing to be assumed: BundlesSuffice is an invariant.                      *)
THEOREM OneFileSuffices == Spec /\ cfg.parts = 1 => []BundlesSuffice
<1> DEFINE Inv == IInv /\ cfg.parts = 1
<1>1. Init /\ cfg.parts = 1 => Inv
  BY InitHolds
<1>2. Inv => FlushesInBounds
  <2>1. Inv => part \in Nat /\ cfg.parts = 1
    BY DEF IInv, MainOK
  <2> QED BY <2>1 DEF FlushesInBounds
<1>3. Inv /\ [Next]_vars => Inv'
  <2>1. [Next]_vars => cfg' = cfg
    BY SameCall
  <2> QED BY <1>2, <2>1, NextHolds
<1>4. Inv => BundlesSuffice
  BY IInvSuffices
<1> QED BY <1>1, <1>3, <1>4, PTL DEF Spec

-----------------------------------------------------------------------------
(* Who owns what.  A bundle is at one spot; the bundle's spot and the batcher *)
(* say which of its slots have buffers.  The other buffers are the ones that  *)
(* are out.                                                                   *)

Spots == {"full", "empty", "disk", "writer", "unbundle", "bundle"}
NoTwice(s) == \A i, k \in 1 .. Len(s) : s[i] = s[k] => i = k
InPool(s, o) == \E i \in 1 .. Len(s) : s[i] = o

(* Every bundle of d is where at says, W being those the writers have. *)
Located(d, W, at) ==
    /\ at \in [Objects -> Spots]
    /\ NoTwice(d.pools.full) /\ NoTwice(d.pools.empty) /\ NoTwice(d.pools.disk)
    /\ \A o \in Objects : /\ InPool(d.pools.full, o) <=> at[o] = "full"
                          /\ InPool(d.pools.empty, o) <=> at[o] = "empty"
                          /\ InPool(d.pools.disk, o) <=> at[o] = "disk"
                          /\ o \in W <=> at[o] = "writer"
                          /\ d.batcher.unbundle = o <=> at[o] = "unbundle"
                          /\ d.batcher.bundle = o <=> at[o] = "bundle"

Keeps(at, b, o, j) == \/ at[o] \in {"full", "disk", "writer"}
                      \/ at[o] = "unbundle" /\ j >= b.iu
                      \/ at[o] = "bundle" /\ j < b.ib
Kept(d, at) == [p \in {x \in Objects \X Slot : Keeps(at, d.batcher, x[1], x[2])} |->
                    d.bundles[p[1]][p[2]]]

(* Two sets of places, with what is there: every buffer is at one of them. *)
Owned(f, g) ==
    /\ \A p, q \in DOMAIN f : f[p] = f[q] => p = q
    /\ \A p, q \in DOMAIN g : g[p] = g[q] => p = q
    /\ \A p \in DOMAIN f, q \in DOMAIN g : f[p] # g[q]
    /\ \A x \in BufferIds : (\E p \in DOMAIN f : f[p] = x) \/ (\E q \in DOMAIN g : g[q] = x)

OwnOK(d, W, g) == \E at : Located(d, W, at) /\ Owned(Kept(d, at), g)

(* A buffer moves from one set of places to the other. *)
LEMMA OwnedMove ==
    ASSUME NEW f, NEW g, NEW u, NEW v, Owned(f, g), NEW a \in DOMAIN f, NEW c, c \notin DOMAIN g,
           DOMAIN u = DOMAIN f \ {a}, \A p \in DOMAIN u : u[p] = f[p],
           DOMAIN v = DOMAIN g \cup {c}, \A q \in DOMAIN g : v[q] = g[q], v[c] = f[a]
    PROVE  Owned(u, v)
<1>1. \A p, q \in DOMAIN u : u[p] = u[q] => p = q
  BY DEF Owned
<1>2. \A p, q \in DOMAIN v : v[p] = v[q] => p = q
  BY DEF Owned
<1>3. \A p \in DOMAIN u, q \in DOMAIN v : u[p] # v[q]
  BY DEF Owned
<1>4. ASSUME NEW x \in BufferIds
      PROVE  (\E p \in DOMAIN u : u[p] = x) \/ (\E q \in DOMAIN v : v[q] = x)
  <2>1. CASE \E p \in DOMAIN f : f[p] = x
    <3>1. PICK p \in DOMAIN f : f[p] = x
      BY <2>1
    <3>2. CASE p = a
      BY <3>1, <3>2
    <3>3. CASE p # a
      BY <3>1, <3>3
    <3> QED BY <3>2, <3>3
  <2>2. CASE \E q \in DOMAIN g : g[q] = x
    BY <2>2
  <2> QED BY <2>1, <2>2 DEF Owned
<1> QED BY <1>1, <1>2, <1>3, <1>4 DEF Owned

LEMMA OwnedSwap ==
    ASSUME NEW f, NEW g, Owned(f, g)
    PROVE  Owned(g, f)
BY DEF Owned

(* The first bundle of a pool is taken; a bundle is added at its end. *)
LEMMA PoolTake ==
    ASSUME NEW S, NEW s \in Seq(S), s # <<>>, NoTwice(s)
    PROVE  /\ NoTwice(Tail(s))
           /\ \A o \in S : InPool(Tail(s), o) <=> InPool(s, o) /\ o # Head(s)
           /\ InPool(s, Head(s))
<1>1. /\ Head(s) \in S /\ Tail(s) \in Seq(S) /\ Len(s) \in Nat /\ Len(s) > 0
      /\ Head(s) = s[1] /\ Len(Tail(s)) = Len(s) - 1
      /\ \A i \in 1 .. Len(s) - 1 : i + 1 \in 1 .. Len(s) /\ Tail(s)[i] = s[i + 1]
  BY PoolHead, SMTT(30)
<1>2. PICK n \in Nat, t \in Seq(S) : n = Len(s) /\ n > 0 /\ t = Tail(s) /\ Len(t) = n - 1
  BY <1>1
<1>3. \A i \in 1 .. n - 1 : i + 1 \in 1 .. n /\ t[i] = s[i + 1]
  BY <1>1, <1>2
<1>4. NoTwice(t)
  <2> SUFFICES ASSUME NEW i \in 1 .. n - 1, NEW k \in 1 .. n - 1, t[i] = t[k] PROVE i = k
    BY <1>2 DEF NoTwice
  <2>1. i + 1 = k + 1
    BY <1>2, <1>3 DEF NoTwice
  <2> QED BY <2>1
<1>5. ASSUME NEW o \in S PROVE InPool(t, o) <=> InPool(s, o) /\ o # Head(s)
  <2>1. ASSUME InPool(t, o) PROVE InPool(s, o) /\ o # Head(s)
    <3>1. PICK i \in 1 .. n - 1 : t[i] = o
      BY <1>2, <2>1 DEF InPool
    <3>2. i + 1 \in 1 .. n /\ s[i + 1] = o /\ i + 1 # 1 /\ 1 \in 1 .. n
      BY <1>2, <1>3, <3>1
    <3> QED BY <3>2, <1>1, <1>2 DEF InPool, NoTwice
  <2>2. ASSUME InPool(s, o), o # Head(s) PROVE InPool(t, o)
    <3>1. PICK i \in 1 .. n : s[i] = o
      BY <1>2, <2>2 DEF InPool
    <3>2. i # 1
      BY <1>1, <2>2, <3>1
    <3>3. i - 1 \in 1 .. n - 1 /\ (i - 1) + 1 = i
      BY <3>2
    <3>4. t[i - 1] = o
      BY <3>1, <3>3, <1>3
    <3> QED BY <3>3, <3>4, <1>2 DEF InPool
  <2> QED BY <2>1, <2>2
<1>6. InPool(s, Head(s))
  <2>1. 1 \in 1 .. Len(s)
    BY <1>1
  <2> QED BY <2>1, <1>1 DEF InPool
<1> QED BY <1>2, <1>4, <1>5, <1>6

LEMMA PoolAdd ==
    ASSUME NEW S, NEW s \in Seq(S), NEW x \in S, NoTwice(s), ~InPool(s, x)
    PROVE  /\ NoTwice(Append(s, x))
           /\ \A o \in S : InPool(Append(s, x), o) <=> InPool(s, o) \/ o = x
<1>1. PICK n \in Nat, t \in Seq(S) : /\ n = Len(s) /\ t = Append(s, x) /\ Len(t) = n + 1
                                     /\ \A i \in 1 .. n + 1 : t[i] = IF i = n + 1 THEN x ELSE s[i]
  <2>1. /\ Append(s, x) \in Seq(S) /\ Len(s) \in Nat /\ Len(Append(s, x)) = Len(s) + 1
        /\ \A i \in 1 .. Len(s) + 1 : Append(s, x)[i] = IF i = Len(s) + 1 THEN x ELSE s[i]
    BY PoolPut
  <2> QED BY <2>1
<1>2. \A i \in 1 .. n + 1 : i = n + 1 \/ i \in 1 .. n
  OBVIOUS
<1>3. \A i \in 1 .. n : s[i] # x
  BY <1>1 DEF InPool
<1>4. NoTwice(t)
  BY <1>1, <1>2, <1>3 DEF NoTwice
<1>5. ASSUME NEW o \in S PROVE InPool(t, o) <=> InPool(s, o) \/ o = x
  <2>1. n + 1 \in 1 .. n + 1 /\ \A i \in 1 .. n : i \in 1 .. n + 1 /\ i # n + 1
    OBVIOUS
  <2> QED BY <1>1, <1>2, <2>1 DEF InPool
<1> QED BY <1>1, <1>4, <1>5

(* pc2_batcher_t::dequeue, field by field *)
LEMMA DequeueIs ==
    ASSUME cfg \in Configs, NEW d \in DiskType, GoodDisk(d), Available(d) >= 1,
           NEW e, e = Dequeue(d).disk
    PROVE  \E object \in Objects, i \in Slot :
              /\ i = d.batcher.iu /\ Dequeue(d).buf = d.bundles[object][i]
              /\ d.batcher.unbundle = Null => d.pools.full # <<>> /\ i = 0
              /\ object = IF d.batcher.unbundle = Null THEN Head(d.pools.full)
                                                       ELSE d.batcher.unbundle
              /\ e \in DiskType /\ e.bundles = d.bundles
              /\ e.pools.full = IF d.batcher.unbundle = Null THEN Tail(d.pools.full)
                                                             ELSE d.pools.full
              /\ e.pools.empty = IF i + 1 = cfg.bundle THEN Append(d.pools.empty, object)
                                                       ELSE d.pools.empty
              /\ e.pools.disk = d.pools.disk
              /\ e.batcher.unbundle = IF i + 1 = cfg.bundle THEN Null ELSE object
              /\ e.batcher.iu = IF i + 1 = cfg.bundle THEN 0 ELSE i + 1
              /\ e.batcher.bundle = d.batcher.bundle /\ e.batcher.ib = d.batcher.ib
<1>a. PICK b \in Nat : b = cfg.bundle /\ b > 0 /\ Slot = 0 .. b - 1 /\ Null \notin Objects
  BY CallFacts DEF Slot
<1>1. /\ d.bundles \in [Objects -> [Slot -> BufferIds \cup {Null}]]
      /\ d.pools.full \in Seq(Objects) /\ d.pools.empty \in Seq(Objects)
      /\ d.batcher.unbundle \in Objects \cup {Null} /\ d.batcher.iu \in Slot
  BY DiskFields
<1>2. PICK i \in Slot : i = d.batcher.iu /\ i \in Nat /\ i < b
  BY <1>1, <1>a
<1>3. d.batcher.unbundle = Null => d.pools.full # <<>> /\ i = 0
  <2> SUFFICES ASSUME d.batcher.unbundle = Null PROVE d.pools.full # <<>> /\ i = 0
    OBVIOUS
  <2>1. i = 0
    BY <1>2 DEF GoodDisk
  <2>2. ASSUME d.pools.full = <<>> PROVE FALSE
    <3>1. Len(d.pools.full) = 0
      BY <2>2
    <3>2. Available(d) = 0 + 0 * b
      BY <1>a, <3>1 DEF Available
    <3> QED BY <3>2, <1>a
  <2> QED BY <2>1, <2>2
<1>4. PICK object \in Objects, fs \in Seq(Objects) :
         /\ object = IF d.batcher.unbundle = Null THEN Head(d.pools.full) ELSE d.batcher.unbundle
         /\ fs = IF d.batcher.unbundle = Null THEN Tail(d.pools.full) ELSE d.pools.full
  BY <1>1, <1>3, PoolHead
<1>5. PICK es \in Seq(Objects), u \in Objects \cup {Null}, n \in Slot :
         /\ es = IF i + 1 = b THEN Append(d.pools.empty, object) ELSE d.pools.empty
         /\ u = IF i + 1 = b THEN Null ELSE object
         /\ n = IF i + 1 = b THEN 0 ELSE i + 1
  <2>1. (IF i + 1 = b THEN Append(d.pools.empty, object) ELSE d.pools.empty) \in Seq(Objects)
    BY <1>1, <1>4, PoolPut
  <2>2. (IF i + 1 = b THEN 0 ELSE i + 1) \in Slot
    BY <1>a, <1>2
  <2> QED BY <2>1, <2>2
<1>d. PICK z : z = e
  OBVIOUS
<1>6. z = [d EXCEPT !.pools.full = fs, !.pools.empty = es, !.batcher.unbundle = u,
                    !.batcher.iu = n]
  BY <1>d, <1>a, <1>2, <1>3, <1>4, <1>5 DEF Dequeue
<1>7. Dequeue(d).buf = d.bundles[object][i]
  BY <1>2, <1>3, <1>4 DEF Dequeue
<1>8. z.bundles = d.bundles
  BY <1>6 DEF DiskType
<1>9. z.pools.full = fs /\ z.pools.empty = es /\ z.pools.disk = d.pools.disk
  BY <1>6 DEF DiskType
<1>10. /\ z.batcher.unbundle = u /\ z.batcher.bundle = d.batcher.bundle
       /\ z.batcher.iu = n /\ z.batcher.ib = d.batcher.ib
  BY <1>6 DEF DiskType
<1>11. z \in DiskType
  BY <1>6 DEF DiskType
<1>12. /\ e \in DiskType /\ e.bundles = d.bundles
       /\ e.pools.full = fs /\ e.pools.empty = es /\ e.pools.disk = d.pools.disk
       /\ e.batcher.unbundle = u /\ e.batcher.bundle = d.batcher.bundle
       /\ e.batcher.iu = n /\ e.batcher.ib = d.batcher.ib
  BY <1>d, <1>8, <1>9, <1>10, <1>11
<1>13. /\ es = IF i + 1 = cfg.bundle THEN Append(d.pools.empty, object) ELSE d.pools.empty
       /\ u = IF i + 1 = cfg.bundle THEN Null ELSE object
       /\ n = IF i + 1 = cfg.bundle THEN 0 ELSE i + 1
  BY <1>5, <1>a
<1> WITNESS object \in Objects, i \in Slot
<1> QED BY <1>2, <1>3, <1>4, <1>7, <1>12, <1>13

(* A buffer is taken: it leaves its bundle for the place c, say a stream. *)
LEMMA TakeOwned ==
    ASSUME cfg \in Configs, NEW d \in DiskType, GoodDisk(d), Available(d) >= 1,
           NEW e, e = Dequeue(d).disk, NEW W, NEW g, OwnOK(d, W, g),
           NEW c, c \notin DOMAIN g, NEW h, DOMAIN h = DOMAIN g \cup {c},
           \A q \in DOMAIN g : h[q] = g[q], h[c] = Dequeue(d).buf
    PROVE  OwnOK(e, W, h)
<1>a. PICK b \in Nat : b = cfg.bundle /\ b > 0 /\ Slot = 0 .. b - 1 /\ Null \notin Objects
  BY CallFacts DEF Slot
<1>1. PICK at : Located(d, W, at) /\ Owned(Kept(d, at), g)
  BY DEF OwnOK
<1>2. PICK object \in Objects, i \in Slot :
         /\ i = d.batcher.iu /\ Dequeue(d).buf = d.bundles[object][i]
         /\ d.batcher.unbundle = Null => d.pools.full # <<>> /\ i = 0
         /\ object = IF d.batcher.unbundle = Null THEN Head(d.pools.full)
                                                  ELSE d.batcher.unbundle
         /\ e \in DiskType /\ e.bundles = d.bundles
         /\ e.pools.full = IF d.batcher.unbundle = Null THEN Tail(d.pools.full)
                                                        ELSE d.pools.full
         /\ e.pools.empty = IF i + 1 = cfg.bundle THEN Append(d.pools.empty, object)
                                                  ELSE d.pools.empty
         /\ e.pools.disk = d.pools.disk
         /\ e.batcher.unbundle = IF i + 1 = cfg.bundle THEN Null ELSE object
         /\ e.batcher.iu = IF i + 1 = cfg.bundle THEN 0 ELSE i + 1
         /\ e.batcher.bundle = d.batcher.bundle /\ e.batcher.ib = d.batcher.ib
  BY DequeueIs
<1>d. PICK z : z = e
  OBVIOUS
<1>3. /\ d.pools.full \in Seq(Objects) /\ d.pools.empty \in Seq(Objects)
      /\ d.pools.disk \in Seq(Objects) /\ d.batcher.unbundle \in Objects \cup {Null}
  BY DiskFields
<1>4. PICK used \in BOOLEAN : used <=> i + 1 = b
  OBVIOUS
<1>5. PICK at2 : at2 = [at EXCEPT ![object] = IF used THEN "empty" ELSE "unbundle"]
  OBVIOUS
<1>6. at \in [Objects -> Spots] /\ at2 \in [Objects -> Spots]
  BY <1>1, <1>5 DEF Located, Spots
<1>7. /\ at2[object] = IF used THEN "empty" ELSE "unbundle"
      /\ \A o \in Objects : o # object => at2[o] = at[o]
  BY <1>5, <1>6
<1>8. /\ d.batcher.unbundle = Null => at[object] = "full" /\ \A o \in Objects : at[o] # "unbundle"
      /\ d.batcher.unbundle # Null =>
            at[object] = "unbundle" /\ \A o \in Objects : at[o] = "unbundle" => o = object
  <2>1. CASE d.batcher.unbundle = Null
    <3>1. InPool(d.pools.full, object)
      BY <1>1, <1>2, <1>3, <2>1, PoolTake DEF Located
    <3> QED BY <2>1, <3>1, <1>1, <1>a DEF Located
  <2>2. CASE d.batcher.unbundle # Null
    BY <2>2, <1>1, <1>2 DEF Located
  <2> QED BY <2>1, <2>2
<1>9. /\ NoTwice(z.pools.full)
      /\ \A o \in Objects : InPool(z.pools.full, o) <=> at2[o] = "full"
  <2>1. CASE d.batcher.unbundle = Null
    <3>1. z.pools.full = Tail(d.pools.full) /\ object = Head(d.pools.full)
      BY <1>2, <1>d, <2>1
    <3>2. /\ NoTwice(Tail(d.pools.full))
          /\ \A o \in Objects : InPool(Tail(d.pools.full), o) <=>
                                   InPool(d.pools.full, o) /\ o # Head(d.pools.full)
      BY <1>1, <1>2, <1>3, <2>1, PoolTake DEF Located
    <3>3. \A o \in Objects : InPool(d.pools.full, o) <=> at[o] = "full"
      BY <1>1 DEF Located
    <3> QED BY <3>1, <3>2, <3>3, <1>7
  <2>2. CASE d.batcher.unbundle # Null
    <3>1. z.pools.full = d.pools.full
      BY <1>2, <1>d, <2>2
    <3>2. at[object] = "unbundle"
      BY <1>8, <2>2
    <3> QED BY <3>1, <3>2, <1>1, <1>7 DEF Located
  <2> QED BY <2>1, <2>2
<1>10. /\ NoTwice(z.pools.empty)
       /\ \A o \in Objects : InPool(z.pools.empty, o) <=> at2[o] = "empty"
  <2>0. \A o \in Objects : InPool(d.pools.empty, o) <=> at[o] = "empty"
    BY <1>1 DEF Located
  <2>1. at[object] # "empty"
    BY <1>8
  <2>2. CASE used
    <3>1. z.pools.empty = Append(d.pools.empty, object)
      BY <1>2, <1>d, <1>a, <1>4, <2>2
    <3>2. /\ NoTwice(Append(d.pools.empty, object))
          /\ \A o \in Objects : InPool(Append(d.pools.empty, object), o) <=>
                                   InPool(d.pools.empty, o) \/ o = object
      BY <1>1, <1>3, <2>0, <2>1, PoolAdd DEF Located
    <3> QED BY <3>1, <3>2, <2>0, <2>2, <1>7
  <2>3. CASE ~used
    <3>1. z.pools.empty = d.pools.empty
      BY <1>2, <1>d, <1>a, <1>4, <2>3
    <3> QED BY <3>1, <2>0, <2>1, <2>3, <1>1, <1>7 DEF Located
  <2> QED BY <2>2, <2>3
<1>11. Located(z, W, at2)
  <2>1. z.pools.disk = d.pools.disk /\ z.batcher.bundle = d.batcher.bundle
    BY <1>2, <1>d
  <2>2. NoTwice(z.pools.disk)
    BY <2>1, <1>1 DEF Located
  <2>3. at[object] \notin {"disk", "writer", "bundle"} /\ at2[object] \notin {"disk", "writer", "bundle"}
    BY <1>7, <1>8
  <2>4. \A o \in Objects : /\ InPool(z.pools.disk, o) <=> at2[o] = "disk"
                           /\ o \in W <=> at2[o] = "writer"
                           /\ z.batcher.bundle = o <=> at2[o] = "bundle"
    BY <2>1, <2>3, <1>1, <1>7 DEF Located
  <2>5. z.batcher.unbundle = IF used THEN Null ELSE object
    BY <1>2, <1>d, <1>a, <1>4
  <2>6. \A o \in Objects : z.batcher.unbundle = o <=> at2[o] = "unbundle"
    BY <2>5, <1>7, <1>8, <1>a
  <2> QED BY <2>2, <2>4, <2>6, <1>6, <1>9, <1>10 DEF Located
<1>12. PICK f, u : f = Kept(d, at) /\ u = Kept(z, at2)
  OBVIOUS
<1>13. \A o \in Objects, j \in Slot :
          /\ <<o, j>> \in DOMAIN f <=> Keeps(at, d.batcher, o, j)
          /\ <<o, j>> \in DOMAIN u <=> Keeps(at2, z.batcher, o, j)
          /\ <<o, j>> \in DOMAIN f => f[<<o, j>>] = d.bundles[o][j]
          /\ <<o, j>> \in DOMAIN u => u[<<o, j>>] = d.bundles[o][j]
  <2>1. z.bundles = d.bundles
    BY <1>2, <1>d
  <2> QED BY <2>1, <1>12 DEF Kept
<1>14. DOMAIN f \subseteq Objects \X Slot /\ DOMAIN u \subseteq Objects \X Slot
  BY <1>12 DEF Kept
<1>15. Keeps(at, d.batcher, object, i)
  BY <1>2, <1>8, <1>a DEF Keeps
<1>16. ASSUME NEW o \in Objects, NEW j \in Slot
       PROVE  Keeps(at2, z.batcher, o, j) <=> Keeps(at, d.batcher, o, j) /\ ~(o = object /\ j = i)
  <2>0. z.batcher.iu = (IF used THEN 0 ELSE i + 1) /\ z.batcher.ib = d.batcher.ib
    BY <1>2, <1>d, <1>a, <1>4
  <2>1. CASE o # object
    <3>1. at2[o] = at[o] /\ at[o] # "unbundle"
      BY <2>1, <1>7, <1>8
    <3> QED BY <3>1, <2>0, <2>1 DEF Keeps
  <2>2. CASE o = object
    <3>1. j \in Nat /\ j < b /\ i \in Nat /\ i < b
      BY <1>a
    <3>2. Keeps(at2, z.batcher, o, j) <=> ~used /\ j >= i + 1
      BY <2>0, <2>2, <1>7 DEF Keeps
    <3>3. Keeps(at, d.batcher, o, j) <=> j >= i
      <4>1. CASE d.batcher.unbundle = Null
        BY <4>1, <2>2, <3>1, <1>2, <1>8 DEF Keeps
      <4>2. CASE d.batcher.unbundle # Null
        BY <4>2, <2>2, <3>1, <1>2, <1>8 DEF Keeps
      <4> QED BY <4>1, <4>2
    <3> QED BY <3>1, <3>2, <3>3, <2>2, <1>4
  <2> QED BY <2>1, <2>2
<1>17. <<object, i>> \in DOMAIN f /\ f[<<object, i>>] = Dequeue(d).buf
  BY <1>2, <1>13, <1>15
<1>18. \A o \in Objects, j \in Slot : <<o, j>> \in DOMAIN u <=> <<o, j>> \in DOMAIN f \ {<<object, i>>}
  BY <1>13, <1>16
<1>19. DOMAIN u = DOMAIN f \ {<<object, i>>}
  BY <1>14, <1>18
<1>20. \A p \in DOMAIN u : u[p] = f[p]
  <2> SUFFICES ASSUME NEW o \in Objects, NEW j \in Slot, <<o, j>> \in DOMAIN u
               PROVE  u[<<o, j>>] = f[<<o, j>>]
    BY <1>14
  <2> QED BY <1>13, <1>18
<1>21. Owned(f, g)
  BY <1>1, <1>12
<1>22. PICK y : y = Dequeue(d).buf
  OBVIOUS
<1>23. Owned(u, h)
  <2>1. f[<<object, i>>] = y /\ h[c] = y
    BY <1>17, <1>22
  <2> QED BY <2>1, <1>17, <1>19, <1>20, <1>21, OwnedMove
<1> QED BY <1>11, <1>12, <1>23, <1>d DEF OwnOK

(* pc2_batcher_t::enqueue, field by field *)
LEMMA BundleIs ==
    ASSUME cfg \in Configs, NEW d \in DiskType, GoodDisk(d), CanBundle(d), NEW buf \in BufferIds,
           NEW e, e = Bundle(d, buf)
    PROVE  \E object \in Objects, i \in Slot :
              /\ i = d.batcher.ib
              /\ d.batcher.bundle = Null => d.pools.empty # <<>> /\ i = 0
              /\ object = IF d.batcher.bundle = Null THEN Head(d.pools.empty)
                                                     ELSE d.batcher.bundle
              /\ e \in DiskType
              /\ \A o \in Objects, j \in Slot :
                    e.bundles[o][j] = IF o = object /\ j = i THEN buf ELSE d.bundles[o][j]
              /\ e.pools.full = d.pools.full
              /\ e.pools.empty = IF d.batcher.bundle = Null THEN Tail(d.pools.empty)
                                                            ELSE d.pools.empty
              /\ e.pools.disk = IF i + 1 = cfg.bundle THEN Append(d.pools.disk, object)
                                                      ELSE d.pools.disk
              /\ e.batcher.bundle = IF i + 1 = cfg.bundle THEN Null ELSE object
              /\ e.batcher.ib = IF i + 1 = cfg.bundle THEN 0 ELSE i + 1
              /\ e.batcher.unbundle = d.batcher.unbundle /\ e.batcher.iu = d.batcher.iu
<1>a. PICK b \in Nat : b = cfg.bundle /\ b > 0 /\ Slot = 0 .. b - 1 /\ Null \notin Objects
  BY CallFacts DEF Slot
<1>1. /\ d.bundles \in [Objects -> [Slot -> BufferIds \cup {Null}]]
      /\ d.pools.empty \in Seq(Objects) /\ d.pools.disk \in Seq(Objects)
      /\ d.batcher.bundle \in Objects \cup {Null} /\ d.batcher.ib \in Slot
  BY DiskFields
<1>2. PICK i \in Slot : i = d.batcher.ib /\ i \in Nat /\ i < b
  BY <1>1, <1>a
<1>3. d.batcher.bundle = Null => d.pools.empty # <<>> /\ i = 0
  BY <1>2 DEF CanBundle, GoodDisk
<1>4. PICK object \in Objects, es \in Seq(Objects) :
         /\ object = IF d.batcher.bundle = Null THEN Head(d.pools.empty) ELSE d.batcher.bundle
         /\ es = IF d.batcher.bundle = Null THEN Tail(d.pools.empty) ELSE d.pools.empty
  BY <1>1, <1>3, PoolHead
<1>5. PICK ds \in Seq(Objects), u \in Objects \cup {Null}, n \in Slot :
         /\ ds = IF i + 1 = b THEN Append(d.pools.disk, object) ELSE d.pools.disk
         /\ u = IF i + 1 = b THEN Null ELSE object
         /\ n = IF i + 1 = b THEN 0 ELSE i + 1
  <2>1. (IF i + 1 = b THEN Append(d.pools.disk, object) ELSE d.pools.disk) \in Seq(Objects)
    BY <1>1, <1>4, PoolPut
  <2>2. (IF i + 1 = b THEN 0 ELSE i + 1) \in Slot
    BY <1>a, <1>2
  <2> QED BY <2>1, <2>2
<1>d. PICK z : z = e
  OBVIOUS
<1>6. z = [d EXCEPT !.bundles[object][i] = buf, !.pools.empty = es, !.pools.disk = ds,
                    !.batcher.bundle = u, !.batcher.ib = n]
  BY <1>d, <1>a, <1>2, <1>4, <1>5 DEF Bundle
<1>7. z.bundles = [d.bundles EXCEPT ![object][i] = buf]
  BY <1>6 DEF DiskType
<1>8. z.pools.full = d.pools.full /\ z.pools.empty = es /\ z.pools.disk = ds
  BY <1>6 DEF DiskType
<1>9. /\ z.batcher.unbundle = d.batcher.unbundle /\ z.batcher.bundle = u
      /\ z.batcher.iu = d.batcher.iu /\ z.batcher.ib = n
  BY <1>6 DEF DiskType
<1>10. z.bundles \in [Objects -> [Slot -> BufferIds \cup {Null}]]
  BY <1>2, <1>7 DEF DiskType
<1>11. z \in DiskType
  BY <1>6, <1>7, <1>10 DEF DiskType
<1>12. \A o \in Objects, j \in Slot :
          z.bundles[o][j] = IF o = object /\ j = i THEN buf ELSE d.bundles[o][j]
  BY <1>1, <1>2, <1>7
<1>13. /\ e \in DiskType /\ e.pools.full = d.pools.full /\ e.pools.empty = es /\ e.pools.disk = ds
       /\ e.batcher.unbundle = d.batcher.unbundle /\ e.batcher.bundle = u
       /\ e.batcher.iu = d.batcher.iu /\ e.batcher.ib = n
  BY <1>d, <1>8, <1>9, <1>11
<1>14. \A o \in Objects, j \in Slot :
          e.bundles[o][j] = IF o = object /\ j = i THEN buf ELSE d.bundles[o][j]
  BY <1>d, <1>12
<1>15. /\ ds = IF i + 1 = cfg.bundle THEN Append(d.pools.disk, object) ELSE d.pools.disk
       /\ u = IF i + 1 = cfg.bundle THEN Null ELSE object
       /\ n = IF i + 1 = cfg.bundle THEN 0 ELSE i + 1
  BY <1>5, <1>a
<1> WITNESS object \in Objects, i \in Slot
<1> QED BY <1>2, <1>3, <1>4, <1>13, <1>14, <1>15

(* A buffer is put back: it leaves its place c for the bundle being filled. *)
LEMMA PutOwned ==
    ASSUME cfg \in Configs, NEW d \in DiskType, GoodDisk(d), CanBundle(d), NEW buf \in BufferIds,
           NEW e, e = Bundle(d, buf), NEW W, NEW g, OwnOK(d, W, g),
           NEW c \in DOMAIN g, g[c] = buf, NEW h, DOMAIN h = DOMAIN g \ {c},
           \A q \in DOMAIN h : h[q] = g[q]
    PROVE  OwnOK(e, W, h)
<1>a. PICK b \in Nat : b = cfg.bundle /\ b > 0 /\ Slot = 0 .. b - 1 /\ Null \notin Objects
  BY CallFacts DEF Slot
<1>1. PICK at : Located(d, W, at) /\ Owned(Kept(d, at), g)
  BY DEF OwnOK
<1>2. PICK object \in Objects, i \in Slot :
         /\ i = d.batcher.ib
         /\ d.batcher.bundle = Null => d.pools.empty # <<>> /\ i = 0
         /\ object = IF d.batcher.bundle = Null THEN Head(d.pools.empty)
                                                ELSE d.batcher.bundle
         /\ e \in DiskType
         /\ \A o \in Objects, j \in Slot :
               e.bundles[o][j] = IF o = object /\ j = i THEN buf ELSE d.bundles[o][j]
         /\ e.pools.full = d.pools.full
         /\ e.pools.empty = IF d.batcher.bundle = Null THEN Tail(d.pools.empty)
                                                       ELSE d.pools.empty
         /\ e.pools.disk = IF i + 1 = cfg.bundle THEN Append(d.pools.disk, object)
                                                 ELSE d.pools.disk
         /\ e.batcher.bundle = IF i + 1 = cfg.bundle THEN Null ELSE object
         /\ e.batcher.ib = IF i + 1 = cfg.bundle THEN 0 ELSE i + 1
         /\ e.batcher.unbundle = d.batcher.unbundle /\ e.batcher.iu = d.batcher.iu
  BY BundleIs
<1>d. PICK z : z = e
  OBVIOUS
<1>3. /\ d.pools.full \in Seq(Objects) /\ d.pools.empty \in Seq(Objects)
      /\ d.pools.disk \in Seq(Objects) /\ d.batcher.bundle \in Objects \cup {Null}
  BY DiskFields
<1>4. PICK used \in BOOLEAN : used <=> i + 1 = b
  OBVIOUS
<1>5. PICK at2 : at2 = [at EXCEPT ![object] = IF used THEN "disk" ELSE "bundle"]
  OBVIOUS
<1>6. at \in [Objects -> Spots] /\ at2 \in [Objects -> Spots]
  BY <1>1, <1>5 DEF Located, Spots
<1>7. /\ at2[object] = IF used THEN "disk" ELSE "bundle"
      /\ \A o \in Objects : o # object => at2[o] = at[o]
  BY <1>5, <1>6
<1>8. /\ d.batcher.bundle = Null => at[object] = "empty" /\ \A o \in Objects : at[o] # "bundle"
      /\ d.batcher.bundle # Null =>
            at[object] = "bundle" /\ \A o \in Objects : at[o] = "bundle" => o = object
  <2>1. CASE d.batcher.bundle = Null
    <3>1. InPool(d.pools.empty, object)
      BY <1>1, <1>2, <1>3, <2>1, PoolTake DEF Located
    <3> QED BY <2>1, <3>1, <1>1, <1>a DEF Located
  <2>2. CASE d.batcher.bundle # Null
    BY <2>2, <1>1, <1>2 DEF Located
  <2> QED BY <2>1, <2>2
<1>9. /\ NoTwice(z.pools.empty)
      /\ \A o \in Objects : InPool(z.pools.empty, o) <=> at2[o] = "empty"
  <2>1. CASE d.batcher.bundle = Null
    <3>1. z.pools.empty = Tail(d.pools.empty) /\ object = Head(d.pools.empty)
      BY <1>2, <1>d, <2>1
    <3>2. /\ NoTwice(Tail(d.pools.empty))
          /\ \A o \in Objects : InPool(Tail(d.pools.empty), o) <=>
                                   InPool(d.pools.empty, o) /\ o # Head(d.pools.empty)
      BY <1>1, <1>2, <1>3, <2>1, PoolTake DEF Located
    <3>3. \A o \in Objects : InPool(d.pools.empty, o) <=> at[o] = "empty"
      BY <1>1 DEF Located
    <3> QED BY <3>1, <3>2, <3>3, <1>7
  <2>2. CASE d.batcher.bundle # Null
    <3>1. z.pools.empty = d.pools.empty
      BY <1>2, <1>d, <2>2
    <3>2. at[object] = "bundle"
      BY <1>8, <2>2
    <3> QED BY <3>1, <3>2, <1>1, <1>7 DEF Located
  <2> QED BY <2>1, <2>2
<1>10. /\ NoTwice(z.pools.disk)
       /\ \A o \in Objects : InPool(z.pools.disk, o) <=> at2[o] = "disk"
  <2>0. \A o \in Objects : InPool(d.pools.disk, o) <=> at[o] = "disk"
    BY <1>1 DEF Located
  <2>1. at[object] # "disk"
    BY <1>8
  <2>2. CASE used
    <3>1. z.pools.disk = Append(d.pools.disk, object)
      BY <1>2, <1>d, <1>a, <1>4, <2>2
    <3>2. /\ NoTwice(Append(d.pools.disk, object))
          /\ \A o \in Objects : InPool(Append(d.pools.disk, object), o) <=>
                                   InPool(d.pools.disk, o) \/ o = object
      BY <1>1, <1>3, <2>0, <2>1, PoolAdd DEF Located
    <3> QED BY <3>1, <3>2, <2>0, <2>2, <1>7
  <2>3. CASE ~used
    <3>1. z.pools.disk = d.pools.disk
      BY <1>2, <1>d, <1>a, <1>4, <2>3
    <3> QED BY <3>1, <2>0, <2>1, <2>3, <1>1, <1>7 DEF Located
  <2> QED BY <2>2, <2>3
<1>11. Located(z, W, at2)
  <2>1. z.pools.full = d.pools.full /\ z.batcher.unbundle = d.batcher.unbundle
    BY <1>2, <1>d
  <2>2. NoTwice(z.pools.full)
    BY <2>1, <1>1 DEF Located
  <2>3. at[object] \notin {"full", "writer", "unbundle"} /\ at2[object] \notin {"full", "writer", "unbundle"}
    BY <1>7, <1>8
  <2>4. \A o \in Objects : /\ InPool(z.pools.full, o) <=> at2[o] = "full"
                           /\ o \in W <=> at2[o] = "writer"
                           /\ z.batcher.unbundle = o <=> at2[o] = "unbundle"
    BY <2>1, <2>3, <1>1, <1>7 DEF Located
  <2>5. z.batcher.bundle = IF used THEN Null ELSE object
    BY <1>2, <1>d, <1>a, <1>4
  <2>6. \A o \in Objects : z.batcher.bundle = o <=> at2[o] = "bundle"
    BY <2>5, <1>7, <1>8, <1>a
  <2> QED BY <2>2, <2>4, <2>6, <1>6, <1>9, <1>10 DEF Located
<1>12. PICK f, u : f = Kept(d, at) /\ u = Kept(z, at2)
  OBVIOUS
<1>13. \A o \in Objects, j \in Slot :
          /\ <<o, j>> \in DOMAIN f <=> Keeps(at, d.batcher, o, j)
          /\ <<o, j>> \in DOMAIN u <=> Keeps(at2, z.batcher, o, j)
          /\ <<o, j>> \in DOMAIN f => f[<<o, j>>] = d.bundles[o][j]
          /\ <<o, j>> \in DOMAIN u =>
                u[<<o, j>>] = IF o = object /\ j = i THEN buf ELSE d.bundles[o][j]
  <2>1. \A o \in Objects, j \in Slot :
           z.bundles[o][j] = IF o = object /\ j = i THEN buf ELSE d.bundles[o][j]
    BY <1>2, <1>d
  <2> QED BY <2>1, <1>12 DEF Kept
<1>14. DOMAIN f \subseteq Objects \X Slot /\ DOMAIN u \subseteq Objects \X Slot
  BY <1>12 DEF Kept
<1>15. ~Keeps(at, d.batcher, object, i)
  <2>1. at[object] \in {"empty", "bundle"} /\ i \in Nat /\ i = d.batcher.ib
    BY <1>2, <1>8, <1>a
  <2>2. ~(i < d.batcher.ib)
    BY <2>1
  <2> QED BY <2>1, <2>2 DEF Keeps
<1>16. ASSUME NEW o \in Objects, NEW j \in Slot
       PROVE  Keeps(at2, z.batcher, o, j) <=> Keeps(at, d.batcher, o, j) \/ (o = object /\ j = i)
  <2>0. z.batcher.ib = (IF used THEN 0 ELSE i + 1) /\ z.batcher.iu = d.batcher.iu
    BY <1>2, <1>d, <1>a, <1>4
  <2>1. CASE o # object
    <3>1. at2[o] = at[o] /\ at[o] # "bundle"
      BY <2>1, <1>7, <1>8
    <3> QED BY <3>1, <2>0, <2>1 DEF Keeps
  <2>2. CASE o = object
    <3>1. j \in Nat /\ j < b /\ i \in Nat /\ i < b
      BY <1>a
    <3>2. Keeps(at2, z.batcher, o, j) <=> used \/ j < i + 1
      BY <2>0, <2>2, <1>7 DEF Keeps
    <3>3. Keeps(at, d.batcher, o, j) <=> j < i
      <4>1. CASE d.batcher.bundle = Null
        BY <4>1, <2>2, <3>1, <1>2, <1>8 DEF Keeps
      <4>2. CASE d.batcher.bundle # Null
        BY <4>2, <2>2, <3>1, <1>2, <1>8 DEF Keeps
      <4> QED BY <4>1, <4>2
    <3> QED BY <3>1, <3>2, <3>3, <2>2, <1>4
  <2> QED BY <2>1, <2>2
<1>17. <<object, i>> \notin DOMAIN f /\ <<object, i>> \in DOMAIN u /\ u[<<object, i>>] = buf
  BY <1>13, <1>15, <1>16
<1>18. \A o \in Objects, j \in Slot : <<o, j>> \in DOMAIN u <=> <<o, j>> \in DOMAIN f \cup {<<object, i>>}
  BY <1>13, <1>16
<1>19. DOMAIN u = DOMAIN f \cup {<<object, i>>}
  BY <1>14, <1>18
<1>20. \A p \in DOMAIN f : u[p] = f[p]
  <2> SUFFICES ASSUME NEW o \in Objects, NEW j \in Slot, <<o, j>> \in DOMAIN f
               PROVE  u[<<o, j>>] = f[<<o, j>>]
    BY <1>14
  <2>1. ~(o = object /\ j = i)
    BY <1>17
  <2> QED BY <2>1, <1>13, <1>18
<1>21. Owned(g, f)
  BY <1>1, <1>12, OwnedSwap
<1>22. Owned(h, u)
  <2>1. u[<<object, i>>] = g[c]
    BY <1>17
  <2> QED BY <2>1, <1>17, <1>19, <1>20, <1>21, OwnedMove
<1>23. Owned(u, h)
  BY <1>22, OwnedSwap
<1> QED BY <1>11, <1>12, <1>23, <1>d DEF OwnOK

-----------------------------------------------------------------------------
(* The buffers that are out, by their places in Out: from the end of what the  *)
(* callback does, or will do, the buffer of tree-r comes before that of tree-c. *)

OwnerOf(js, r) == CHOOSE i \in 1 .. Len(js) : js[i].res = r
OpAt(job, k) == job.ops[Len(job.ops) + 1 - k]
AskedFor(s, k) == IF k = 3 \/ s.r = Null THEN s.c ELSE s.r
BufferOf(st, js, r, k) ==
    IF st[r] # Null THEN AskedFor(st[r], k) ELSE OpAt(js[OwnerOf(js, r)], k).buf
OutMap == [p \in Out |-> BufferOf(stream, jobs, p[1], p[2])]

(* The places of OutMap and what is there *)
LEMMA OutMapIs ==
    ASSUME MainOK, StreamsOK
    PROVE  /\ DOMAIN OutMap = Out /\ Out \subseteq Streams \X (2 .. 4)
           /\ \A r \in Streams, k \in 2 .. 4 :
                 <<r, k>> \in Out => OutMap[<<r, k>>] = BufferOf(stream, jobs, r, k)
           /\ \A r \in Streams, k \in 2 .. 4 : stream[r] # Null =>
                 (<<r, k>> \in Out <=> k <= 1 + Count(stream[r]))
           /\ \A i \in 1 .. Len(jobs), k \in 2 .. 4 :
                 /\ jobs[i].res \in Streams /\ stream[jobs[i].res] = Null
                 /\ <<jobs[i].res, k>> \in Out <=> InJob(jobs[i], k)
                 /\ BufferOf(stream, jobs, jobs[i].res, k) = OpAt(jobs[i], k).buf
           /\ \A r \in Streams, k \in 2 .. 4 : <<r, k>> \in Out /\ stream[r] = Null =>
                 \E i \in 1 .. Len(jobs) : jobs[i].res = r
<1>1. DOMAIN OutMap = Out /\ Out \subseteq Streams \X (2 .. 4)
  BY DEF OutMap, Out
<1>2. \A r \in Streams, k \in 2 .. 4 :
         <<r, k>> \in Out => OutMap[<<r, k>>] = BufferOf(stream, jobs, r, k)
  BY DEF OutMap
<1>3. \A r \in Streams, k \in 2 .. 4 : <<r, k>> \in Out <=> InStream(r, k) \/ InJobs(r, k)
  BY DEF Out
<1>4. /\ \A i \in 1 .. Len(jobs) : stream[jobs[i].res] = Null /\ jobs[i].res \in Streams
      /\ \A i, k \in 1 .. Len(jobs) : jobs[i].res = jobs[k].res => i = k
  <2>1. \A i \in 1 .. Len(jobs) : jobs[i] \in Jobs
    BY DEF StreamsOK
  <2> QED BY <2>1 DEF StreamsOK, Jobs
<1>5. ASSUME NEW r \in Streams, NEW k \in 2 .. 4, stream[r] # Null
      PROVE  <<r, k>> \in Out <=> k <= 1 + Count(stream[r])
  <2>1. ~InJobs(r, k)
    BY <1>4, <1>5 DEF InJobs
  <2> QED BY <2>1, <1>3, <1>5 DEF InStream
<1>6. ASSUME NEW i \in 1 .. Len(jobs), NEW k \in 2 .. 4
      PROVE  /\ <<jobs[i].res, k>> \in Out <=> InJob(jobs[i], k)
             /\ BufferOf(stream, jobs, jobs[i].res, k) = OpAt(jobs[i], k).buf
  <2>1. ~InStream(jobs[i].res, k)
    BY <1>4 DEF InStream
  <2>2. InJobs(jobs[i].res, k) <=> InJob(jobs[i], k)
    BY <1>4 DEF InJobs
  <2>3. BufferOf(stream, jobs, jobs[i].res, k) = OpAt(jobs[i], k).buf
    <3>1. PICK r : r = jobs[i].res /\ stream[r] = Null
      BY <1>4
    <3>2. \A m \in 1 .. Len(jobs) : jobs[m].res = r => m = i
      BY <1>4, <3>1
    <3>4. OwnerOf(jobs, r) = i
      BY <3>1, <3>2 DEF OwnerOf
    <3>3. BufferOf(stream, jobs, r, k) = OpAt(jobs[i], k).buf
      BY <3>1, <3>4 DEF BufferOf
    <3> QED BY <3>1, <3>3
  <2> QED BY <2>1, <2>2, <2>3, <1>3, <1>4
<1>7. ASSUME NEW r \in Streams, NEW k \in 2 .. 4, <<r, k>> \in Out, stream[r] = Null
      PROVE  \E i \in 1 .. Len(jobs) : jobs[i].res = r
  BY <1>3, <1>7 DEF InStream, InJobs
<1> QED BY <1>1, <1>2, <1>4, <1>5, <1>6, <1>7

(* The same places with the same buffers *)
LEMMA SameOutMap ==
    ASSUME cfg' = cfg, Out' = Out, Out \subseteq Streams \X (2 .. 4),
           \A r \in Streams, k \in 2 .. 4 : <<r, k>> \in Out =>
              BufferOf(stream, jobs, r, k)' = BufferOf(stream, jobs, r, k)
    PROVE  OutMap' = OutMap
<1>1. \A p \in Out : p = <<p[1], p[2]>> /\ p[1] \in Streams /\ p[2] \in 2 .. 4
  OBVIOUS
<1>2. \A p \in Out : BufferOf(stream, jobs, p[1], p[2])' = BufferOf(stream, jobs, p[1], p[2])
  BY <1>1
<1> QED BY <1>2 DEF OutMap

(* What a callback does with the buffers of its stream *)
LEMMA CallbackBuffers ==
    ASSUME cfg \in Configs, NEW r \in Streams, NEW s \in Asked, NEW job, job = Callback(r, s)
    PROVE  \A k \in 2 .. 4 : k <= 1 + Count(s) => OpAt(job, k).buf = AskedFor(s, k)
<1>1. PICK ops : ops = job.ops
  OBVIOUS
<1> DEFINE un  == [op |-> "unlock"]
           don == [op |-> "done"]
           bc  == [op |-> "bundle", buf |-> s.c]
           br  == [op |-> "bundle", buf |-> s.r]
           last == s.kind = "inner" /\ res[r].last
<1>3. ops = (IF last THEN <<un>> ELSE <<>>) \o (IF s.c # Null THEN <<bc>> ELSE <<>>)
            \o (IF s.r # Null THEN <<br>> ELSE <<>>) \o <<don>>
  BY <1>1 DEF Callback
<1>4. bc.buf = s.c /\ br.buf = s.r
  OBVIOUS
<1> HIDE DEF un, don, bc, br, last
<1>5. ASSUME NEW k \in 2 .. 4, k <= 1 + Count(s) PROVE ops[Len(ops) + 1 - k].buf = AskedFor(s, k)
  <2>1. CASE s.c = Null /\ s.r = Null
    <3>1. Count(s) = 0
      BY <2>1 DEF Count, One
    <3> QED BY <3>1, <1>5
  <2>2. CASE s.c # Null /\ s.r = Null
    <3>1. Count(s) = 1
      BY <2>2 DEF Count, One
    <3>2. k = 2 /\ AskedFor(s, k) = s.c
      BY <3>1, <1>5, <2>2 DEF AskedFor
    <3>3. CASE last
      <4>1. ops = <<un, bc, don>>
        BY <1>3, <2>2, <3>3, Cat
      <4> QED BY <4>1, <3>2, <1>4
    <3>4. CASE ~last
      <4>1. ops = <<bc, don>>
        BY <1>3, <2>2, <3>4, Cat
      <4> QED BY <4>1, <3>2, <1>4
    <3> QED BY <3>3, <3>4
  <2>3. CASE s.c = Null /\ s.r # Null
    <3>1. Count(s) = 1
      BY <2>3 DEF Count, One
    <3>2. k = 2 /\ AskedFor(s, k) = s.r
      BY <3>1, <1>5, <2>3 DEF AskedFor
    <3>3. CASE last
      <4>1. ops = <<un, br, don>>
        BY <1>3, <2>3, <3>3, Cat
      <4> QED BY <4>1, <3>2, <1>4
    <3>4. CASE ~last
      <4>1. ops = <<br, don>>
        BY <1>3, <2>3, <3>4, Cat
      <4> QED BY <4>1, <3>2, <1>4
    <3> QED BY <3>3, <3>4
  <2>4. CASE s.c # Null /\ s.r # Null
    <3>1. Count(s) = 2
      BY <2>4 DEF Count, One
    <3>0. k \in {2, 3}
      BY <3>1, <1>5
    <3>2. (k = 2 /\ AskedFor(s, k) = s.r) \/ (k = 3 /\ AskedFor(s, k) = s.c)
      BY <3>0, <2>4 DEF AskedFor
    <3>3. CASE last
      <4>5. ops = <<un>> \o <<bc>> \o <<br>> \o <<don>>
        BY <1>3, <2>4, <3>3
      <4>6. <<un>> \o <<bc>> = <<un, bc>> /\ <<un, bc>> \o <<br>> = <<un, bc, br>>
        BY Cat
      <4>7. <<un, bc, br>> \o <<don>> = <<un, bc, br, don>>
        BY Cat
      <4>1. ops = <<un, bc, br, don>>
        BY <4>5, <4>6, <4>7
      <4>2. Len(ops) = 4 /\ ops[2] = bc /\ ops[3] = br
        BY <4>1
      <4>3. CASE k = 2
        BY <4>2, <4>3, <3>2, <1>4
      <4>4. CASE k = 3
        BY <4>2, <4>4, <3>2, <1>4
      <4> QED BY <4>3, <4>4, <3>0
    <3>4. CASE ~last
      <4>1. ops = <<bc, br, don>>
        BY <1>3, <2>4, <3>4, Cat
      <4> QED BY <4>1, <3>2, <1>4
    <3> QED BY <3>3, <3>4
  <2> QED BY <2>1, <2>2, <2>3, <2>4
<1> QED BY <1>1, <1>5 DEF OpAt

(* A stream is asked to do something: the buffers taken for it are out. *)
LEMMA OutMapAsk ==
    ASSUME MainOK, StreamsOK, NEW r \in Streams, res[r].done, NEW a \in Asked,
           stream' = [stream EXCEPT ![r] = a], UNCHANGED <<cfg, jobs>>
    PROVE  /\ Count(a) \in 0 .. 2 /\ DOMAIN OutMap = Out
           /\ DOMAIN OutMap' = Out \cup {<<r, k>> : k \in 2 .. 1 + Count(a)}
           /\ \A k \in 2 .. 4 : <<r, k>> \notin Out
           /\ \A q \in Out : OutMap'[q] = OutMap[q]
           /\ \A k \in 2 .. 1 + Count(a) : OutMap'[<<r, k>>] = AskedFor(a, k)
<1>0. cfg \in Configs /\ a # Null /\ DOMAIN stream = Streams
  BY CallFacts DEF MainOK, StreamsOK
<1>1. Count(a) \in 0 .. 2 /\ Out' = Out \cup {<<r, k>> : k \in 2 .. 1 + Count(a)}
  BY OutAsk
<1>2. \A k \in 2 .. 4 : <<r, k>> \notin Out
  BY OutDone
<1>3. DOMAIN OutMap = Out /\ DOMAIN OutMap' = Out'
  BY DEF OutMap
<1>4. ASSUME NEW q \in Out PROVE OutMap'[q] = OutMap[q]
  <2>1. PICK s \in Streams, k \in 2 .. 4 : q = <<s, k>>
    BY DEF Out
  <2>2. s # r /\ stream'[s] = stream[s]
    BY <1>0, <1>2, <2>1
  <2>3. BufferOf(stream', jobs', s, k) = BufferOf(stream, jobs, s, k)
    BY <2>2 DEF BufferOf
  <2>4. OutMap[q] = BufferOf(stream, jobs, s, k)
    BY <2>1 DEF OutMap
  <2>5. q \in Out'
    BY <1>1
  <2>6. OutMap'[q] = BufferOf(stream', jobs', s, k)
    BY <2>1, <2>5 DEF OutMap
  <2> QED BY <2>3, <2>4, <2>6
<1>5. ASSUME NEW k \in 2 .. 1 + Count(a) PROVE OutMap'[<<r, k>>] = AskedFor(a, k)
  <2>1. <<r, k>> \in Out'
    BY <1>1
  <2>2. stream'[r] = a
    BY <1>0
  <2>3. BufferOf(stream', jobs', r, k) = AskedFor(a, k)
    BY <1>0, <2>2 DEF BufferOf
  <2>4. OutMap'[<<r, k>>] = BufferOf(stream', jobs', r, k)
    BY <2>1 DEF OutMap
  <2> QED BY <2>3, <2>4
<1> QED BY <1>1, <1>2, <1>3, <1>4, <1>5

(* What a stream held, its callback holds. *)
LEMMA OutMapNotify ==
    ASSUME MainOK, StreamsOK, NEW r \in Streams, stream[r] # Null, Notify(r), cfg' = cfg,
           Out' = Out, StreamsOK'
    PROVE  OutMap' = OutMap
<1>0. cfg \in Configs
  BY DEF MainOK
<1>1. stream[r] \in Asked /\ stream \in [Streams -> {Null} \cup Asked] /\ jobs \in Seq(Jobs)
  BY DEF StreamsOK
<1>2. PICK s \in Asked : s = stream[r]
  BY <1>1
<1>3. PICK job : job = Callback(r, s)
  OBVIOUS
<1>4. /\ job \in Jobs /\ job.res = r
      /\ \A k \in 2 .. 4 : k <= 1 + Count(s) => OpAt(job, k).buf = AskedFor(s, k)
  BY <1>0, <1>3, CallbackFacts, CallbackBuffers
<1>5. jobs' = Append(jobs, job) /\ stream' = [stream EXCEPT ![r] = Null]
  BY <1>2, <1>3 DEF Notify
<1>6. PICK n \in Nat : n = Len(jobs)
  BY <1>1
<1>7. /\ Len(jobs') = n + 1
      /\ \A i \in 1 .. n + 1 : jobs'[i] = IF i = n + 1 THEN job ELSE jobs[i]
  BY <1>1, <1>4, <1>5, <1>6, PoolPut
<1>8. \A i \in 1 .. Len(jobs') : /\ stream'[jobs'[i].res] = Null
                                 /\ \A m \in 1 .. Len(jobs') : jobs'[m].res = jobs'[i].res => m = i
  BY DEF StreamsOK
<1>9. \A i \in 1 .. n + 1, k \in 2 .. 4 :
         BufferOf(stream', jobs', jobs'[i].res, k) = OpAt(jobs'[i], k).buf
  <2>1. PICK st, js : st = stream' /\ js = jobs' /\ Len(js) = n + 1
    BY <1>7
  <2>2. ASSUME NEW i \in 1 .. Len(js), NEW k \in 2 .. 4
        PROVE  BufferOf(st, js, js[i].res, k) = OpAt(js[i], k).buf
    <3>1. st[js[i].res] = Null /\ \A m \in 1 .. Len(js) : js[m].res = js[i].res => m = i
      BY <1>8, <2>1
    <3>2. PICK r2 : r2 = js[i].res /\ st[r2] = Null /\ \A m \in 1 .. Len(js) : js[m].res = r2 => m = i
      BY <3>1
    <3>3. OwnerOf(js, r2) = i
      BY <3>2 DEF OwnerOf
    <3> QED BY <3>2, <3>3 DEF BufferOf
  <2> QED BY <2>1, <2>2
<1>10. /\ Out \subseteq Streams \X (2 .. 4)
       /\ \A t \in Streams, k \in 2 .. 4 : stream[t] # Null =>
             (<<t, k>> \in Out <=> k <= 1 + Count(stream[t]))
       /\ \A i \in 1 .. Len(jobs), k \in 2 .. 4 :
             BufferOf(stream, jobs, jobs[i].res, k) = OpAt(jobs[i], k).buf
       /\ \A t \in Streams, k \in 2 .. 4 : <<t, k>> \in Out /\ stream[t] = Null =>
             \E i \in 1 .. Len(jobs) : jobs[i].res = t
  BY OutMapIs
<1>11. ASSUME NEW t \in Streams, NEW k \in 2 .. 4, <<t, k>> \in Out
       PROVE  BufferOf(stream', jobs', t, k) = BufferOf(stream, jobs, t, k)
  <2>1. CASE t = r
    <3>1. k <= 1 + Count(s)
      BY <1>2, <1>10, <1>11, <2>1
    <3>2. BufferOf(stream, jobs, t, k) = AskedFor(s, k)
      BY <1>2, <2>1 DEF BufferOf
    <3>3. n + 1 \in 1 .. n + 1 /\ jobs'[n + 1] = job
      BY <1>7
    <3>4. BufferOf(stream', jobs', t, k) = OpAt(job, k).buf
      BY <3>3, <1>4, <1>9, <2>1
    <3> QED BY <3>1, <3>2, <3>4, <1>4
  <2>2. CASE t # r /\ stream[t] # Null
    <3>1. stream'[t] = stream[t]
      BY <1>1, <1>5, <2>2
    <3> QED BY <3>1, <2>2 DEF BufferOf
  <2>3. CASE t # r /\ stream[t] = Null
    <3>1. PICK i \in 1 .. n : jobs[i].res = t
      BY <1>6, <1>10, <1>11, <2>3
    <3>2. i \in 1 .. n + 1 /\ i # n + 1 /\ i \in 1 .. Len(jobs)
      BY <1>6
    <3>3. jobs'[i] = jobs[i]
      BY <1>7, <3>2
    <3>4. BufferOf(stream', jobs', t, k) = OpAt(jobs[i], k).buf
      BY <1>9, <3>1, <3>2, <3>3
    <3>5. BufferOf(stream, jobs, t, k) = OpAt(jobs[i], k).buf
      BY <1>10, <3>1, <3>2
    <3> QED BY <3>4, <3>5
  <2> QED BY <2>1, <2>2, <2>3
<1> QED BY <1>10, <1>11, SameOutMap

(* A callback gives back the buffer it comes to and keeps the others. *)
LEMMA OutMapRun ==
    ASSUME MainOK, StreamsOK, jobs # <<>>, UNCHANGED <<cfg, stream>>, StreamsOK', Out' \subseteq Out,
           NEW job, NEW op, job = Head(jobs), op = Head(job.ops),
           jobs' = IF Len(job.ops) = 1 THEN Tail(jobs) ELSE [jobs EXCEPT ![1].ops = Tail(@)]
    PROVE  /\ \A q \in Out' : OutMap'[q] = OutMap[q]
           /\ <<job.res, Len(job.ops)>> \in Out => OutMap[<<job.res, Len(job.ops)>>] = op.buf
<1>1. stream \in [Streams -> {Null} \cup Asked] /\ jobs \in Seq(Jobs) /\ jobs' \in Seq(Jobs')
  BY DEF StreamsOK
<1>2. PICK n \in Nat : n = Len(jobs) /\ n > 0 /\ job = jobs[1] /\ 1 \in 1 .. n
  BY <1>1, PoolHead
<1>3. PICK ops \in Seq(Ops) : ops = job.ops
  <2>1. job \in Jobs
    BY <1>1, <1>2
  <2> QED BY <2>1 DEF Jobs
<1>4. PICK L \in 1 .. 4 : L = Len(ops)
  <2>1. OpsOK(jobs[1].ops)
    BY <1>2 DEF StreamsOK
  <2> QED BY <1>2, <1>3, <2>1 DEF OpsOK
<1>5. op = ops[1] /\ ops # <<>>
  <2>1. ops # <<>>
    BY <1>4
  <2> QED BY <2>1, <1>3, PoolHead
<1>6. /\ DOMAIN OutMap = Out /\ Out \subseteq Streams \X (2 .. 4)
      /\ \A r \in Streams, k \in 2 .. 4 :
            <<r, k>> \in Out => OutMap[<<r, k>>] = BufferOf(stream, jobs, r, k)
      /\ \A i \in 1 .. Len(jobs), k \in 2 .. 4 :
            BufferOf(stream, jobs, jobs[i].res, k) = OpAt(jobs[i], k).buf
  BY OutMapIs
<1>7. <<job.res, L>> \in Out => OutMap[<<job.res, L>>] = op.buf
  <2> HAVE <<job.res, L>> \in Out
  <2>1. job.res \in Streams /\ L \in 2 .. 4
    BY <1>6
  <2>2. OutMap[<<job.res, L>>] = BufferOf(stream, jobs, job.res, L)
    BY <1>6, <2>1
  <2>3. BufferOf(stream, jobs, job.res, L) = OpAt(job, L).buf
    BY <1>2, <1>6, <2>1
  <2>4. OpAt(job, L) = ops[1]
    BY <1>3, <1>4 DEF OpAt
  <2> QED BY <2>2, <2>3, <2>4, <1>5
<1>8. \A i \in 1 .. Len(jobs') : /\ stream'[jobs'[i].res] = Null
                                 /\ \A m \in 1 .. Len(jobs') : jobs'[m].res = jobs'[i].res => m = i
  BY DEF StreamsOK
<1>9. \A i \in 1 .. Len(jobs'), k \in 2 .. 4 :
         BufferOf(stream', jobs', jobs'[i].res, k) = OpAt(jobs'[i], k).buf
  <2>0. Len(jobs') \in Nat
    BY <1>1
  <2>1. PICK st, js : st = stream' /\ js = jobs'
    BY <2>0
  <2>2. ASSUME NEW i \in 1 .. Len(js), NEW k \in 2 .. 4
        PROVE  BufferOf(st, js, js[i].res, k) = OpAt(js[i], k).buf
    <3>1. st[js[i].res] = Null /\ \A m \in 1 .. Len(js) : js[m].res = js[i].res => m = i
      BY <1>8, <2>1
    <3>2. PICK r2 : r2 = js[i].res /\ st[r2] = Null /\ \A m \in 1 .. Len(js) : js[m].res = r2 => m = i
      BY <3>1
    <3>3. OwnerOf(js, r2) = i
      BY <3>2 DEF OwnerOf
    <3> QED BY <3>2, <3>3 DEF BufferOf
  <2>3. PICK l \in Nat : l = Len(js) /\ l = Len(jobs')
    BY <2>0, <2>1
  <2>4. \A i \in 1 .. l, k \in 2 .. 4 : BufferOf(st, js, js[i].res, k) = OpAt(js[i], k).buf
    BY <2>2, <2>3
  <2>5. \A i \in 1 .. l, k \in 2 .. 4 :
           BufferOf(stream', jobs', jobs'[i].res, k) = OpAt(jobs'[i], k).buf
    BY <2>1, <2>4
  <2> QED BY <2>3, <2>5
<1>10. ASSUME NEW t \in Streams, NEW k \in 2 .. 4, <<t, k>> \in Out'
       PROVE  BufferOf(stream', jobs', t, k) = BufferOf(stream, jobs, t, k)
  <2>1. CASE stream[t] # Null
    BY <2>1 DEF BufferOf
  <2>2. CASE stream[t] = Null
    <3>1. PICK i \in 1 .. Len(jobs') : jobs'[i].res = t /\ InJob(jobs'[i], k)
      BY <1>10, <2>2 DEF Out, InStream, InJobs, InJob
    <3>2. BufferOf(stream', jobs', t, k) = OpAt(jobs'[i], k).buf
      BY <1>9, <3>1
    <3>3. \E m \in 1 .. n : jobs[m].res = t /\ OpAt(jobs[m], k) = OpAt(jobs'[i], k)
      <4>1. CASE L = 1
        <5>1. jobs' = Tail(jobs)
          BY <1>3, <1>4, <4>1
        <5>2. i + 1 \in 1 .. n /\ jobs'[i] = jobs[i + 1]
          BY <1>1, <1>2, <3>1, <5>1, PoolHead
        <5> QED BY <3>1, <5>2
      <4>2. CASE L # 1
        <5>1. jobs' = [jobs EXCEPT ![1].ops = Tail(@)]
          BY <1>3, <1>4, <4>2
        <5>2. Len(jobs') = n /\ \A m \in 1 .. n : m # 1 => jobs'[m] = jobs[m]
          BY <1>1, <1>2, <5>1
        <5>3. CASE i # 1
          BY <3>1, <5>2, <5>3
        <5>4. CASE i = 1
          <6>1. jobs'[1] = [job EXCEPT !.ops = Tail(@)]
            <7>1. PICK job1 : job1 = [job EXCEPT !.ops = Tail(@)]
              OBVIOUS
            <7>4. 1 \in DOMAIN jobs
              BY <1>1, <1>2
            <7>2. job1 = [job EXCEPT !.ops = Tail(@)] /\ 1 \in DOMAIN jobs
              BY <7>1, <7>4
            <7>3. jobs' = [jobs EXCEPT ![1] = job1]
              BY <1>1, <1>2, <5>1, <7>2
            <7> QED BY <7>2, <7>3
          <6>0. job \in Jobs
            BY <1>1, <1>2
          <6>2. jobs'[1].res = job.res /\ jobs'[1].ops = Tail(ops)
            BY <1>3, <6>0, <6>1 DEF Jobs
          <6>3. /\ Len(Tail(ops)) = L - 1
                /\ \A m \in 1 .. L - 1 : Tail(ops)[m] = ops[m + 1]
            BY <1>4, <1>5, PoolHead
          <6>4. k <= L - 1
            BY <3>1, <5>4, <6>2, <6>3 DEF InJob
          <6>5. (L - 1) + 1 - k \in 1 .. L - 1 /\ ((L - 1) + 1 - k) + 1 = L + 1 - k
            BY <6>4
          <6>6. OpAt(jobs'[1], k) = ops[L + 1 - k]
            BY <6>2, <6>3, <6>5 DEF OpAt
          <6>7. OpAt(job, k) = ops[L + 1 - k]
            BY <1>3, <1>4 DEF OpAt
          <6> QED BY <1>2, <3>1, <5>4, <6>2, <6>6, <6>7
        <5> QED BY <5>3, <5>4
      <4> QED BY <4>1, <4>2
    <3>4. PICK m \in 1 .. n : jobs[m].res = t /\ OpAt(jobs[m], k) = OpAt(jobs'[i], k)
      BY <3>3
    <3>5. BufferOf(stream, jobs, t, k) = OpAt(jobs[m], k).buf
      BY <1>2, <1>6, <3>4
    <3> QED BY <3>2, <3>4, <3>5
  <2> QED BY <2>1, <2>2
<1>11. ASSUME NEW q \in Out' PROVE OutMap'[q] = OutMap[q]
  <2>1. PICK t \in Streams, k \in 2 .. 4 : q = <<t, k>> /\ q \in Out
    BY <1>6
  <2>2. OutMap[q] = BufferOf(stream, jobs, t, k)
    BY <1>6, <2>1
  <2>3. OutMap'[q] = BufferOf(stream', jobs', t, k)
    BY <2>1 DEF OutMap
  <2> QED BY <2>1, <2>2, <2>3, <1>10
<1> QED BY <1>3, <1>4, <1>7, <1>11

-----------------------------------------------------------------------------
(* Bundles the writers have; no two of them have the same one. *)
Writing == {writer[w].object : w \in Busy}
WritersApart == \A v, w \in Busy : writer[v].object = writer[w].object => v = w

Own == OwnOK(Disk, Writing, OutMap) /\ WritersApart

(* What counts are the places and what is there. *)
LEMMA OwnSamePlaces ==
    ASSUME NEW d, NEW W, NEW g, OwnOK(d, W, g), NEW h, DOMAIN h = DOMAIN g,
           \A q \in DOMAIN g : h[q] = g[q]
    PROVE  OwnOK(d, W, h)
<1>1. PICK at : Located(d, W, at) /\ Owned(Kept(d, at), g)
  BY DEF OwnOK
<1>2. PICK f : f = Kept(d, at)
  OBVIOUS
<1>3. Owned(f, h)
  BY <1>1, <1>2 DEF Owned
<1> QED BY <1>1, <1>2, <1>3 DEF OwnOK

(* Ownership after a step *)
LEMMA NewOwn ==
    ASSUME cfg' = cfg, NEW d, d = Disk', NEW W, W = Writing', NEW g, g = OutMap', OwnOK(d, W, g)
    PROVE  OwnOK(Disk, Writing, OutMap)'
<1>1. PICK at : Located(d, W, at) /\ Owned(Kept(d, at), g)
  BY DEF OwnOK
<1>2. Objects' = Objects /\ Slot' = Slot /\ BufferIds' = BufferIds
  BY DEF Objects, Slot, BufferIds
<1>3. Located(Disk, Writing, at)'
  BY <1>1, <1>2 DEF Located
<1>4. Kept(Disk, at)' = Kept(d, at)
  BY <1>2 DEF Kept, Keeps
<1>5. Owned(Kept(Disk, at), OutMap)'
  BY <1>1, <1>2, <1>4 DEF Owned
<1> QED BY <1>3, <1>5 DEF OwnOK

LEMMA OwnNewDisk ==
    ASSUME Own, UNCHANGED <<cfg, writer>>, NEW e \in DiskType,
           bundles' = e.bundles, pools' = e.pools, batcher' = e.batcher,
           NEW g, g = OutMap', OwnOK(e, Writing, g)
    PROVE  Own'
<1>1. Busy' = Busy
  BY DEF Busy
<1>2. Writing' = Writing
  BY <1>1 DEF Writing
<1>3. WritersApart'
  BY <1>1 DEF Own, WritersApart
<1>4. PICK d : d = e
  OBVIOUS
<1>5. d = Disk'
  BY <1>4 DEF Disk, DiskType
<1>6. PICK W : W = Writing /\ W = Writing'
  BY <1>2
<1>7. OwnOK(d, W, g)
  BY <1>4, <1>6
<1>8. OwnOK(Disk, Writing, OutMap)'
  BY <1>5, <1>6, <1>7, NewOwn
<1> QED BY <1>3, <1>8 DEF Own

LEMMA OutMapStays ==
    ASSUME UNCHANGED <<cfg, stream, jobs>>
    PROVE  Out' = Out /\ OutMap' = OutMap
<1>1. Streams' = Streams
  BY DEF Streams, StreamCount
<1>2. Out' = Out
  BY <1>1 DEF Out, InStream, InJobs, InJob, Count
<1>3. OutMap' = OutMap
  BY <1>2 DEF OutMap, BufferOf, OwnerOf, OpAt, AskedFor
<1> QED BY <1>2, <1>3

(* Steps that move no bundle and no buffer *)
LEMMA OwnQuiet ==
    ASSUME IInv, Alive, Own, UNCHANGED <<cfg, stream, jobs, bundles, pools, batcher, writer>>
    PROVE  Own'
<1>3. OutMap' = OutMap
  BY OutMapStays
<1>4. PICK d : d = Disk
  OBVIOUS
<1>5. d \in DiskType /\ d.bundles = bundles /\ d.pools = pools /\ d.batcher = batcher
  BY <1>4, DiskIs DEF IInv, DiskOK
<1>6. PICK g : g = OutMap /\ g = OutMap'
  BY <1>3
<1>7. OwnOK(d, Writing, g)
  BY <1>4, <1>6 DEF Own
<1> QED BY <1>5, <1>6, <1>7, OwnNewDisk

(* DATA_WAIT has its buffer in hand for a moment. *)
LEMMA OwnWaitData ==
    ASSUME IInv, Own, NEW r \in Streams, WaitData(r)
    PROVE  Own'
<1>0. MainOK /\ StreamsOK /\ mpc = "loop"
  BY DEF IInv, WaitData, At
<1>2. PICK d : d = Disk
  OBVIOUS
<1>3. cfg \in Configs /\ GoodDisk(d) /\ d \in DiskType
      /\ Places(d) + d.batcher.iu \in Nat
  BY <1>0, <1>2, WorkFacts
<1>4. Available(d) \in Int /\ Available(d) >= 1
  <2>1. BatcherSize >= 1
    BY DEF WaitData, DataReady
  <2> QED BY <1>2, <1>3, <2>1, SizeMeans
<1>5. PICK e, buf : e = Dequeue(d).disk /\ buf = Dequeue(d).buf
  OBVIOUS
<1>6. buf \in BufferIds /\ GoodDisk(e) /\ e \in DiskType
  BY <1>3, <1>4, <1>5, TakeOne
<1>7. PICK f : f = Bundle(e, buf)
  OBVIOUS
<1>8. CanBundle(e) /\ SetDisk(f)
  BY <1>2, <1>5, <1>7 DEF WaitData
<1>9. f \in DiskType
  <2>1. GoodDisk(f)
    BY <1>3, <1>6, <1>7, <1>8, BundleEffect
  <2> QED BY <2>1 DEF GoodDisk
<1>10. UNCHANGED <<cfg, stream, jobs, writer>>
  BY DEF WaitData, VisitFrame, gpuVars
<1>11. OutMap' = OutMap
  BY <1>10, OutMapStays
<1>12. PICK g, W : g = OutMap /\ g = OutMap' /\ W = Writing
  BY <1>11
<1>13. PICK c : c = <<0, 1>>
  OBVIOUS
<1>14. DOMAIN g = Out /\ c \notin DOMAIN g
  <2>1. DOMAIN g = Out /\ Out \subseteq Streams \X (2 .. 4)
    BY <1>0, <1>12, OutMapIs
  <2>2. c \notin Streams \X (2 .. 4)
    BY <1>13
  <2> QED BY <2>1, <2>2
<1>15. PICK h : h = [q \in DOMAIN g \cup {c} |-> IF q = c THEN buf ELSE g[q]]
  OBVIOUS
<1>16. DOMAIN h = DOMAIN g \cup {c} /\ h[c] = buf /\ \A q \in DOMAIN g : h[q] = g[q]
  BY <1>14, <1>15
<1>17. OwnOK(d, W, g)
  BY <1>2, <1>12 DEF Own
<1>18. OwnOK(e, W, h)
  BY <1>3, <1>4, <1>5, <1>14, <1>16, <1>17, TakeOwned
<1>19. OwnOK(f, W, g)
  <2>1. c \in DOMAIN h /\ h[c] = buf /\ DOMAIN g = DOMAIN h \ {c} /\ \A q \in DOMAIN g : g[q] = h[q]
    BY <1>14, <1>16
  <2> QED BY <1>3, <1>6, <1>7, <1>8, <1>18, <2>1, PutOwned
<1>20. bundles' = f.bundles /\ pools' = f.pools /\ batcher' = f.batcher
  BY <1>8 DEF SetDisk
<1>21. OwnOK(f, Writing, g)
  BY <1>12, <1>19
<1>22. g = OutMap'
  BY <1>12
<1> QED BY <1>9, <1>10, <1>20, <1>21, <1>22, OwnNewDisk

(* From d to e, buffer x was drawn, or none. *)
Drawn(d, x, e) == \/ Available(d) >= 1 /\ x = Dequeue(d).buf /\ e = Dequeue(d).disk
                  \/ x = Null /\ e = d

LEMMA DrawnNone ==
    ASSUME cfg \in Configs, NEW d \in DiskType, GoodDisk(d), NEW e, Drawn(d, Null, e)
    PROVE  e = d
<1>1. Null \notin BufferIds
  BY CallFacts
<1> QED BY <1>1, DequeueEffect DEF Drawn

LEMMA DrawnOwned ==
    ASSUME cfg \in Configs, NEW d \in DiskType, GoodDisk(d), NEW x, x # Null, NEW e, Drawn(d, x, e),
           NEW W, NEW g, OwnOK(d, W, g), NEW c, c \notin DOMAIN g, NEW h, DOMAIN h = DOMAIN g \cup {c},
           \A q \in DOMAIN g : h[q] = g[q], h[c] = x
    PROVE  OwnOK(e, W, h)
<1>1. Available(d) >= 1 /\ x = Dequeue(d).buf /\ e = Dequeue(d).disk
  BY DEF Drawn
<1>2. h[c] = Dequeue(d).buf
  BY <1>1
<1> QED BY <1>1, <1>2, TakeOwned

(* A stream is given up to two buffers. *)
LEMMA OwnAsk ==
    ASSUME IInv, Own, mpc = "loop", NEW r \in Streams, res[r].done,
           NEW a \in Asked, stream' = [stream EXCEPT ![r] = a], UNCHANGED <<cfg, jobs, writer>>,
           NEW d, OwnOK(d, Writing, OutMap), GoodDisk(d), NEW e, GoodDisk(e), NEW f \in DiskType, SetDisk(f),
           Drawn(d, a.c, e), Drawn(e, a.r, f)
    PROVE  Own'
<1>0. MainOK /\ StreamsOK /\ cfg \in Configs /\ d \in DiskType /\ e \in DiskType
  BY DEF IInv, MainOK, GoodDisk
<1>1. PICK g, h, W : g = OutMap /\ h = OutMap' /\ W = Writing
  OBVIOUS
<1>2. /\ Count(a) \in 0 .. 2 /\ DOMAIN g = Out
      /\ DOMAIN h = DOMAIN g \cup {<<r, k>> : k \in 2 .. 1 + Count(a)}
      /\ \A k \in 2 .. 4 : <<r, k>> \notin DOMAIN g
      /\ \A q \in DOMAIN g : h[q] = g[q]
      /\ \A k \in 2 .. 1 + Count(a) : h[<<r, k>>] = AskedFor(a, k)
  BY <1>0, <1>1, OutMapAsk
<1>3. OwnOK(d, W, g)
  BY <1>1
<1>4. (a.c = Null => e = d) /\ (a.r = Null => f = e)
  BY <1>0, DrawnNone
<1>9. OwnOK(f, W, h)
  <2>1. CASE a.c = Null /\ a.r = Null
    <3>1. Count(a) = 0
      BY <2>1 DEF Count, One
    <3>2. DOMAIN h = DOMAIN g
      BY <1>2, <3>1
    <3>3. f = d
      BY <1>4, <2>1
    <3> QED BY <1>2, <1>3, <3>2, <3>3, OwnSamePlaces
  <2>2. CASE a.c # Null /\ a.r = Null
    <3>1. Count(a) = 1 /\ AskedFor(a, 2) = a.c
      BY <2>2 DEF Count, One, AskedFor
    <3>2. PICK c : c = <<r, 2>>
      OBVIOUS
    <3>3. DOMAIN h = DOMAIN g \cup {c} /\ h[c] = a.c /\ c \notin DOMAIN g
      BY <1>2, <3>1, <3>2
    <3>4. OwnOK(e, W, h)
      BY <1>0, <1>2, <1>3, <2>2, <3>3, DrawnOwned
    <3> QED BY <1>4, <2>2, <3>4
  <2>3. CASE a.c = Null /\ a.r # Null
    <3>1. Count(a) = 1 /\ AskedFor(a, 2) = a.r
      BY <2>3 DEF Count, One, AskedFor
    <3>2. PICK c : c = <<r, 2>>
      OBVIOUS
    <3>3. DOMAIN h = DOMAIN g \cup {c} /\ h[c] = a.r /\ c \notin DOMAIN g
      BY <1>2, <3>1, <3>2
    <3>4. OwnOK(e, W, g)
      BY <1>3, <1>4, <2>3
    <3> QED BY <1>0, <1>2, <2>3, <3>3, <3>4, DrawnOwned
  <2>4. CASE a.c # Null /\ a.r # Null
    <3>1. Count(a) = 2 /\ AskedFor(a, 2) = a.r /\ AskedFor(a, 3) = a.c
      BY <2>4 DEF Count, One, AskedFor
    <3>2. PICK c, k : c = <<r, 3>> /\ k = <<r, 2>>
      OBVIOUS
    <3>3. /\ DOMAIN h = DOMAIN g \cup {c, k} /\ h[c] = a.c /\ h[k] = a.r
          /\ c \notin DOMAIN g /\ k \notin DOMAIN g /\ c # k
      BY <1>2, <3>1, <3>2
    <3>4. PICK m : m = [q \in DOMAIN g \cup {c} |-> IF q = c THEN a.c ELSE g[q]]
      OBVIOUS
    <3>5. DOMAIN m = DOMAIN g \cup {c} /\ m[c] = a.c /\ \A q \in DOMAIN g : m[q] = g[q]
      BY <3>3, <3>4
    <3>6. OwnOK(e, W, m)
      BY <1>0, <1>3, <2>4, <3>3, <3>5, DrawnOwned
    <3>7. DOMAIN h = DOMAIN m \cup {k} /\ k \notin DOMAIN m /\ \A q \in DOMAIN m : h[q] = m[q]
      BY <1>2, <3>3, <3>5
    <3> QED BY <1>0, <2>4, <3>3, <3>6, <3>7, DrawnOwned
  <2> QED BY <2>1, <2>2, <2>3, <2>4
<1>10. bundles' = f.bundles /\ pools' = f.pools /\ batcher' = f.batcher
  BY DEF SetDisk
<1>11. OwnOK(f, Writing, h) /\ h = OutMap'
  BY <1>1, <1>9
<1> QED BY <1>10, <1>11, OwnNewDisk

LEMMA OwnHashColumn ==
    ASSUME IInv, Own, NEW r \in Streams, HashColumn(r) \/ HashColumnLeaves(r)
    PROVE  Own'
<1>0. MainOK /\ StreamsOK /\ mpc = "loop"
  BY DEF IInv, HashColumn, HashColumnLeaves, At
<1>2. PICK d : d = Disk
  OBVIOUS
<1>3. /\ cfg \in Configs /\ GoodDisk(d)
      /\ Places(d) + d.batcher.iu \in Nat
  BY <1>0, <1>2, WorkFacts
<1>4. PICK take \in BOOLEAN : take = (HashColumn(r) \/ ~cfg.rOnly)
  OBVIOUS
<1>5. /\ res[r].done /\ (take => BatcherSize >= 1)
      /\ UNCHANGED <<cfg, jobs, writer>>
  <2>1. CASE HashColumn(r)
    BY <1>0, <2>1 DEF HashColumn, At, VisitFrame, MainOK, Waiting
  <2>2. CASE HashColumnLeaves(r) /\ ~HashColumn(r)
    BY <1>4, <2>2 DEF HashColumnLeaves, LeavesReady, VisitFrame
  <2> QED BY <2>1, <2>2
<1>6. PICK e, buf : /\ take => buf = Dequeue(d).buf /\ e = Dequeue(d).disk
                    /\ ~take => buf = Null /\ e = d
  OBVIOUS
<1>7. SetDisk(e) /\ \E k \in Kinds : stream' = [stream EXCEPT ![r] = [kind |-> k, c |-> buf, r |-> Null]]
  <2>1. CASE HashColumn(r)
    BY <1>2, <1>4, <1>6, <2>1 DEF HashColumn, Kinds
  <2>2. CASE HashColumnLeaves(r) /\ ~HashColumn(r)
    BY <1>2, <1>4, <1>6, <2>2 DEF HashColumnLeaves, Kinds
  <2> QED BY <2>1, <2>2
<1>8. PICK k \in Kinds : stream' = [stream EXCEPT ![r] = [kind |-> k, c |-> buf, r |-> Null]]
  BY <1>7
<1>9. PICK a : a = [kind |-> k, c |-> buf, r |-> Null] /\ stream' = [stream EXCEPT ![r] = a]
  BY <1>8
<1>10. Available(d) \in Int /\ (take => Available(d) >= 1)
  <2>1. Available(d) \in Int /\ (BatcherSize >= 1 => Available(d) >= 1)
    BY <1>2, <1>3, SizeMeans
  <2> QED BY <2>1, <1>5
<1>11. \/ Available(d) >= 1 /\ buf = Dequeue(d).buf /\ e = Dequeue(d).disk
       \/ buf = Null /\ e = d
  BY <1>6, <1>10
<1>12. buf \in BufferIds \cup {Null} /\ GoodDisk(e) /\ e \in DiskType
  <2>1. Places(d) + d.batcher.iu \in Int
    BY <1>3
  <2> QED BY <1>3, <1>10, <1>11, <2>1, MaybeTake
<1>13. a \in Asked /\ a.c = buf /\ a.r = Null
  BY <1>9, <1>12 DEF Asked
<1>14. OwnOK(d, Writing, OutMap)
  BY <1>2 DEF Own
<1>15. Drawn(d, a.c, e) /\ Drawn(e, a.r, e)
  BY <1>11, <1>13 DEF Drawn
<1>16. stream' = [stream EXCEPT ![r] = a] /\ SetDisk(e)
  BY <1>7, <1>9
<1> QED BY <1>0, <1>3, <1>5, <1>12, <1>13, <1>14, <1>15, <1>16, OwnAsk

LEMMA OwnHashLeaf ==
    ASSUME IInv, Own, NEW r \in Streams, HashLeaf(r)
    PROVE  Own'
<1>0. MainOK /\ StreamsOK /\ mpc = "loop"
  BY DEF IInv, HashLeaf, At
<1>2. PICK d : d = Disk
  OBVIOUS
<1>3. /\ cfg \in Configs /\ GoodDisk(d)
      /\ Places(d) + d.batcher.iu \in Nat
  BY <1>0, <1>2, WorkFacts
<1>4. /\ res[r].done /\ BatcherSize >= LeafBuffers(r)
      /\ UNCHANGED <<cfg, jobs, writer>>
  BY <1>0 DEF HashLeaf, LeafReady, At, VisitFrame, MainOK, Waiting
<1>6. PICK gotC : gotC = IF cfg.rOnly THEN [buf |-> Null, disk |-> d] ELSE Dequeue(d)
  OBVIOUS
<1>7. PICK e, bc : bc = gotC.buf /\ e = gotC.disk
  OBVIOUS
<1>8. PICK gotR : gotR = IF WritesR(r) THEN Dequeue(e) ELSE [buf |-> Null, disk |-> e]
  OBVIOUS
<1>9. PICK f, br : br = gotR.buf /\ f = gotR.disk
  OBVIOUS
<1>10. SetDisk(f) /\ stream' = [stream EXCEPT ![r] = [kind |-> "inner", c |-> bc, r |-> br]]
  <2>1. [[buf |-> Null, disk |-> d] EXCEPT !.disk = e] = [buf |-> Null, disk |-> e]
    OBVIOUS
  <2> QED BY <1>2, <1>6, <1>7, <1>8, <1>9, <2>1 DEF HashLeaf
<1>11. Available(d) \in Int /\ Available(d) >= LeafBuffers(r)
  <2>1. LeafBuffers(r) \in Nat
    BY DEF LeafBuffers
  <2> QED BY <1>2, <1>3, <1>4, <2>1, SizeMeans
<1>12. /\ ~cfg.rOnly => Available(d) >= 1
       /\ ~cfg.rOnly /\ WritesR(r) => Available(d) >= 2
       /\ WritesR(r) => Available(d) >= 1
  BY <1>11 DEF LeafBuffers
<1>13. \/ Available(d) >= 1 /\ bc = Dequeue(d).buf /\ e = Dequeue(d).disk
       \/ bc = Null /\ e = d
  BY <1>6, <1>7, <1>12
<1>14. /\ bc \in BufferIds \cup {Null} /\ One(bc) \in 0 .. 1
       /\ GoodDisk(e) /\ e \in DiskType
       /\ Places(e) + e.batcher.iu = (Places(d) + d.batcher.iu) + One(bc)
       /\ Available(e) = Available(d) - One(bc)
  <2>1. Places(d) + d.batcher.iu \in Int
    BY <1>3
  <2> QED BY <1>3, <1>11, <1>13, <2>1, MaybeTake
<1>15. Available(e) \in Int /\ (WritesR(r) => Available(e) >= 1)
  <2>1. cfg.rOnly => One(bc) = 0
    BY <1>6, <1>7 DEF One
  <2> QED BY <1>11, <1>12, <1>14, <2>1
<1>16. \/ Available(e) >= 1 /\ br = Dequeue(e).buf /\ f = Dequeue(e).disk
       \/ br = Null /\ f = e
  BY <1>8, <1>9, <1>15
<1>17. br \in BufferIds \cup {Null} /\ f \in DiskType
  <2>1. Places(e) + e.batcher.iu \in Int
    BY <1>3, <1>14
  <2> QED BY <1>3, <1>14, <1>15, <1>16, <2>1, MaybeTake
<1>18. PICK a : a = [kind |-> "inner", c |-> bc, r |-> br] /\ stream' = [stream EXCEPT ![r] = a]
  BY <1>10
<1>19. a \in Asked /\ a.c = bc /\ a.r = br
  BY <1>14, <1>17, <1>18 DEF Asked, Kinds
<1>20. OwnOK(d, Writing, OutMap)
  BY <1>2 DEF Own
<1>21. Drawn(d, a.c, e)
  BY <1>13, <1>19 DEF Drawn
<1>22. Drawn(e, a.r, f)
  BY <1>16, <1>19 DEF Drawn
<1>23. stream' = [stream EXCEPT ![r] = a] /\ SetDisk(f)
  BY <1>10, <1>18
<1> QED BY <1>0, <1>3, <1>4, <1>14, <1>17, <1>19, <1>20, <1>21, <1>22, <1>23, OwnAsk

(* A stream that is done moves no buffer. *)
LEMMA OwnGpu ==
    ASSUME IInv, Own, NEW r \in Streams, Gpu(r)
    PROVE  Own'
<1>0. MainOK /\ StreamsOK
  BY DEF IInv
<1>1. /\ cfg' = cfg /\ stream[r] # Null /\ Notify(r) /\ DOMAIN res' = Streams
      /\ \A s \in Streams : res'[s].done = res[s].done
      /\ UNCHANGED <<mpc, bundles, pools, batcher, writer>>
  BY <1>0, MainKeepsGpu
<1>2. Out' = Out /\ StreamsOK'
  BY <1>0, <1>1, OutNotify
<1>3. OutMap' = OutMap
  BY <1>0, <1>1, <1>2, OutMapNotify
<1>4. mpc \in {"loop", "load"}
  <2>1. ~res[r].done
    BY <1>0, <1>1 DEF StreamsOK
  <2> QED BY <1>0, <2>1 DEF MainOK
<1>5. PICK d : d = Disk
  OBVIOUS
<1>6. d \in DiskType /\ d.bundles = bundles /\ d.pools = pools /\ d.batcher = batcher
  BY <1>4, <1>5, WorkFacts
<1>7. PICK g : g = OutMap /\ g = OutMap'
  BY <1>3
<1>8. OwnOK(d, Writing, g)
  BY <1>5, <1>7 DEF Own
<1>9. bundles' = d.bundles /\ pools' = d.pools /\ batcher' = d.batcher
  BY <1>1, <1>6
<1>10. UNCHANGED <<cfg, writer>> /\ g = OutMap'
  BY <1>1, <1>7
<1> QED BY <1>6, <1>8, <1>9, <1>10, OwnNewDisk

(* A callback puts a buffer back into a bundle, or moves none. *)
LEMMA OwnRunCallback ==
    ASSUME IInv, Own, RunCallback
    PROVE  Own'
<1>0. MainOK /\ StreamsOK
  BY DEF IInv
<1>1. PICK job, op : job = Head(jobs) /\ op = Head(job.ops)
  OBVIOUS
<1>2. jobs # <<>> /\ jobs' = IF Len(job.ops) = 1 THEN Tail(jobs) ELSE [jobs EXCEPT ![1].ops = Tail(@)]
  BY <1>1 DEF RunCallback
<1>3. job.res \in Streams
  <2>1. jobs \in Seq(Jobs)
    BY <1>0 DEF StreamsOK
  <2>2. job \in Jobs
    BY <1>1, <1>2, <2>1, PoolHead
  <2> QED BY <2>2 DEF Jobs
<1>4. /\ cfg' = cfg /\ stream' = stream /\ DOMAIN res' = Streams
      /\ \A s \in Streams :
            res'[s].done = IF op.op = "done" /\ s = job.res THEN TRUE ELSE res[s].done
      /\ UNCHANGED <<mpc, writer>>
  BY <1>0, <1>1, <1>3, MainKeepsRun, ZenonT(40)
<1>5. PICK c : c = <<job.res, Len(job.ops)>>
  OBVIOUS
<1>6. /\ op \in Ops /\ ~res[job.res].done
      /\ op.op = "bundle" => c \in Out /\ Out' = Out \ {c}
      /\ op.op # "bundle" => Out' = Out
      /\ StreamsOK'
  <2>1. UNCHANGED <<cfg, stream>> /\ DOMAIN res' = Streams
    BY <1>4
  <2>2. \A s \in Streams : res'[s].done = IF op.op = "done" /\ s = job.res THEN TRUE ELSE res[s].done
    BY <1>4
  <2>3. job = Head(jobs) /\ op = Head(job.ops)
    BY <1>1
  <2> QED BY <1>0, <1>2, <1>5, <2>1, <2>2, <2>3, OutRun, ZenonT(40)
<1>7. PICK g, h : g = OutMap /\ h = OutMap' /\ DOMAIN g = Out /\ DOMAIN h = Out'
  <2>1. DOMAIN OutMap = Out /\ DOMAIN OutMap' = Out'
    BY DEF OutMap
  <2> QED BY <2>1
<1>8. (\A q \in DOMAIN h : h[q] = g[q]) /\ (c \in Out => g[c] = op.buf)
  <2>1. UNCHANGED <<cfg, stream>> /\ Out' \subseteq Out
    BY <1>4, <1>6
  <2>2. job = Head(jobs) /\ op = Head(job.ops)
    BY <1>1
  <2>3. /\ \A q \in Out' : OutMap'[q] = OutMap[q]
        /\ <<job.res, Len(job.ops)>> \in Out => OutMap[<<job.res, Len(job.ops)>>] = op.buf
    BY <1>0, <1>2, <1>6, <2>1, <2>2, OutMapRun
  <2> QED BY <1>5, <1>7, <2>3
<1>9. mpc \in {"loop", "load"}
  BY <1>0, <1>3, <1>6 DEF MainOK
<1>10. PICK d : d = Disk
  OBVIOUS
<1>11. /\ cfg \in Configs /\ GoodDisk(d) /\ d \in DiskType
       /\ d.bundles = bundles /\ d.pools = pools /\ d.batcher = batcher
  BY <1>9, <1>10, WorkFacts
<1>12. PICK W : W = Writing
  OBVIOUS
<1>13. OwnOK(d, W, g)
  BY <1>7, <1>10, <1>12 DEF Own
<1>14. CASE op.op # "bundle"
  <2>1. UNCHANGED <<bundles, pools, batcher>>
    BY <1>1, <1>14 DEF RunCallback
  <2>2. OwnOK(d, W, h)
    BY <1>6, <1>7, <1>8, <1>13, <1>14, OwnSamePlaces
  <2>3. OwnOK(d, Writing, h) /\ h = OutMap' /\ UNCHANGED <<cfg, writer>>
    BY <1>4, <1>7, <1>12, <2>2
  <2>4. bundles' = d.bundles /\ pools' = d.pools /\ batcher' = d.batcher
    BY <1>11, <2>1
  <2> QED BY <1>11, <2>3, <2>4, OwnNewDisk
<1>15. CASE op.op = "bundle"
  <2>1. op.buf \in BufferIds
    BY <1>6, <1>15 DEF Ops
  <2>2. PICK buf \in BufferIds : buf = op.buf
    BY <2>1
  <2>3. PICK e : e = Bundle(d, buf)
    OBVIOUS
  <2>4. CanBundle(d) /\ SetDisk(e)
    BY <1>1, <1>10, <1>15, <2>2, <2>3 DEF RunCallback
  <2>5. e \in DiskType
    <3>1. GoodDisk(e)
      BY <1>11, <2>3, <2>4, BundleEffect
    <3> QED BY <3>1 DEF GoodDisk
  <2>6. c \in DOMAIN g /\ g[c] = buf /\ DOMAIN h = DOMAIN g \ {c}
    BY <1>6, <1>7, <1>8, <1>15, <2>2
  <2>7. OwnOK(e, W, h)
    BY <1>8, <1>11, <1>13, <2>3, <2>4, <2>6, PutOwned
  <2>8. OwnOK(e, Writing, h) /\ h = OutMap' /\ UNCHANGED <<cfg, writer>>
    BY <1>4, <1>7, <1>12, <2>7
  <2>9. bundles' = e.bundles /\ pools' = e.pools /\ batcher' = e.batcher
    BY <2>4 DEF SetDisk
  <2> QED BY <2>5, <2>8, <2>9, OwnNewDisk
<1> QED BY <1>14, <1>15

-----------------------------------------------------------------------------
(* Bundles change places; what they keep stays the same. *)
LEMMA OwnMoved ==
    ASSUME NEW d, NEW e, e.bundles = d.bundles, NEW W, NEW g, NEW at, NEW to,
           Owned(Kept(d, at), g), Located(e, W, to),
           \A o \in Objects, j \in Slot : Keeps(to, e.batcher, o, j) <=> Keeps(at, d.batcher, o, j)
    PROVE  OwnOK(e, W, g)
<1>1. \A p \in Objects \X Slot :
         Keeps(to, e.batcher, p[1], p[2]) <=> Keeps(at, d.batcher, p[1], p[2])
  OBVIOUS
<1>2. {x \in Objects \X Slot : Keeps(to, e.batcher, x[1], x[2])}
      = {x \in Objects \X Slot : Keeps(at, d.batcher, x[1], x[2])}
  BY <1>1
<1>3. Kept(e, to) = Kept(d, at)
  BY <1>2 DEF Kept
<1> QED BY <1>3 DEF OwnOK

(* A writer takes the first bundle that waits for the disk ... *)
LEMMA TakenOwned ==
    ASSUME NEW d \in DiskType, NEW e \in DiskType, e.bundles = d.bundles, e.batcher = d.batcher,
           d.pools.disk # <<>>, e.pools.full = d.pools.full, e.pools.empty = d.pools.empty,
           e.pools.disk = Tail(d.pools.disk), NEW h, h = Head(d.pools.disk),
           NEW W, NEW V, V = W \cup {h}, NEW g, OwnOK(d, W, g)
    PROVE  h \in Objects /\ h \notin W /\ OwnOK(e, V, g)
<1>1. PICK at : Located(d, W, at) /\ Owned(Kept(d, at), g)
  BY DEF OwnOK
<1>2. PICK s, t : /\ s \in Seq(Objects) /\ s # <<>> /\ s = d.pools.disk
                  /\ t = Tail(s) /\ h = Head(s) /\ e.pools.disk = t
  BY DiskFields
<1>3. h \in Objects
  BY <1>2, PoolHead
<1>4. /\ NoTwice(t) /\ InPool(s, h)
      /\ \A o \in Objects : InPool(t, o) <=> InPool(s, o) /\ o # h
  <2>1. NoTwice(s)
    BY <1>1, <1>2 DEF Located
  <2> QED BY <1>2, <2>1, PoolTake
<1>5. at[h] = "disk" /\ h \notin W
  <2>1. InPool(s, h) <=> at[h] = "disk"
    BY <1>1, <1>2, <1>3 DEF Located
  <2>2. h \in W <=> at[h] = "writer"
    BY <1>1, <1>3 DEF Located
  <2> QED BY <1>4, <2>1, <2>2
<1>6. PICK to : to = [at EXCEPT ![h] = "writer"]
  OBVIOUS
<1>7. at \in [Objects -> Spots]
  BY <1>1 DEF Located
<1>8. to \in [Objects -> Spots] /\ to[h] = "writer" /\ \A o \in Objects \ {h} : to[o] = at[o]
  BY <1>3, <1>6, <1>7 DEF Spots
<1>9. Located(e, V, to)
  <2>1. NoTwice(e.pools.full) /\ NoTwice(e.pools.empty) /\ NoTwice(e.pools.disk)
    BY <1>1, <1>2, <1>4 DEF Located
  <2>2. ASSUME NEW o \in Objects
        PROVE  /\ InPool(e.pools.full, o) <=> to[o] = "full"
               /\ InPool(e.pools.empty, o) <=> to[o] = "empty"
               /\ InPool(e.pools.disk, o) <=> to[o] = "disk"
               /\ o \in V <=> to[o] = "writer"
               /\ e.batcher.unbundle = o <=> to[o] = "unbundle"
               /\ e.batcher.bundle = o <=> to[o] = "bundle"
    <3>1. /\ InPool(e.pools.full, o) <=> at[o] = "full"
          /\ InPool(e.pools.empty, o) <=> at[o] = "empty"
          /\ InPool(s, o) <=> at[o] = "disk"
          /\ o \in W <=> at[o] = "writer"
          /\ e.batcher.unbundle = o <=> at[o] = "unbundle"
          /\ e.batcher.bundle = o <=> at[o] = "bundle"
      BY <1>1, <1>2 DEF Located
    <3>2. InPool(e.pools.disk, o) <=> InPool(s, o) /\ o # h
      BY <1>2, <1>4
    <3>3. CASE o = h
      BY <1>5, <1>8, <3>1, <3>2, <3>3
    <3>4. CASE o # h
      BY <1>8, <3>1, <3>2, <3>4
    <3> QED BY <3>3, <3>4
  <2> QED BY <1>8, <2>1, <2>2 DEF Located
<1>10. \A o \in Objects, j \in Slot : Keeps(to, e.batcher, o, j) <=> Keeps(at, d.batcher, o, j)
  BY <1>5, <1>8 DEF Keeps
<1> QED BY <1>1, <1>3, <1>5, <1>9, <1>10, OwnMoved

(* ... and puts it, written, into the pool of the full ones. *)
LEMMA WrittenOwned ==
    ASSUME NEW d \in DiskType, NEW e \in DiskType, e.bundles = d.bundles, e.batcher = d.batcher,
           NEW h \in Objects, e.pools.full = Append(d.pools.full, h), e.pools.empty = d.pools.empty,
           e.pools.disk = d.pools.disk, NEW W, h \in W, NEW V, V = W \ {h}, NEW g, OwnOK(d, W, g)
    PROVE  OwnOK(e, V, g)
<1>1. PICK at : Located(d, W, at) /\ Owned(Kept(d, at), g)
  BY DEF OwnOK
<1>2. PICK s, t : s \in Seq(Objects) /\ s = d.pools.full /\ t = Append(s, h) /\ e.pools.full = t
  BY DiskFields
<1>3. at[h] = "writer"
  BY <1>1 DEF Located
<1>4. /\ NoTwice(t) /\ \A o \in Objects : InPool(t, o) <=> InPool(s, o) \/ o = h
  <2>1. NoTwice(s)
    BY <1>1, <1>2 DEF Located
  <2>2. InPool(s, h) <=> at[h] = "full"
    BY <1>1, <1>2 DEF Located
  <2>3. ~InPool(s, h)
    BY <1>3, <2>2
  <2> QED BY <1>2, <2>1, <2>3, PoolAdd
<1>6. PICK to : to = [at EXCEPT ![h] = "full"]
  OBVIOUS
<1>7. at \in [Objects -> Spots]
  BY <1>1 DEF Located
<1>8. to \in [Objects -> Spots] /\ to[h] = "full" /\ \A o \in Objects \ {h} : to[o] = at[o]
  BY <1>6, <1>7 DEF Spots
<1>9. Located(e, V, to)
  <2>1. NoTwice(e.pools.full) /\ NoTwice(e.pools.empty) /\ NoTwice(e.pools.disk)
    BY <1>1, <1>2, <1>4 DEF Located
  <2>2. ASSUME NEW o \in Objects
        PROVE  /\ InPool(e.pools.full, o) <=> to[o] = "full"
               /\ InPool(e.pools.empty, o) <=> to[o] = "empty"
               /\ InPool(e.pools.disk, o) <=> to[o] = "disk"
               /\ o \in V <=> to[o] = "writer"
               /\ e.batcher.unbundle = o <=> to[o] = "unbundle"
               /\ e.batcher.bundle = o <=> to[o] = "bundle"
    <3>1. /\ InPool(s, o) <=> at[o] = "full"
          /\ InPool(e.pools.empty, o) <=> at[o] = "empty"
          /\ InPool(e.pools.disk, o) <=> at[o] = "disk"
          /\ o \in W <=> at[o] = "writer"
          /\ e.batcher.unbundle = o <=> at[o] = "unbundle"
          /\ e.batcher.bundle = o <=> at[o] = "bundle"
      BY <1>1, <1>2 DEF Located
    <3>2. InPool(e.pools.full, o) <=> InPool(s, o) \/ o = h
      BY <1>2, <1>4
    <3>3. CASE o = h
      BY <1>3, <1>8, <3>1, <3>2, <3>3
    <3>4. CASE o # h
      BY <1>8, <3>1, <3>2, <3>4
    <3> QED BY <3>3, <3>4
  <2> QED BY <1>8, <2>1, <2>2 DEF Located
<1>10. \A o \in Objects, j \in Slot : Keeps(to, e.batcher, o, j) <=> Keeps(at, d.batcher, o, j)
  BY <1>3, <1>8 DEF Keeps
<1> QED BY <1>1, <1>9, <1>10, OwnMoved

(* The writers' steps *)
LEMMA OwnWriter ==
    ASSUME IInv, Alive, Own, NEW w \in Writers, Writer(w)
    PROVE  Own'
<1>0. DiskOK /\ WritersOK /\ GoodDisk(Disk)
  BY DEF IInv, DiskOK
<1>1. UNCHANGED <<cfg, stream, jobs, bundles, batcher>>
  BY DEF Writer, TakeBundle, WriteBundle, StopWriter, mainVars, gpuVars, diskVars
<1>2. OutMap' = OutMap
  BY <1>1, OutMapStays
<1>3. PICK g, W, V : g = OutMap /\ g = OutMap' /\ W = Writing /\ V = Writing'
  BY <1>2
<1>4. PICK d : d = Disk
  OBVIOUS
<1>5. d \in DiskType /\ d.bundles = bundles /\ d.pools = pools /\ d.batcher = batcher
  BY <1>0, <1>4, DiskIs
<1>6. pools.full \in Seq(Objects) /\ pools.empty \in Seq(Objects) /\ pools.disk \in Seq(Objects)
  BY <1>5, DiskFields
<1>7. pools = [full |-> pools.full, empty |-> pools.empty, disk |-> pools.disk]
  BY <1>5 DEF DiskType
<1>8. writer \in [Writers -> [running : BOOLEAN, object : Objects \cup {Null}]]
  BY <1>0 DEF WritersOK
<1>9. OwnOK(d, W, g) /\ WritersApart
  BY <1>3, <1>4 DEF Own
<1>10. Null \notin Objects
  BY CallFacts DEF IInv, MainOK
<1>11. CASE TakeBundle(w)
  <2>1. /\ writer[w] = Polling /\ pools.disk # <<>>
        /\ writer' = [writer EXCEPT ![w] = Holding(Head(pools.disk))]
        /\ pools' = [pools EXCEPT !.disk = Tail(@)]
    BY <1>11 DEF TakeBundle
  <2>2. PICK h, t : h = Head(pools.disk) /\ t = Tail(pools.disk)
    OBVIOUS
  <2>3. h \in Objects /\ t \in Seq(Objects)
    BY <1>6, <2>1, <2>2, PoolHead
  <2>4. pools' = [full |-> pools.full, empty |-> pools.empty, disk |-> t]
    BY <1>7, <2>1, <2>2
  <2>5. PICK e : e = [bundles |-> bundles, batcher |-> batcher,
                      pools |-> [full |-> pools.full, empty |-> pools.empty, disk |-> t]]
    OBVIOUS
  <2>6. e = Disk' /\ e \in DiskType
    <3>1. e = Disk'
      BY <1>1, <2>4, <2>5 DEF Disk
    <3>2. bundles \in [Objects -> [Slot -> BufferIds \cup {Null}]]
          /\ batcher \in [unbundle : Objects \cup {Null}, bundle : Objects \cup {Null}, iu : Slot, ib : Slot]
      BY <1>5 DEF DiskType
    <3> QED BY <1>6, <2>3, <2>5, <3>1, <3>2 DEF DiskType
  <2>7. /\ e.bundles = d.bundles /\ e.batcher = d.batcher /\ e.pools.full = d.pools.full
        /\ e.pools.empty = d.pools.empty /\ e.pools.disk = Tail(d.pools.disk)
        /\ h = Head(d.pools.disk) /\ d.pools.disk # <<>>
    BY <1>5, <2>1, <2>2, <2>5
  <2>8. PICK U : U = W \cup {h}
    OBVIOUS
  <2>9. h \notin W /\ OwnOK(e, U, g)
    <3>1. d \in DiskType /\ e \in DiskType /\ OwnOK(d, W, g)
      BY <1>5, <1>9, <2>6
    <3> QED BY <2>7, <2>8, <3>1, TakenOwned
  <2>10. writer[w].object = Null /\ writer'[w].object = h /\ \A x \in Writers \ {w} : writer'[x] = writer[x]
    BY <1>8, <2>1, <2>2 DEF Polling, Holding
  <2>11. w \notin Busy /\ Busy' = Busy \cup {w} /\ \A x \in Busy : writer'[x] = writer[x] /\ x # w
    BY <1>10, <2>3, <2>10 DEF Busy
  <2>12. V = U
    BY <1>3, <2>8, <2>10, <2>11 DEF Writing
  <2>13. WritersApart'
    <3>1. \A x \in Busy : writer[x].object # h
      BY <1>3, <2>9 DEF Writing
    <3>2. \A x, y \in Busy : writer[x].object = writer[y].object => x = y
      BY <1>9 DEF WritersApart
    <3>3. ASSUME NEW x \in Busy', NEW y \in Busy', writer'[x].object = writer'[y].object PROVE x = y
      BY <2>10, <2>11, <3>1, <3>2, <3>3
    <3> QED BY <3>3 DEF WritersApart
  <2>14. OwnOK(Disk, Writing, OutMap)'
    BY <1>1, <1>3, <2>6, <2>9, <2>12, NewOwn
  <2> QED BY <2>13, <2>14 DEF Own
<1>12. CASE WriteBundle(w)
  <2>1. /\ writer[w].object # Null
        /\ writer' = [writer EXCEPT ![w] = Polling]
        /\ pools' = [pools EXCEPT !.full = Append(@, writer[w].object)]
    BY <1>12 DEF WriteBundle
  <2>2. PICK h \in Objects : h = writer[w].object
    BY <1>8, <2>1
  <2>3. PICK t \in Seq(Objects) : t = Append(pools.full, h)
    BY <1>6, <2>2, PoolPut
  <2>4. pools' = [full |-> t, empty |-> pools.empty, disk |-> pools.disk]
    BY <1>7, <2>1, <2>2, <2>3
  <2>5. PICK e : e = [bundles |-> bundles, batcher |-> batcher,
                      pools |-> [full |-> t, empty |-> pools.empty, disk |-> pools.disk]]
    OBVIOUS
  <2>6. e = Disk' /\ e \in DiskType
    <3>1. e = Disk'
      BY <1>1, <2>4, <2>5 DEF Disk
    <3>2. bundles \in [Objects -> [Slot -> BufferIds \cup {Null}]]
          /\ batcher \in [unbundle : Objects \cup {Null}, bundle : Objects \cup {Null}, iu : Slot, ib : Slot]
      BY <1>5 DEF DiskType
    <3> QED BY <1>6, <2>3, <2>5, <3>1, <3>2 DEF DiskType
  <2>7. /\ e.bundles = d.bundles /\ e.batcher = d.batcher /\ e.pools.full = Append(d.pools.full, h)
        /\ e.pools.empty = d.pools.empty /\ e.pools.disk = d.pools.disk
    BY <1>5, <2>3, <2>5
  <2>8. PICK U : U = W \ {h}
    OBVIOUS
  <2>9. w \in Busy /\ h \in W
    BY <1>3, <2>1, <2>2 DEF Busy, Writing
  <2>10. OwnOK(e, U, g)
    BY <1>5, <1>9, <2>2, <2>6, <2>7, <2>8, <2>9, WrittenOwned
  <2>11. writer'[w].object = Null /\ \A x \in Writers \ {w} : writer'[x] = writer[x]
    BY <1>8, <2>1 DEF Polling
  <2>12. Busy' = Busy \ {w} /\ \A x \in Busy' : writer'[x] = writer[x]
    BY <2>11 DEF Busy
  <2>13. V = U
    <3>1. \A x \in Busy : writer[x].object = h => x = w
      BY <1>9, <2>2, <2>9 DEF WritersApart
    <3>2. V = {writer[x].object : x \in Busy \ {w}}
      BY <1>3, <2>12 DEF Writing
    <3>3. W = {writer[x].object : x \in Busy}
      BY <1>3 DEF Writing
    <3> QED BY <2>2, <2>8, <2>9, <3>1, <3>2, <3>3
  <2>14. WritersApart'
    BY <1>9, <2>12 DEF WritersApart
  <2>15. OwnOK(Disk, Writing, OutMap)'
    BY <1>1, <1>3, <2>6, <2>10, <2>13, NewOwn
  <2> QED BY <2>14, <2>15 DEF Own
<1>13. CASE StopWriter(w)
  <2>1. writer[w] = Polling /\ writer' = [writer EXCEPT ![w] = Stopped] /\ pools' = pools
    BY <1>13 DEF StopWriter, diskVars
  <2>2. /\ writer[w].object = Null /\ writer'[w].object = Null
        /\ \A x \in Writers \ {w} : writer'[x] = writer[x]
    BY <1>8, <2>1 DEF Polling, Stopped
  <2>3. Busy' = Busy /\ \A x \in Busy : writer'[x] = writer[x]
    BY <2>2 DEF Busy
  <2>4. W = V
    BY <1>3, <2>3 DEF Writing
  <2>5. WritersApart'
    BY <1>9, <2>3 DEF WritersApart
  <2>6. d = Disk'
    BY <1>1, <1>4, <2>1 DEF Disk
  <2>7. OwnOK(Disk, Writing, OutMap)'
    BY <1>1, <1>3, <1>9, <2>4, <2>6, NewOwn
  <2> QED BY <2>5, <2>7 DEF Own
<1> QED BY <1>11, <1>12, <1>13 DEF Writer

-----------------------------------------------------------------------------
(* A partition starts with a full bundle to empty and an empty one to fill. *)
LEMMA StartOwned ==
    ASSUME cfg \in Configs, NEW d \in DiskType, NEW e \in DiskType, e.bundles = d.bundles,
           d.batcher.unbundle = Null, d.batcher.bundle = Null,
           NEW fs \in Seq(Objects), fs = d.pools.full, fs # <<>>, e.pools.full = Tail(fs),
           NEW es \in Seq(Objects), es = d.pools.empty, es # <<>>, e.pools.empty = Tail(es),
           e.pools.disk = d.pools.disk, NEW u, u = Head(fs), NEW p, p = Head(es),
           e.batcher.unbundle = u, e.batcher.bundle = p, e.batcher.iu = 0, e.batcher.ib = 0,
           NEW W, NEW g, OwnOK(d, W, g)
    PROVE  OwnOK(e, W, g)
<1>a. 0 \in Slot /\ Slot \subseteq Nat /\ Null \notin Objects
  BY CallFacts
<1>1. PICK at : Located(d, W, at) /\ Owned(Kept(d, at), g)
  BY DEF OwnOK
<1>2. u \in Objects /\ p \in Objects
  BY PoolHead
<1>3. /\ NoTwice(e.pools.full) /\ InPool(fs, u)
      /\ \A o \in Objects : InPool(e.pools.full, o) <=> InPool(fs, o) /\ o # u
  <2>1. NoTwice(fs)
    BY <1>1 DEF Located
  <2> QED BY <2>1, PoolTake
<1>4. /\ NoTwice(e.pools.empty) /\ InPool(es, p)
      /\ \A o \in Objects : InPool(e.pools.empty, o) <=> InPool(es, o) /\ o # p
  <2>1. NoTwice(es)
    BY <1>1 DEF Located
  <2> QED BY <2>1, PoolTake
<1>5. \A o \in Objects : /\ InPool(fs, o) <=> at[o] = "full"
                         /\ InPool(es, o) <=> at[o] = "empty"
                         /\ InPool(e.pools.disk, o) <=> at[o] = "disk"
                         /\ o \in W <=> at[o] = "writer"
                         /\ at[o] # "unbundle" /\ at[o] # "bundle"
  BY <1>a, <1>1 DEF Located
<1>6. at[u] = "full" /\ at[p] = "empty" /\ u # p
  <2>1. at[u] = "full" /\ at[p] = "empty"
    BY <1>2, <1>3, <1>4, <1>5
  <2> QED BY <2>1
<1>7. PICK to : to = [o \in Objects |-> IF o = u THEN "unbundle" ELSE IF o = p THEN "bundle" ELSE at[o]]
  OBVIOUS
<1>8. at \in [Objects -> Spots]
  BY <1>1 DEF Located
<1>9. /\ to \in [Objects -> Spots] /\ to[u] = "unbundle" /\ to[p] = "bundle"
      /\ \A o \in Objects \ {u, p} : to[o] = at[o]
  BY <1>2, <1>6, <1>7, <1>8 DEF Spots
<1>10. Located(e, W, to)
  <2>1. NoTwice(e.pools.full) /\ NoTwice(e.pools.empty) /\ NoTwice(e.pools.disk)
    BY <1>1, <1>3, <1>4 DEF Located
  <2>2. ASSUME NEW o \in Objects
        PROVE  /\ InPool(e.pools.full, o) <=> to[o] = "full"
               /\ InPool(e.pools.empty, o) <=> to[o] = "empty"
               /\ InPool(e.pools.disk, o) <=> to[o] = "disk"
               /\ o \in W <=> to[o] = "writer"
               /\ e.batcher.unbundle = o <=> to[o] = "unbundle"
               /\ e.batcher.bundle = o <=> to[o] = "bundle"
    <3>1. /\ InPool(e.pools.full, o) <=> at[o] = "full" /\ o # u
          /\ InPool(e.pools.empty, o) <=> at[o] = "empty" /\ o # p
          /\ InPool(e.pools.disk, o) <=> at[o] = "disk"
          /\ o \in W <=> at[o] = "writer"
          /\ e.batcher.unbundle = u /\ e.batcher.bundle = p
          /\ at[o] # "unbundle" /\ at[o] # "bundle"
      BY <1>3, <1>4, <1>5
    <3>3. CASE o = u
      BY <1>6, <1>9, <3>1, <3>3
    <3>4. CASE o = p
      BY <1>6, <1>9, <3>1, <3>4
    <3>5. CASE o # u /\ o # p
      <4>1. to[o] = at[o]
        BY <1>9, <3>5
      <4> QED BY <3>1, <3>5, <4>1
    <3> QED BY <3>3, <3>4, <3>5
  <2> QED BY <1>9, <2>1, <2>2 DEF Located
<1>11. ASSUME NEW o \in Objects, NEW j \in Slot
       PROVE  Keeps(to, e.batcher, o, j) <=> Keeps(at, d.batcher, o, j)
  <2>1. j >= e.batcher.iu /\ ~(j < e.batcher.ib)
    BY <1>a
  <2>2. at[o] # "unbundle" /\ at[o] # "bundle"
    BY <1>5
  <2>3. CASE o = u
    BY <1>6, <1>9, <2>1, <2>2, <2>3 DEF Keeps
  <2>4. CASE o = p
    BY <1>6, <1>9, <2>1, <2>2, <2>4 DEF Keeps
  <2>5. CASE o # u /\ o # p
    <3>1. to[o] = at[o]
      BY <1>9, <2>5
    <3> QED BY <2>2, <3>1 DEF Keeps
  <2> QED BY <2>3, <2>4, <2>5
<1> QED BY <1>1, <1>10, <1>11, OwnMoved

LEMMA OwnStartPartition ==
    ASSUME IInv, Own, StartPartition
    PROVE  Own'
<1>0. MainOK /\ StreamsOK /\ cfg \in Configs /\ mpc = "start"
  BY DEF IInv, MainOK, StartPartition
<1>2. /\ DiskOK /\ WritersOK
      /\ batcher.unbundle = Null /\ batcher.bundle = Null /\ batcher.iu = 0 /\ batcher.ib = 0
      /\ Len(pools.empty) = cfg.empty /\ Len(pools.full) = cfg.full /\ Busy = {}
  BY <1>0, AtStart
<1>3. /\ UNCHANGED <<cfg, bundles, stream, jobs>>
      /\ writer' = [w \in Writers |-> Polling]
      /\ pools' = [pools EXCEPT !.full = Tail(@), !.empty = Tail(@)]
      /\ batcher' = [unbundle |-> Head(pools.full), bundle |-> Head(pools.empty),
                     iu |-> 0, ib |-> 0]
  BY DEF StartPartition, gpuVars
<1>4. PICK d : d = Disk
  OBVIOUS
<1>5. d \in DiskType /\ d.bundles = bundles /\ d.pools = pools /\ d.batcher = batcher
  BY <1>2, <1>4, DiskIs DEF DiskOK
<1>6. /\ pools.full \in Seq(Objects) /\ pools.empty \in Seq(Objects) /\ pools.disk \in Seq(Objects)
      /\ bundles \in [Objects -> [Slot -> BufferIds \cup {Null}]]
      /\ pools = [full |-> pools.full, empty |-> pools.empty, disk |-> pools.disk]
  BY <1>5 DEF DiskType
<1>7. 0 \in Slot /\ cfg.empty > 0 /\ cfg.full > 0 /\ cfg.empty \in Nat /\ cfg.full \in Nat
  BY <1>0, CallFacts
<1>8. PICK fs \in Seq(Objects), es \in Seq(Objects) : /\ fs = pools.full /\ fs # <<>>
                                                      /\ es = pools.empty /\ es # <<>>
  <2>1. pools.full # <<>> /\ pools.empty # <<>>
    BY <1>2, <1>7
  <2> QED BY <1>6, <2>1
<1>9. PICK u, p, s, t : u = Head(fs) /\ p = Head(es) /\ s = Tail(fs) /\ t = Tail(es)
  OBVIOUS
<1>10. u \in Objects /\ p \in Objects /\ s \in Seq(Objects) /\ t \in Seq(Objects)
  BY <1>8, <1>9, PoolHead
<1>11. PICK e : e = [bundles |-> bundles, pools |-> [full |-> s, empty |-> t, disk |-> pools.disk],
                     batcher |-> [unbundle |-> u, bundle |-> p, iu |-> 0, ib |-> 0]]
  OBVIOUS
<1>12. e \in DiskType
  BY <1>6, <1>7, <1>10, <1>11 DEF DiskType
<1>13. e = Disk'
  <2>1. pools' = [full |-> s, empty |-> t, disk |-> pools.disk]
    BY <1>3, <1>6, <1>8, <1>9
  <2>2. batcher' = [unbundle |-> u, bundle |-> p, iu |-> 0, ib |-> 0]
    BY <1>3, <1>8, <1>9
  <2> QED BY <1>3, <1>11, <2>1, <2>2 DEF Disk
<1>14. /\ e.bundles = d.bundles /\ e.pools.full = s /\ e.pools.empty = t
       /\ e.pools.disk = d.pools.disk /\ e.batcher.unbundle = u /\ e.batcher.bundle = p
       /\ e.batcher.iu = 0 /\ e.batcher.ib = 0
  BY <1>5, <1>11
<1>15. Busy' = {}
  BY <1>3 DEF Busy, Polling
<1>16. OutMap' = OutMap
  BY <1>3, OutMapStays
<1>17. PICK g, W : g = OutMap /\ g = OutMap' /\ W = Writing /\ W = Writing'
  <2>1. Writing = {} /\ Writing' = {}
    BY <1>2, <1>15 DEF Writing
  <2> QED BY <1>16, <2>1
<1>18. OwnOK(d, W, g)
  BY <1>4, <1>17 DEF Own
<1>19. OwnOK(e, W, g)
  <2>1. d.batcher.unbundle = Null /\ d.batcher.bundle = Null /\ fs = d.pools.full /\ es = d.pools.empty
    BY <1>2, <1>5, <1>8
  <2>2. e.pools.full = Tail(fs) /\ e.pools.empty = Tail(es)
    BY <1>9, <1>14
  <2> QED BY <1>0, <1>5, <1>8, <1>9, <1>12, <1>14, <1>18, <2>1, <2>2, StartOwned
<1>20. OwnOK(Disk, Writing, OutMap)'
  BY <1>3, <1>13, <1>17, <1>19, NewOwn
<1> QED BY <1>15, <1>20 DEF Own, WritersApart

-----------------------------------------------------------------------------
(* flush.  Without a partial bundle it returns the bundle to fill, if any. *)
LEMMA FlushNoneOwned ==
    ASSUME cfg \in Configs, NEW d \in DiskType, NEW e \in DiskType, e.bundles = d.bundles,
           d.batcher.unbundle = Null, d.batcher.ib = 0,
           e.pools.full = d.pools.full, e.pools.disk = d.pools.disk,
           d.batcher.bundle = Null => e.pools.empty = d.pools.empty,
           d.batcher.bundle # Null => e.pools.empty = Append(d.pools.empty, d.batcher.bundle),
           e.batcher.unbundle = Null, e.batcher.bundle = Null,
           NEW W, NEW g, OwnOK(d, W, g)
    PROVE  OwnOK(e, W, g)
<1>a. Slot \subseteq Nat /\ Null \notin Objects
  BY CallFacts
<1>1. PICK at : Located(d, W, at) /\ Owned(Kept(d, at), g)
  BY DEF OwnOK
<1>2. \A o \in Objects : /\ InPool(e.pools.full, o) <=> at[o] = "full"
                         /\ InPool(d.pools.empty, o) <=> at[o] = "empty"
                         /\ InPool(e.pools.disk, o) <=> at[o] = "disk"
                         /\ o \in W <=> at[o] = "writer"
                         /\ at[o] # "unbundle"
                         /\ d.batcher.bundle = o <=> at[o] = "bundle"
  BY <1>a, <1>1 DEF Located
<1>3. at \in [Objects -> Spots]
  BY <1>1 DEF Located
<1>4. CASE d.batcher.bundle = Null
  <2>1. \A o \in Objects : at[o] # "bundle"
    BY <1>a, <1>2, <1>4
  <2>2. Located(e, W, at)
    <3>1. NoTwice(e.pools.full) /\ NoTwice(e.pools.empty) /\ NoTwice(e.pools.disk)
      BY <1>1, <1>4 DEF Located
    <3>2. \A o \in Objects : InPool(e.pools.empty, o) <=> at[o] = "empty"
      BY <1>2, <1>4
    <3>3. \A o \in Objects : e.batcher.unbundle # o /\ e.batcher.bundle # o
      BY <1>a
    <3> QED BY <1>2, <1>3, <2>1, <3>1, <3>2, <3>3 DEF Located
  <2>3. \A o \in Objects, j \in Slot : Keeps(at, e.batcher, o, j) <=> Keeps(at, d.batcher, o, j)
    BY <1>2, <2>1 DEF Keeps
  <2> QED BY <1>1, <2>2, <2>3, OwnMoved
<1>5. CASE d.batcher.bundle # Null
  <2>1. PICK p \in Objects : p = d.batcher.bundle
    BY <1>5, DiskFields
  <2>2. PICK s \in Seq(Objects) : s = d.pools.empty /\ e.pools.empty = Append(s, p)
    BY <1>5, <2>1, DiskFields
  <2>3. at[p] = "bundle" /\ \A o \in Objects \ {p} : at[o] # "bundle"
    BY <1>2, <2>1
  <2>4. /\ NoTwice(e.pools.empty)
        /\ \A o \in Objects : InPool(e.pools.empty, o) <=> InPool(s, o) \/ o = p
    <3>1. NoTwice(s)
      BY <1>1, <2>2 DEF Located
    <3>2. InPool(s, p) <=> at[p] = "empty"
      BY <1>2, <2>2
    <3>3. ~InPool(s, p)
      BY <2>3, <3>2
    <3> QED BY <2>2, <3>1, <3>3, PoolAdd
  <2>5. PICK to : to = [at EXCEPT ![p] = "empty"]
    OBVIOUS
  <2>6. to \in [Objects -> Spots] /\ to[p] = "empty" /\ \A o \in Objects \ {p} : to[o] = at[o]
    BY <1>3, <2>5 DEF Spots
  <2>7. Located(e, W, to)
    <3>1. NoTwice(e.pools.full) /\ NoTwice(e.pools.disk)
      BY <1>1 DEF Located
    <3>2. ASSUME NEW o \in Objects
          PROVE  /\ InPool(e.pools.full, o) <=> to[o] = "full"
                 /\ InPool(e.pools.empty, o) <=> to[o] = "empty"
                 /\ InPool(e.pools.disk, o) <=> to[o] = "disk"
                 /\ o \in W <=> to[o] = "writer"
                 /\ e.batcher.unbundle = o <=> to[o] = "unbundle"
                 /\ e.batcher.bundle = o <=> to[o] = "bundle"
      <4>1. /\ InPool(e.pools.full, o) <=> at[o] = "full"
            /\ InPool(e.pools.empty, o) <=> at[o] = "empty" \/ o = p
            /\ InPool(e.pools.disk, o) <=> at[o] = "disk"
            /\ o \in W <=> at[o] = "writer"
            /\ at[o] # "unbundle" /\ (at[o] = "bundle" <=> o = p)
            /\ e.batcher.unbundle # o /\ e.batcher.bundle # o
        BY <1>a, <1>2, <2>2, <2>3, <2>4
      <4>2. CASE o = p
        BY <2>3, <2>6, <4>1, <4>2
      <4>3. CASE o # p
        <5>1. to[o] = at[o]
          BY <2>6, <4>3
        <5> QED BY <4>1, <4>3, <5>1
      <4> QED BY <4>2, <4>3
    <3> QED BY <2>4, <2>6, <3>1, <3>2 DEF Located
  <2>8. ASSUME NEW o \in Objects, NEW j \in Slot
        PROVE  Keeps(to, e.batcher, o, j) <=> Keeps(at, d.batcher, o, j)
    <3>1. ~(j < d.batcher.ib) /\ at[o] # "unbundle"
      BY <1>a, <1>2
    <3>2. CASE o = p
      BY <2>3, <2>6, <3>1, <3>2 DEF Keeps
    <3>3. CASE o # p
      <4>1. to[o] = at[o] /\ at[o] # "bundle"
        BY <2>3, <2>6, <3>3
      <4> QED BY <3>1, <4>1 DEF Keeps
    <3> QED BY <3>2, <3>3
  <2> QED BY <1>1, <2>7, <2>8, OwnMoved
<1> QED BY <1>4, <1>5

(* With one place to fill it moves the last buffer of the one bundle to the    *)
(* last place of the other.                                                    *)
FlushedOne(d, e, u, p, i) ==
    /\ u = d.batcher.unbundle /\ p = d.batcher.bundle /\ i = d.batcher.iu /\ i = d.batcher.ib
    /\ \A o \in Objects \ {p} : e.bundles[o] = d.bundles[o]
    /\ \A j \in Slot : e.bundles[p][j] = IF j = i THEN d.bundles[u][j] ELSE d.bundles[p][j]
    /\ e.pools.full = d.pools.full /\ e.pools.empty = Append(d.pools.empty, u)
    /\ e.pools.disk = Append(d.pools.disk, p)
    /\ e.batcher.unbundle = Null /\ e.batcher.bundle = Null

LEMMA SamePlaces ==
    ASSUME NEW D, NEW E, D \subseteq Objects \X Slot, E \subseteq Objects \X Slot,
           \A o \in Objects, j \in Slot : <<o, j>> \in D <=> <<o, j>> \in E
    PROVE  D = E
<1>1. ASSUME NEW p \in Objects \X Slot PROVE p \in D <=> p \in E
  <2>1. PICK o \in Objects, j \in Slot : p = <<o, j>>
    OBVIOUS
  <2> QED BY <2>1
<1> QED BY <1>1

(* A buffer moves from one place to another. *)
LEMMA OwnedShift ==
    ASSUME NEW f, NEW g, Owned(f, g), NEW a \in DOMAIN f, NEW c, c \notin DOMAIN f,
           NEW u, DOMAIN u = (DOMAIN f \ {a}) \cup {c},
           \A p \in DOMAIN f \ {a} : u[p] = f[p], u[c] = f[a]
    PROVE  Owned(u, g)
<1>1. \A p, q \in DOMAIN u : u[p] = u[q] => p = q
  BY DEF Owned
<1>2. \A p \in DOMAIN u, q \in DOMAIN g : u[p] # g[q]
  BY DEF Owned
<1>3. ASSUME NEW x \in BufferIds
      PROVE  (\E p \in DOMAIN u : u[p] = x) \/ (\E q \in DOMAIN g : g[q] = x)
  <2>1. CASE \E p \in DOMAIN f : f[p] = x
    <3>1. PICK p \in DOMAIN f : f[p] = x
      BY <2>1
    <3>2. CASE p = a
      BY <3>1, <3>2
    <3>3. CASE p # a
      BY <3>1, <3>3
    <3> QED BY <3>2, <3>3
  <2>2. CASE \E q \in DOMAIN g : g[q] = x
    BY <2>2
  <2> QED BY <2>1, <2>2 DEF Owned
<1> QED BY <1>1, <1>2, <1>3 DEF Owned

LEMMA FlushOneOwned ==
    ASSUME cfg \in Configs, NEW d \in DiskType, NEW e \in DiskType,
           NEW u \in Objects, NEW p \in Objects, NEW i \in Slot, i = cfg.bundle - 1,
           FlushedOne(d, e, u, p, i), NEW W, NEW g, OwnOK(d, W, g)
    PROVE  OwnOK(e, W, g)
<1>a. PICK b \in Nat : b = cfg.bundle /\ b > 0 /\ Slot = 0 .. b - 1 /\ Null \notin Objects
  BY CallFacts DEF Slot
<1>b. PICK es \in Seq(Objects), ds \in Seq(Objects) : es = d.pools.empty /\ ds = d.pools.disk
  BY DiskFields
<1>c. /\ u = d.batcher.unbundle /\ p = d.batcher.bundle /\ i = d.batcher.iu /\ i = d.batcher.ib
      /\ e.pools.full = d.pools.full /\ e.pools.empty = Append(es, u) /\ e.pools.disk = Append(ds, p)
      /\ e.batcher.unbundle = Null /\ e.batcher.bundle = Null
  BY <1>b DEF FlushedOne
<1>1. PICK at : Located(d, W, at) /\ Owned(Kept(d, at), g)
  BY DEF OwnOK
<1>2. \A o \in Objects : /\ InPool(e.pools.full, o) <=> at[o] = "full"
                         /\ InPool(es, o) <=> at[o] = "empty"
                         /\ InPool(ds, o) <=> at[o] = "disk"
                         /\ o \in W <=> at[o] = "writer"
                         /\ u = o <=> at[o] = "unbundle"
                         /\ p = o <=> at[o] = "bundle"
  BY <1>b, <1>c, <1>1 DEF Located
<1>3. at \in [Objects -> Spots] /\ at[u] = "unbundle" /\ at[p] = "bundle" /\ u # p
  <2>1. at[u] = "unbundle" /\ at[p] = "bundle"
    BY <1>2
  <2> QED BY <1>1, <2>1 DEF Located
<1>4. /\ NoTwice(e.pools.empty)
      /\ \A o \in Objects : InPool(e.pools.empty, o) <=> InPool(es, o) \/ o = u
  <2>1. NoTwice(es) /\ ~InPool(es, u)
    BY <1>b, <1>1, <1>2, <1>3 DEF Located
  <2> QED BY <1>c, <2>1, PoolAdd
<1>5. /\ NoTwice(e.pools.disk)
      /\ \A o \in Objects : InPool(e.pools.disk, o) <=> InPool(ds, o) \/ o = p
  <2>1. NoTwice(ds) /\ ~InPool(ds, p)
    BY <1>b, <1>1, <1>2, <1>3 DEF Located
  <2> QED BY <1>c, <2>1, PoolAdd
<1>6. PICK to : to = [o \in Objects |-> IF o = u THEN "empty" ELSE IF o = p THEN "disk" ELSE at[o]]
  OBVIOUS
<1>7. /\ to \in [Objects -> Spots] /\ to[u] = "empty" /\ to[p] = "disk"
      /\ \A o \in Objects \ {u, p} : to[o] = at[o]
  BY <1>3, <1>6 DEF Spots
<1>8. Located(e, W, to)
  <2>1. NoTwice(e.pools.full)
    BY <1>c, <1>1 DEF Located
  <2>2. ASSUME NEW o \in Objects
        PROVE  /\ InPool(e.pools.full, o) <=> to[o] = "full"
               /\ InPool(e.pools.empty, o) <=> to[o] = "empty"
               /\ InPool(e.pools.disk, o) <=> to[o] = "disk"
               /\ o \in W <=> to[o] = "writer"
               /\ e.batcher.unbundle = o <=> to[o] = "unbundle"
               /\ e.batcher.bundle = o <=> to[o] = "bundle"
    <3>1. /\ InPool(e.pools.full, o) <=> at[o] = "full"
          /\ InPool(e.pools.empty, o) <=> at[o] = "empty" \/ o = u
          /\ InPool(e.pools.disk, o) <=> at[o] = "disk" \/ o = p
          /\ o \in W <=> at[o] = "writer"
          /\ u = o <=> at[o] = "unbundle"
          /\ p = o <=> at[o] = "bundle"
          /\ e.batcher.unbundle # o /\ e.batcher.bundle # o
      BY <1>a, <1>c, <1>2, <1>4, <1>5
    <3>2. CASE o = u
      BY <1>3, <1>7, <3>1, <3>2
    <3>3. CASE o = p
      BY <1>3, <1>7, <3>1, <3>3
    <3>4. CASE o # u /\ o # p
      <4>1. to[o] = at[o]
        BY <1>7, <3>4
      <4> QED BY <3>1, <3>4, <4>1
    <3> QED BY <3>2, <3>3, <3>4
  <2> QED BY <1>4, <1>5, <1>7, <2>1, <2>2 DEF Located
<1>9. PICK f, h, a, c : f = Kept(d, at) /\ h = Kept(e, to) /\ a = <<u, i>> /\ c = <<p, i>>
  OBVIOUS
<1>10. /\ \A x \in Objects \X Slot : x \in DOMAIN f <=> Keeps(at, d.batcher, x[1], x[2])
       /\ \A x \in Objects \X Slot : x \in DOMAIN h <=> Keeps(to, e.batcher, x[1], x[2])
       /\ DOMAIN f \subseteq Objects \X Slot /\ DOMAIN h \subseteq Objects \X Slot
       /\ \A x \in DOMAIN f : f[x] = d.bundles[x[1]][x[2]]
       /\ \A x \in DOMAIN h : h[x] = e.bundles[x[1]][x[2]]
  BY <1>9 DEF Kept
<1>11. \A j \in Slot : /\ Keeps(at, d.batcher, u, j) <=> j = i
                       /\ Keeps(at, d.batcher, p, j) <=> j # i
                       /\ ~Keeps(to, e.batcher, u, j) /\ Keeps(to, e.batcher, p, j)
  <2>1. \A j \in Slot : (j >= i <=> j = i) /\ (j < i <=> j # i)
    BY <1>a
  <2> QED BY <1>c, <1>3, <1>7, <2>1 DEF Keeps
<1>12. \A o \in Objects \ {u, p}, j \in Slot : Keeps(to, e.batcher, o, j) <=> Keeps(at, d.batcher, o, j)
  <2>1. SUFFICES ASSUME NEW o \in Objects \ {u, p}, NEW j \in Slot
                 PROVE  Keeps(to, e.batcher, o, j) <=> Keeps(at, d.batcher, o, j)
    OBVIOUS
  <2>2. to[o] = at[o] /\ at[o] # "unbundle" /\ at[o] # "bundle"
    BY <1>2, <1>7
  <2> QED BY <2>2 DEF Keeps
<1>13. a \in DOMAIN f /\ c \notin DOMAIN f
  <2>1. a \in Objects \X Slot /\ a[1] = u /\ a[2] = i /\ c \in Objects \X Slot /\ c[1] = p /\ c[2] = i
    BY <1>9
  <2> QED BY <1>10, <1>11, <2>1
<1>14. ASSUME NEW o \in Objects, NEW j \in Slot
       PROVE  <<o, j>> \in DOMAIN h <=> <<o, j>> \in (DOMAIN f \ {a}) \cup {c}
  <2>1. /\ <<o, j>> \in DOMAIN f <=> Keeps(at, d.batcher, o, j)
        /\ <<o, j>> \in DOMAIN h <=> Keeps(to, e.batcher, o, j)
        /\ <<o, j>> = a <=> o = u /\ j = i
        /\ <<o, j>> = c <=> o = p /\ j = i
    BY <1>9, <1>10
  <2>2. CASE o = u
    BY <1>3, <1>11, <2>1, <2>2
  <2>3. CASE o = p
    BY <1>3, <1>11, <2>1, <2>3
  <2>4. CASE o # u /\ o # p
    BY <1>12, <2>1, <2>4
  <2> QED BY <2>2, <2>3, <2>4
<1>15. DOMAIN h = (DOMAIN f \ {a}) \cup {c}
  <2>1. c \in Objects \X Slot
    BY <1>9
  <2>2. PICK D, E : D = DOMAIN h /\ E = (DOMAIN f \ {a}) \cup {c}
    OBVIOUS
  <2>3. D \subseteq Objects \X Slot /\ E \subseteq Objects \X Slot
    BY <1>10, <2>1, <2>2
  <2>4. \A o \in Objects, j \in Slot : <<o, j>> \in D <=> <<o, j>> \in E
    BY <1>14, <2>2
  <2>6. D = E
    BY <2>3, <2>4, SamePlaces
  <2> QED BY <2>2, <2>6
<1>16. /\ \A x \in DOMAIN f \ {a} : h[x] = f[x]
       /\ h[c] = f[a]
  <2>1. h[c] = f[a]
    <3>1. h[c] = e.bundles[p][i] /\ f[a] = d.bundles[u][i]
      BY <1>9, <1>10, <1>13, <1>15
    <3> QED BY <3>1 DEF FlushedOne
  <2>2. ASSUME NEW o \in Objects, NEW j \in Slot, <<o, j>> \in DOMAIN f, <<o, j>> # a
        PROVE  h[<<o, j>>] = f[<<o, j>>]
    <3>1. h[<<o, j>>] = e.bundles[o][j] /\ f[<<o, j>>] = d.bundles[o][j]
      BY <1>10, <1>15, <2>2
    <3>2. o = p => j # i
      BY <1>9, <1>13, <2>2
    <3> QED BY <3>1, <3>2 DEF FlushedOne
  <2>3. \A x \in DOMAIN f : \E o \in Objects, j \in Slot : x = <<o, j>>
    BY <1>10
  <2> QED BY <2>1, <2>2, <2>3
<1>17. Owned(h, g)
  <2>1. Owned(f, g)
    BY <1>1, <1>9
  <2>2. \A x \in DOMAIN f \ {a} : h[x] = f[x]
    BY <1>16
  <2>3. h[c] = f[a]
    BY <1>16
  <2> QED BY <1>13, <1>15, <2>1, <2>2, <2>3, OwnedShift
<1> QED BY <1>8, <1>9, <1>17 DEF OwnOK

(* What flush does then *)
LEMMA FlushOne ==
    ASSUME cfg \in Configs, Flush, batcher.unbundle \in Objects, batcher.bundle \in Objects,
           batcher.iu = batcher.ib, batcher.ib = cfg.bundle - 1, batcher.ib # 0
    PROVE  /\ bundles' = [bundles EXCEPT ![batcher.bundle] =
                 [j \in Slot |-> IF j = batcher.ib THEN bundles[batcher.unbundle][batcher.ib] ELSE @[j]]]
           /\ pools' = [pools EXCEPT !.disk = Append(@, batcher.bundle),
                                     !.empty = Append(@, batcher.unbundle)]
<1>1. PICK b \in Nat : b = cfg.bundle /\ b > 0 /\ Slot = 0 .. b - 1
  BY CallFacts DEF Slot
<1>2. PICK u \in Objects, p \in Objects : u = batcher.unbundle /\ p = batcher.bundle
  OBVIOUS
<1>3. PICK i \in 0 .. b - 1 : i = batcher.ib /\ i = batcher.iu /\ i = b - 1 /\ i > 0
  BY <1>1
<1>4. PICK taken : taken = bundles[u][i]
  OBVIOUS
<1>7. ElementAt(u, i + 2 * (i - i)) = taken
  <2>1. i + 2 * (i - i) = i
    OBVIOUS
  <2>2. i \div b = 0 /\ i % b = i
    BY <1>1, SameBundle
  <2>3. u + 0 = u
    BY CallFacts DEF Objects
  <2> QED BY <1>1, <1>4, <2>1, <2>2, <2>3 DEF ElementAt
<1>8. PICK t : t = [j \in batcher.ib .. cfg.bundle - 1 |->
                       ElementAt(batcher.unbundle, batcher.iu + 2 * (j - batcher.ib))]
  OBVIOUS
<1>9. /\ bundles' = [bundles EXCEPT ![batcher.bundle] =
            [j \in 0 .. cfg.bundle - 1 |-> IF j \in DOMAIN t THEN t[j] ELSE @[j]]]
      /\ pools' = [pools EXCEPT !.disk = Append(@, batcher.bundle),
                                !.empty = Append(@, batcher.unbundle)]
  <2>1. batcher.ib > 0
    BY <1>3
  <2> QED BY <1>8, <2>1 DEF Flush
<1>10. DOMAIN t = {i}
  <2>1. DOMAIN t = i .. b - 1
    BY <1>1, <1>3, <1>8
  <2> QED BY <1>3, <2>1
<1>11. t[i] = taken
  <2>1. i \in batcher.ib .. cfg.bundle - 1
    BY <1>1, <1>3
  <2>2. t[i] = ElementAt(batcher.unbundle, batcher.iu + 2 * (i - batcher.ib))
    BY <1>8, <2>1
  <2> QED BY <1>2, <1>3, <1>7, <2>2
<1>12. [j \in 0 .. cfg.bundle - 1 |-> IF j \in DOMAIN t THEN t[j] ELSE bundles[p][j]]
      = [j \in Slot |-> IF j = i THEN taken ELSE bundles[p][j]]
  BY <1>10, <1>11 DEF Slot
<1>13. PICK v : v = [j \in Slot |-> IF j = i THEN taken ELSE bundles[p][j]]
  OBVIOUS
<1>14. bundles' = [bundles EXCEPT ![p] = v]
  BY <1>2, <1>9, <1>12, <1>13
<1>15. v = [j \in Slot |-> IF j = batcher.ib THEN bundles[batcher.unbundle][batcher.ib]
                           ELSE bundles[batcher.bundle][j]]
  BY <1>2, <1>3, <1>4, <1>13
<1>16. bundles' = [bundles EXCEPT ![batcher.bundle] = v]
  BY <1>2, <1>14
<1> QED BY <1>9, <1>15, <1>16

LEMMA OwnFlush ==
    ASSUME IInv, Own, Flush, FlushesInBounds, Alive'
    PROVE  Own'
<1>0. MainOK /\ StreamsOK /\ cfg \in Configs /\ mpc = "flush" /\ mpc' = "writers"
      /\ DiskOK /\ WritersOK /\ GoodDisk(Disk)
  BY DEF IInv, MainOK, Flush, Alive, DiskOK
<1>2. UNCHANGED <<cfg, part, stream, jobs, writer>>
      /\ batcher' = [unbundle |-> Null, bundle |-> Null, iu |-> 0, ib |-> 0]
  BY DEF Flush, gpuVars
<1>3. Cardinality(Out) = 0
  BY <1>0, OutEmpty
<1>4. PICK d : d = Disk
  OBVIOUS
<1>5. d \in DiskType /\ d.bundles = bundles /\ d.pools = pools /\ d.batcher = batcher /\ GoodDisk(d)
  BY <1>0, <1>4, DiskIs
<1>6. /\ pools.full \in Seq(Objects) /\ pools.empty \in Seq(Objects) /\ pools.disk \in Seq(Objects)
      /\ d.bundles \in [Objects -> [Slot -> BufferIds \cup {Null}]]
      /\ batcher.unbundle \in Objects \cup {Null} /\ batcher.bundle \in Objects \cup {Null}
      /\ batcher.iu \in Slot /\ batcher.ib \in Slot
  BY <1>5, DiskFields
<1>7. batcher.ib = batcher.iu
  BY <1>0, <1>3, Balance DEF DiskOK
<1>8. batcher.ib \in {0, cfg.bundle - 1}
  BY <1>0, <1>2 DEF FlushesInBounds, Alive
<1>9. PICK b \in Nat : b = cfg.bundle /\ b > 0 /\ Slot = 0 .. b - 1 /\ 0 \in Slot
                       /\ Null \notin Objects /\ 0 \in Streams
  BY <1>0, CallFacts DEF Slot
<1>10. pools = [full |-> pools.full, empty |-> pools.empty, disk |-> pools.disk]
  BY <1>5 DEF DiskType
<1>11. OutMap' = OutMap
  BY <1>2, OutMapStays
<1>12. PICK g, W : g = OutMap /\ g = OutMap' /\ W = Writing
  BY <1>11
<1>13. OwnOK(d, W, g)
  BY <1>4, <1>12 DEF Own
<1>14. \E e \in DiskType : /\ OwnOK(e, W, g)
                           /\ bundles' = e.bundles /\ pools' = e.pools /\ batcher' = e.batcher
  <2>1. CASE batcher.ib = 0
    <3>1. batcher.unbundle = Null
      <4>1. Running /\ ~Early(0)
        BY <1>0, <1>9 DEF Running, Early, MainOK
      <4> QED BY <1>0, <1>7, <1>9, <2>1, <4>1 DEF DiskOK
    <3>2. PICK s : s = IF batcher.bundle # Null THEN Append(pools.empty, batcher.bundle) ELSE pools.empty
      OBVIOUS
    <3>3. bundles' = bundles /\ pools' = [full |-> pools.full, empty |-> s, disk |-> pools.disk]
      <4>1. ~(batcher.ib > 0)
        BY <2>1
      <4>2. /\ bundles' = bundles
            /\ pools' = [pools EXCEPT
                   !.empty = IF batcher.bundle # Null THEN Append(@, batcher.bundle) ELSE @,
                   !.full = IF batcher.unbundle # Null THEN Append(@, batcher.bundle) ELSE @]
        BY <4>1 DEF Flush
      <4> QED BY <1>10, <3>1, <3>2, <4>2
    <3>4. s \in Seq(Objects)
      <4>1. CASE batcher.bundle = Null
        BY <1>6, <3>2, <4>1
      <4>2. CASE batcher.bundle # Null
        <5>1. batcher.bundle \in Objects
          BY <1>6, <4>2
        <5> QED BY <1>6, <3>2, <4>2, <5>1, PoolPut
      <4> QED BY <4>1, <4>2
    <3>5. PICK e : e = [bundles |-> bundles,
                        pools   |-> [full |-> pools.full, empty |-> s, disk |-> pools.disk],
                        batcher |-> [unbundle |-> Null, bundle |-> Null, iu |-> 0, ib |-> 0]]
      OBVIOUS
    <3>6. /\ e.bundles = d.bundles /\ e.pools.full = d.pools.full /\ e.pools.empty = s
          /\ e.pools.disk = d.pools.disk
          /\ e.batcher.unbundle = Null /\ e.batcher.bundle = Null
      BY <1>5, <3>5
    <3>7. e \in DiskType
      BY <1>5, <1>6, <1>9, <3>4, <3>5 DEF DiskType
    <3>8. OwnOK(e, W, g)
      <4>1. d.batcher.bundle = Null => e.pools.empty = d.pools.empty
        BY <1>5, <3>2, <3>6
      <4>2. d.batcher.bundle # Null => e.pools.empty = Append(d.pools.empty, d.batcher.bundle)
        BY <1>5, <3>2, <3>6
      <4>3. d.batcher.unbundle = Null /\ d.batcher.ib = 0
        BY <1>5, <2>1, <3>1
      <4> QED BY <1>0, <1>5, <1>13, <3>6, <3>7, <4>1, <4>2, <4>3, FlushNoneOwned
    <3>9. bundles' = e.bundles /\ pools' = e.pools /\ batcher' = e.batcher
      BY <1>2, <3>3, <3>5
    <3> QED BY <3>7, <3>8, <3>9
  <2>2. CASE batcher.ib # 0
    <3>1. batcher.bundle # Null /\ batcher.unbundle # Null
      BY <1>5, <1>7, <2>2 DEF GoodDisk
    <3>2. PICK u \in Objects, p \in Objects : u = batcher.unbundle /\ p = batcher.bundle
      BY <1>6, <3>1
    <3>3. PICK i \in Slot : i = batcher.iu /\ i = batcher.ib
      BY <1>6, <1>7
    <3>4. i = cfg.bundle - 1 /\ i = b - 1 /\ i > 0 /\ i \in 0 .. b - 1
      BY <1>8, <1>9, <2>2, <3>3
    <3>5. PICK taken : taken = bundles[u][i]
      OBVIOUS
    <3>6. /\ bundles' = [bundles EXCEPT ![p] = [j \in Slot |-> IF j = i THEN taken ELSE @[j]]]
          /\ pools' = [pools EXCEPT !.disk = Append(@, p), !.empty = Append(@, u)]
      <4>1. /\ batcher.unbundle \in Objects /\ batcher.bundle \in Objects
            /\ batcher.iu = batcher.ib /\ batcher.ib = cfg.bundle - 1
        BY <3>2, <3>3, <3>4
      <4>2. /\ bundles' = [bundles EXCEPT ![batcher.bundle] =
                 [j \in Slot |-> IF j = batcher.ib THEN bundles[batcher.unbundle][batcher.ib] ELSE @[j]]]
            /\ pools' = [pools EXCEPT !.disk = Append(@, batcher.bundle),
                                      !.empty = Append(@, batcher.unbundle)]
        BY <1>0, <2>2, <4>1, FlushOne
      <4> QED BY <3>2, <3>3, <3>5, <4>2
    <3>7. PICK n, s, t : /\ n = [bundles EXCEPT ![p] = [j \in Slot |-> IF j = i THEN taken ELSE @[j]]]
                         /\ s = Append(pools.empty, u) /\ t = Append(pools.disk, p)
      OBVIOUS
    <3>8. PICK e : e = [bundles |-> n, pools |-> [full |-> pools.full, empty |-> s, disk |-> t],
                        batcher |-> [unbundle |-> Null, bundle |-> Null, iu |-> 0, ib |-> 0]]
      OBVIOUS
    <3>9. /\ n \in [Objects -> [Slot -> BufferIds \cup {Null}]]
          /\ \A o \in Objects \ {p} : n[o] = d.bundles[o]
          /\ \A j \in Slot : n[p][j] = IF j = i THEN d.bundles[u][j] ELSE d.bundles[p][j]
      <4>1. bundles \in [Objects -> [Slot -> BufferIds \cup {Null}]] /\ taken \in BufferIds \cup {Null}
        BY <1>5, <1>6, <3>5
      <4>2. /\ n \in [Objects -> [Slot -> BufferIds \cup {Null}]]
            /\ \A o \in Objects \ {p} : n[o] = bundles[o]
            /\ \A j \in Slot : n[p][j] = IF j = i THEN taken ELSE bundles[p][j]
        BY <3>7, <4>1
      <4> QED BY <1>5, <3>5, <4>2
    <3>10. s \in Seq(Objects) /\ t \in Seq(Objects)
      BY <1>6, <3>7, PoolPut
    <3>11. e \in DiskType
      BY <1>6, <1>9, <3>8, <3>9, <3>10 DEF DiskType
    <3>12. FlushedOne(d, e, u, p, i)
      <4>1. u = d.batcher.unbundle /\ p = d.batcher.bundle /\ i = d.batcher.iu /\ i = d.batcher.ib
        BY <1>5, <3>2, <3>3
      <4>2. e.bundles = n /\ e.pools.full = pools.full /\ e.pools.empty = s /\ e.pools.disk = t
            /\ e.batcher.unbundle = Null /\ e.batcher.bundle = Null
        BY <3>8
      <4>3. /\ e.pools.full = d.pools.full /\ e.pools.empty = Append(d.pools.empty, u)
            /\ e.pools.disk = Append(d.pools.disk, p)
        BY <1>5, <3>7, <4>2
      <4>4. /\ \A o \in Objects \ {p} : e.bundles[o] = d.bundles[o]
            /\ \A j \in Slot : e.bundles[p][j] = IF j = i THEN d.bundles[u][j] ELSE d.bundles[p][j]
        BY <3>9, <4>2
      <4> QED BY <4>1, <4>2, <4>3, <4>4 DEF FlushedOne
    <3>13. OwnOK(e, W, g)
      BY <1>0, <1>5, <1>13, <3>4, <3>11, <3>12, FlushOneOwned
    <3>14. bundles' = e.bundles /\ pools' = e.pools /\ batcher' = e.batcher
      <4>1. bundles' = n
        BY <3>6, <3>7
      <4>2. pools' = [full |-> pools.full, empty |-> s, disk |-> t]
        BY <1>10, <3>6, <3>7
      <4> QED BY <1>2, <3>8, <4>1, <4>2
    <3> QED BY <3>11, <3>13, <3>14
  <2> QED BY <2>1, <2>2
<1>15. PICK e \in DiskType : /\ OwnOK(e, W, g)
                            /\ bundles' = e.bundles /\ pools' = e.pools /\ batcher' = e.batcher
  BY <1>14
<1>16. OwnOK(e, Writing, g)
  BY <1>12, <1>15
<1>17. g = OutMap' /\ UNCHANGED <<cfg, writer>>
  BY <1>2, <1>12
<1> QED BY <1>15, <1>16, <1>17, OwnNewDisk

-----------------------------------------------------------------------------
(* Before the first partition the buffers are in the full bundles, in order. *)
LEMMA Quotient ==
    ASSUME NEW b \in Nat, b > 0, NEW x \in Nat
    PROVE  \E m \in Nat, j \in 0 .. b - 1 : x = m * b + j
<1>1. x \div b \in Nat /\ x % b \in 0 .. b - 1
  OBVIOUS
<1>2. x = b * (x \div b) + (x % b)
  OBVIOUS
<1>3. PICK m \in Nat, j \in 0 .. b - 1 : m = x \div b /\ j = x % b
  BY <1>1
<1>4. x = b * m + j
  BY <1>2, <1>3
<1>5. b * m = m * b
  OBVIOUS
<1>6. x = m * b + j
  BY <1>4, <1>5
<1> QED BY <1>6

LEMMA OwnInit ==
    ASSUME Init
    PROVE  Own
<1>1. MainOK /\ StreamsOK /\ cfg \in Configs
  BY InitHolds DEF IInv, MainOK
<1>2. mpc = "start" /\ writer = [w \in Writers |-> Stopped]
  BY DEF Init
<1>3. Out = {}
  BY <1>1, <1>2, OutEmpty
<1>4. PICK b \in Nat, m \in Nat, n \in Nat :
         /\ b = cfg.bundle /\ m = cfg.empty /\ n = cfg.full /\ b > 0 /\ m > 0 /\ n > 0
         /\ Slot = 0 .. b - 1 /\ Null \notin Objects
  BY <1>1, CallFacts DEF Slot
<1>5. Objects = 0 .. n + m - 1 /\ BufferIds = 0 .. n * b - 1
  BY <1>4 DEF Objects, BufferIds
<1>6. PICK fs, es, k : /\ fs = [i \in 1 .. n |-> i - 1] /\ es = [i \in 1 .. m |-> n + i - 1]
                       /\ k = [o \in Objects |-> [j \in Slot |-> IF o < n THEN o * b + j ELSE Null]]
  OBVIOUS
<1>7. /\ Len(fs) = n /\ Len(es) = m
      /\ \A i \in 1 .. n : fs[i] = i - 1
      /\ \A i \in 1 .. m : es[i] = n + i - 1
  <2>1. fs \in [1 .. n -> Nat] /\ es \in [1 .. m -> Nat]
    <3>1. (\A i \in 1 .. n : i - 1 \in Nat) /\ \A i \in 1 .. m : n + i - 1 \in Nat
      OBVIOUS
    <3> QED BY <1>6, <3>1
  <2>2. Len(fs) = n /\ Len(es) = m
    BY <2>1, LenProperties, SeqDef
  <2> QED BY <1>6, <2>2
<1>8. PICK d : d = Disk
  OBVIOUS
<1>9. /\ d.bundles = k /\ d.pools.full = fs /\ d.pools.empty = es /\ d.pools.disk = <<>>
      /\ d.batcher.unbundle = Null /\ d.batcher.bundle = Null
  <2>1. bundles = k /\ pools = [full |-> fs, empty |-> es, disk |-> <<>>]
        /\ batcher = [unbundle |-> Null, bundle |-> Null, iu |-> 0, ib |-> 0]
    BY <1>4, <1>6 DEF Init, Slot
  <2> QED BY <1>8, <2>1 DEF Disk
<1>10. Busy = {}
  BY <1>2 DEF Busy, Stopped
<1>11. PICK g, W : g = OutMap /\ W = Writing /\ DOMAIN g = {} /\ W = {}
  <2>1. DOMAIN OutMap = {} /\ Writing = {}
    BY <1>3, <1>10 DEF OutMap, Writing
  <2> QED BY <2>1
<1>12. PICK at : at = [o \in Objects |-> IF o < n THEN "full" ELSE "empty"]
  OBVIOUS
<1>13. /\ at \in [Objects -> Spots]
       /\ \A o \in Objects : (at[o] = "full" <=> o < n) /\ (at[o] = "empty" <=> ~(o < n))
       /\ \A o \in Objects : at[o] \in {"full", "empty"}
  BY <1>12 DEF Spots
<1>14. Located(d, W, at)
  <2>1. NoTwice(fs) /\ NoTwice(es) /\ NoTwice(<<>>)
    <3>1. NoTwice(fs)
      BY <1>7 DEF NoTwice
    <3>2. NoTwice(es)
      <4>1. \A i, l \in 1 .. m : n + i - 1 = n + l - 1 => i = l
        OBVIOUS
      <4> QED BY <1>7, <4>1 DEF NoTwice
    <3> QED BY <3>1, <3>2 DEF NoTwice
  <2>2. ASSUME NEW o \in Objects PROVE InPool(fs, o) <=> o < n
    <3>1. o < n => o + 1 \in 1 .. n /\ (o + 1) - 1 = o
      BY <1>5
    <3>2. \A i \in 1 .. n : i - 1 < n
      OBVIOUS
    <3> QED BY <1>7, <3>1, <3>2 DEF InPool
  <2>3. ASSUME NEW o \in Objects PROVE InPool(es, o) <=> ~(o < n)
    <3>1. ~(o < n) => o - n + 1 \in 1 .. m /\ n + (o - n + 1) - 1 = o
      BY <1>5
    <3>2. \A i \in 1 .. m : ~(n + i - 1 < n)
      OBVIOUS
    <3> QED BY <1>7, <3>1, <3>2 DEF InPool
  <2>4. \A o \in Objects : ~InPool(<<>>, o)
    BY DEF InPool
  <2> QED BY <1>4, <1>9, <1>11, <1>13, <2>1, <2>2, <2>3, <2>4 DEF Located
<1>15. PICK f : f = Kept(d, at)
  OBVIOUS
<1>16. /\ \A o \in Objects, j \in Slot : <<o, j>> \in DOMAIN f <=> o < n
       /\ \A o \in Objects, j \in Slot : o < n => f[<<o, j>>] = o * b + j
       /\ DOMAIN f \subseteq Objects \X Slot
  <2>1. \A o \in Objects, j \in Slot : Keeps(at, d.batcher, o, j) <=> o < n
    BY <1>13 DEF Keeps
  <2>2. \A o \in Objects, j \in Slot : o < n => k[o][j] = o * b + j
    BY <1>6
  <2>3. DOMAIN f = {x \in Objects \X Slot : Keeps(at, d.batcher, x[1], x[2])}
    BY <1>15 DEF Kept
  <2>4. \A o \in Objects, j \in Slot : <<o, j>> \in DOMAIN f <=> o < n
    BY <2>1, <2>3
  <2>5. \A x \in DOMAIN f : f[x] = k[x[1]][x[2]]
    BY <1>9, <1>15 DEF Kept
  <2> QED BY <2>2, <2>3, <2>4, <2>5
<1>17. \A x \in DOMAIN f : \E o \in Objects, j \in Slot : x = <<o, j>> /\ o < n /\ o \in Nat
  <2>1. SUFFICES ASSUME NEW x \in DOMAIN f
                 PROVE  \E o \in Objects, j \in Slot : x = <<o, j>> /\ o < n /\ o \in Nat
    OBVIOUS
  <2>2. PICK o \in Objects, j \in Slot : x = <<o, j>>
    BY <1>16
  <2>3. o \in Nat /\ o < n
    BY <1>5, <1>16, <2>2
  <2> QED BY <2>2, <2>3
<1>18. \A x, y \in DOMAIN f : f[x] = f[y] => x = y
  <2>1. SUFFICES ASSUME NEW x \in DOMAIN f, NEW y \in DOMAIN f, f[x] = f[y] PROVE x = y
    OBVIOUS
  <2>2. PICK o \in Objects, j \in Slot : x = <<o, j>> /\ o < n /\ o \in Nat
    BY <1>17
  <2>3. PICK v \in Objects, i \in Slot : y = <<v, i>> /\ v < n /\ v \in Nat
    BY <1>17
  <2>4. o * b + j = v * b + i
    BY <1>16, <2>1, <2>2, <2>3
  <2>5. o = v /\ j = i
    <3>1. j \in 0 .. b - 1 /\ i \in 0 .. b - 1 /\ o \in Nat /\ v \in Nat
      BY <1>4, <2>2, <2>3
    <3> QED BY <2>4, <3>1, Euclid
  <2> QED BY <2>2, <2>3, <2>5
<1>19. ASSUME NEW x \in BufferIds PROVE \E p \in DOMAIN f : f[p] = x
  <2>1. x \in Nat /\ x < n * b
    <3>1. PICK y \in Nat : y = n * b
      BY Products
    <3> QED BY <1>5, <3>1
  <2>2. PICK o \in Nat, j \in 0 .. b - 1 : x = o * b + j
    BY <1>4, <2>1, Quotient
  <2>3. o < n
    <3>1. PICK y \in Nat, z \in Nat : y = n * b /\ z = o * b
      BY Products
    <3>2. n < o => y + b <= z
      BY <3>1, Multiples
    <3>3. n = o => y = z
      BY <3>1
    <3>4. z + j < y
      BY <2>1, <2>2, <3>1
    <3> QED BY <3>2, <3>3, <3>4
  <2>4. o \in Objects /\ j \in Slot
    BY <1>4, <1>5, <2>3, SMTT(30)
  <2> QED BY <1>16, <2>2, <2>3, <2>4
<1>20. Owned(f, g)
  BY <1>11, <1>18, <1>19 DEF Owned
<1>21. OwnOK(d, W, g)
  BY <1>14, <1>15, <1>20 DEF OwnOK
<1>22. WritersApart
  BY <1>10 DEF WritersApart
<1> QED BY <1>8, <1>11, <1>21, <1>22 DEF Own

-----------------------------------------------------------------------------
(* The steps that move no bundle and no buffer *)
LEMMA OwnQuietVisit ==
    ASSUME NEW r \in Streams, Idle(r) \/ ReadData(r) \/ HashWait(r) \/ Pass(r)
    PROVE  UNCHANGED <<cfg, stream, jobs, bundles, pools, batcher, writer>>
           /\ mpc = "loop" /\ mpc' \in {"loop", "load"} /\ part' = part
<1>1. CASE Idle(r)
  BY <1>1 DEF Idle, At, VisitFrame, gpuVars, diskVars
<1>2. CASE ReadData(r)
  BY <1>2 DEF ReadData, At, VisitFrame, gpuVars, diskVars
<1>3. CASE HashWait(r)
  BY <1>3 DEF HashWait, At, VisitFrame, gpuVars, diskVars
<1>4. CASE Pass(r)
  BY <1>4 DEF Pass, VisitFrame, gpuVars, diskVars
<1> QED BY <1>1, <1>2, <1>3, <1>4

LEMMA OwnQuietStep ==
    ASSUME \/ LoadPage \/ AllDone \/ WritersDone \/ LockResults \/ SpawnCpu \/ WriteRoots
           \/ Reader \/ Cpu \/ UNCHANGED vars
    PROVE  UNCHANGED <<cfg, stream, jobs, bundles, pools, batcher, writer>>
<1>1. CASE LoadPage \/ AllDone
  BY <1>1 DEF LoadPage, AllDone, VisitFrame, gpuVars, diskVars
<1>2. CASE WritersDone \/ LockResults \/ SpawnCpu \/ WriteRoots
  BY <1>2 DEF WritersDone, LockResults, SpawnCpu, WriteRoots, HashFrame, gpuVars, diskVars
<1>3. CASE Reader \/ Cpu
  BY <1>3 DEF Reader, ReaderFrame, Cpu, CpuCopy, CpuHash, gpuVars, diskVars
<1>4. CASE UNCHANGED vars
  BY <1>4 DEF vars, gpuVars, diskVars
<1> QED BY <1>1, <1>2, <1>3, <1>4

(* A call that has no partition to come has none later. *)
LEMMA AliveBefore ==
    ASSUME IInv, [Next]_vars, Alive'
    PROVE  Alive
<1>0. cfg' = cfg
  BY SameCall
<1>a. MainOK
  BY DEF IInv
<1>1. CASE mpc \in {"start", "loop", "load", "flush"}
  BY <1>1 DEF Alive
<1>2. CASE mpc \notin {"start", "loop", "load", "flush"}
  <2>1. CASE Main
    <3>1. CASE WritersDone
      BY <3>1, <1>0 DEF WritersDone, Alive
    <3>2. CASE LockResults
      BY <3>2, <1>0 DEF LockResults, Alive
    <3>3. CASE SpawnCpu
      BY <3>3, <1>0 DEF SpawnCpu, Alive
    <3>4. CASE WriteRoots
      BY <3>4 DEF WriteRoots, Alive
    <3>5. CASE StartPartition \/ LoadPage \/ AllDone \/ Flush
      BY <1>2, <3>5 DEF StartPartition, LoadPage, AllDone, Flush
    <3>6. CASE \E r \in Streams : Visit(r)
      <4>1. PICK r \in Streams : Visit(r)
        BY <3>6
      <4>2. mpc = "loop"
        <5>1. CASE Idle(r) \/ ReadData(r) \/ HashWait(r) \/ Pass(r)
          BY <5>1, OwnQuietVisit
        <5>2. CASE WaitData(r)
          BY <5>2 DEF WaitData, At
        <5>3. CASE HashColumn(r)
          BY <5>3 DEF HashColumn, At
        <5>4. CASE HashColumnLeaves(r)
          BY <5>4 DEF HashColumnLeaves, At
        <5>5. CASE HashLeaf(r)
          BY <5>5 DEF HashLeaf, At
        <5> QED BY <4>1, <5>1, <5>2, <5>3, <5>4, <5>5 DEF Visit
      <4> QED BY <1>2, <4>2
    <3> QED BY <2>1, <3>1, <3>2, <3>3, <3>4, <3>5, <3>6 DEF Main
  <2>2. CASE RunCallback
    BY <2>2, <1>0 DEF RunCallback, mainVars, Alive
  <2>3. CASE Reader \/ Cpu
    BY <2>3, <1>0 DEF Reader, ReaderFrame, Cpu, CpuCopy, CpuHash, mainVars, Alive
  <2>4. CASE \E r \in Streams : Gpu(r)
    BY <2>4, <1>0 DEF Gpu, GpuColumn, GpuLeaves, GpuInner, GpuFrame, mainVars, Alive
  <2>5. CASE \E w \in Writers : Writer(w)
    BY <2>5, <1>0 DEF Writer, TakeBundle, WriteBundle, StopWriter, mainVars, Alive
  <2>6. CASE UNCHANGED vars
    BY <2>6 DEF vars, mainVars, Alive
  <2> QED BY <2>1, <2>2, <2>3, <2>4, <2>5, <2>6 DEF Next
<1> QED BY <1>1, <1>2

LEMMA OwnNext ==
    ASSUME IInv, FlushesInBounds, [Next]_vars, Alive => Own, Alive'
    PROVE  Own'
<1>0. Alive /\ Own
  BY AliveBefore
<1>1. CASE UNCHANGED vars
  BY <1>0, <1>1, OwnQuietStep, OwnQuiet
<1>2. CASE Next
  <2>1. CASE Main
    <3>1. CASE \E r \in Streams : Visit(r)
      <4>1. PICK r \in Streams : Visit(r)
        BY <3>1
      <4>2. CASE Idle(r) \/ ReadData(r) \/ HashWait(r) \/ Pass(r)
        BY <1>0, <4>1, <4>2, OwnQuietVisit, OwnQuiet
      <4>3. CASE WaitData(r)
        BY <1>0, <4>1, <4>3, OwnWaitData
      <4>4. CASE HashColumn(r) \/ HashColumnLeaves(r)
        BY <1>0, <4>1, <4>4, OwnHashColumn
      <4>5. CASE HashLeaf(r)
        BY <1>0, <4>1, <4>5, OwnHashLeaf
      <4> QED BY <4>1, <4>2, <4>3, <4>4, <4>5 DEF Visit
    <3>2. CASE StartPartition
      BY <1>0, <3>2, OwnStartPartition
    <3>3. CASE Flush
      BY <1>0, <3>3, OwnFlush
    <3>4. CASE LoadPage \/ AllDone \/ WritersDone \/ LockResults \/ SpawnCpu \/ WriteRoots
      BY <1>0, <3>4, OwnQuietStep, OwnQuiet
    <3> QED BY <2>1, <3>1, <3>2, <3>3, <3>4 DEF Main
  <2>2. CASE RunCallback
    BY <1>0, <2>2, OwnRunCallback
  <2>3. CASE Reader \/ Cpu
    BY <1>0, <2>3, OwnQuietStep, OwnQuiet
  <2>4. CASE \E r \in Streams : Gpu(r)
    BY <1>0, <2>4, OwnGpu
  <2>5. CASE \E w \in Writers : Writer(w)
    BY <1>0, <2>5, OwnWriter
  <2> QED BY <1>2, <2>1, <2>2, <2>3, <2>4, <2>5 DEF Next
<1> QED BY <1>1, <1>2

-----------------------------------------------------------------------------
(* One place only: what the property counts is one. *)
LEMMA OneElement ==
    ASSUME NEW S, NEW x \in S, \A y \in S : y = x
    PROVE  Cardinality(S) = 1
<1>1. S = {x}
  OBVIOUS
<1>2. Cardinality({x}) = 1
  BY FS_Singleton
<1> QED BY <1>1, <1>2

(* The places of a bundle, one by one *)
LEMMA BundlePlacesAre ==
    ASSUME NEW o
    PROVE  /\ \A q \in {"full", "empty", "disk"} : \A i \in 1 .. Len(pools[q]) :
                 pools[q][i] = o => <<q, i>> \in BundlePlaces(o)
           /\ \A q \in {"unbundle", "bundle"} : batcher[q] = o => <<q, 1>> \in BundlePlaces(o)
           /\ \A w \in Writers : writer[w].object = o => <<"writer", w>> \in BundlePlaces(o)
           /\ \A p \in BundlePlaces(o) :
                 \/ \E q \in {"full", "empty", "disk"} : \E i \in 1 .. Len(pools[q]) :
                       p = <<q, i>> /\ pools[q][i] = o
                 \/ \E q \in {"unbundle", "bundle"} : p = <<q, 1>> /\ batcher[q] = o
                 \/ \E w \in Writers : p = <<"writer", w>> /\ writer[w].object = o
<1> DEFINE A == UNION {{q} \X (1 .. Len(pools[q])) : q \in {"full", "empty", "disk"}}
<1>1. BundlePlaces(o) = {p \in A : pools[p[1]][p[2]] = o}
                        \cup {p \in {"unbundle", "bundle"} \X {1} : batcher[p[1]] = o}
                        \cup {p \in {"writer"} \X Writers : writer[p[2]].object = o}
  BY DEF BundlePlaces
<1>2. \A q \in {"full", "empty", "disk"} : \A i \in 1 .. Len(pools[q]) : <<q, i>> \in A
  OBVIOUS
<1>3. \A p \in A : \E q \in {"full", "empty", "disk"} : \E i \in 1 .. Len(pools[q]) : p = <<q, i>>
  OBVIOUS
<1> HIDE DEF A
<1>4. ASSUME NEW p \in BundlePlaces(o)
      PROVE  \/ \E q \in {"full", "empty", "disk"} : \E i \in 1 .. Len(pools[q]) :
                   p = <<q, i>> /\ pools[q][i] = o
             \/ \E q \in {"unbundle", "bundle"} : p = <<q, 1>> /\ batcher[q] = o
             \/ \E w \in Writers : p = <<"writer", w>> /\ writer[w].object = o
  <2>1. CASE p \in A /\ pools[p[1]][p[2]] = o
    BY <1>3, <2>1
  <2>2. CASE p \in {"unbundle", "bundle"} \X {1} /\ batcher[p[1]] = o
    BY <2>2
  <2>3. CASE p \in {"writer"} \X Writers /\ writer[p[2]].object = o
    BY <2>3
  <2> QED BY <1>1, <2>1, <2>2, <2>3
<1>5. \A q \in {"full", "empty", "disk"} : \A i \in 1 .. Len(pools[q]) :
         pools[q][i] = o => <<q, i>> \in BundlePlaces(o)
  BY <1>1, <1>2
<1>6. \A q \in {"unbundle", "bundle"} : batcher[q] = o => <<q, 1>> \in BundlePlaces(o)
  BY <1>1
<1>7. \A w \in Writers : writer[w].object = o => <<"writer", w>> \in BundlePlaces(o)
  BY <1>1
<1> QED BY <1>4, <1>5, <1>6, <1>7

(* A bundle is where at says it is, and there once. *)
LEMMA BundleOnce ==
    ASSUME Null \notin Objects, NEW at, Located(Disk, Writing, at), WritersApart, NEW o \in Objects
    PROVE  Cardinality(BundlePlaces(o)) = 1
<1>1. /\ NoTwice(pools.full) /\ NoTwice(pools.empty) /\ NoTwice(pools.disk)
      /\ InPool(pools.full, o) <=> at[o] = "full"
      /\ InPool(pools.empty, o) <=> at[o] = "empty"
      /\ InPool(pools.disk, o) <=> at[o] = "disk"
      /\ o \in Writing <=> at[o] = "writer"
      /\ batcher.unbundle = o <=> at[o] = "unbundle"
      /\ batcher.bundle = o <=> at[o] = "bundle"
      /\ at[o] \in Spots
  BY DEF Located, Disk
<1>2. \A q \in {"full", "empty", "disk"} :
         /\ NoTwice(pools[q])
         /\ (\E i \in 1 .. Len(pools[q]) : pools[q][i] = o) <=> at[o] = q
  BY <1>1 DEF InPool
<1>3. (\E w \in Writers : writer[w].object = o) <=> at[o] = "writer"
  BY <1>1 DEF Writing, Busy
<1>4. \A q \in {"unbundle", "bundle"} : batcher[q] = o <=> at[o] = q
  BY <1>1
<1>5. \E p : p \in BundlePlaces(o)
  <2>1. CASE at[o] \in {"full", "empty", "disk"}
    BY <1>2, <2>1, BundlePlacesAre
  <2>2. CASE at[o] \in {"unbundle", "bundle"}
    BY <1>4, <2>2, BundlePlacesAre
  <2>3. CASE at[o] = "writer"
    BY <1>3, <2>3, BundlePlacesAre
  <2> QED BY <1>1, <2>1, <2>2, <2>3 DEF Spots
<1>6. PICK p : p \in BundlePlaces(o)
  BY <1>5
<1>7. ASSUME NEW y \in BundlePlaces(o) PROVE y = p
  <2>1. CASE at[o] \in {"full", "empty", "disk"}
    <3>1. PICK q \in {"full", "empty", "disk"} : q = at[o]
      BY <2>1
    <3>2. \A z \in BundlePlaces(o) : \E i \in 1 .. Len(pools[q]) : z = <<q, i>> /\ pools[q][i] = o
      BY <1>2, <1>3, <1>4, <2>1, <3>1, BundlePlacesAre
    <3> QED BY <1>2, <1>6, <3>2 DEF NoTwice
  <2>2. CASE at[o] \in {"unbundle", "bundle"}
    <3>1. \A z \in BundlePlaces(o) : z = <<at[o], 1>>
      BY <1>2, <1>3, <1>4, <2>2, BundlePlacesAre
    <3> QED BY <1>6, <3>1
  <2>3. CASE at[o] = "writer"
    <3>1. \A z \in BundlePlaces(o) : \E w \in Writers : z = <<"writer", w>> /\ writer[w].object = o
      BY <1>2, <1>4, <2>3, BundlePlacesAre
    <3>2. \A v, w \in Writers : writer[v].object = o /\ writer[w].object = o => v = w
      BY DEF WritersApart, Busy
    <3> QED BY <1>6, <3>1, <3>2
  <2> QED BY <1>1, <2>1, <2>2, <2>3 DEF Spots
<1> QED BY <1>6, <1>7, OneElement

(* The place in Out of a stream's buffer, and of a callback's *)
StreamPlace(s, t) == IF t = "c" /\ s.r # Null THEN 3 ELSE 2

LEMMA StreamOut ==
    ASSUME MainOK, StreamsOK, NEW r \in Streams, stream[r] # Null, NEW t \in Trees,
           NEW x \in BufferIds, stream[r][t] = x
    PROVE  /\ <<r, StreamPlace(stream[r], t)>> \in DOMAIN OutMap
           /\ OutMap[<<r, StreamPlace(stream[r], t)>>] = x
<1>0. Null \notin BufferIds
  BY CallFacts DEF MainOK
<1>1. PICK s, k : s = stream[r] /\ k = StreamPlace(s, t)
  OBVIOUS
<1>2. s # Null /\ s[t] = x /\ t \in {"c", "r"}
  BY <1>1 DEF Trees
<1>3. k \in 2 .. 4 /\ k <= 1 + Count(s) /\ AskedFor(s, k) = x
  <2>1. CASE t = "r"
    <3>1. s.r = x /\ s.r # Null /\ k = 2
      BY <1>0, <1>1, <1>2, <2>1 DEF StreamPlace
    <3> QED BY <3>1 DEF Count, One, AskedFor
  <2>2. CASE t = "c"
    <3>1. s.c = x /\ s.c # Null /\ k = IF s.r # Null THEN 3 ELSE 2
      BY <1>0, <1>1, <1>2, <2>2 DEF StreamPlace
    <3> QED BY <3>1 DEF Count, One, AskedFor
  <2> QED BY <1>2, <2>1, <2>2
<1>4. <<r, k>> \in Out
  BY <1>1, <1>2, <1>3, OutMapIs
<1>5. OutMap[<<r, k>>] = BufferOf(stream, jobs, r, k) /\ DOMAIN OutMap = Out
  BY <1>3, <1>4, OutMapIs
<1>6. BufferOf(stream, jobs, r, k) = x
  BY <1>1, <1>2, <1>3 DEF BufferOf
<1> QED BY <1>1, <1>4, <1>5, <1>6

LEMMA CallbackOut ==
    ASSUME MainOK, StreamsOK, NEW i \in 1 .. Len(jobs), NEW k \in 1 .. 4, k \in DOMAIN jobs[i].ops,
           NEW x, jobs[i].ops[k] = [op |-> "bundle", buf |-> x]
    PROVE  /\ <<jobs[i].res, Len(jobs[i].ops) + 1 - k>> \in DOMAIN OutMap
           /\ OutMap[<<jobs[i].res, Len(jobs[i].ops) + 1 - k>>] = x
<1>1. jobs[i] \in Jobs /\ OpsOK(jobs[i].ops)
  BY DEF StreamsOK
<1>2. PICK ops \in Seq(Ops) : ops = jobs[i].ops
  BY <1>1 DEF Jobs
<1>3. PICK n \in 1 .. 4 : n = Len(ops)
  BY <1>1, <1>2 DEF OpsOK
<1>4. k \in 1 .. n /\ ops[k].op = "bundle" /\ ops[k].buf = x
  BY <1>2, <1>3
<1>5. k # n
  BY <1>1, <1>2, <1>3, <1>4 DEF OpsOK
<1>6. PICK l \in 2 .. 4 : l = n + 1 - k /\ l <= n /\ n + 1 - l = k
  <2>1. n + 1 - k \in 2 .. 4 /\ n + 1 - k <= n /\ n + 1 - (n + 1 - k) = k
    BY <1>4, <1>5
  <2> QED BY <2>1
<1>7. InJob(jobs[i], l) /\ OpAt(jobs[i], l).buf = x
  BY <1>2, <1>3, <1>4, <1>6 DEF InJob, OpAt
<1>8. <<jobs[i].res, l>> \in Out /\ BufferOf(stream, jobs, jobs[i].res, l) = x /\ jobs[i].res \in Streams
  BY <1>7, OutMapIs
<1>9. OutMap[<<jobs[i].res, l>>] = x /\ DOMAIN OutMap = Out
  BY <1>8, OutMapIs
<1>10. Len(jobs[i].ops) + 1 - k = l
  BY <1>2, <1>3, <1>6
<1> QED BY <1>8, <1>9, <1>10

(* The places of a buffer, one by one *)
LEMMA BufferPlacesAre ==
    ASSUME NEW x
    PROVE  /\ \A o \in Objects, j \in Slot :
                 InUse(o, j) /\ bundles[o][j] = x => <<"bundle", o, j>> \in BufferPlaces(x)
           /\ \A r \in Streams, t \in Trees :
                 stream[r] # Null /\ stream[r][t] = x => <<"stream", r, t>> \in BufferPlaces(x)
           /\ \A i \in 1 .. Len(jobs), k \in 1 .. 4 :
                 k \in DOMAIN jobs[i].ops /\ jobs[i].ops[k] = [op |-> "bundle", buf |-> x] =>
                    <<"callback", i, k>> \in BufferPlaces(x)
           /\ \A p \in BufferPlaces(x) :
                 \/ \E o \in Objects, j \in Slot :
                       p = <<"bundle", o, j>> /\ InUse(o, j) /\ bundles[o][j] = x
                 \/ \E r \in Streams, t \in Trees :
                       p = <<"stream", r, t>> /\ stream[r] # Null /\ stream[r][t] = x
                 \/ \E i \in 1 .. Len(jobs), k \in 1 .. 4 :
                       /\ p = <<"callback", i, k>> /\ k \in DOMAIN jobs[i].ops
                       /\ jobs[i].ops[k] = [op |-> "bundle", buf |-> x]
<1> DEFINE A == {p \in {"bundle"} \X Objects \X Slot : InUse(p[2], p[3]) /\ bundles[p[2]][p[3]] = x}
           B == {p \in {"stream"} \X Streams \X Trees : stream[p[2]] # Null /\ stream[p[2]][p[3]] = x}
           C == {p \in {"callback"} \X (1 .. Len(jobs)) \X (1 .. 4) :
                    /\ p[3] \in DOMAIN jobs[p[2]].ops
                    /\ jobs[p[2]].ops[p[3]] = [op |-> "bundle", buf |-> x]}
<1>1. BufferPlaces(x) = A \cup B \cup C
  BY DEF BufferPlaces
<1>2. \A o \in Objects, j \in Slot : InUse(o, j) /\ bundles[o][j] = x => <<"bundle", o, j>> \in A
  OBVIOUS
<1>3. \A r \in Streams, t \in Trees : stream[r] # Null /\ stream[r][t] = x => <<"stream", r, t>> \in B
  OBVIOUS
<1>4. \A i \in 1 .. Len(jobs), k \in 1 .. 4 :
         k \in DOMAIN jobs[i].ops /\ jobs[i].ops[k] = [op |-> "bundle", buf |-> x] =>
            <<"callback", i, k>> \in C
  OBVIOUS
<1>5. \A p \in A : \E o \in Objects, j \in Slot :
         p = <<"bundle", o, j>> /\ InUse(o, j) /\ bundles[o][j] = x
  OBVIOUS
<1>6. \A p \in B : \E r \in Streams, t \in Trees :
         p = <<"stream", r, t>> /\ stream[r] # Null /\ stream[r][t] = x
  OBVIOUS
<1>7. \A p \in C : \E i \in 1 .. Len(jobs), k \in 1 .. 4 :
         /\ p = <<"callback", i, k>> /\ k \in DOMAIN jobs[i].ops
         /\ jobs[i].ops[k] = [op |-> "bundle", buf |-> x]
  OBVIOUS
<1> HIDE DEF A, B, C
<1>8. \A o \in Objects, j \in Slot :
         InUse(o, j) /\ bundles[o][j] = x => <<"bundle", o, j>> \in BufferPlaces(x)
  BY <1>1, <1>2
<1>9. \A r \in Streams, t \in Trees :
         stream[r] # Null /\ stream[r][t] = x => <<"stream", r, t>> \in BufferPlaces(x)
  BY <1>1, <1>3
<1>10. \A i \in 1 .. Len(jobs), k \in 1 .. 4 :
          k \in DOMAIN jobs[i].ops /\ jobs[i].ops[k] = [op |-> "bundle", buf |-> x] =>
             <<"callback", i, k>> \in BufferPlaces(x)
  BY <1>1, <1>4
<1>11. \A p \in BufferPlaces(x) : p \in A \/ p \in B \/ p \in C
  BY <1>1
<1> QED BY <1>5, <1>6, <1>7, <1>8, <1>9, <1>10, <1>11

(* A buffer that is out has a place at a stream or in a callback. *)
LEMMA OutHasPlace ==
    ASSUME MainOK, StreamsOK, NEW q \in DOMAIN OutMap, NEW x, OutMap[q] = x
    PROVE  \E p : p \in BufferPlaces(x)
<1>1. PICK r \in Streams, k \in 2 .. 4 : q = <<r, k>> /\ <<r, k>> \in Out
  <2>1. DOMAIN OutMap = Out /\ Out \subseteq Streams \X (2 .. 4)
    BY OutMapIs
  <2> QED BY <2>1
<1>2. BufferOf(stream, jobs, r, k) = x
  BY <1>1, OutMapIs
<1>3. CASE stream[r] # Null
  <2>1. PICK t \in Trees : t = IF k = 3 \/ stream[r].r = Null THEN "c" ELSE "r"
    BY DEF Trees
  <2>2. stream[r][t] = x
    BY <1>2, <1>3, <2>1 DEF BufferOf, AskedFor
  <2> QED BY <1>3, <2>2, BufferPlacesAre
<1>4. CASE stream[r] = Null
  <2>1. PICK i \in 1 .. Len(jobs) : jobs[i].res = r
    BY <1>1, <1>4, OutMapIs
  <2>2. InJob(jobs[i], k) /\ OpAt(jobs[i], k).buf = x
    BY <1>1, <1>2, <2>1, OutMapIs
  <2>3. jobs[i] \in Jobs /\ OpsOK(jobs[i].ops)
    BY DEF StreamsOK
  <2>4. PICK ops \in Seq(Ops) : ops = jobs[i].ops
    BY <2>3 DEF Jobs
  <2>5. PICK n \in 1 .. 4 : n = Len(ops)
    BY <2>3, <2>4 DEF OpsOK
  <2>6. k <= n /\ ops[n + 1 - k].op = "bundle" /\ ops[n + 1 - k].buf = x
    BY <2>2, <2>4, <2>5 DEF InJob, OpAt
  <2>7. PICK l \in 1 .. 4 : l = n + 1 - k /\ l \in 1 .. n
    <3>1. n + 1 - k \in 1 .. 4 /\ n + 1 - k \in 1 .. n
      BY <2>6
    <3> QED BY <3>1
  <2>8. ops[l] \in Ops /\ ops[l].op = "bundle" /\ ops[l].buf = x /\ l \in DOMAIN ops
    BY <2>5, <2>6, <2>7
  <2>9. ops[l] = [op |-> "bundle", buf |-> x]
    BY <2>8 DEF Ops
  <2> QED BY <2>4, <2>8, <2>9, BufferPlacesAre
<1> QED BY <1>3, <1>4

(* Places at streams and in callbacks with the same place in Out are the same. *)
LEMMA OutPlaceOnce ==
    ASSUME MainOK, StreamsOK, NEW x \in BufferIds, NEW q \in DOMAIN OutMap,
           \A z \in DOMAIN OutMap : OutMap[z] = x => z = q,
           \A o \in Objects, j \in Slot : ~(InUse(o, j) /\ bundles[o][j] = x),
           NEW y \in BufferPlaces(x), NEW p \in BufferPlaces(x)
    PROVE  y = p
<1>0. Null \notin BufferIds
  BY CallFacts DEF MainOK
<1>1. \A z \in BufferPlaces(x) :
         \/ \E r \in Streams, t \in Trees :
               z = <<"stream", r, t>> /\ stream[r] # Null /\ stream[r][t] = x
         \/ \E i \in 1 .. Len(jobs), k \in 1 .. 4 :
               /\ z = <<"callback", i, k>> /\ k \in DOMAIN jobs[i].ops
               /\ jobs[i].ops[k] = [op |-> "bundle", buf |-> x]
  BY BufferPlacesAre
<1>2. \A r \in Streams, t \in Trees : stream[r] # Null /\ stream[r][t] = x =>
         q = <<r, StreamPlace(stream[r], t)>>
  BY StreamOut
<1>3. \A i \in 1 .. Len(jobs), k \in 1 .. 4 :
         k \in DOMAIN jobs[i].ops /\ jobs[i].ops[k] = [op |-> "bundle", buf |-> x] =>
            q = <<jobs[i].res, Len(jobs[i].ops) + 1 - k>>
  <2>1. SUFFICES ASSUME NEW i \in 1 .. Len(jobs), NEW k \in 1 .. 4, k \in DOMAIN jobs[i].ops,
                        jobs[i].ops[k] = [op |-> "bundle", buf |-> x]
                 PROVE  q = <<jobs[i].res, Len(jobs[i].ops) + 1 - k>>
    OBVIOUS
  <2>2. PICK z : z = <<jobs[i].res, Len(jobs[i].ops) + 1 - k>>
    OBVIOUS
  <2>3. /\ <<jobs[i].res, Len(jobs[i].ops) + 1 - k>> \in DOMAIN OutMap
        /\ OutMap[<<jobs[i].res, Len(jobs[i].ops) + 1 - k>>] = x
    BY <2>1, CallbackOut, ZenonT(40)
  <2>4. z \in DOMAIN OutMap /\ OutMap[z] = x
    BY <2>2, <2>3
  <2>5. z = q
    BY <2>4
  <2> QED BY <2>2, <2>5
<1>4. \A i \in 1 .. Len(jobs) : stream[jobs[i].res] = Null
  BY DEF StreamsOK
<1>5. \A i, k \in 1 .. Len(jobs) : jobs[i].res = jobs[k].res => i = k
  BY DEF StreamsOK
<1>6. \A i \in 1 .. Len(jobs) : Len(jobs[i].ops) \in 1 .. 4
  BY DEF StreamsOK, OpsOK
<1>7. ASSUME NEW r \in Streams, NEW t \in Trees, stream[r] # Null, stream[r][t] = x,
             NEW s \in Streams, NEW v \in Trees, stream[s] # Null, stream[s][v] = x
      PROVE  r = s /\ t = v
  <2>1. <<r, StreamPlace(stream[r], t)>> = <<s, StreamPlace(stream[s], v)>>
    BY <1>2, <1>7
  <2>2. r = s /\ StreamPlace(stream[r], t) = StreamPlace(stream[r], v)
    BY <2>1
  <2>3. t = "r" \/ v = "r" => stream[r].r # Null
    BY <1>0, <1>7, <2>2
  <2>4. t \in {"c", "r"} /\ v \in {"c", "r"}
    BY DEF Trees
  <2> QED BY <2>2, <2>3, <2>4 DEF StreamPlace
<1>8. ASSUME NEW i \in 1 .. Len(jobs), NEW k \in 1 .. 4, k \in DOMAIN jobs[i].ops,
             jobs[i].ops[k] = [op |-> "bundle", buf |-> x],
             NEW m \in 1 .. Len(jobs), NEW l \in 1 .. 4, l \in DOMAIN jobs[m].ops,
             jobs[m].ops[l] = [op |-> "bundle", buf |-> x]
      PROVE  i = m /\ k = l
  <2>1. q = <<jobs[i].res, Len(jobs[i].ops) + 1 - k>> /\ q = <<jobs[m].res, Len(jobs[m].ops) + 1 - l>>
    BY <1>3, <1>8
  <2>2. i = m
    BY <1>5, <2>1
  <2>3. PICK n \in 1 .. 4 : n = Len(jobs[i].ops)
    BY <1>6
  <2>4. n + 1 - k = n + 1 - l
    BY <2>1, <2>2, <2>3
  <2> QED BY <2>2, <2>4
<1>9. ASSUME NEW r \in Streams, NEW t \in Trees, stream[r] # Null, stream[r][t] = x,
             NEW i \in 1 .. Len(jobs), NEW k \in 1 .. 4, k \in DOMAIN jobs[i].ops,
             jobs[i].ops[k] = [op |-> "bundle", buf |-> x]
      PROVE  FALSE
  <2>1. <<r, StreamPlace(stream[r], t)>> = <<jobs[i].res, Len(jobs[i].ops) + 1 - k>>
    BY <1>2, <1>3, <1>9
  <2> QED BY <1>4, <1>9, <2>1
<1> QED BY <1>1, <1>7, <1>8, <1>9

(* The slots in use are those that keep a buffer. *)
LEMMA InUseIs ==
    ASSUME Null \notin Objects, NEW at, Located(Disk, Writing, at), NEW o \in Objects, NEW j \in Slot
    PROVE  InUse(o, j) <=> Keeps(at, batcher, o, j)
<1>1. /\ InPool(pools.full, o) <=> at[o] = "full"
      /\ InPool(pools.disk, o) <=> at[o] = "disk"
      /\ o \in Writing <=> at[o] = "writer"
      /\ batcher.unbundle = o <=> at[o] = "unbundle"
      /\ batcher.bundle = o <=> at[o] = "bundle"
  BY DEF Located, Disk
<1>2. (\E w \in Writers : writer[w].object = o) <=> at[o] = "writer"
  BY <1>1 DEF Writing, Busy
<1>3. (\E q \in {"full", "disk"} : o \in Range(pools[q])) <=> at[o] \in {"full", "disk"}
  <2>1. DOMAIN pools.full = 1 .. Len(pools.full) /\ DOMAIN pools.disk = 1 .. Len(pools.disk)
    OBVIOUS
  <2> QED BY <1>1, <2>1 DEF InPool, Range
<1> QED BY <1>1, <1>2, <1>3 DEF InUse, Keeps

LEMMA BufferOnce ==
    ASSUME MainOK, StreamsOK, Null \notin Objects, NEW at, Located(Disk, Writing, at),
           Owned(Kept(Disk, at), OutMap), NEW x \in BufferIds
    PROVE  Cardinality(BufferPlaces(x)) = 1
<1>1. PICK f, g : f = Kept(Disk, at) /\ g = OutMap
  OBVIOUS
<1>2. /\ \A p, q \in DOMAIN f : f[p] = f[q] => p = q
      /\ \A p, q \in DOMAIN g : g[p] = g[q] => p = q
      /\ \A p \in DOMAIN f, q \in DOMAIN g : f[p] # g[q]
      /\ (\E p \in DOMAIN f : f[p] = x) \/ (\E q \in DOMAIN g : g[q] = x)
  BY <1>1 DEF Owned
<1>3. \A o \in Objects, j \in Slot : /\ <<o, j>> \in DOMAIN f <=> InUse(o, j)
                                     /\ InUse(o, j) => f[<<o, j>>] = bundles[o][j]
  <2>1. \A o \in Objects, j \in Slot : InUse(o, j) <=> Keeps(at, batcher, o, j)
    BY InUseIs
  <2>2. f = [p \in {z \in Objects \X Slot : Keeps(at, batcher, z[1], z[2])} |-> bundles[p[1]][p[2]]]
    BY <1>1 DEF Kept, Disk
  <2> QED BY <2>1, <2>2
<1>4. DOMAIN f \subseteq Objects \X Slot
  BY <1>1 DEF Kept
<1>5. CASE \E p \in DOMAIN f : f[p] = x
  <2>1. PICK o \in Objects, j \in Slot : <<o, j>> \in DOMAIN f /\ f[<<o, j>>] = x
    BY <1>4, <1>5
  <2>2. InUse(o, j) /\ bundles[o][j] = x
    BY <1>3, <2>1
  <2>3. <<"bundle", o, j>> \in BufferPlaces(x)
    BY <2>2, BufferPlacesAre
  <2>4. \A q \in DOMAIN g : g[q] # x
    BY <1>2, <2>1
  <2>5. ASSUME NEW y \in BufferPlaces(x) PROVE y = <<"bundle", o, j>>
    <3>1. CASE \E v \in Objects, k \in Slot : y = <<"bundle", v, k>> /\ InUse(v, k) /\ bundles[v][k] = x
      <4>1. PICK v \in Objects, k \in Slot : y = <<"bundle", v, k>> /\ InUse(v, k) /\ bundles[v][k] = x
        BY <3>1
      <4>2. <<v, k>> \in DOMAIN f /\ f[<<v, k>>] = x
        BY <1>3, <4>1
      <4>3. <<v, k>> = <<o, j>>
        BY <1>2, <2>1, <4>2
      <4> QED BY <4>1, <4>3
    <3>2. CASE \E r \in Streams, t \in Trees : stream[r] # Null /\ stream[r][t] = x
      <4>1. \E q \in DOMAIN g : g[q] = x
        BY <1>1, <3>2, StreamOut, ZenonT(40)
      <4> QED BY <2>4, <4>1
    <3>3. CASE \E i \in 1 .. Len(jobs), k \in 1 .. 4 :
                  k \in DOMAIN jobs[i].ops /\ jobs[i].ops[k] = [op |-> "bundle", buf |-> x]
      <4>1. \E q \in DOMAIN g : g[q] = x
        <5>1. PICK i \in 1 .. Len(jobs), k \in 1 .. 4 :
                 k \in DOMAIN jobs[i].ops /\ jobs[i].ops[k] = [op |-> "bundle", buf |-> x]
          BY <3>3
        <5>2. /\ <<jobs[i].res, Len(jobs[i].ops) + 1 - k>> \in DOMAIN OutMap
              /\ OutMap[<<jobs[i].res, Len(jobs[i].ops) + 1 - k>>] = x
          BY <5>1, CallbackOut, ZenonT(40)
        <5>3. PICK z : z = <<jobs[i].res, Len(jobs[i].ops) + 1 - k>>
          OBVIOUS
        <5>4. z \in DOMAIN g /\ g[z] = x
          BY <1>1, <5>2, <5>3
        <5> QED BY <5>4
      <4> QED BY <2>4, <4>1
    <3> QED BY <3>1, <3>2, <3>3, BufferPlacesAre
  <2> QED BY <2>3, <2>5, OneElement
<1>6. CASE \E q \in DOMAIN g : g[q] = x
  <2>1. PICK q \in DOMAIN g : g[q] = x
    BY <1>6
  <2>2. \A o \in Objects, j \in Slot : ~(InUse(o, j) /\ bundles[o][j] = x)
    <3>1. SUFFICES ASSUME NEW o \in Objects, NEW j \in Slot, InUse(o, j), bundles[o][j] = x
                   PROVE  FALSE
      OBVIOUS
    <3>2. <<o, j>> \in DOMAIN f /\ f[<<o, j>>] = x
      BY <1>3, <3>1
    <3>3. PICK p : p = <<o, j>>
      OBVIOUS
    <3>4. p \in DOMAIN f /\ f[p] = x
      BY <3>2, <3>3
    <3> QED BY <1>2, <2>1, <3>4
  <2>3. PICK p : p \in BufferPlaces(x)
    <3>1. q \in DOMAIN OutMap /\ OutMap[q] = x
      BY <1>1, <2>1
    <3> QED BY <3>1, OutHasPlace
  <2>4. ASSUME NEW y \in BufferPlaces(x) PROVE y = p
    <3>1. q \in DOMAIN OutMap /\ \A z \in DOMAIN OutMap : OutMap[z] = x => z = q
      BY <1>1, <1>2, <2>1
    <3> QED BY <2>2, <2>3, <3>1, OutPlaceOnce
  <2> QED BY <2>3, <2>4, OneElement
<1> QED BY <1>2, <1>5, <1>6

(* What the theorem states follows from the invariant. *)
LEMMA OwnSuffices ==
    ASSUME IInv, Alive => Own
    PROVE  BuffersHaveOneOwner
<1>1. SUFFICES ASSUME mpc \in {"start", "loop", "load", "flush"}
               PROVE  /\ \A o \in Objects : Cardinality(BundlePlaces(o)) = 1
                      /\ \A x \in BufferIds : Cardinality(BufferPlaces(x)) = 1
  BY DEF BuffersHaveOneOwner
<1>2. Own /\ MainOK /\ StreamsOK
  BY <1>1 DEF Alive, IInv
<1>3. Null \notin Objects
  BY <1>2, CallFacts DEF MainOK
<1>4. PICK at : Located(Disk, Writing, at) /\ Owned(Kept(Disk, at), OutMap)
  BY <1>2 DEF Own, OwnOK
<1>5. WritersApart
  BY <1>2 DEF Own
<1>6. \A o \in Objects : Cardinality(BundlePlaces(o)) = 1
  BY <1>3, <1>4, <1>5, BundleOnce
<1>7. \A x \in BufferIds : Cardinality(BufferPlaces(x)) = 1
  BY <1>2, <1>3, <1>4, BufferOnce
<1> QED BY <1>6, <1>7

OwnInv == IInv /\ (Alive => Own)

(* No bundle and no host buffer is ever lost or at two places, whatever the      *)
(* order of streams, callbacks and writers: BuffersHaveOneOwner is an invariant  *)
(* of every behaviour in which no flush but the last one has more than one       *)
(* place to fill.                                                                *)
THEOREM BuffersHaveOneOwnerAlways == Spec /\ []FlushesInBounds => []BuffersHaveOneOwner
<1>1. Init => OwnInv
  BY InitHolds, OwnInit DEF OwnInv
<1>2. OwnInv /\ FlushesInBounds /\ [Next]_vars => OwnInv'
  <2>1. ASSUME OwnInv, FlushesInBounds, [Next]_vars PROVE OwnInv'
    <3>1. IInv'
      BY <2>1, NextHolds DEF OwnInv
    <3>2. ASSUME Alive' PROVE Own'
      BY <2>1, <3>2, OwnNext DEF OwnInv
    <3> QED BY <3>1, <3>2 DEF OwnInv
  <2> QED BY <2>1
<1>3. OwnInv => BuffersHaveOneOwner
  BY OwnSuffices DEF OwnInv
<1> QED BY <1>1, <1>2, <1>3, PTL DEF Spec

(* A call that fills one file per tree flushes once, at its end: nothing is    *)
(* to be assumed.                                                              *)
THEOREM OneFileOneOwner == Spec /\ cfg.parts = 1 => []BuffersHaveOneOwner
<1> DEFINE Inv == OwnInv /\ cfg.parts = 1
<1>1. Init /\ cfg.parts = 1 => Inv
  BY InitHolds, OwnInit DEF OwnInv
<1>2. Inv => FlushesInBounds
  <2>1. Inv => part \in Nat /\ cfg.parts = 1
    BY DEF OwnInv, IInv, MainOK
  <2> QED BY <2>1 DEF FlushesInBounds
<1>3. Inv /\ [Next]_vars => Inv'
  <2>1. ASSUME Inv, [Next]_vars PROVE Inv'
    <3>1. IInv' /\ cfg' = cfg
      BY <1>2, <2>1, NextHolds, SameCall DEF OwnInv
    <3>2. ASSUME Alive' PROVE Own'
      BY <1>2, <2>1, <3>2, OwnNext DEF OwnInv
    <3> QED BY <2>1, <3>1, <3>2 DEF OwnInv
  <2> QED BY <2>1
<1>4. Inv => BuffersHaveOneOwner
  BY OwnSuffices DEF OwnInv
<1> QED BY <1>1, <1>3, <1>4, PTL DEF Spec
=============================================================================
