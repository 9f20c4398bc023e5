------------------------------- MODULE Groth16 -------------------------------
(***************************************************************************)
(* The threads of generate_groth16_proofs_c (c2/cuda/groth16_cuda.cu): one *)
(* that prepares the split MSMs of all circuits and then computes b_g2 on  *)
(* the CPU, one per GPU that computes h, waits for the preparation at a    *)
(* semaphore and then does the batch additions and the other MSMs of its   *)
(* share of the circuits, and the caller, which joins them all.            *)
(*                                                                         *)
(* Any GPU operation may throw.  The first thread to catch an exception    *)
(* sets caught_exception and lets the other GPU threads through the        *)
(* semaphore, since the preparation may return without having done so.     *)
(*                                                                         *)
(* An operation and the test of caught_exception after it are one step:    *)
(* nobody looks at a result before the thread that computes it has ended.  *)
(* What the MSMs compute is left to SplitMsm; here a result is the number  *)
(* of times it has been computed.  The static mutex runs one call at a     *)
(* time, and all state is local to a call: one call is modelled.           *)
(*                                                                         *)
(* A definition whose name ends in _Wrong is the one after it with a       *)
(* plausible mistake in it: a property must notice its use.                *)
(***************************************************************************)
EXTENDS Integers, Sequences

CONSTANTS NumGpus,      \* ngpus()
          NumCircuits   \* num_circuits

ASSUME Groth16Assumption == {NumGpus, NumCircuits} \subseteq Nat \ {0}

n_gpus   == IF NumGpus < NumCircuits THEN NumGpus ELSE NumCircuits
Gpus     == 0 .. n_gpus - 1
Circuits == 0 .. NumCircuits - 1

(* The share of a GPU thread: the first rem threads have one circuit more. *)
Rem      == NumCircuits % n_gpus
Share(g) == NumCircuits \div n_gpus + (IF g < Rem THEN 1 ELSE 0)
Circuit0_Wrong(g) == g * Share(g)
Circuit0(g) == g * Share(g) + (IF g >= Rem THEN Rem ELSE 0)
Mine(g)  == Circuit0(g) .. Circuit0(g) + Share(g) - 1

Success == -1                              \* cudaSuccess
Queries == {"l", "a", "b"}                 \* l_split_msm, a_split_msm, b_split_msm
Msms    == {"h", "l", "a", "b_g1", "b_g2"} \* fields of msm_results
Sums    == {"l", "a", "b_g1", "b_g2"}      \* fields of batch_add_results
SumOrder == <<"l", "a", "b_g1", "b_g2">>
MsmOrder == <<"l", "a", "b_g1">>
QueryOf(s) == IF s \in {"b_g1", "b_g2"} THEN "b" ELSE s

VARIABLES
    ppc,       \* where the preparation thread is
    pi,        \* its loop counter: notifications sent, or circuits done
    split,     \* the queries whose MSM is split
    prepared,  \* the split vectors, bases and flags are complete
    barrier,   \* the semaphore's count
    caught,    \* caught_exception
    gpc,       \* where each GPU thread is
    gc,        \* the circuit it is at
    step,      \* its place in SumOrder or MsmOrder
    told,      \* notifications sent by the thread that caught first
    msm,       \* msm -> circuit -> times computed: results
    sum,       \* sum -> circuit -> times computed: batch_add_res
    ret,       \* Success, or the thread whose error is returned
    threw,     \* the threads whose operation threw (history)
    mpc,       \* where the caller is
    proofs     \* circuits whose proof is assembled

prepVars == <<ppc, pi, split, prepared>>
gpuVars  == <<gpc, gc, step, told, sum, ret, threw>>
vars     == <<prepVars, gpuVars, barrier, caught, msm, mpc, proofs>>

Init ==
    /\ ppc = "mark" /\ pi = 0 /\ split = Queries /\ prepared = FALSE
    /\ barrier = 0 /\ caught = FALSE
    /\ gpc = [g \in Gpus |-> "h"]
    /\ gc = [g \in Gpus |-> Circuit0(g)]
    /\ step = [g \in Gpus |-> 1]
    /\ told = 0
    /\ msm = [m \in Msms |-> [c \in Circuits |-> 0]]
    /\ sum = [s \in Sums |-> [c \in Circuits |-> 0]]
    /\ ret = Success /\ threw = {}
    /\ mpc = "join" /\ proofs = {}

-----------------------------------------------------------------------------
(* The preparation thread *)

(* Mark the significant scalars of every circuit. *)
MarkScalars ==
    /\ ppc = "mark"
    /\ ppc' = IF caught THEN "done" ELSE "merge"
    /\ UNCHANGED <<pi, split, prepared, gpuVars, barrier, caught, msm, mpc, proofs>>

(* Merge the marks of all circuits and count them. *)
MergeMasks ==
    /\ ppc = "merge"
    /\ ppc' = IF caught THEN "done" ELSE "split"
    /\ UNCHANGED <<pi, split, prepared, gpuVars, barrier, caught, msm, mpc, proofs>>

(* Decide which queries to split and fill in bitmaps, bases and scalars. *)
Populate ==
    /\ ppc = "split"
    /\ split' \in SUBSET Queries
    /\ prepared' = TRUE
    /\ ppc' = "notify"
    /\ UNCHANGED <<pi, gpuVars, barrier, caught, msm, mpc, proofs>>

Notify ==
    /\ ppc = "notify" /\ pi < n_gpus
    /\ barrier' = barrier + 1
    /\ pi' = pi + 1
    /\ UNCHANGED <<ppc, split, prepared, gpuVars, caught, msm, mpc, proofs>>

Notified ==
    /\ ppc = "notify" /\ pi = n_gpus
    /\ ppc' = IF caught THEN "done" ELSE "tail"
    /\ pi' = 0
    /\ UNCHANGED <<split, prepared, gpuVars, barrier, caught, msm, mpc, proofs>>

(* The tail MSM of b_g2 for the next circuit, on the CPU. *)
TailB2 ==
    /\ ppc = "tail"
    /\ msm' = [msm EXCEPT !["b_g2"][pi] = @ + 1]
    /\ pi' = pi + 1
    /\ ppc' = IF caught \/ pi' = NumCircuits THEN "done" ELSE "tail"
    /\ UNCHANGED <<split, prepared, gpuVars, barrier, caught, mpc, proofs>>

PrepNext == MarkScalars \/ MergeMasks \/ Populate \/ Notify \/ Notified \/ TailB2

-----------------------------------------------------------------------------
(* A GPU thread *)

(* h of the next circuit: NTTs and an MSM. *)
ComputeH(g) ==
    /\ gpc[g] = "h"
    /\ msm' = [msm EXCEPT !["h"][gc[g]] = @ + 1]
    /\ IF gc[g] + 1 \in Mine(g)
         THEN /\ gc' = [gc EXCEPT ![g] = @ + 1]
              /\ gpc' = [gpc EXCEPT ![g] = IF caught THEN "done" ELSE "h"]
         ELSE /\ gc' = [gc EXCEPT ![g] = Circuit0(g)]
              /\ gpc' = [gpc EXCEPT ![g] = IF caught THEN "done" ELSE "wait"]
    /\ UNCHANGED <<prepVars, step, told, sum, ret, threw, barrier, caught, mpc, proofs>>

Wait(g) ==
    /\ gpc[g] = "wait" /\ barrier > 0
    /\ barrier' = barrier - 1
    /\ gpc' = [gpc EXCEPT ![g] = "woken"]
    /\ UNCHANGED <<prepVars, gc, step, told, sum, ret, threw, caught, msm, mpc, proofs>>

Woken_Wrong(g) ==   \* goes on in any case
    /\ gpc[g] = "woken"
    /\ gpc' = [gpc EXCEPT ![g] = "sum"]
    /\ UNCHANGED <<prepVars, gc, step, told, sum, ret, threw, barrier, caught,
                   msm, mpc, proofs>>

Woken(g) ==
    /\ gpc[g] = "woken"
    /\ gpc' = [gpc EXCEPT ![g] = IF caught THEN "done" ELSE "sum"]
    /\ UNCHANGED <<prepVars, gc, step, told, sum, ret, threw, barrier, caught,
                   msm, mpc, proofs>>

(* After the step-th batch addition: the next one, or the MSMs. *)
AfterSum(g) ==
    IF step[g] < Len(SumOrder)
      THEN /\ step' = [step EXCEPT ![g] = @ + 1]
           /\ gpc' = [gpc EXCEPT ![g] = IF caught THEN "done" ELSE "sum"]
      ELSE /\ step' = [step EXCEPT ![g] = 1]
           /\ gpc' = [gpc EXCEPT ![g] = IF caught THEN "done" ELSE "msm"]

(* A batch addition, for all circuits of the thread *)
BatchAddition(g) ==
    /\ gpc[g] = "sum" /\ QueryOf(SumOrder[step[g]]) \in split
    /\ sum' = [sum EXCEPT ![SumOrder[step[g]]] =
                 [c \in Circuits |-> IF c \in Mine(g) THEN @[c] + 1 ELSE @[c]]]
    /\ AfterSum(g)
    /\ UNCHANGED <<prepVars, gc, told, ret, threw, barrier, caught, msm, mpc, proofs>>

(* No batch addition for a query that is not split, and no test either. *)
SkipAddition(g) ==
    /\ gpc[g] = "sum" /\ QueryOf(SumOrder[step[g]]) \notin split
    /\ LET last == step[g] = Len(SumOrder)
       IN /\ step' = [step EXCEPT ![g] = IF last THEN 1 ELSE @ + 1]
          /\ gpc' = [gpc EXCEPT ![g] = IF last THEN "msm" ELSE "sum"]
    /\ UNCHANGED <<prepVars, gc, told, sum, ret, threw, barrier, caught, msm,
                   mpc, proofs>>

(* The tail MSMs of a circuit, one after the other *)
TailMsm(g) ==
    /\ gpc[g] = "msm"
    /\ msm' = [msm EXCEPT ![MsmOrder[step[g]]][gc[g]] = @ + 1]
    /\ LET last == step[g] = Len(MsmOrder)
           end  == last /\ gc[g] + 1 \notin Mine(g)
       IN /\ step' = [step EXCEPT ![g] = IF last THEN 1 ELSE @ + 1]
          /\ gc' = [gc EXCEPT ![g] = IF last THEN @ + 1 ELSE @]
          /\ gpc' = [gpc EXCEPT ![g] = IF caught \/ end THEN "done" ELSE "msm"]
    /\ UNCHANGED <<prepVars, told, sum, ret, threw, barrier, caught, mpc, proofs>>

(* An operation on the GPU throws a cuda_error. *)
Throw(g) ==
    /\ \/ gpc[g] \in {"h", "msm"}
       \/ gpc[g] = "sum" /\ QueryOf(SumOrder[step[g]]) \in split
    /\ threw' = threw \cup {g}
    /\ gpc' = [gpc EXCEPT ![g] = "catch"]
    /\ UNCHANGED <<prepVars, gc, step, told, sum, ret, barrier, caught, msm,
                   mpc, proofs>>

(* caught_exception.exchange(true): only the first one tells the others. *)
Catch(g) ==
    /\ gpc[g] = "catch"
    /\ caught' = TRUE
    /\ gpc' = [gpc EXCEPT ![g] = IF caught THEN "done" ELSE "tell"]
    /\ UNCHANGED <<prepVars, gc, step, told, sum, ret, threw, barrier, msm,
                   mpc, proofs>>

Others_Wrong == n_gpus - 2
Others == n_gpus - 1

Tell(g) ==
    /\ gpc[g] = "tell" /\ told < Others
    /\ barrier' = barrier + 1
    /\ told' = told + 1
    /\ UNCHANGED <<prepVars, gpc, gc, step, sum, ret, threw, caught, msm, mpc, proofs>>

SetRet(g) ==
    /\ gpc[g] = "tell" /\ told >= Others
    /\ ret' = g
    /\ gpc' = [gpc EXCEPT ![g] = "done"]
    /\ UNCHANGED <<prepVars, gc, step, told, sum, threw, barrier, caught, msm,
                   mpc, proofs>>

GpuNext(g) ==
    \/ ComputeH(g) \/ Wait(g) \/ Woken(g)
    \/ BatchAddition(g) \/ SkipAddition(g) \/ TailMsm(g)
    \/ Throw(g) \/ Catch(g) \/ Tell(g) \/ SetRet(g)

-----------------------------------------------------------------------------
(* The caller *)

Joined == ppc = "done" /\ \A g \in Gpus : gpc[g] = "done"

Return_Wrong ==   \* does not look at caught_exception
    /\ mpc = "join" /\ Joined
    /\ proofs' = Circuits
    /\ mpc' = "done"
    /\ UNCHANGED <<prepVars, gpuVars, barrier, caught, msm>>

(* Join all threads; without an exception, assemble the proofs. *)
Return ==
    /\ mpc = "join" /\ Joined
    /\ proofs' = IF caught THEN {} ELSE Circuits
    /\ mpc' = "done"
    /\ UNCHANGED <<prepVars, gpuVars, barrier, caught, msm>>

Terminated == mpc = "done" /\ UNCHANGED vars

Next == PrepNext \/ (\E g \in Gpus : GpuNext(g)) \/ Return \/ Terminated

Spec == Init /\ [][Next]_vars

(* The threads are the operating system's: each that can go on does.  An *)
(* operation need not throw.                                             *)
Fairness ==
    /\ WF_vars(PrepNext) /\ WF_vars(Return)
    /\ \A g \in Gpus : WF_vars(GpuNext(g))

FairSpec == Spec /\ Fairness

-----------------------------------------------------------------------------
(* The variables have their types: no thread steps past its circuits, its *)
(* batch additions or its MSMs.                                           *)
TypeOK ==
    /\ ppc \in {"mark", "merge", "split", "notify", "tail", "done"}
    /\ pi \in 0 .. NumCircuits /\ split \subseteq Queries /\ prepared \in BOOLEAN
    /\ barrier \in Nat /\ caught \in BOOLEAN
    /\ gpc \in [Gpus -> {"h", "wait", "woken", "sum", "msm", "catch", "tell", "done"}]
    /\ gc \in [Gpus -> 0 .. NumCircuits] /\ step \in [Gpus -> 1 .. 4]
    /\ told \in Nat
    /\ msm \in [Msms -> [Circuits -> Nat]] /\ sum \in [Sums -> [Circuits -> Nat]]
    /\ ret \in Gpus \cup {Success} /\ threw \subseteq Gpus
    /\ mpc \in {"join", "done"} /\ proofs \subseteq Circuits

(* A GPU thread beyond the barrier works on complete split vectors and on   *)
(* the final values of l_split_msm, a_split_msm and b_split_msm: the extra  *)
(* notifications of a failing thread do not let another one use them early. *)
PreparedBeforeUse ==
    \A g \in Gpus : gpc[g] \in {"sum", "msm"} => prepared

(* When proofs are assembled, every MSM of every circuit has been computed *)
(* exactly once, and the batch additions of the split queries too: the     *)
(* threads' shares cover the circuits without overlap, no thread left      *)
(* early, and what is added was computed with the flags that are tested.   *)
(* No thread ever steps past its circuits, additions or MSMs.              *)
ProofsAreComplete ==
    /\ TypeOK
    /\ proofs # {} => \A c \in Circuits :
           /\ \A m \in Msms : msm[m][c] = 1
           /\ \A s \in Sums : sum[s][c] = (IF QueryOf(s) \in split THEN 1 ELSE 0)

(* The call returns an error exactly when an operation threw, and then no *)
(* proof.                                                                 *)
ErrorsAreReturned ==
    mpc = "done" => /\ (ret # Success) = (threw # {})
                    /\ (proofs # {}) = (threw = {})

(* The call returns, whichever operations throw and whenever. *)
Returns == <>(mpc = "done")

=============================================================================
