---------------------------- MODULE Groth16Proofs ----------------------------
(***************************************************************************)
(* For any number of GPUs and circuits: no GPU thread uses split vectors   *)
(* that are not prepared; an exception in any of them is returned, and     *)
(* returned only then; and proofs are assembled only when every MSM of     *)
(* every circuit has been computed exactly once.                           *)
(*                                                                         *)
(* The semaphore alone does not say who has notified.  What makes the      *)
(* extra notifications harmless is that caught_exception is set before the *)
(* first of them (WakeOK), and what makes the error reach the caller is    *)
(* that a thread is always on its way to record it (ErrorOK).              *)
(***************************************************************************)
EXTENDS Groth16, TLAPS

(* The control state, as far as the proofs need it. *)
ControlOK ==
    /\ gpc \in [Gpus -> {"h", "wait", "woken", "sum", "msm", "catch", "tell", "done"}]
    /\ barrier \in Nat /\ caught \in BOOLEAN /\ prepared \in BOOLEAN
    /\ ret \in Gpus \cup {Success} /\ threw \subseteq Gpus
    /\ mpc \in {"join", "done"}

(* A notification, or having taken one, means prepared or caught. *)
WakeOK ==
    /\ barrier > 0 => prepared \/ caught
    /\ ppc \in {"notify", "tail"} => prepared
    /\ \A g \in Gpus :
          /\ gpc[g] = "woken" => prepared \/ caught
          /\ gpc[g] \in {"sum", "msm"} => prepared
          /\ gpc[g] = "tell" => caught

(* A thread that threw is about to catch, or somebody has caught; who caught *)
(* first is about to set ret, or has set it.                                 *)
ErrorOK ==
    /\ threw # {} => caught \/ \E g \in Gpus : gpc[g] = "catch"
    /\ caught => threw # {}
    /\ caught => ret # Success \/ \E g \in Gpus : gpc[g] = "tell"
    /\ ret # Success => caught
    /\ \A g \in Gpus : gpc[g] = "catch" => g \in threw

(* What the caller has done, it has done after joining all threads. *)
CallerOK ==
    /\ mpc = "join" => proofs = {}
    /\ mpc = "done" => Joined /\ proofs = (IF caught THEN {} ELSE Circuits)

IInv == ControlOK /\ WakeOK /\ ErrorOK /\ CallerOK

LEMMA CircuitFacts == Success \notin Gpus /\ Circuits # {} /\ n_gpus \in Nat \ {0}
<1>1. n_gpus \in Nat \ {0} /\ 0 \in Circuits
  BY Groth16Assumption DEF n_gpus, Circuits
<1>2. Success \notin Gpus
  BY <1>1 DEF Success, Gpus
<1> QED BY <1>1, <1>2

LEMMA InitIInv == Init => IInv
<1> SUFFICES ASSUME Init PROVE IInv
  OBVIOUS
<1>1. ControlOK
  BY DEF Init, ControlOK
<1>2. WakeOK
  BY DEF Init, WakeOK
<1>3. ErrorOK
  BY DEF Init, ErrorOK
<1>4. CallerOK
  BY DEF Init, CallerOK
<1> QED BY <1>1, <1>2, <1>3, <1>4 DEF IInv

(* A step of the preparation thread *)
LEMMA PrepKeeps == ASSUME IInv, PrepNext PROVE IInv'
<1> USE DEF IInv, prepVars, gpuVars
<1>0. mpc = "join"
  BY DEF PrepNext, MarkScalars, MergeMasks, Populate, Notify, Notified, TailB2,
         CallerOK, ControlOK, Joined
<1>1. CASE MarkScalars \/ MergeMasks
  BY <1>0, <1>1 DEF MarkScalars, MergeMasks, ControlOK, WakeOK, ErrorOK, CallerOK
<1>2. CASE Populate
  BY <1>0, <1>2 DEF Populate, ControlOK, WakeOK, ErrorOK, CallerOK
<1>3. CASE Notify
  BY <1>0, <1>3 DEF Notify, ControlOK, WakeOK, ErrorOK, CallerOK
<1>4. CASE Notified
  BY <1>0, <1>4 DEF Notified, ControlOK, WakeOK, ErrorOK, CallerOK
<1>5. CASE TailB2
  BY <1>0, <1>5 DEF TailB2, ControlOK, WakeOK, ErrorOK, CallerOK
<1> QED BY <1>1, <1>2, <1>3, <1>4, <1>5 DEF PrepNext

(* A step of a GPU thread *)
LEMMA GpuKeeps == ASSUME IInv, NEW g \in Gpus, GpuNext(g) PROVE IInv'
<1> USE DEF IInv, prepVars
<1>0. mpc = "join" /\ gpc[g] # "done"
  BY DEF GpuNext, ComputeH, Wait, Woken, BatchAddition, SkipAddition, TailMsm,
         Throw, Catch, Tell, SetRet, CallerOK, ControlOK, Joined
<1>1. CASE ComputeH(g)
  <2>1. \E p \in {"h", "wait", "done"} : gpc' = [gpc EXCEPT ![g] = p]
    BY <1>1 DEF ComputeH
  <2> QED BY <1>0, <1>1, <2>1 DEF ComputeH, ControlOK, WakeOK, ErrorOK, CallerOK
<1>2. CASE Wait(g)
  BY <1>0, <1>2 DEF Wait, ControlOK, WakeOK, ErrorOK, CallerOK
<1>3. CASE Woken(g)
  BY <1>0, <1>3 DEF Woken, ControlOK, WakeOK, ErrorOK, CallerOK
<1>4. CASE BatchAddition(g)
  <2>1. \E p \in {"sum", "msm", "done"} : gpc' = [gpc EXCEPT ![g] = p]
    BY <1>4 DEF BatchAddition, AfterSum
  <2> QED BY <1>0, <1>4, <2>1 DEF BatchAddition, ControlOK, WakeOK, ErrorOK, CallerOK
<1>5. CASE SkipAddition(g)
  <2>1. \E p \in {"sum", "msm"} : gpc' = [gpc EXCEPT ![g] = p]
    BY <1>5 DEF SkipAddition
  <2> QED BY <1>0, <1>5, <2>1 DEF SkipAddition, ControlOK, WakeOK, ErrorOK, CallerOK
<1>6. CASE TailMsm(g)
  <2>1. \E p \in {"msm", "done"} : gpc' = [gpc EXCEPT ![g] = p]
    BY <1>6 DEF TailMsm
  <2> QED BY <1>0, <1>6, <2>1 DEF TailMsm, ControlOK, WakeOK, ErrorOK, CallerOK
<1>7. CASE Throw(g)
  BY <1>0, <1>7 DEF Throw, ControlOK, WakeOK, ErrorOK, CallerOK
<1>8. CASE Catch(g)
  BY <1>0, <1>8 DEF Catch, ControlOK, WakeOK, ErrorOK, CallerOK
<1>9. CASE Tell(g)
  BY <1>0, <1>9 DEF Tell, ControlOK, WakeOK, ErrorOK, CallerOK
<1>10. CASE SetRet(g)
  BY <1>0, <1>10, CircuitFacts DEF SetRet, ControlOK, WakeOK, ErrorOK, CallerOK
<1> QED BY <1>1, <1>2, <1>3, <1>4, <1>5, <1>6, <1>7, <1>8, <1>9, <1>10 DEF GpuNext

LEMMA ReturnKeeps == ASSUME IInv, Return PROVE IInv'
BY DEF Return, IInv, ControlOK, WakeOK, ErrorOK, CallerOK, Joined, prepVars, gpuVars

LEMMA NextIInv == IInv /\ [Next]_vars => IInv'
<1> SUFFICES ASSUME IInv, [Next]_vars PROVE IInv'
  OBVIOUS
<1>1. CASE UNCHANGED vars
  BY <1>1 DEF vars, prepVars, gpuVars, IInv, ControlOK, WakeOK, ErrorOK, CallerOK, Joined
<1> QED BY <1>1, PrepKeeps, GpuKeeps, ReturnKeeps DEF Next, Terminated

(* The invariant holds in every reachable state. *)
THEOREM IInvAlways == Spec => []IInv
BY InitIInv, NextIInv, PTL DEF Spec

(* No GPU thread goes beyond the barrier with unfinished split vectors, for *)
(* any number of GPUs and circuits and wherever operations throw.           *)
THEOREM PreparedBeforeUseAlways == Spec => []PreparedBeforeUse
<1>1. IInv => PreparedBeforeUse
  BY DEF IInv, WakeOK, PreparedBeforeUse
<1> QED BY <1>1, IInvAlways, PTL

(* generate_groth16_proofs_c returns an error exactly when an operation of a *)
(* GPU thread threw, and proofs exactly when none did.                       *)
THEOREM ErrorsAreReturnedAlways == Spec => []ErrorsAreReturned
<1>1. IInv => ErrorsAreReturned
  <2> SUFFICES ASSUME IInv, mpc = "done" PROVE ErrorsAreReturned
    BY DEF ErrorsAreReturned
  <2>1. \A g \in Gpus : gpc[g] = "done"
    BY DEF IInv, CallerOK, Joined
  <2>2. caught = (threw # {}) /\ caught = (ret # Success)
    BY <2>1 DEF IInv, ErrorOK, ControlOK
  <2>3. (proofs # {}) = ~caught
    BY CircuitFacts DEF IInv, CallerOK, ControlOK
  <2> QED BY <2>2, <2>3 DEF ErrorsAreReturned
<1> QED BY <1>1, IInvAlways, PTL

-----------------------------------------------------------------------------
(* The results.  When proofs are assembled every MSM has been computed once: *)
(* what each thread has computed is a function of where it is (WorkOK,       *)
(* TailOK), the threads' shares are a partition of the circuits, and only a  *)
(* caught exception ends a thread early.                                     *)

Once(b) == IF b THEN 1 ELSE 0

(* Where a GPU thread can be in its loops *)
PlaceOK ==
    \A g \in Gpus :
       /\ gpc[g] \in {"h", "msm"} => gc[g] \in Mine(g)
       /\ gpc[g] \in {"wait", "woken", "sum"} => gc[g] = Circuit0(g)
       /\ gpc[g] \in {"h", "wait", "woken"} => step[g] = 1
       /\ gpc[g] = "msm" => step[g] <= 3

(* h and the tail MSMs of circuit c, which is in the share of thread g *)
MsmsOK(g, c) ==
    /\ gpc[g] = "h" => msm["h"][c] = Once(c < gc[g])
    /\ gpc[g] \in {"wait", "woken", "sum", "msm"} => msm["h"][c] = 1
    /\ gpc[g] \in {"h", "wait", "woken", "sum"} =>
          \A i \in 1 .. 3 : msm[MsmOrder[i]][c] = 0
    /\ gpc[g] = "msm" =>
          \A i \in 1 .. 3 :
             msm[MsmOrder[i]][c] = Once(c < gc[g] \/ (c = gc[g] /\ i < step[g]))
    /\ gpc[g] = "done" /\ ~caught =>
          msm["h"][c] = 1 /\ \A i \in 1 .. 3 : msm[MsmOrder[i]][c] = 1

(* The batch additions of that circuit *)
SumsOK(g, c) ==
    /\ gpc[g] \in {"h", "wait", "woken"} => \A i \in 1 .. 4 : sum[SumOrder[i]][c] = 0
    /\ gpc[g] = "sum" =>
          \A i \in 1 .. 4 :
             sum[SumOrder[i]][c] = Once(i < step[g] /\ QueryOf(SumOrder[i]) \in split)
    /\ gpc[g] = "msm" \/ (gpc[g] = "done" /\ ~caught) =>
          \A i \in 1 .. 4 : sum[SumOrder[i]][c] = Once(QueryOf(SumOrder[i]) \in split)

WorkOK == \A g \in Gpus : \A c \in Mine(g) : MsmsOK(g, c) /\ SumsOK(g, c)

(* The preparation thread: the flags are final once a GPU thread tests them, *)
(* and b_g2 has been computed for the circuits before pi.                    *)
TailOK ==
    /\ ppc \in {"mark", "merge", "split"} => pi = 0 /\ ~prepared
    /\ ppc = "notify" => pi <= n_gpus
    /\ ppc = "tail" => pi < NumCircuits
    /\ \A g \in Gpus : gpc[g] = "done" /\ ~caught => prepared
    /\ \A c \in Circuits :
          /\ ppc \in {"mark", "merge", "split", "notify"} => msm["b_g2"][c] = 0
          /\ ppc = "tail" => msm["b_g2"][c] = Once(c < pi)
          /\ ppc = "done" /\ ~caught => msm["b_g2"][c] = 1

WInv == TypeOK /\ PlaceOK /\ WorkOK /\ TailOK

-----------------------------------------------------------------------------
(* The shares *)

(* Division with remainder *)
LEMMA Division ==
    ASSUME NEW a \in Nat, NEW b \in Nat, b > 0
    PROVE  /\ a \div b \in Nat /\ a % b \in 0 .. b - 1
           /\ a = b * (a \div b) + (a % b)
<1>1. a \div b \in Nat
  OBVIOUS
<1>2. a % b \in 0 .. b - 1
  OBVIOUS
<1>3. a = b * (a \div b) + (a % b)
  OBVIOUS
<1> QED BY <1>1, <1>2, <1>3

LEMMA Multiples ==
    ASSUME NEW q \in Nat, NEW g \in Nat, NEW h \in Nat, g < h
    PROVE  g * q \in Nat /\ h * q \in Nat /\ g * q + q <= h * q
OBVIOUS

(* The shares in terms of the quotient and the remainder: the thread number *)
(* times the quotient, and one more for each earlier thread with one more.  *)
LEMMA ShareFacts ==
    \E q \in Nat \ {0} : \E r \in 0 .. n_gpus - 1 :
       /\ NumCircuits = n_gpus * q + r
       /\ \A g \in Gpus : /\ Share(g) = q + (IF g < r THEN 1 ELSE 0)
                          /\ Circuit0(g) = g * q + (IF g < r THEN g ELSE r)
<1>1. n_gpus \in Nat \ {0} /\ NumCircuits \in Nat \ {0} /\ n_gpus <= NumCircuits
  BY Groth16Assumption DEF n_gpus
<1> DEFINE q == NumCircuits \div n_gpus
           r == Rem
<1>2. q \in Nat /\ r \in 0 .. n_gpus - 1 /\ NumCircuits = n_gpus * q + r
  <2>1. n_gpus \in Nat /\ n_gpus > 0
    BY <1>1
  <2> QED BY <1>1, <2>1, Division DEF Rem
<1>3. q # 0
  <2> SUFFICES ASSUME q = 0 PROVE FALSE
    OBVIOUS
  <2>1. n_gpus * q = 0
    BY <1>1
  <2> QED BY <1>1, <1>2, <2>1
<1>4. ASSUME NEW g \in Gpus
      PROVE  /\ Share(g) = q + (IF g < r THEN 1 ELSE 0)
             /\ Circuit0(g) = g * q + (IF g < r THEN g ELSE r)
  <2>1. g \in Nat
    BY <1>1 DEF Gpus
  <2>2. Share(g) = q + (IF g < r THEN 1 ELSE 0)
    BY DEF Share
  <2>3. g * (q + 1) = g * q + g /\ g * q \in Nat
    BY <1>2, <2>1
  <2>4. Circuit0(g) = g * Share(g) + (IF g >= r THEN r ELSE 0)
    BY DEF Circuit0
  <2>5. CASE g < r
    BY <1>2, <2>1, <2>2, <2>3, <2>4, <2>5
  <2>6. CASE ~(g < r)
    BY <1>2, <2>1, <2>2, <2>3, <2>4, <2>6
  <2> QED BY <2>2, <2>5, <2>6
<1> QED BY <1>2, <1>3, <1>4

(* A share is not empty and within the circuits. *)
LEMMA ShareBounds ==
    ASSUME NEW g \in Gpus
    PROVE  /\ Share(g) \in Nat \ {0} /\ Circuit0(g) \in Nat
           /\ Circuit0(g) + Share(g) <= NumCircuits
           /\ Mine(g) \subseteq Circuits
<1>1. n_gpus \in Nat \ {0} /\ NumCircuits \in Nat \ {0} /\ g \in Nat /\ g < n_gpus
  BY Groth16Assumption DEF n_gpus, Gpus
<1>2. PICK q \in Nat \ {0}, r \in 0 .. n_gpus - 1 :
         /\ NumCircuits = n_gpus * q + r
         /\ Share(g) = q + (IF g < r THEN 1 ELSE 0)
         /\ Circuit0(g) = g * q + (IF g < r THEN g ELSE r)
  BY ShareFacts
<1>3. g * q \in Nat /\ n_gpus * q \in Nat /\ g * q + q <= n_gpus * q
  BY <1>1, <1>2, Multiples
<1>4. Share(g) \in Nat \ {0} /\ Circuit0(g) \in Nat
  BY <1>1, <1>2, <1>3
<1>5. Circuit0(g) + Share(g) <= NumCircuits
  BY <1>1, <1>2, <1>3
<1> QED BY <1>1, <1>4, <1>5 DEF Mine, Circuits

(* No circuit is in two shares. *)
LEMMA SharesApart ==
    ASSUME NEW g \in Gpus, NEW h \in Gpus, g # h
    PROVE  Mine(g) \cap Mine(h) = {}
<1>1. ASSUME NEW a \in Gpus, NEW b \in Gpus, a < b
      PROVE  Circuit0(a) + Share(a) <= Circuit0(b)
  <2>1. a \in Nat /\ b \in Nat /\ n_gpus \in Nat
    BY CircuitFacts DEF Gpus
  <2>2. PICK q \in Nat \ {0}, r \in 0 .. n_gpus - 1 :
           \A k \in Gpus : /\ Share(k) = q + (IF k < r THEN 1 ELSE 0)
                           /\ Circuit0(k) = k * q + (IF k < r THEN k ELSE r)
    BY ShareFacts
  <2>3. a * q \in Nat /\ b * q \in Nat /\ a * q + q <= b * q
    BY <1>1, <2>1, <2>2, Multiples
  <2> QED BY <1>1, <2>1, <2>2, <2>3
<1>2. g \in Nat /\ h \in Nat
  BY CircuitFacts DEF Gpus
<1> QED BY <1>1, <1>2, ShareBounds DEF Mine

(* Every circuit is in one. *)
LEMMA SharesCover == ASSUME NEW c \in Circuits PROVE \E g \in Gpus : c \in Mine(g)
<1>1. n_gpus \in Nat \ {0} /\ NumCircuits \in Nat /\ c \in Nat /\ c < NumCircuits
  BY Groth16Assumption DEF n_gpus, Circuits
<1>2. PICK q \in Nat \ {0}, r \in 0 .. n_gpus - 1 :
         /\ NumCircuits = n_gpus * q + r
         /\ \A k \in Gpus : /\ Share(k) = q + (IF k < r THEN 1 ELSE 0)
                            /\ Circuit0(k) = k * q + (IF k < r THEN k ELSE r)
  BY ShareFacts
<1>3. r * q \in Nat /\ q \in Nat /\ r \in Nat /\ n_gpus * q \in Nat
  BY <1>1, <1>2
<1>4. CASE c < r * q + r
  <2>1. PICK g \in Nat, m \in 0 .. q : c = (q + 1) * g + m
    <3>1. q + 1 \in Nat /\ q + 1 > 0 /\ (q + 1) - 1 = q
      BY <1>3
    <3>2. PICK p \in Nat : p = q + 1
      BY <3>1
    <3>3. c \div p \in Nat /\ c % p \in 0 .. p - 1 /\ c = p * (c \div p) + (c % p)
      BY <1>1, <3>1, <3>2, Division
    <3> QED BY <3>1, <3>2, <3>3
  <2>2. (q + 1) * g = g * q + g /\ g * q \in Nat
    BY <1>3
  <2>3. g < r
    <3> SUFFICES ASSUME r <= g PROVE FALSE
      BY <1>3
    <3>1. r * q <= g * q
      BY <1>3, Multiples
    <3> QED BY <1>3, <1>4, <2>1, <2>2, <3>1
  <2>4. g \in Gpus
    BY <1>1, <1>3, <2>3 DEF Gpus
  <2>5. Share(g) = q + 1 /\ Circuit0(g) = g * q + g
    BY <1>2, <2>3, <2>4
  <2> QED BY <1>1, <1>3, <2>1, <2>2, <2>4, <2>5 DEF Mine
<1>5. CASE ~(c < r * q + r)
  <2>0. c - r \in Nat
    BY <1>1, <1>3, <1>5
  <2>1. PICK g \in Nat, m \in 0 .. q - 1 : c - r = q * g + m
    <3>1. q \in Nat /\ q > 0
      BY <1>3
    <3> QED BY <2>0, <3>1, Division
  <2>2. q * g = g * q /\ g * q \in Nat
    BY <1>3
  <2>3. r <= g
    <3> SUFFICES ASSUME g < r PROVE FALSE
      BY <1>3
    <3>1. g * q + q <= r * q
      BY <1>3, Multiples
    <3> QED BY <1>1, <1>3, <1>5, <2>1, <2>2, <3>1
  <2>4. g < n_gpus
    <3> SUFFICES ASSUME n_gpus <= g PROVE FALSE
      BY <1>1
    <3>1. n_gpus * q <= g * q
      BY <1>1, <1>3, Multiples
    <3> QED BY <1>1, <1>2, <1>3, <2>1, <2>2, <3>1
  <2>5. g \in Gpus
    BY <1>1, <2>4 DEF Gpus
  <2>6. Share(g) = q /\ Circuit0(g) = g * q + r
    BY <1>2, <1>3, <2>3, <2>5
  <2> QED BY <1>1, <1>3, <2>1, <2>2, <2>5, <2>6 DEF Mine
<1> QED BY <1>4, <1>5

-----------------------------------------------------------------------------
(* The steps *)

(* The orders list each sum and each tail MSM of a GPU thread once. *)
LEMMA OrderFacts ==
    /\ Len(SumOrder) = 4 /\ Len(MsmOrder) = 3
    /\ \A i \in 1 .. 4 : SumOrder[i] \in Sums
    /\ \A i \in 1 .. 3 : MsmOrder[i] \in Msms /\ MsmOrder[i] \notin {"h", "b_g2"}
    /\ \A i, j \in 1 .. 4 : SumOrder[i] = SumOrder[j] => i = j
    /\ \A i, j \in 1 .. 3 : MsmOrder[i] = MsmOrder[j] => i = j
    /\ \A s \in Sums : \E i \in 1 .. 4 : s = SumOrder[i]
    /\ \A m \in Msms : m \in {"h", "b_g2"} \/ \E i \in 1 .. 3 : m = MsmOrder[i]
BY DEF SumOrder, MsmOrder, Sums, Msms

LEMMA InitWInv == Init => WInv
<1> SUFFICES ASSUME Init PROVE WInv
  OBVIOUS
<1>1. /\ \A m \in Msms : \A c \in Circuits : msm[m][c] = 0
      /\ \A s \in Sums : \A c \in Circuits : sum[s][c] = 0
  BY DEF Init
<1>2. TypeOK
  <2>1. \A g \in Gpus : Circuit0(g) \in 0 .. NumCircuits
    BY ShareBounds, Groth16Assumption
  <2>2. NumCircuits \in Nat
    BY Groth16Assumption
  <2>3. /\ msm \in [Msms -> [Circuits -> Nat]] /\ sum \in [Sums -> [Circuits -> Nat]]
        /\ gc \in [Gpus -> 0 .. NumCircuits] /\ step \in [Gpus -> 1 .. 4]
    BY <2>1 DEF Init
  <2>4. /\ ppc = "mark" /\ pi \in 0 .. NumCircuits /\ split \subseteq Queries
        /\ told \in Nat /\ proofs \subseteq Circuits
    BY <2>2 DEF Init
  <2>5. ControlOK
    BY InitIInv DEF IInv
  <2> QED BY <2>3, <2>4, <2>5 DEF TypeOK, ControlOK
<1>3. PlaceOK
  <2>1. \A g \in Gpus : Circuit0(g) \in Mine(g)
    BY ShareBounds DEF Mine
  <2> QED BY <2>1 DEF Init, PlaceOK
<1>4. WorkOK
  <2> SUFFICES ASSUME NEW g \in Gpus, NEW c \in Mine(g) PROVE MsmsOK(g, c) /\ SumsOK(g, c)
    BY DEF WorkOK
  <2>1. c \in Circuits /\ ~(c < Circuit0(g))
    BY ShareBounds DEF Mine
  <2>2. gpc[g] = "h" /\ gc[g] = Circuit0(g)
    BY DEF Init
  <2> QED BY <1>1, <2>1, <2>2, OrderFacts DEF MsmsOK, SumsOK, Once, Msms
<1>5. TailOK
  BY <1>1 DEF Init, TailOK, Msms
<1> QED BY <1>2, <1>3, <1>4, <1>5 DEF WInv

(* The thread that prepares, before it has prepared *)
LEMMA PrepareKeepsW ==
    ASSUME WInv, IInv, MarkScalars \/ MergeMasks \/ Populate \/ Notify \/ Notified
    PROVE  WInv'
<1> USE DEF WInv, prepVars, gpuVars
<1>1. n_gpus \in Nat \ {0} /\ NumCircuits \in Nat \ {0} /\ n_gpus <= NumCircuits
  BY Groth16Assumption DEF n_gpus
<1>2. TypeOK'
  <2>1. CASE MarkScalars \/ MergeMasks
    BY <2>1 DEF TypeOK, MarkScalars, MergeMasks
  <2>2. CASE Populate
    BY <2>2 DEF TypeOK, Populate
  <2>3. CASE Notify
    BY <1>1, <2>3 DEF TypeOK, TailOK, Notify
  <2>4. CASE Notified
    BY <1>1, <2>4 DEF TypeOK, Notified
  <2> QED BY <2>1, <2>2, <2>3, <2>4
<1>3. PlaceOK'
  BY DEF PlaceOK, MarkScalars, MergeMasks, Populate, Notify, Notified
<1>4. WorkOK'
  <2>1. \A g \in Gpus : split' # split => ~(gpc[g] \in {"sum", "msm"})
                                          /\ ~(gpc[g] = "done" /\ ~caught)
    BY DEF IInv, WakeOK, TailOK, MarkScalars, MergeMasks, Populate, Notify, Notified
  <2>2. UNCHANGED <<gpc, gc, step, caught, msm, sum>>
    BY DEF MarkScalars, MergeMasks, Populate, Notify, Notified
  <2> QED BY <2>1, <2>2 DEF WorkOK, MsmsOK, SumsOK
<1>5. TailOK'
  <2>1. CASE MarkScalars \/ MergeMasks
    BY <2>1 DEF TailOK, MarkScalars, MergeMasks
  <2>2. CASE Populate
    BY <1>1, <2>2 DEF TailOK, Populate
  <2>3. CASE Notify
    BY <1>1, <2>3 DEF TypeOK, TailOK, Notify
  <2>4. CASE Notified
    <3>1. \A c \in Circuits : ~(c < 0)
      BY DEF Circuits
    <3> QED BY <1>1, <2>4, <3>1 DEF TailOK, Notified, Once
  <2> QED BY <2>1, <2>2, <2>3, <2>4
<1> QED BY <1>2, <1>3, <1>4, <1>5

LEMMA TailB2KeepsW == ASSUME WInv, IInv, TailB2 PROVE WInv'
<1> USE DEF WInv, prepVars, gpuVars
<1>1. /\ ppc = "tail" /\ pi \in Circuits /\ pi' = pi + 1
      /\ UNCHANGED <<split, prepared, gpc, gc, step, told, sum, ret, threw, barrier,
                     caught, mpc, proofs>>
      /\ ppc' \in {"tail", "done"} /\ (ppc' = "tail" => pi' < NumCircuits)
      /\ (ppc' = "done" => caught \/ pi' = NumCircuits)
  BY Groth16Assumption DEF TailB2, TailOK, TypeOK, Circuits
<1>2. /\ msm' \in [Msms -> [Circuits -> Nat]]
      /\ \A m \in Msms : m # "b_g2" => msm'[m] = msm[m]
      /\ \A c \in Circuits : msm'["b_g2"][c] = msm["b_g2"][c] + Once(c = pi)
  BY <1>1 DEF TailB2, TypeOK, Msms, Once
<1>3. TypeOK'
  BY <1>1, <1>2, Groth16Assumption DEF TypeOK, Circuits
<1>4. PlaceOK'
  BY <1>1 DEF PlaceOK
<1>5. WorkOK'
  BY <1>1, <1>2, OrderFacts DEF WorkOK, MsmsOK, SumsOK, Msms
<1>6. TailOK'
  BY <1>1, <1>2, Groth16Assumption DEF TypeOK, TailOK, Once, Circuits
<1> QED BY <1>3, <1>4, <1>5, <1>6

(* A GPU thread's step leaves the shares of the others alone. *)
LEMMA OthersKeep ==
    ASSUME WInv, NEW g \in Gpus, UNCHANGED <<split, prepared>>, caught => caught',
           \A h \in Gpus \ {g} :
              /\ gpc'[h] = gpc[h] /\ gc'[h] = gc[h] /\ step'[h] = step[h]
              /\ \A c \in Mine(h) :
                    /\ msm'["h"][c] = msm["h"][c]
                    /\ \A i \in 1 .. 3 : msm'[MsmOrder[i]][c] = msm[MsmOrder[i]][c]
                    /\ \A i \in 1 .. 4 : sum'[SumOrder[i]][c] = sum[SumOrder[i]][c]
    PROVE  /\ PlaceOK' <=> (/\ gpc'[g] \in {"h", "msm"} => gc'[g] \in Mine(g)
                            /\ gpc'[g] \in {"wait", "woken", "sum"} => gc'[g] = Circuit0(g)
                            /\ gpc'[g] \in {"h", "wait", "woken"} => step'[g] = 1
                            /\ gpc'[g] = "msm" => step'[g] <= 3)
           /\ WorkOK' <=> \A c \in Mine(g) : MsmsOK(g, c)' /\ SumsOK(g, c)'
<1>1. PlaceOK' <=> (/\ gpc'[g] \in {"h", "msm"} => gc'[g] \in Mine(g)
                    /\ gpc'[g] \in {"wait", "woken", "sum"} => gc'[g] = Circuit0(g)
                    /\ gpc'[g] \in {"h", "wait", "woken"} => step'[g] = 1
                    /\ gpc'[g] = "msm" => step'[g] <= 3)
  BY DEF WInv, PlaceOK
<1>2. ASSUME NEW h \in Gpus \ {g}, NEW c \in Mine(h) PROVE MsmsOK(h, c)' /\ SumsOK(h, c)'
  BY <1>2 DEF WInv, WorkOK, MsmsOK, SumsOK
<1>3. WorkOK' <=> \A c \in Mine(g) : MsmsOK(g, c)' /\ SumsOK(g, c)'
  BY <1>2 DEF WorkOK
<1> QED BY <1>1, <1>3

(* Steps after which the thread is where nothing is claimed, or that compute *)
(* nothing                                                                   *)
LEMMA IdleKeepsW ==
    ASSUME WInv, IInv, NEW g \in Gpus,
           Wait(g) \/ Woken(g) \/ Throw(g) \/ Catch(g) \/ Tell(g) \/ SetRet(g)
    PROVE  WInv'
<1> USE DEF WInv, prepVars
<1>0. UNCHANGED <<prepVars, gc, step, sum, msm, mpc, proofs>>
  BY DEF Wait, Woken, Throw, Catch, Tell, SetRet
<1>1. /\ \A h \in Gpus \ {g} : gpc'[h] = gpc[h]
      /\ caught => caught'
      /\ \/ gpc[g] = "wait" /\ gpc'[g] = "woken" /\ caught' = caught
         \/ gpc[g] = "woken" /\ gpc'[g] = "sum" /\ caught' = caught
         \/ caught' /\ gpc'[g] = "done"
         \/ gpc'[g] \in {"catch", "tell"}
  BY DEF Wait, Woken, Throw, Catch, Tell, SetRet, TypeOK, IInv, WakeOK
<1>2. TypeOK'
  <2>1. CASE Wait(g)
    BY <2>1 DEF Wait, TypeOK
  <2>2. CASE Woken(g) \/ Throw(g)
    BY <2>2 DEF Woken, Throw, TypeOK
  <2>3. CASE Catch(g)
    BY <2>3 DEF Catch, TypeOK
  <2>4. CASE Tell(g)
    BY <2>4 DEF Tell, TypeOK
  <2>5. CASE SetRet(g)
    BY <2>5 DEF SetRet, TypeOK
  <2> QED BY <2>1, <2>2, <2>3, <2>4, <2>5
<1>3. PlaceOK'
  BY <1>0, <1>1 DEF PlaceOK
<1>4. WorkOK'
  <2> SUFFICES ASSUME NEW c \in Mine(g) PROVE MsmsOK(g, c)' /\ SumsOK(g, c)'
    BY <1>0, <1>1, OthersKeep
  <2>1. MsmsOK(g, c) /\ SumsOK(g, c)
    BY DEF WorkOK
  <2>2. MsmsOK(g, c)'
    BY <1>0, <1>1, <2>1 DEF MsmsOK
  <2>3. SumsOK(g, c)'
    <3>1. ~(1 < 1) /\ \A i \in 1 .. 4 : ~(i < 1)
      OBVIOUS
    <3> QED BY <1>0, <1>1, <2>1, <3>1 DEF SumsOK, Once, PlaceOK
  <2> QED BY <2>2, <2>3
<1>5. TailOK'
  BY <1>0, <1>1 DEF TailOK
<1> QED BY <1>2, <1>3, <1>4, <1>5

LEMMA ComputeHKeepsW == ASSUME WInv, IInv, NEW g \in Gpus, ComputeH(g) PROVE WInv'
<1> USE DEF WInv, prepVars
<1>0. /\ gpc[g] = "h" /\ gc[g] \in Mine(g) /\ step[g] = 1
      /\ UNCHANGED <<prepVars, step, told, sum, ret, threw, barrier, caught, mpc, proofs>>
  BY DEF ComputeH, PlaceOK
<1>1. Circuit0(g) \in Nat /\ Share(g) \in Nat \ {0} /\ Mine(g) \subseteq Circuits
      /\ Circuit0(g) + Share(g) <= NumCircuits /\ NumCircuits \in Nat
  BY ShareBounds, Groth16Assumption
<1>2. /\ msm' \in [Msms -> [Circuits -> Nat]]
      /\ \A m \in Msms : m # "h" => msm'[m] = msm[m]
      /\ \A c \in Circuits : msm'["h"][c] = msm["h"][c] + Once(c = gc[g])
  BY <1>0, <1>1 DEF ComputeH, TypeOK, Msms, Once
<1>3. /\ \A h \in Gpus \ {g} : gpc'[h] = gpc[h] /\ gc'[h] = gc[h]
      /\ \/ gc[g] + 1 \in Mine(g) /\ gc'[g] = gc[g] + 1 /\ gpc'[g] = "h"
         \/ gc[g] + 1 \notin Mine(g) /\ gc'[g] = Circuit0(g) /\ gpc'[g] = "wait"
         \/ gpc'[g] = "done" /\ caught
  BY DEF ComputeH, TypeOK
<1>4. TypeOK'
  <2>1. gpc' \in [Gpus -> {"h", "wait", "woken", "sum", "msm", "catch", "tell", "done"}]
    BY DEF ComputeH, TypeOK
  <2>2. gc' \in [Gpus -> 0 .. NumCircuits]
    BY <1>1 DEF ComputeH, TypeOK, Mine
  <2> QED BY <1>0, <1>2, <2>1, <2>2 DEF TypeOK
<1>5. \A h \in Gpus \ {g} : \A c \in Mine(h) : c \in Circuits /\ c # gc[g]
  BY <1>0, SharesApart, ShareBounds
<1>6. \A h \in Gpus \ {g} : \A c \in Mine(h) :
         /\ msm'["h"][c] = msm["h"][c]
         /\ \A i \in 1 .. 3 : msm'[MsmOrder[i]][c] = msm[MsmOrder[i]][c]
  BY <1>2, <1>5, OrderFacts DEF Once, TypeOK, Msms
<1>7. PlaceOK'
  BY <1>0, <1>1, <1>3 DEF PlaceOK, Mine
<1>8. WorkOK'
  <2> SUFFICES ASSUME NEW c \in Mine(g) PROVE MsmsOK(g, c)' /\ SumsOK(g, c)'
    BY <1>0, <1>3, <1>6, OthersKeep
  <2>1. MsmsOK(g, c) /\ SumsOK(g, c) /\ c \in Circuits /\ c \in Int /\ gc[g] \in Int
    BY <1>0, <1>1 DEF WorkOK, Mine
  <2>2. msm'["h"][c] = Once(c < gc[g] + 1)
    BY <1>0, <1>2, <2>1 DEF MsmsOK, Once
  <2>3. gc[g] + 1 \notin Mine(g) => c < gc[g] + 1
    BY <1>0, <1>1 DEF Mine
  <2>4. \A i \in 1 .. 3 : msm'[MsmOrder[i]][c] = msm[MsmOrder[i]][c]
    BY <1>2, OrderFacts
  <2>5. MsmsOK(g, c)'
    BY <1>0, <1>3, <2>1, <2>2, <2>3, <2>4 DEF MsmsOK, Once
  <2>6. SumsOK(g, c)'
    BY <1>0, <1>3, <2>1 DEF SumsOK
  <2> QED BY <2>5, <2>6
<1>9. TailOK'
  BY <1>0, <1>2, <1>3 DEF TailOK, Msms
<1> QED BY <1>4, <1>7, <1>8, <1>9

(* A batch addition counts where its query is split, and is left out where *)
(* it is not.                                                              *)
LEMMA AdditionKeepsW ==
    ASSUME WInv, IInv, NEW g \in Gpus, BatchAddition(g) \/ SkipAddition(g)
    PROVE  WInv'
<1> USE DEF WInv, prepVars
<1>0. /\ gpc[g] = "sum" /\ gc[g] = Circuit0(g) /\ step[g] \in 1 .. 4
      /\ UNCHANGED <<prepVars, gc, told, ret, threw, barrier, caught, msm, mpc, proofs>>
  BY DEF BatchAddition, SkipAddition, PlaceOK, TypeOK
<1>1. Circuit0(g) \in Mine(g) /\ Mine(g) \subseteq Circuits
  BY ShareBounds DEF Mine
<1> DEFINE k == step[g]
<1>2. /\ sum' \in [Sums -> [Circuits -> Nat]]
      /\ \A s \in Sums : s # SumOrder[k] => sum'[s] = sum[s]
      /\ \A c \in Circuits : sum'[SumOrder[k]][c] = sum[SumOrder[k]][c]
             + Once(c \in Mine(g) /\ QueryOf(SumOrder[k]) \in split)
  <2>1. SumOrder[k] \in Sums
    BY <1>0, OrderFacts
  <2> HIDE DEF k
  <2>2. CASE BatchAddition(g)
    <3>1. sum' = [sum EXCEPT ![SumOrder[k]] =
                     [c \in Circuits |-> IF c \in Mine(g) THEN @[c] + 1 ELSE @[c]]]
      BY <2>2 DEF BatchAddition, k
    <3>2. QueryOf(SumOrder[k]) \in split
      BY <2>2 DEF BatchAddition, k
    <3> QED BY <2>1, <3>1, <3>2 DEF TypeOK, Once
  <2>3. CASE SkipAddition(g)
    <3>1. sum' = sum /\ QueryOf(SumOrder[k]) \notin split
      BY <2>3 DEF SkipAddition, k
    <3> QED BY <2>1, <3>1 DEF TypeOK, Once
  <2> QED BY <2>2, <2>3
<1>3. /\ \A h \in Gpus \ {g} : gpc'[h] = gpc[h] /\ step'[h] = step[h]
      /\ \/ k < 4 /\ step'[g] = k + 1 /\ gpc'[g] = "sum"
         \/ k = 4 /\ step'[g] = 1 /\ gpc'[g] = "msm"
         \/ gpc'[g] = "done" /\ caught
  BY <1>0, OrderFacts DEF BatchAddition, SkipAddition, AfterSum, TypeOK
<1>4. TypeOK'
  <2>1. gpc' \in [Gpus -> {"h", "wait", "woken", "sum", "msm", "catch", "tell", "done"}]
    BY DEF BatchAddition, SkipAddition, AfterSum, TypeOK
  <2>2. step' \in [Gpus -> 1 .. 4]
    BY <1>0, OrderFacts DEF BatchAddition, SkipAddition, AfterSum, TypeOK
  <2> QED BY <1>0, <1>2, <2>1, <2>2 DEF TypeOK
<1>5. \A h \in Gpus \ {g} : \A c \in Mine(h) : c \in Circuits /\ c \notin Mine(g)
  BY SharesApart, ShareBounds
<1>6. \A h \in Gpus \ {g} : \A c \in Mine(h) :
         \A i \in 1 .. 4 : sum'[SumOrder[i]][c] = sum[SumOrder[i]][c]
  <2> SUFFICES ASSUME NEW h \in Gpus \ {g}, NEW c \in Mine(h), NEW i \in 1 .. 4
               PROVE  sum'[SumOrder[i]][c] = sum[SumOrder[i]][c]
    OBVIOUS
  <2>1. c \in Circuits /\ c \notin Mine(g) /\ SumOrder[i] \in Sums
    BY <1>5, OrderFacts
  <2>2. CASE SumOrder[i] = SumOrder[k]
    BY <1>2, <2>1, <2>2 DEF Once, TypeOK
  <2>3. CASE SumOrder[i] # SumOrder[k]
    BY <1>2, <2>1, <2>3
  <2> QED BY <2>2, <2>3
<1>7. PlaceOK'
  BY <1>0, <1>1, <1>3 DEF PlaceOK
<1>8. WorkOK'
  <2> SUFFICES ASSUME NEW c \in Mine(g) PROVE MsmsOK(g, c)' /\ SumsOK(g, c)'
    BY <1>0, <1>3, <1>6, OthersKeep
  <2>1. MsmsOK(g, c) /\ SumsOK(g, c) /\ c \in Circuits
    BY <1>1 DEF WorkOK
  <2>2. ~(c < Circuit0(g)) /\ (\A i \in 1 .. 3 : ~(i < 1))
    BY ShareBounds DEF Mine
  <2>3. MsmsOK(g, c)'
    BY <1>0, <1>3, <2>1, <2>2 DEF MsmsOK, Once
  <2>4. \A i \in 1 .. 4 : sum'[SumOrder[i]][c] = Once(i < k + 1 /\ QueryOf(SumOrder[i]) \in split)
    <3> SUFFICES ASSUME NEW i \in 1 .. 4
                 PROVE  sum'[SumOrder[i]][c] = Once(i < k + 1 /\ QueryOf(SumOrder[i]) \in split)
      OBVIOUS
    <3>1. sum[SumOrder[i]][c] = Once(i < k /\ QueryOf(SumOrder[i]) \in split)
      BY <1>0, <2>1 DEF SumsOK
    <3>2. CASE i = k
      BY <1>0, <1>2, <2>1, <3>1, <3>2 DEF Once
    <3>3. CASE i # k
      <4>1. SumOrder[i] # SumOrder[k] /\ SumOrder[i] \in Sums
        BY <1>0, <3>3, OrderFacts
      <4>2. sum'[SumOrder[i]][c] = sum[SumOrder[i]][c]
        BY <1>2, <4>1
      <4>3. i < k + 1 <=> i < k
        BY <1>0, <3>3
      <4> QED BY <3>1, <4>2, <4>3
    <3> QED BY <3>2, <3>3
  <2>5. SumsOK(g, c)'
    BY <1>0, <1>3, <2>4 DEF SumsOK, Once
  <2> QED BY <2>3, <2>5
<1>9. TailOK'
  BY <1>0, <1>3 DEF TailOK
<1> QED BY <1>4, <1>7, <1>8, <1>9

LEMMA TailMsmKeepsW == ASSUME WInv, IInv, NEW g \in Gpus, TailMsm(g) PROVE WInv'
<1> USE DEF WInv, prepVars
<1>0. /\ gpc[g] = "msm" /\ gc[g] \in Mine(g) /\ step[g] \in 1 .. 3
      /\ UNCHANGED <<prepVars, told, sum, ret, threw, barrier, caught, mpc, proofs>>
  BY DEF TailMsm, PlaceOK, TypeOK
<1>1. Circuit0(g) \in Nat /\ Share(g) \in Nat \ {0} /\ Mine(g) \subseteq Circuits
      /\ Circuit0(g) + Share(g) <= NumCircuits /\ NumCircuits \in Nat
  BY ShareBounds, Groth16Assumption
<1> DEFINE k == step[g]
           d == gc[g]
<1>2. /\ msm' \in [Msms -> [Circuits -> Nat]]
      /\ \A m \in Msms : m # MsmOrder[k] => msm'[m] = msm[m]
      /\ \A c \in Circuits : msm'[MsmOrder[k]][c] = msm[MsmOrder[k]][c] + Once(c = d)
  <2>1. MsmOrder[k] \in Msms /\ d \in Circuits
    BY <1>0, <1>1, OrderFacts
  <2>2. msm' = [msm EXCEPT ![MsmOrder[k]][d] = @ + 1]
    BY DEF TailMsm
  <2> HIDE DEF k, d
  <2> QED BY <2>1, <2>2 DEF TypeOK, Once
<1>3. /\ \A h \in Gpus \ {g} : gpc'[h] = gpc[h] /\ gc'[h] = gc[h] /\ step'[h] = step[h]
      /\ \/ k < 3 /\ step'[g] = k + 1 /\ gc'[g] = d /\ gpc'[g] = "msm"
         \/ k = 3 /\ step'[g] = 1 /\ gc'[g] = d + 1 /\ d + 1 \in Mine(g) /\ gpc'[g] = "msm"
         \/ k = 3 /\ d + 1 \notin Mine(g) /\ gpc'[g] = "done"
         \/ gpc'[g] = "done" /\ caught
  BY <1>0, OrderFacts DEF TailMsm, TypeOK
<1>4. TypeOK'
  <2>1. gpc' \in [Gpus -> {"h", "wait", "woken", "sum", "msm", "catch", "tell", "done"}]
    BY DEF TailMsm, TypeOK
  <2>2. step' \in [Gpus -> 1 .. 4]
    BY <1>0, OrderFacts DEF TailMsm, TypeOK
  <2>3. gc' \in [Gpus -> 0 .. NumCircuits]
    BY <1>0, <1>1 DEF TailMsm, TypeOK, Mine
  <2> QED BY <1>0, <1>2, <2>1, <2>2, <2>3 DEF TypeOK
<1>5. \A h \in Gpus \ {g} : \A c \in Mine(h) : c \in Circuits /\ c # d
  BY <1>0, SharesApart, ShareBounds
<1>6. \A h \in Gpus \ {g} : \A c \in Mine(h) :
         /\ msm'["h"][c] = msm["h"][c]
         /\ \A i \in 1 .. 3 : msm'[MsmOrder[i]][c] = msm[MsmOrder[i]][c]
  <2> SUFFICES ASSUME NEW h \in Gpus \ {g}, NEW c \in Mine(h), NEW m \in Msms
               PROVE  msm'[m][c] = msm[m][c]
    BY OrderFacts DEF Msms
  <2>1. CASE m = MsmOrder[k]
    BY <1>2, <1>5, <2>1 DEF Once, TypeOK
  <2>2. CASE m # MsmOrder[k]
    BY <1>2, <2>2
  <2> QED BY <2>1, <2>2
<1>7. PlaceOK'
  BY <1>0, <1>1, <1>3 DEF PlaceOK
<1>8. WorkOK'
  <2> SUFFICES ASSUME NEW c \in Mine(g) PROVE MsmsOK(g, c)' /\ SumsOK(g, c)'
    BY <1>0, <1>3, <1>6, OthersKeep
  <2>1. MsmsOK(g, c) /\ SumsOK(g, c) /\ c \in Circuits /\ c \in Int /\ d \in Int
    BY <1>0, <1>1 DEF WorkOK, Mine
  <2>2. msm'["h"][c] = 1
    BY <1>0, <1>2, <2>1, OrderFacts DEF MsmsOK, Msms
  <2>3. \A i \in 1 .. 3 : msm'[MsmOrder[i]][c] = Once(c < d \/ (c = d /\ i < k + 1))
    <3> SUFFICES ASSUME NEW i \in 1 .. 3
                 PROVE  msm'[MsmOrder[i]][c] = Once(c < d \/ (c = d /\ i < k + 1))
      OBVIOUS
    <3>1. msm[MsmOrder[i]][c] = Once(c < d \/ (c = d /\ i < k))
      BY <1>0, <2>1 DEF MsmsOK
    <3>2. CASE i = k
      BY <1>0, <1>2, <2>1, <3>1, <3>2 DEF Once
    <3>3. CASE i # k
      <4>1. MsmOrder[i] # MsmOrder[k] /\ MsmOrder[i] \in Msms
        BY <1>0, <3>3, OrderFacts
      <4>2. msm'[MsmOrder[i]][c] = msm[MsmOrder[i]][c]
        BY <1>2, <4>1
      <4>3. i < k + 1 <=> i < k
        BY <1>0, <3>3
      <4> QED BY <3>1, <4>2, <4>3
    <3> QED BY <3>2, <3>3
  <2>4. d + 1 \notin Mine(g) => c <= d
    BY <1>0, <1>1 DEF Mine
  <2>5. MsmsOK(g, c)'
    <3>1. k = 3 => \A i \in 1 .. 3 : msm'[MsmOrder[i]][c] = Once(c < d + 1)
      BY <2>1, <2>3 DEF Once
    <3>2. \A i \in 1 .. 3 : ~(i < 1)
      OBVIOUS
    <3> HIDE DEF k, d
    <3>3. CASE gpc'[g] = "done" /\ caught
      BY <1>0, <3>3 DEF MsmsOK
    <3>4. CASE k < 3 /\ step'[g] = k + 1 /\ gc'[g] = d /\ gpc'[g] = "msm"
      BY <2>2, <2>3, <3>4 DEF MsmsOK
    <3>5. CASE k = 3 /\ step'[g] = 1 /\ gc'[g] = d + 1 /\ d + 1 \in Mine(g) /\ gpc'[g] = "msm"
      BY <2>2, <3>1, <3>2, <3>5 DEF MsmsOK, Once
    <3>6. CASE k = 3 /\ d + 1 \notin Mine(g) /\ gpc'[g] = "done"
      <4>1. c < d + 1
        BY <2>1, <2>4, <3>6
      <4> QED BY <2>2, <3>1, <3>6, <4>1 DEF MsmsOK, Once
    <3> QED BY <1>3, <3>3, <3>4, <3>5, <3>6
  <2>6. SumsOK(g, c)'
    BY <1>0, <1>3, <2>1 DEF SumsOK
  <2> QED BY <2>5, <2>6
<1>9. TailOK'
  <2>1. msm'["b_g2"] = msm["b_g2"]
    BY <1>0, <1>2, OrderFacts DEF Msms
  <2> QED BY <1>0, <1>3, <2>1 DEF TailOK, IInv, WakeOK
<1> QED BY <1>4, <1>7, <1>8, <1>9

LEMMA NextWInv == WInv /\ IInv /\ [Next]_vars => WInv'
<1> SUFFICES ASSUME WInv, IInv, [Next]_vars PROVE WInv'
  OBVIOUS
<1>1. CASE UNCHANGED vars
  BY <1>1 DEF vars, prepVars, gpuVars, WInv, TypeOK, PlaceOK, WorkOK, MsmsOK, SumsOK, TailOK
<1>2. CASE Return
  <2>1. TypeOK'
    BY <1>2 DEF Return, prepVars, gpuVars, WInv, TypeOK
  <2> QED BY <1>2, <2>1 DEF Return, prepVars, gpuVars, WInv, PlaceOK, WorkOK, MsmsOK, SumsOK, TailOK
<1> QED BY <1>1, <1>2, PrepareKeepsW, TailB2KeepsW, IdleKeepsW, ComputeHKeepsW,
           AdditionKeepsW, TailMsmKeepsW DEF Next, PrepNext, GpuNext, Terminated

(* What the threads have computed is right in every reachable state. *)
THEOREM WInvAlways == Spec => []WInv
<1>1. Init => WInv
  BY InitWInv
<1>2. WInv /\ IInv /\ [Next]_vars => WInv'
  BY NextWInv
<1> QED BY <1>1, <1>2, IInvAlways, PTL DEF Spec

(* generate_groth16_proofs_c assembles proofs only from complete results:    *)
(* every MSM of every circuit computed exactly once and every batch addition *)
(* exactly where its query is split, for any number of GPUs and circuits and *)
(* wherever operations throw; and no thread steps past its circuits.         *)
THEOREM ProofsAreCompleteAlways == Spec => []ProofsAreComplete
<1>1. WInv /\ IInv => ProofsAreComplete
  <2> SUFFICES ASSUME WInv, IInv, proofs # {}, NEW c \in Circuits
               PROVE  /\ \A m \in Msms : msm[m][c] = 1
                      /\ \A s \in Sums : sum[s][c] = (IF QueryOf(s) \in split THEN 1 ELSE 0)
    BY DEF ProofsAreComplete, WInv
  <2>1. ~caught /\ ppc = "done" /\ \A g \in Gpus : gpc[g] = "done"
    BY DEF WInv, TypeOK, IInv, CallerOK, Joined
  <2>2. PICK g \in Gpus : c \in Mine(g)
    BY SharesCover
  <2>3. MsmsOK(g, c) /\ SumsOK(g, c) /\ msm["b_g2"][c] = 1
    BY <2>1, <2>2 DEF WInv, WorkOK, TailOK
  <2> QED BY <2>1, <2>3, OrderFacts DEF MsmsOK, SumsOK, Once
<1> QED BY <1>1, WInvAlways, IInvAlways, PTL

=============================================================================
