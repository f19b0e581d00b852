--------------------------- MODULE CognexKV_proofs ---------------------------
(* Proofs about CognexKV. *)
EXTENDS CognexKV, TLAPS

LEMMA AppliedType ==
  ASSUME NEW m \in Contents, NEW w \in Write
  PROVE  Applied(m, w) \in Contents
BY DEF Applied, Contents, Write

LEMMA OptionalEmpty == {} \in Optional(Value)
BY DEF Optional

(* Every variable of CognexKV keeps its type. *)
THEOREM TypeCorrect == Spec => []TypeOK
<1>1. Init => TypeOK
  BY OptionalEmpty DEF Init, TypeOK, Contents
<1>2. TypeOK /\ [Next]_vars => TypeOK'
  <2> SUFFICES ASSUME TypeOK, [Next]_vars
               PROVE  TypeOK'
    OBVIOUS
  <2> USE DEF TypeOK
  <2>1. ASSUME NEW w \in Write, Invoke(w)
        PROVE  TypeOK'
    BY <2>1 DEF Invoke
  <2>2. ASSUME NEW w \in Write, Log(w)
        PROVE  TypeOK'
    BY <2>2, AppliedType DEF Log
  <2>3. ASSUME NEW w \in Write, Effect(w)
        PROVE  TypeOK'
    BY <2>3, AppliedType DEF Effect
  <2>4. CASE SaveSnapshot
    BY <2>4 DEF SaveSnapshot
  <2>5. CASE DropLog
    BY <2>5 DEF DropLog
  <2>6. CASE Crash
    BY <2>6 DEF Crash
  <2>7. CASE UNCHANGED vars
    BY <2>7 DEF vars
  <2> QED
    BY <2>1, <2>2, <2>3, <2>4, <2>5, <2>6, <2>7 DEF Next
<1> QED
  BY <1>1, <1>2, PTL DEF Spec

-----------------------------------------------------------------------------

LEMMA StagesDiffer ==
  /\ Idle.stage = "idle"
  /\ \A w \in Write : Called(w).stage = "called" /\ Logged(w).stage = "logged"
BY DEF Called, Logged, Idle

LEMMA LoggedInjective ==
  ASSUME NEW u, NEW w, Logged(u) = Logged(w)
  PROVE  u = w
<1>1. Logged(u).write = u /\ Logged(w).write = w
  BY DEF Logged
<1> QED
  BY <1>1

(***************************************************************************)
(* A restart recovers what the engine holds, up to the call under way, as  *)
(* long as no torn record is in the way (cognex.cpp:215, 261: log first).  *)
(***************************************************************************)
THEOREM PromiseKept == Spec => []Promise
<1>1. Init => Promise
  BY StagesDiffer DEF Init, Promise, Idle, Logged
<1>2. TypeOK /\ Promise /\ [Next]_vars => Promise'
  <2> SUFFICES ASSUME TypeOK, Promise, [Next]_vars
               PROVE  Promise'
    OBVIOUS
  <2> USE StagesDiffer DEF Promise
  <2>1. ASSUME NEW w \in Write, Invoke(w)
        PROVE  Promise'
    BY <2>1 DEF Invoke, Idle, Called, Logged
  <2>2. ASSUME NEW w \in Write, Log(w)
        PROVE  Promise'
    <3>1. call.stage = "called" /\ call' = Logged(w) /\ kv' = kv /\ torn' = torn
      BY <2>2 DEF Log
    <3>2. \A u \in Write : call' = Logged(u) => u = w
      BY <3>1, LoggedInjective
    <3>3. ~torn => durable' = Applied(kv', w)
      BY <2>2, <3>1 DEF Log
    <3> QED
      BY <3>1, <3>2, <3>3
  <2>3. ASSUME NEW w \in Write, Effect(w)
        PROVE  Promise'
    <3>1. ~torn' => durable' = kv'
      BY <2>3 DEF Effect
    <3> QED
      BY <3>1, <2>3 DEF Effect, Idle, Logged
  <2>4. CASE SaveSnapshot
    <3>1. call.stage # "logged" /\ call' = call /\ torn' = torn /\ kv' = kv
      BY <2>4 DEF SaveSnapshot
    <3>2. ASSUME ~torn
          PROVE  durable' = kv
      BY <2>4, <3>1, <3>2 DEF SaveSnapshot, TypeOK, Contents
    <3> QED
      BY <3>1, <3>2 DEF Logged
  <2>5. CASE DropLog
    BY <2>5 DEF DropLog, Logged, Idle
  <2>6. CASE Crash
    BY <2>6 DEF Crash, Logged, Idle
  <2>7. CASE UNCHANGED vars
    BY <2>7 DEF vars
  <2> QED
    BY <2>1, <2>2, <2>3, <2>4, <2>5, <2>6, <2>7 DEF Next
<1> QED
  BY <1>1, <1>2, TypeCorrect, PTL DEF Spec

(***************************************************************************)
(* A crash with no torn record in the way loses no finished call and makes *)
(* the call under way take effect wholly or not at all.                    *)
(***************************************************************************)
THEOREM CrashesAreAtomic == Spec => CrashIsAtomic
<1>1. TypeOK /\ Promise /\ Crash /\ ~torn =>
        \/ kv' = kv
        \/ \E w \in Write : call = Logged(w) /\ kv' = Applied(kv, w)
  BY StagesDiffer DEF TypeOK, Promise, Crash
<1> QED
  BY <1>1, TypeCorrect, PromiseKept, PTL DEF CrashIsAtomic
=============================================================================
