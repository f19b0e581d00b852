------------------------------ MODULE CognexKV ------------------------------
(***************************************************************************)
(* What Cognex promises to keep, without its files.                        *)
(*                                                                         *)
(* kv       the contents the running engine answers get() from;            *)
(* durable  the contents a restart would recover right now;                *)
(* torn     a crash has cut a log record short and nothing has cleared the *)
(*          log since, so what is logged now is not recovered;             *)
(* call     the put() or del() under way, if any.                          *)
(*                                                                         *)
(* A write is logged before it takes effect. While ~torn, durable and kv   *)
(* differ by no more than the call under way. CognexStorage implements     *)
(* this specification.                                                     *)
(***************************************************************************)
EXTENDS Naturals

CONSTANTS Key, Value

VARIABLES kv, durable, torn, call

vars == <<kv, durable, torn, call>>

(* An optional value: {} or {v}. *)
Optional(S) == {{}} \cup {{v} : v \in S}
Contents    == [Key -> Optional(Value)]

(* put(k, v) writes {v} to k, del(k) writes {}. *)
Write == [key : Key, to : Optional(Value)]

Idle        == [stage |-> "idle"]
Called(w)   == [stage |-> "called", write |-> w]
Logged(w)   == [stage |-> "logged", write |-> w]

Applied(m, w) == [m EXCEPT ![w.key] = w.to]

Init ==
  /\ kv = [k \in Key |-> {}]
  /\ durable = kv
  /\ torn = FALSE
  /\ call = Idle

-----------------------------------------------------------------------------

Invoke(w) ==
  /\ call = Idle
  /\ call' = Called(w)
  /\ UNCHANGED <<kv, durable, torn>>

(* A mutant of Log: the record never reaches the log. *)
LogSkipped(w) ==
  /\ call = Called(w)
  /\ call' = Logged(w)
  /\ UNCHANGED <<kv, durable, torn>>

(* The write reaches the log; behind a torn record it is as good as lost. *)
Log(w) ==
  /\ call = Called(w)
  /\ call' = Logged(w)
  /\ durable' = IF torn THEN durable ELSE Applied(durable, w)
  /\ UNCHANGED <<kv, torn>>

(* A mutant of Effect: an old value is not replaced. *)
EffectAdds(w) ==
  /\ call = Logged(w)
  /\ kv' = [kv EXCEPT ![w.key] = @ \cup w.to]
  /\ call' = Idle
  /\ UNCHANGED <<durable, torn>>

Effect(w) ==
  /\ call = Logged(w)
  /\ kv' = Applied(kv, w)
  /\ call' = Idle
  /\ UNCHANGED <<durable, torn>>

(***************************************************************************)
(* A snapshot replaces the old one while the log is still in place: a key  *)
(* the log mentions keeps what the log makes of it, any other key gets     *)
(* what the engine holds.                                                  *)
(***************************************************************************)
SaveSnapshot ==
  /\ call = Idle
  /\ durable' \in Contents
  /\ \A k \in Key : durable'[k] \in {durable[k], kv[k]}
  /\ UNCHANGED <<kv, torn, call>>

(* A mutant of DropLog: the snapshot lacks keys that only the log had. *)
DropLogUnsaved ==
  /\ call = Idle
  /\ durable' \in Contents
  /\ \A k \in Key : durable'[k] \in {{}, kv[k]}
  /\ torn' = FALSE
  /\ UNCHANGED <<kv, call>>

(* The log is emptied, and a torn record with it. *)
DropLog ==
  /\ call = Idle
  /\ durable' = kv
  /\ torn' = FALSE
  /\ UNCHANGED <<kv, call>>

(* A crash and the recovery after it; a record being written is left torn. *)
Crash ==
  /\ kv' = durable
  /\ torn' = (torn \/ call.stage = "called")
  /\ call' = Idle
  /\ UNCHANGED durable

Next ==
  \/ \E w \in Write : Invoke(w) \/ Log(w) \/ Effect(w)
  \/ SaveSnapshot
  \/ DropLog
  \/ Crash

Spec == Init /\ [][Next]_vars

-----------------------------------------------------------------------------

(* The type invariant. *)
TypeOK ==
  /\ kv \in Contents
  /\ durable \in Contents
  /\ torn \in BOOLEAN
  /\ call \in {Idle} \cup {Called(w) : w \in Write} \cup {Logged(w) : w \in Write}

(***************************************************************************)
(* As long as no torn record is in the way, a restart would recover what   *)
(* the engine holds, with a call that is logged but not yet in effect      *)
(* taken into account (put() and del() log first, cognex.cpp:215, 261).    *)
(***************************************************************************)
Promise ==
  ~torn =>
    /\ call.stage # "logged" => durable = kv
    /\ \A w \in Write : call = Logged(w) => durable = Applied(kv, w)

(***************************************************************************)
(* A crash with no torn record in the way loses no finished call, and the  *)
(* call under way takes effect wholly or not at all.                       *)
(***************************************************************************)
CrashIsAtomic ==
  [][Crash /\ ~torn =>
       \/ kv' = kv
       \/ \E w \in Write : call = Logged(w) /\ kv' = Applied(kv, w)]_vars
=============================================================================
