---------------------------- MODULE FwTransaction ----------------------------
(***************************************************************************)
(* A quadlet transaction with a FireWire device as the Digi 002/003        *)
(* (dg00x_read_quad, dg00x_write_quad) and the DICE driver (dice_wait_txn) *)
(* make it: the request is sent with the address of a txn on the stack,    *)
(* the caller tests txn.done and sleeps for at most 5 s, the callback of   *)
(* the answer sets done, then error, and wakes the caller.  Consecutive    *)
(* calls of a driver find their txn at the same place of the stack.  The   *)
(* request of a call that gave up is freed, and its callback may still run *)
(* (the comments at digi00x-stream.c:98-101 and dice_bsd.c:127-129).       *)
(***************************************************************************)
EXTENDS Naturals

CONSTANTS
    Settings,     \* the machines that are looked at
    MaxCalls      \* bound: transactions

\* smp: the caller may run while the callback is running.  Otherwise the
\* callback's thread runs first until it is done.
ASSUME SettingsAssumption == Settings \subseteq [smp: BOOLEAN]
ASSUME CallsAssumption == MaxCalls \in Nat

VARIABLES
    setting,
    calls,        \* transactions so far; the last one is the current one
    pc,           \* of the caller: "idle", "test", "gone" (done was not set,
                  \* not asleep yet), "sleep", "woken", "free"
    done, error,  \* the fields of the txn on the stack
    xfer,         \* xfer[k]: "none", "sent", "taken" (its answer is being
                  \* handled) or "free"
    performed,    \* performed[k]: the device has executed the request
    answer,       \* answer[k]: "none", "rcvd" or "failed"
    ret,          \* ret[k]: what the caller was told
    cb,           \* the callback: whose it is, and its next step
    strayed,      \* history: calls whose txn was written, or whose sleep was
                  \* ended, by the callback of an earlier call
    early         \* history: calls that have read the txn between the stores
                  \* of their own callback

history == <<strayed, early>>
vars == <<setting, calls, pc, done, error, xfer, performed, answer, ret, cb,
          history>>

Calls == 1 .. MaxCalls
NoCallback == [of |-> 0, at |-> "end"]
CallerRuns == setting.smp \/ cb = NoCallback

Init ==
    /\ setting \in Settings
    /\ calls = 0 /\ pc = "idle"
    /\ done = FALSE /\ error = "ok"
    /\ xfer = [k \in Calls |-> "none"]
    /\ performed = [k \in Calls |-> FALSE]
    /\ answer = [k \in Calls |-> "none"]
    /\ ret = [k \in Calls |-> "none"]
    /\ cb = NoCallback
    /\ strayed = {} /\ early = {}

-----------------------------------------------------------------------------
(* The caller                                                              *)

\* Mutation: txn.done keeps what the stack holds.
SendStale ==
    /\ pc = "idle" /\ calls < MaxCalls /\ CallerRuns
    /\ calls' = calls + 1
    /\ error' = "ok"
    /\ xfer' = [xfer EXCEPT ![calls + 1] = "sent"]
    /\ pc' = "test"
    /\ UNCHANGED <<setting, done, performed, answer, ret, cb, history>>

Send ==
    /\ pc = "idle" /\ calls < MaxCalls /\ CallerRuns
    /\ calls' = calls + 1
    /\ done' = FALSE /\ error' = "ok"
    /\ xfer' = [xfer EXCEPT ![calls + 1] = "sent"]
    /\ pc' = "test"
    /\ UNCHANGED <<setting, performed, answer, ret, cb, history>>

\* fwmem has no transfer to give.
SendFails ==
    /\ pc = "idle" /\ calls < MaxCalls /\ CallerRuns
    /\ calls' = calls + 1
    /\ done' = FALSE /\ error' = "ok"
    /\ ret' = [ret EXCEPT ![calls + 1] = "nomem"]
    /\ UNCHANGED <<setting, pc, xfer, performed, answer, cb, history>>

TestDone ==
    /\ pc = "test" /\ CallerRuns
    /\ pc' = IF done THEN "free" ELSE "gone"
    /\ early' = IF cb.at = "error" /\ cb.of = calls THEN early \cup {calls} ELSE early
    /\ UNCHANGED <<setting, calls, done, error, xfer, performed, answer, ret, cb,
                   strayed>>

\* tsleep, without an interlock: a wakeup before it finds nobody asleep.
Sleep ==
    /\ pc = "gone" /\ CallerRuns
    /\ pc' = "sleep"
    /\ UNCHANGED <<setting, calls, done, error, xfer, performed, answer, ret, cb,
                   history>>

\* Mutation: a sleep without a limit, as fw_xferwait has it.
WaitForAnswer ==
    /\ pc = "sleep" /\ done /\ CallerRuns
    /\ error' = "timeout"
    /\ pc' = "free"
    /\ UNCHANGED <<setting, calls, done, xfer, performed, answer, ret, cb, history>>

\* 5 s have passed; done is not tested again.
Timeout ==
    /\ pc = "sleep" /\ CallerRuns
    /\ error' = "timeout"
    /\ pc' = "free"
    /\ UNCHANGED <<setting, calls, done, xfer, performed, answer, ret, cb, history>>

Woken ==
    /\ pc = "woken" /\ CallerRuns
    /\ error' = IF done THEN error ELSE "io"
    /\ pc' = "free"
    /\ UNCHANGED <<setting, calls, done, xfer, performed, answer, ret, cb, history>>

\* fw_xfer_free, also of a request that is not answered.  Then txn.error is
\* returned.
FreeXfer ==
    /\ pc = "free" /\ CallerRuns
    /\ xfer' = [xfer EXCEPT ![calls] = "free"]
    /\ ret' = [ret EXCEPT ![calls] = error]
    /\ pc' = "idle"
    /\ UNCHANGED <<setting, calls, done, error, performed, answer, cb, history>>

-----------------------------------------------------------------------------
(* The device and fwohci                                                   *)

\* The device executes a request, perhaps long after it was given up.
Perform(k) ==
    /\ xfer[k] \in {"sent", "free"} /\ ~performed[k] /\ answer[k] = "none"
    /\ performed' = [performed EXCEPT ![k] = TRUE]
    /\ UNCHANGED <<setting, calls, pc, done, error, xfer, answer, ret, cb, history>>

\* The answer, or the failure of the request, is handled, perhaps when the
\* call has given up and freed it.
TakeAnswer(k) ==
    /\ xfer[k] \in {"sent", "free"} /\ answer[k] = "none" /\ cb = NoCallback
    /\ \E a \in {"rcvd", "failed"} :
        /\ a = "rcvd" => performed[k]
        /\ answer' = [answer EXCEPT ![k] = a]
    /\ xfer' = [xfer EXCEPT ![k] = IF @ = "sent" THEN "taken" ELSE @]
    /\ cb' = [of |-> k, at |-> "done"]
    /\ UNCHANGED <<setting, calls, pc, done, error, performed, ret, history>>

-----------------------------------------------------------------------------
(* dg00x_txn_callback, dice_txn_callback.  The txn they write to is on the *)
(* stack, whatever is there by now.                                        *)

\* A store, or a wakeup, of another call's callback.
Stray(places) ==
    /\ strayed' = IF cb.of # calls /\ pc \in places
                  THEN strayed \cup {calls} ELSE strayed
    /\ UNCHANGED early

InCall == {"test", "gone", "sleep", "woken", "free"}

CallbackDone ==
    /\ cb.at = "done"
    /\ done' = TRUE
    /\ cb' = [cb EXCEPT !.at = "error"]
    /\ Stray(InCall)
    /\ UNCHANGED <<setting, calls, pc, error, xfer, performed, answer, ret>>

CallbackError ==
    /\ cb.at = "error"
    /\ error' = IF answer[cb.of] = "rcvd" THEN "ok" ELSE "io"
    /\ cb' = [cb EXCEPT !.at = "wakeup"]
    /\ Stray(InCall)
    /\ UNCHANGED <<setting, calls, pc, done, xfer, performed, answer, ret>>

CallbackWakeup ==
    /\ cb.at = "wakeup"
    /\ pc' = IF pc = "sleep" THEN "woken" ELSE pc
    /\ cb' = NoCallback
    /\ Stray({"sleep"})
    /\ UNCHANGED <<setting, calls, done, error, xfer, performed, answer, ret>>

-----------------------------------------------------------------------------
Callback == CallbackDone \/ CallbackError \/ CallbackWakeup
CallerStep == TestDone \/ Sleep \/ Timeout \/ Woken \/ FreeXfer

Next ==
    \/ Send \/ SendFails \/ CallerStep
    \/ \E k \in Calls : Perform(k) \/ TakeAnswer(k)
    \/ Callback

Spec == Init /\ [][Next]_vars

\* Threads run, and the 5 s of a sleep pass.  Nothing makes the device answer.
FairSpec ==
    /\ Spec
    /\ WF_vars(CallerStep)
    /\ WF_vars(Callback)

-----------------------------------------------------------------------------
TypeOK ==
    /\ setting \in Settings
    /\ calls \in 0 .. MaxCalls
    /\ pc \in {"idle", "test", "gone", "sleep", "woken", "free"}
    /\ done \in BOOLEAN /\ error \in {"ok", "io", "timeout"}
    /\ xfer \in [Calls -> {"none", "sent", "taken", "free"}]
    /\ performed \in [Calls -> BOOLEAN]
    /\ answer \in [Calls -> {"none", "rcvd", "failed"}]
    /\ ret \in [Calls -> {"none", "nomem", "ok", "io", "timeout"}]
    /\ cb \in [of: 0 .. MaxCalls, at: {"end", "done", "error", "wakeup"}]
    /\ strayed \subseteq Calls /\ early \subseteq Calls

\* A call is told the truth about its own request: EIO means that it has
\* failed, 0 that it was answered and, unless the call has read the txn between
\* done and error (which takes another processor), that the device has executed
\* it.  Only the callback of an earlier call that gave up can make it otherwise
\* (dg00x_txn_callback, digi00x-stream.c:98-103).  A timeout says nothing.
OwnAnswer ==
    /\ \A k \in Calls \ strayed :
        /\ ret[k] = "io" => answer[k] = "failed"
        /\ ret[k] = "ok" => answer[k] # "none"
        /\ ret[k] = "ok" /\ k \notin early => answer[k] = "rcvd" /\ performed[k]
    /\ ~setting.smp => early = {}

\* The 5 s timeout (digi00x-stream.c:54-56, 83-91): every call returns, whether
\* the device answers or not and even if the wakeup was missed.
Returns == pc # "idle" ~> pc = "idle"

=============================================================================
