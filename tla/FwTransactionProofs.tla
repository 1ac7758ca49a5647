------------------------ MODULE FwTransactionProofs ------------------------
(***************************************************************************)
(* Theorem about FwTransaction: unless the callback of an earlier call     *)
(* interferes, a call is told the truth about its own request, for any     *)
(* number of calls, on one processor or several, and for answers that come *)
(* at any time.                                                            *)
(***************************************************************************)
EXTENDS FwTransaction, TLAPS

\* Only the current call is not over, and a callback belongs to an answered
\* request.
InFlight ==
    /\ pc # "idle" => calls \in Calls /\ ret[calls] = "none" /\ xfer[calls] # "none"
    /\ \A k \in Calls : k > calls =>
          xfer[k] = "none" /\ answer[k] = "none" /\ ret[k] = "none"
    /\ cb # NoCallback =>
          /\ cb.at \in {"done", "error", "wakeup"}
          /\ cb.of \in Calls /\ cb.of <= calls
          /\ answer[cb.of] \in {"rcvd", "failed"}

Agree(e, a) == (e = "ok" => a = "rcvd") /\ (e = "io" => a = "failed")

\* The callback of the current call has yet to take its step at.
Ahead(at) == cb.of = calls /\ cb.at = at

\* What the txn says to a call that waits and that no other callback has
\* disturbed: nothing, or the answer.
Waiting ==
    pc \in {"test", "gone", "sleep", "woken"} /\ calls \notin strayed =>
        /\ done <=> (answer[calls] # "none" /\ ~Ahead("done"))
        /\ IF done /\ ~Ahead("error")
           THEN Agree(error, answer[calls]) /\ error # "timeout"
           ELSE error = "ok"
        /\ pc = "woken" => done /\ cb.of # calls

\* ... and to one that has stopped waiting.
Leaving ==
    pc = "free" /\ calls \notin strayed =>
        \/ error = "timeout"
        \/ /\ answer[calls] # "none"
           /\ error = "io" => answer[calls] = "failed"
           /\ error = "ok" /\ calls \notin early => answer[calls] = "rcvd"

Truth ==
    /\ \A k \in Calls : answer[k] = "rcvd" => performed[k]
    /\ \A k \in Calls \ strayed :
        /\ ret[k] = "io" => answer[k] = "failed"
        /\ ret[k] = "ok" => answer[k] # "none"
        /\ ret[k] = "ok" /\ k \notin early => answer[k] = "rcvd"
    /\ ~setting.smp => early = {}

TxnInv == TypeOK /\ InFlight /\ Waiting /\ Leaving /\ Truth

\* Types are kept; only the current call enters a history.
LEMMA TypeNext == TypeOK /\ InFlight /\ [Next]_vars => TypeOK'
<1> SUFFICES ASSUME TypeOK, InFlight, [Next]_vars
             PROVE  TypeOK'
  OBVIOUS
<1> USE CallsAssumption DEF TypeOK, Calls, NoCallback, history
<1> DEFINE k == calls + 1
<1>1. CASE Send
  <2>1. k \in 1 .. MaxCalls /\ k \in 0 .. MaxCalls
    BY <1>1 DEF Send
  <2>2. calls' = k /\ xfer' = [xfer EXCEPT ![k] = "sent"]
    BY <1>1 DEF Send
  <2>3. UNCHANGED <<setting, performed, answer, ret, cb, strayed, early>> /\ pc' = "test"
        /\ done' = FALSE /\ error' = "ok"
    BY <1>1 DEF Send
  <2> HIDE DEF k
  <2>4. QED
    BY <2>1, <2>2, <2>3
<1>2. CASE SendFails
  <2>1. k \in 1 .. MaxCalls /\ k \in 0 .. MaxCalls
    BY <1>2 DEF SendFails
  <2>2. calls' = k /\ ret' = [ret EXCEPT ![k] = "nomem"]
    BY <1>2 DEF SendFails
  <2>3. UNCHANGED <<setting, pc, xfer, performed, answer, cb, strayed, early>>
        /\ done' = FALSE /\ error' = "ok"
    BY <1>2 DEF SendFails
  <2> HIDE DEF k
  <2>4. QED
    BY <2>1, <2>2, <2>3
<1>3. CASE TestDone
  BY <1>3 DEF TestDone, InFlight
<1>4. CASE Sleep
  BY <1>4 DEF Sleep
<1>5. CASE Timeout
  BY <1>5 DEF Timeout
<1>6. CASE Woken
  BY <1>6 DEF Woken
<1>7. CASE FreeXfer
  BY <1>7 DEF FreeXfer
<1>8. CASE \E j \in Calls : Perform(j)
  BY <1>8 DEF Perform
<1>9. CASE \E j \in Calls : TakeAnswer(j)
  BY <1>9 DEF TakeAnswer
<1>10. CASE CallbackDone
  BY <1>10 DEF CallbackDone, InFlight, Stray, InCall
<1>11. CASE CallbackError
  BY <1>11 DEF CallbackError, InFlight, Stray, InCall
<1>12. CASE CallbackWakeup
  BY <1>12 DEF CallbackWakeup, InFlight, Stray, InCall
<1>13. CASE UNCHANGED vars
  BY <1>13 DEF vars
<1>14. QED
  BY <1>1, <1>2, <1>3, <1>4, <1>5, <1>6, <1>7, <1>8, <1>9, <1>10, <1>11, <1>12, <1>13 DEF Next, CallerStep, Callback

\* Calls follow one another, and a callback starts with an answer.
LEMMA InFlightNext ==
    ASSUME TypeOK, InFlight, Waiting, Leaving, Truth, [Next]_vars
    PROVE  InFlight'
<1> USE CallsAssumption DEF TypeOK, Calls, NoCallback, CallerRuns, InFlight
<1>1. CASE Send
  BY <1>1 DEF Send, history
<1>2. CASE SendFails
  BY <1>2 DEF SendFails, history
<1>3. CASE TestDone
  BY <1>3 DEF TestDone, history
<1>4. CASE Sleep
  BY <1>4 DEF Sleep, history
<1>5. CASE Timeout
  BY <1>5 DEF Timeout, history
<1>6. CASE Woken
  BY <1>6 DEF Woken, history
<1>7. CASE FreeXfer
  BY <1>7 DEF FreeXfer, history
<1>8. CASE \E k \in Calls : Perform(k)
  BY <1>8 DEF Perform, history
<1>9. CASE \E k \in Calls : TakeAnswer(k)
  BY <1>9 DEF TakeAnswer, history
<1>10. CASE CallbackDone
  BY <1>10 DEF CallbackDone, Stray, InCall, history
<1>11. CASE CallbackError
  BY <1>11 DEF CallbackError, Stray, InCall, history
<1>12. CASE CallbackWakeup
  BY <1>12 DEF CallbackWakeup, Stray, InCall, history
<1>13. CASE UNCHANGED vars
  BY <1>13 DEF vars, history
<1>14. QED
  BY <1>1, <1>2, <1>3, <1>4, <1>5, <1>6, <1>7, <1>8, <1>9, <1>10, <1>11, <1>12, <1>13 DEF Next, CallerStep, Callback

\* An undisturbed txn is only written by the callback of its own request.
LEMMA WaitingNext ==
    ASSUME TypeOK, InFlight, Waiting, Leaving, Truth, [Next]_vars
    PROVE  Waiting'
<1> USE CallsAssumption DEF TypeOK, Calls, NoCallback, CallerRuns, InFlight, Waiting, Ahead, Agree
<1>1. CASE Send
  BY <1>1 DEF Send, history
<1>2. CASE SendFails
  BY <1>2 DEF SendFails, history
<1>3. CASE TestDone
  BY <1>3 DEF TestDone, history
<1>4. CASE Sleep
  BY <1>4 DEF Sleep, history
<1>5. CASE Timeout
  BY <1>5 DEF Timeout, history
<1>6. CASE Woken
  BY <1>6 DEF Woken, history
<1>7. CASE FreeXfer
  BY <1>7 DEF FreeXfer, history
<1>8. CASE \E k \in Calls : Perform(k)
  BY <1>8 DEF Perform, history
<1>9. CASE \E k \in Calls : TakeAnswer(k)
  BY <1>9 DEF TakeAnswer, history
<1>10. CASE CallbackDone
  BY <1>10 DEF CallbackDone, Stray, InCall, history
<1>11. CASE CallbackError
  BY <1>11 DEF CallbackError, Stray, InCall, history
<1>12. CASE CallbackWakeup
  BY <1>12 DEF CallbackWakeup, Stray, InCall, history
<1>13. CASE UNCHANGED vars
  BY <1>13 DEF vars, history
<1>14. QED
  BY <1>1, <1>2, <1>3, <1>4, <1>5, <1>6, <1>7, <1>8, <1>9, <1>10, <1>11, <1>12, <1>13 DEF Next, CallerStep, Callback

\* The error of a call that has stopped waiting is a timeout or its answer.
LEMMA LeavingNext ==
    ASSUME TypeOK, InFlight, Waiting, Leaving, Truth, [Next]_vars
    PROVE  Leaving'
<1> USE CallsAssumption DEF TypeOK, Calls, NoCallback, CallerRuns, InFlight, Waiting, Leaving, Ahead, Agree
<1>1. CASE Send
  BY <1>1 DEF Send, history
<1>2. CASE SendFails
  BY <1>2 DEF SendFails, history
<1>3. CASE TestDone
  BY <1>3 DEF TestDone, history
<1>4. CASE Sleep
  BY <1>4 DEF Sleep, history
<1>5. CASE Timeout
  BY <1>5 DEF Timeout, history
<1>6. CASE Woken
  BY <1>6 DEF Woken, history
<1>7. CASE FreeXfer
  BY <1>7 DEF FreeXfer, history
<1>8. CASE \E k \in Calls : Perform(k)
  BY <1>8 DEF Perform, history
<1>9. CASE \E k \in Calls : TakeAnswer(k)
  BY <1>9 DEF TakeAnswer, history
<1>10. CASE CallbackDone
  BY <1>10 DEF CallbackDone, Stray, InCall, history
<1>11. CASE CallbackError
  BY <1>11 DEF CallbackError, Stray, InCall, history
<1>12. CASE CallbackWakeup
  BY <1>12 DEF CallbackWakeup, Stray, InCall, history
<1>13. CASE UNCHANGED vars
  BY <1>13 DEF vars, history
<1>14. QED
  BY <1>1, <1>2, <1>3, <1>4, <1>5, <1>6, <1>7, <1>8, <1>9, <1>10, <1>11, <1>12, <1>13 DEF Next, CallerStep, Callback

\* What is returned is what the txn says.
LEMMA TruthNext ==
    ASSUME TypeOK, InFlight, Waiting, Leaving, Truth, [Next]_vars
    PROVE  Truth'
<1> USE CallsAssumption DEF TypeOK, Calls, NoCallback, CallerRuns, InFlight, Leaving, Truth
<1>1. CASE Send
  BY <1>1 DEF Send, history
<1>2. CASE SendFails
  BY <1>2 DEF SendFails, history
<1>3. CASE TestDone
  BY <1>3 DEF TestDone, history
<1>4. CASE Sleep
  BY <1>4 DEF Sleep, history
<1>5. CASE Timeout
  BY <1>5 DEF Timeout, history
<1>6. CASE Woken
  BY <1>6 DEF Woken, history
<1>7. CASE FreeXfer
  BY <1>7 DEF FreeXfer, history
<1>8. CASE \E k \in Calls : Perform(k)
  BY <1>8 DEF Perform, history
<1>9. CASE \E k \in Calls : TakeAnswer(k)
  BY <1>9 DEF TakeAnswer, history
<1>10. CASE CallbackDone
  BY <1>10 DEF CallbackDone, Stray, InCall, history
<1>11. CASE CallbackError
  BY <1>11 DEF CallbackError, Stray, InCall, history
<1>12. CASE CallbackWakeup
  BY <1>12 DEF CallbackWakeup, Stray, InCall, history
<1>13. CASE UNCHANGED vars
  BY <1>13 DEF vars, history
<1>14. QED
  BY <1>1, <1>2, <1>3, <1>4, <1>5, <1>6, <1>7, <1>8, <1>9, <1>10, <1>11, <1>12, <1>13 DEF Next, CallerStep, Callback

\* A call is told the truth about its own request, whatever calls came before,
\* however late their answers are and however many processors there are, unless
\* it has been disturbed or has looked too early (dg00x_read_quad,
\* dg00x_write_quad, dice_wait_txn).
THEOREM AlwaysOwnAnswer == Spec => []OwnAnswer
<1>1. Init => TxnInv
  <2> SUFFICES ASSUME Init PROVE TxnInv
    OBVIOUS
  <2>1. TypeOK
    <3>1. 0 \in 0 .. MaxCalls
      BY CallsAssumption
    <3>2. cb \in [of: 0 .. MaxCalls, at: {"end", "done", "error", "wakeup"}]
      BY <3>1 DEF Init, NoCallback
    <3>3. /\ xfer \in [Calls -> {"none", "sent", "taken", "free"}]
          /\ performed \in [Calls -> BOOLEAN]
          /\ answer \in [Calls -> {"none", "rcvd", "failed"}]
          /\ ret \in [Calls -> {"none", "nomem", "ok", "io", "timeout"}]
      BY DEF Init
    <3>4. QED
      BY <3>1, <3>2, <3>3 DEF Init, TypeOK
  <2>2. InFlight
    <3>1. pc = "idle" /\ cb = NoCallback
      BY DEF Init
    <3>2. \A k \in Calls : xfer[k] = "none" /\ answer[k] = "none" /\ ret[k] = "none"
      BY DEF Init
    <3>3. QED
      BY <3>1, <3>2 DEF InFlight
  <2>3. Waiting /\ Leaving
    BY DEF Init, Waiting, Leaving
  <2>4. Truth
    BY DEF Init, Truth
  <2>5. QED
    BY <2>1, <2>2, <2>3, <2>4 DEF TxnInv
<1>2. TxnInv /\ [Next]_vars => TxnInv'
  BY TypeNext, InFlightNext, WaitingNext, LeavingNext, TruthNext DEF TxnInv
<1>3. TxnInv => OwnAnswer
  BY DEF TxnInv, Truth, OwnAnswer
<1>4. QED
  BY <1>1, <1>2, <1>3, PTL DEF Spec
=============================================================================
