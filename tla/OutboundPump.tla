---------------------------- MODULE OutboundPump ----------------------------
(***************************************************************************)
(* class _OutboundPump of echoweave/app.py: the single writer of a         *)
(* WebSocket with a queue that is bounded in messages and in bytes, and    *)
(* the cleanup task that flushes and stops it.                             *)
(*                                                                         *)
(* A message is its size.  The tasks of a session may still emit while the *)
(* cleanup task flushes, and after it has stopped the pump.                *)
(***************************************************************************)
EXTENDS Integers, Sequences

CONSTANTS Sizes,            \* sizes of messages
          MaxMessages,      \* outbound_queue_max_messages
          MaxBytes          \* outbound_queue_max_bytes

ASSUME PumpAssumption ==
  Sizes \subseteq Nat \ {0} /\ MaxMessages \in Nat \ {0} /\ MaxBytes \in Nat

VARIABLES
  outbox,       \* queue
  inFlight,     \* the size of the message being sent, or 0
  queuedBytes,  \* _queued_bytes
  sender,       \* the task of _run: where it is, and whether it has been cancelled
  pumpFailed,   \* failed.is_set()
  accepting,    \* _accepting
  stopper,      \* the cleanup task: flush(), then stop()
  discarded     \* history: _discard_queued has dropped a message

pumpVars ==
  <<outbox, inFlight, queuedBytes, sender, pumpFailed, accepting, stopper, discarded>>

PumpTypeOK ==
  /\ outbox \in Seq(Sizes)
  /\ inFlight \in Sizes \cup {0}
  /\ queuedBytes \in Int
  /\ sender \in [at : {"created", "waits", "sends", "done"}, cancelled : BOOLEAN]
  /\ pumpFailed \in BOOLEAN /\ accepting \in BOOLEAN /\ discarded \in BOOLEAN
  /\ stopper \in {"no", "flushes", "flushed", "unflushed", "stops", "stopped"}

PumpInit ==
  /\ outbox = <<>> /\ inFlight = 0 /\ queuedBytes = 0
  /\ sender = [at |-> "created", cancelled |-> FALSE]
  /\ pumpFailed = FALSE /\ accepting = TRUE
  /\ stopper = "no" /\ discarded = FALSE

\* Upto(q)[n]: the bytes of the first n messages of q
Upto(q) ==
  LET sum[n \in 0 .. Len(q)] == IF n = 0 THEN 0 ELSE sum[n - 1] + q[n] IN sum

Total(q) == Upto(q)[Len(q)]

\* _discard_queued, where `left` bytes are on the count
Discards(left) ==
  /\ outbox' = <<>>
  /\ queuedBytes' = left - Total(outbox)
  /\ discarded' = (discarded \/ outbox # <<>>)

\* _enqueue
Enqueue(size) ==
  /\ accepting /\ ~pumpFailed
  /\ Len(outbox) < MaxMessages /\ queuedBytes + size <= MaxBytes
  /\ outbox' = Append(outbox, size)
  /\ queuedBytes' = queuedBytes + size
  /\ UNCHANGED <<inFlight, sender, pumpFailed, accepting, stopper, discarded>>

\* The buffer is at a limit: the client is too slow, the sender is cancelled.
EnqueueOverflows(size) ==
  /\ accepting /\ ~pumpFailed
  /\ Len(outbox) >= MaxMessages \/ queuedBytes + size > MaxBytes
  /\ pumpFailed' = TRUE /\ accepting' = FALSE
  /\ sender' = [sender EXCEPT !.cancelled = @ \/ sender.at # "done"]
  /\ UNCHANGED <<outbox, inFlight, queuedBytes, stopper, discarded>>

SenderBegins ==
  /\ sender.at = "created" /\ ~sender.cancelled
  /\ sender' = [sender EXCEPT !.at = "waits"]
  /\ UNCHANGED <<outbox, inFlight, queuedBytes, pumpFailed, accepting, stopper, discarded>>

TakeMessage ==
  /\ sender.at = "waits" /\ ~sender.cancelled /\ outbox # <<>>
  /\ inFlight' = Head(outbox)
  /\ outbox' = Tail(outbox)
  /\ sender' = [sender EXCEPT !.at = "sends"]
  /\ UNCHANGED <<queuedBytes, pumpFailed, accepting, stopper, discarded>>

\* The message is out; get() hands over the next one without a wait.
Sent ==
  /\ sender.at = "sends" /\ ~sender.cancelled
  /\ queuedBytes' = queuedBytes - inFlight
  /\ IF outbox = <<>>
     THEN inFlight' = 0 /\ outbox' = outbox /\ sender' = [sender EXCEPT !.at = "waits"]
     ELSE inFlight' = Head(outbox) /\ outbox' = Tail(outbox) /\ UNCHANGED sender
  /\ UNCHANGED <<pumpFailed, accepting, stopper, discarded>>

\* A send times out or the transport is gone: _mark_failed, then the finally clauses.
SendFails ==
  /\ sender.at = "sends" /\ ~sender.cancelled
  /\ pumpFailed' = TRUE /\ accepting' = FALSE
  /\ Discards(queuedBytes - inFlight)
  /\ inFlight' = 0
  /\ sender' = [sender EXCEPT !.at = "done"]
  /\ UNCHANGED stopper

\* CancelledError reaches the sender, whose finally clauses run if it had begun.
SenderCancelled ==
  /\ sender.cancelled /\ sender.at # "done"
  /\ sender' = [sender EXCEPT !.at = "done"]
  /\ inFlight' = 0
  /\ IF sender.at = "created" THEN UNCHANGED <<outbox, queuedBytes, discarded>>
                              ELSE Discards(queuedBytes - inFlight)
  /\ UNCHANGED <<pumpFailed, accepting, stopper>>

\* flush() is called by the cleanup task unless the pump has failed.
BeginFlush ==
  /\ stopper = "no"
  /\ stopper' = IF pumpFailed THEN "unflushed" ELSE "flushes"
  /\ UNCHANGED <<outbox, inFlight, queuedBytes, sender, pumpFailed, accepting, discarded>>

\* Mutant: flush() trusts join().
JoinedTrusting ==
  /\ stopper = "flushes" /\ outbox = <<>> /\ inFlight = 0
  /\ stopper' = "flushed"
  /\ UNCHANGED <<outbox, inFlight, queuedBytes, sender, pumpFailed, accepting, discarded>>

\* Everything that was put into the queue is done: join() returns, and flush()
\* looks whether that is because it was sent.
Joined ==
  /\ stopper = "flushes" /\ outbox = <<>> /\ inFlight = 0
  /\ stopper' = IF pumpFailed THEN "unflushed" ELSE "flushed"
  /\ UNCHANGED <<outbox, inFlight, queuedBytes, sender, pumpFailed, accepting, discarded>>

FlushExpires ==
  /\ stopper = "flushes"
  /\ stopper' = "unflushed"
  /\ UNCHANGED <<outbox, inFlight, queuedBytes, sender, pumpFailed, accepting, discarded>>

\* stop() up to the await of the sender
BeginStop ==
  /\ stopper \in {"flushed", "unflushed"}
  /\ stopper' = "stops"
  /\ accepting' = FALSE
  /\ sender' = [sender EXCEPT !.cancelled = @ \/ sender.at # "done"]
  /\ UNCHANGED <<outbox, inFlight, queuedBytes, pumpFailed, discarded>>

Stopped ==
  /\ stopper = "stops" /\ sender.at = "done"
  /\ stopper' = "stopped"
  /\ Discards(queuedBytes)
  /\ UNCHANGED <<inFlight, sender, pumpFailed, accepting>>

PumpStep ==
  \/ SenderBegins \/ TakeMessage \/ Sent \/ SendFails \/ SenderCancelled
  \/ Joined \/ FlushExpires \/ BeginStop \/ Stopped

PumpNext == PumpStep \/ BeginFlush \/ \E s \in Sizes : Enqueue(s) \/ EnqueueOverflows(s)

PumpSpec == PumpInit /\ [][PumpNext]_pumpVars

-----------------------------------------------------------------------------

\* The byte count is what is queued and in flight, within its limit, on every path
\* of failure, and nothing is left once the pump has stopped (_enqueue, _run,
\* _discard_queued, stop).
BytesAreAccounted ==
  /\ queuedBytes = Total(outbox) + inFlight
  /\ queuedBytes <= MaxBytes /\ Len(outbox) <= MaxMessages
  /\ stopper = "stopped" => queuedBytes = 0 /\ outbox = <<>>

\* flush() returns only when everything accepted until then was sent, although
\* join() also returns when the queue is discarded (flush, _mark_failed, _run);
\* and on the way there the accounts are in order.
FlushIsHonest ==
  [][/\ stopper = "flushes" /\ stopper' = "flushed" => ~discarded
     /\ PumpTypeOK' /\ BytesAreAccounted']_pumpVars

=============================================================================
