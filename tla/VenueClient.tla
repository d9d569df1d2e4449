----------------------------- MODULE VenueClient -----------------------------
(***************************************************************************)
(* The asyncio client (venue_client/client.py): a receive task that reads  *)
(* frames and dispatches each to the futures of wait_for and then to the   *)
(* handlers, next to the tasks that call wait_for, send and close. The     *)
(* tasks share one thread: an action runs from one await to the next.      *)
(*                                                                         *)
(* A frame is its message type. One that has arrived is seen only when it  *)
(* is read, so the model has no buffer: a read may find any frame, a bad   *)
(* one, or the end of file. close() is called once.                        *)
(***************************************************************************)
EXTENDS Naturals, SequencesExt

CONSTANTS Types,           \* message types; "*" is not one
          Subscriptions,   \* the <<type or "*", handler>> pairs given to on()
          AsyncHandlers,   \* the handlers that are coroutines and await something
          Failing,         \* the handlers that may raise
          Callers,         \* tasks that call wait_for, once each
          Waits,           \* the <<caller, type>> pairs of those calls
          MaxFrames        \* bound: messages read

ASSUME FramesAssumption == "*" \notin Types /\ MaxFrames \in Nat
ASSUME WaitsAssumption == Waits \subseteq Callers \X Types
ASSUME SubscriptionsAssumption == \A s \in Subscriptions : s[1] \in Types \cup {"*"}

NoMessage == 0     \* None; messages are numbered as they are read

VARIABLES handlers,    \* _handlers: type -> handlers in the order of registration
          task,        \* _recv_task: none, created, reading, handling (awaiting a handler), done
          cancelled,   \* cancel() was called on it
          left,        \* handlers the suspended _dispatch has still to call
          waiters,     \* _waiters: type -> callers whose future it lists
          call,        \* caller -> its wait_for call
          closed, error,
          transport,   \* of the writer: open, closing (close() called), lost
          closer,      \* close(): idle, joining the task, closing the writer, returned
          sender,      \* the task that sends: sending, or stopped by an exception (raised)
          read,        \* ghost: types of the messages read
          log          \* ghost: handler calls, <<handler, number of the message>>

vars == <<handlers, task, cancelled, left, waiters, call, closed, error,
          transport, closer, sender, read, log>>

\* A call of wait_for: `since` counts the messages read when it was made, got is
\* the result of its future.
NoCall == [pc |-> "idle", type |-> "*", since |-> 0, got |-> NoMessage]

Init ==
    /\ handlers = [t \in Types \cup {"*"} |-> <<>>]
    /\ task = "none" /\ cancelled = FALSE /\ left = <<>>
    /\ waiters = [t \in Types |-> <<>>]
    /\ call = [c \in Callers |-> NoCall]
    /\ closed = FALSE /\ error = "none" /\ transport = "open" /\ closer = "idle"
    /\ sender = "sending" /\ read = <<>> /\ log = <<>>

-----------------------------------------------------------------------------
(***************************************************************************)
(* The connection.                                                         *)
(***************************************************************************)
\* The transport calls connection_lost: after close() when its buffer is flushed,
\* or at any time when the venue resets the connection.
ConnectionLost ==
    /\ transport # "lost"
    /\ transport' = "lost"
    /\ UNCHANGED <<handlers, task, cancelled, left, waiters, call, closed, error,
                   closer, sender, read, log>>

\* writer.close()
CloseWriter == transport' = IF transport = "open" THEN "closing" ELSE transport

-----------------------------------------------------------------------------
(***************************************************************************)
(* on, start and send.                                                     *)
(***************************************************************************)
\* "Register handlers before starting to avoid losing early messages."
On(t, h) ==
    /\ task = "none" /\ ~Contains(handlers[t], h)
    /\ handlers' = [handlers EXCEPT ![t] = Append(@, h)]
    /\ UNCHANGED <<task, cancelled, left, waiters, call, closed, error,
                   transport, closer, sender, read, log>>

Start ==
    /\ task = "none"
    /\ task' = "created"
    /\ UNCHANGED <<handlers, cancelled, left, waiters, call, closed, error,
                   transport, closer, sender, read, log>>

\* A send changes nothing in the client while the connection lasts; write() drops
\* the data of a closing transport without a word. drain() raises once the
\* connection is lost, and the sender stops.
Send ==
    /\ sender = "sending"
    /\ sender' = IF transport = "lost" THEN "raised" ELSE sender
    /\ UNCHANGED <<handlers, task, cancelled, left, waiters, call, closed, error,
                   transport, closer, read, log>>

-----------------------------------------------------------------------------
(***************************************************************************)
(* The receive task.                                                       *)
(***************************************************************************)
TaskStarts ==
    /\ task = "created" /\ ~cancelled
    /\ task' = "reading"
    /\ UNCHANGED <<handlers, cancelled, left, waiters, call, closed, error,
                   transport, closer, sender, read, log>>

\* A finally that forgets the writer.
Mut_EndTask(why) ==
    /\ task' = "done" /\ left' = <<>> /\ error' = why /\ closed' = TRUE
    /\ UNCHANGED transport

\* The except and finally clauses of _receive_loop.
EndTask(why) ==
    /\ task' = "done" /\ left' = <<>> /\ error' = why /\ closed' = TRUE
    /\ CloseWriter

\* Calls the handlers hs with message k up to the first that awaits or raises.
RunHandlers(hs, k) ==
    LET calls(n) == log' = log \o [i \in 1..n |-> <<hs[i], k>>]
        suspends(n) == hs[n] \in AsyncHandlers
        before(n) == \A i \in 1..(n - 1) : ~suspends(i)
    IN \/ /\ before(Len(hs) + 1)
          /\ calls(Len(hs))
          /\ task' = "reading" /\ left' = <<>>
          /\ UNCHANGED <<closed, error, transport>>
       \/ \E n \in DOMAIN hs :
             /\ before(n) /\ suspends(n) /\ calls(n)
             /\ task' = "handling" /\ left' = SubSeq(hs, n + 1, Len(hs))
             /\ UNCHANGED <<closed, error, transport>>
       \/ \E n \in DOMAIN hs :
             /\ before(n) /\ hs[n] \in Failing /\ calls(n)
             /\ EndTask("handler")

\* A _dispatch that calls the "*" handlers first.
Mut_HandlersFor(t) == handlers["*"] \o handlers[t]

HandlersFor(t) == handlers[t] \o handlers["*"]

\* A _dispatch that resolves the oldest future only.
Mut_ResolveFirst(t, k) ==
    [c \in Callers |-> IF waiters[t] # <<>> /\ c = Head(waiters[t]) /\ call[c].pc = "waiting"
                       THEN [call[c] EXCEPT !.got = k, !.pc = "resolved"] ELSE call[c]]

\* fut.done()
Done(c) == call[c].pc # "waiting"

\* A _dispatch that does not ask whether the future is done.
Mut_Unresolved(t) == {c \in Callers : Contains(waiters[t], c)}

\* for fut in self._waiters.pop(msg_type, []): if not fut.done(): ...
Unresolved(t) == {c \in Callers : Contains(waiters[t], c) /\ ~Done(c)}

\* ... fut.set_result(msg)
Resolve(t, k) ==
    [c \in Callers |-> IF c \in Unresolved(t) THEN [call[c] EXCEPT !.got = k, !.pc = "resolved"]
                       ELSE call[c]]

\* _read_frame returns a message, and _dispatch runs to its first await. A
\* set_result on a future that is done would raise InvalidStateError in it.
Receive(t) ==
    /\ task = "reading" /\ ~cancelled /\ Len(read) < MaxFrames
    /\ LET k == Len(read) + 1
       IN /\ read' = Append(read, t)
          /\ waiters' = [waiters EXCEPT ![t] = <<>>]
          /\ IF \A c \in Unresolved(t) : ~Done(c)
             THEN call' = Resolve(t, k) /\ RunHandlers(HandlersFor(t), k)
             ELSE EndTask("state") /\ UNCHANGED <<call, log>>
    /\ UNCHANGED <<handlers, cancelled, closer, sender>>

\* The handler the dispatch awaits returns, or raises.
HandlerReturns ==
    /\ task = "handling" /\ ~cancelled
    /\ \/ RunHandlers(left, Len(read))
       \/ log[Len(log)][1] \in Failing /\ EndTask("handler") /\ UNCHANGED log
    /\ UNCHANGED <<handlers, cancelled, waiters, call, closer, sender, read>>

\* _read_frame raises: FramingError or a JSON error, or IncompleteReadError.
ReadFails ==
    /\ task = "reading" /\ ~cancelled
    /\ \E why \in {"frame", "eof"} : EndTask(why)
    /\ UNCHANGED <<handlers, cancelled, waiters, call, closer, sender, read, log>>

\* An except clause that takes CancelledError for an error.
Mut_TaskCancelled ==
    /\ cancelled
    /\ \/ task \in {"reading", "handling"} /\ EndTask("cancelled")
       \/ /\ task = "created" /\ task' = "done"
          /\ UNCHANGED <<left, closed, error, transport>>
    /\ UNCHANGED <<handlers, cancelled, waiters, call, closer, sender, read, log>>

\* CancelledError reaches the task: at its await, or before its first step, when
\* the body with its finally never runs.
TaskCancelled ==
    /\ cancelled
    /\ \/ task \in {"reading", "handling"} /\ EndTask(error)
       \/ /\ task = "created" /\ task' = "done"
          /\ UNCHANGED <<left, closed, error, transport>>
    /\ UNCHANGED <<handlers, cancelled, waiters, call, closer, sender, read, log>>

-----------------------------------------------------------------------------
(***************************************************************************)
(* wait_for. A future that is resolved or timed out is done; the caller    *)
(* runs again, and takes it off the list, a step later.                    *)
(***************************************************************************)
WaitFor(c, t) ==
    /\ call[c].pc = "idle"
    /\ call' = [call EXCEPT ![c] = [pc |-> "waiting", type |-> t, since |-> Len(read), got |-> NoMessage]]
    /\ waiters' = [waiters EXCEPT ![t] = Append(@, c)]
    /\ task' = IF task = "none" THEN "created" ELSE task
    /\ UNCHANGED <<handlers, cancelled, left, closed, error, transport, closer,
                   sender, read, log>>

\* A wait_for that waits for ever.
Mut_TimeOut(c) == FALSE /\ UNCHANGED vars

TimeOut(c) ==
    /\ call[c].pc = "waiting"
    /\ call' = [call EXCEPT ![c].pc = "timedout"]
    /\ UNCHANGED <<handlers, task, cancelled, left, waiters, closed, error,
                   transport, closer, sender, read, log>>

\* A wait_for without the finally clause.
Mut_WaitForReturns(c) ==
    /\ call[c].pc \in {"resolved", "timedout"}
    /\ call' = [call EXCEPT ![c].pc = "returned"]
    /\ UNCHANGED <<handlers, task, cancelled, left, waiters, closed, error,
                   transport, closer, sender, read, log>>

\* When the timeout comes between set_result and the caller's next step,
\* asyncio.wait_for returns the result or raises TimeoutError, by its version.
WaitForReturns(c) ==
    /\ call[c].pc \in {"resolved", "timedout"}
    /\ \E got \in {call[c].got, NoMessage} :
          call' = [call EXCEPT ![c].pc = "returned", ![c].got = got]
    /\ waiters' = [waiters EXCEPT ![call[c].type] = RemoveFirst(@, c)]
    /\ UNCHANGED <<handlers, task, cancelled, left, closed, error,
                   transport, closer, sender, read, log>>

-----------------------------------------------------------------------------
(***************************************************************************)
(* close().                                                                *)
(***************************************************************************)
\* A close that does not wait for the task it cancels.
Mut_CloseCalled ==
    /\ closer = "idle"
    /\ cancelled' = (task \in {"created", "reading", "handling"})
    /\ closer' = "closing" /\ CloseWriter
    /\ UNCHANGED <<handlers, task, left, waiters, call, closed, error, sender, read, log>>

\* A close that waits for the task and does not cancel it.
Mut_CloseWithoutCancel ==
    /\ closer = "idle"
    /\ IF task = "none" THEN closer' = "closing" /\ CloseWriter
                        ELSE closer' = "joining" /\ UNCHANGED transport
    /\ UNCHANGED <<handlers, task, cancelled, left, waiters, call, closed, error,
                   sender, read, log>>

\* cancel() and the await of the task; without a task, straight to the writer.
CloseCalled ==
    /\ closer = "idle"
    /\ cancelled' = (task \in {"created", "reading", "handling"})
    /\ IF task = "none" THEN closer' = "closing" /\ CloseWriter
                        ELSE closer' = "joining" /\ UNCHANGED transport
    /\ UNCHANGED <<handlers, task, left, waiters, call, closed, error, sender, read, log>>

CloseJoined ==
    /\ closer = "joining" /\ task = "done"
    /\ closer' = "closing" /\ CloseWriter
    /\ UNCHANGED <<handlers, task, cancelled, left, waiters, call, closed, error,
                   sender, read, log>>

\* wait_closed returns when the connection is lost.
CloseReturns ==
    /\ closer = "closing" /\ transport = "lost"
    /\ closer' = "returned" /\ closed' = TRUE
    /\ UNCHANGED <<handlers, task, cancelled, left, waiters, call, error,
                   transport, sender, read, log>>

Next ==
    \/ ConnectionLost
    \/ \E s \in Subscriptions : On(s[1], s[2])
    \/ Start \/ Send
    \/ TaskStarts \/ (\E t \in Types : Receive(t)) \/ HandlerReturns \/ ReadFails \/ TaskCancelled
    \/ \E w \in Waits : WaitFor(w[1], w[2])
    \/ \E c \in Callers : TimeOut(c) \/ WaitForReturns(c)
    \/ CloseCalled \/ CloseJoined \/ CloseReturns

Spec == Init /\ [][Next]_vars

\* The event loop runs every task that can run, timers fire, handlers return,
\* the transport can flush its buffer, and the sender goes on sending. Nothing
\* is assumed of the venue: no frame need come, nor an end of file.
Fairness ==
    /\ WF_vars(TaskStarts \/ HandlerReturns \/ TaskCancelled)
    /\ \A c \in Callers : WF_vars(TimeOut(c)) /\ WF_vars(WaitForReturns(c))
    /\ WF_vars(transport = "closing" /\ ConnectionLost) /\ WF_vars(Send)
    /\ WF_vars(CloseJoined) /\ WF_vars(CloseReturns)

FairSpec == Spec /\ Fairness

-----------------------------------------------------------------------------
TypeOK ==
    /\ read \in Seq(Types)
    /\ task \in {"none", "created", "reading", "handling", "done"}
    /\ (task # "handling" => left = <<>>)
    /\ error \in {"none", "frame", "eof", "handler", "state"}
    /\ \A t \in Types : IsInjective(waiters[t])

\* The handlers are called with the messages in the order they were read, each
\* handler of the type and then each of "*" exactly once, also when a handler
\* awaits in between. Only the last message may be cut short, when its dispatch
\* is suspended or the task ended in it.
DispatchInOrder ==
    LET calls(k) == [i \in DOMAIN (handlers[read[k]] \o handlers["*"]) |->
                        <<(handlers[read[k]] \o handlers["*"])[i], k>>]
        expected == FlattenSeq([k \in DOMAIN read |-> calls(k)])
    IN /\ IsPrefix(log, expected)
       /\ task = "reading" => log = expected
       /\ read # <<>> => Len(log) >= Len(expected) - Len(calls(Len(read)))

\* What wait_for returns is the first message of its type read after the call;
\* a future still waiting has missed none.
WaiterGetsNext ==
    \A c \in Callers :
        LET later == {k \in DOMAIN read : k > call[c].since /\ read[k] = call[c].type}
        IN /\ call[c].got # NoMessage => call[c].got \in later /\ \A k \in later : call[c].got <= k
           /\ call[c].pc = "waiting" => later = {}

\* _waiters lists the futures of calls in progress, each once, and a future that
\* is still waiting is listed: no call leaves its future behind, none is lost.
WaitersExact ==
    /\ TypeOK
    /\ \A c \in Callers, t \in Types :
          /\ Contains(waiters[t], c) => call[c].pc \in {"waiting", "timedout"} /\ call[c].type = t
          /\ call[c].pc = "waiting" /\ call[c].type = t => Contains(waiters[t], c)

\* Once close() has returned the connection is gone and the receive task it
\* cancelled is over: no handler runs and no future is resolved any more. (A
\* wait_for on a client that was never started starts a task even after that.)
QuietAfterClose ==
    closer = "returned" => closed /\ transport = "lost" /\ (cancelled => task = "done")

\* The receive task ends only with the connection, by an exception of the handler
\* it called last, for the message read last, or by the cancel of close(). A wait
\* that times out, at whatever moment a message of its type arrives, never ends
\* it with an InvalidStateError, and a cancel is not taken for an error.
TaskEndsForCause ==
    /\ error \in {"none", "frame", "eof", "handler"}
    /\ error # "none" => task = "done"
    /\ task = "done" /\ error = "none" => cancelled
    /\ error = "handler" => Last(log)[1] \in Failing /\ Last(log)[2] = Len(read)

\* Every wait_for returns, whatever becomes of the connection, and close() returns
\* wherever the receive task is when it is called.
CallsEnd ==
    /\ \A c \in Callers : (call[c].pc = "waiting") ~> (call[c].pc = "returned")
    /\ (closer = "joining") ~> (closer = "returned")

\* When the receive task ends, by an error of the connection or of a handler, a
\* task that only sends gets an exception sooner or later, although closed and
\* error are never read.
SenderLearns == (task = "done" /\ error # "none") ~> (sender = "raised")
=============================================================================
