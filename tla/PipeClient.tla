------------------------------ MODULE PipeClient ------------------------------
(***************************************************************************)
(* PipeClient of the Windows frontend, from the one call of Connect() that *)
(* the application makes: the reconnect loop with its read loop, the tasks *)
(* that are in SendCommandAsync, and the threads that call Disconnect()    *)
(* and Dispose().  The backend and the pipe between are external: the      *)
(* backend may drop a connection at any time, and of what travels on it    *)
(* only which command it belongs to is kept.  The loop makes one           *)
(* connection at a time, so one link stands for all of them.               *)
(*                                                                         *)
(* _pipe, _reader and _writer are one field, as they are set together      *)
(* under the lock and used in the same order everywhere.  Of a command's   *)
(* result only its kind is kept: the backend's answer, be it an error, or  *)
(* an exception of the client's own.  Each awaited call begins and ends in *)
(* actions of its own; what follows without an await and touches nothing   *)
(* shared is part of the same action.                                      *)
(***************************************************************************)
EXTENDS Naturals, FiniteSets

CONSTANT Request   \* the commands that are sent

\* The threads that close the pipe and fail what is pending: the loop, and the
\* one that calls Disconnect() and Dispose().
Thread == {"loop", "owner"}

VARIABLES
  cancelled,  \* _cts has been cancelled
  connected,  \* _connected
  disposed,   \* _disposed
  field,      \* _pipe, _reader and _writer are set
  pending,    \* keys of _pending
  at,         \* where each thread is
  found,      \* what a thread in FailAllPending is sure to come across
  call,       \* where each command's task is
  result,     \* what each command's completion source holds, or what its
              \* caller got: "none", "answer" or "failure"
  link,       \* the last connection: both ends are open, the backend's is
              \* closed, or this one is
  line        \* where a command stands on it: not written, written, answered,
              \* or its answer was read

state == <<cancelled, connected, disposed, field>>
commands == <<call, result>>
conn == <<link, line>>
vars == <<state, pending, at, found, commands, conn>>

LoopPlace == {"connect", "publish", "read", "after", "close", "clear", "fail",
              "delay", "done"}
OwnerPlace == {"idle", "close", "clear", "fail", "last", "done"}
CallPlace == {"idle", "register", "write", "writing", "wait", "done"}

Go(t, place) == at' = [at EXCEPT ![t] = place]
Reach(r, place) == call' = [call EXCEPT ![r] = place]
Complete(r, kind) == result' = [result EXCEPT ![r] = kind]

\* The commands in SendCommandAsync whose completion source is completed.
completed == {r \in Request : call[r] # "done" /\ result[r] # "none"}
-----------------------------------------------------------------------------
(* Closing the pipe and failing what is pending: the loop, Disconnect() and *)
(* Dispose() each do it on their own thread, without the lock.              *)

\* Seeded bug: Disconnect() and Dispose() go on as the loop does.
Afterwards_Fault(t) == "delay"

\* What follows FailAllPending: Disconnect() has one more step.
Afterwards(t) ==
  IF t = "loop" THEN "delay" ELSE IF disposed THEN "done" ELSE "last"

\* The writer, the reader and the pipe are disposed of.  What was not read is
\* lost.
Close(t) ==
  /\ at[t] = "close"
  /\ \/ field /\ link' = "closed" /\ line' = [r \in Request |-> "none"]
     \/ ~field /\ UNCHANGED conn
  /\ Go(t, "clear")
  /\ UNCHANGED <<state, pending, found, commands>>

\* Only then are the fields set to null, whatever they hold by now, and
\* FailAllPending begins.
Clear(t) ==
  /\ at[t] = "clear"
  /\ field' = FALSE
  /\ found' = [found EXCEPT ![t] = pending]
  /\ Go(t, "fail")
  /\ UNCHANGED <<cancelled, connected, disposed, pending, commands, conn>>

\* FailAllPending visits what was in _pending when it began, and it may or may
\* not visit what is added later.
FailOne(t, r) ==
  /\ at[t] = "fail"
  /\ r \in pending
  /\ pending' = pending \ {r}
  /\ Complete(r, "failure")
  /\ UNCHANGED <<state, at, found, call, conn>>

\* Seeded bug: some of what is pending is left alone.
EndSweep_Fault(t) ==
  /\ at[t] = "fail"
  /\ found' = [found EXCEPT ![t] = {}]
  /\ Go(t, Afterwards(t))
  /\ UNCHANGED <<state, pending, commands, conn>>

EndSweep(t) ==
  /\ at[t] = "fail"
  /\ found[t] \cap pending = {}
  /\ found' = [found EXCEPT ![t] = {}]
  /\ Go(t, Afterwards(t))
  /\ UNCHANGED <<state, pending, commands, conn>>

FailAllPending(t) == (\E r \in Request : FailOne(t, r)) \/ EndSweep(t)
ClosePipe(t) == Close(t) \/ Clear(t)
-----------------------------------------------------------------------------
(* The reconnect loop.                                                     *)

\* ConnectAsync succeeds, perhaps after the cancellation that comes too late.
LoopConnects ==
  /\ at["loop"] = "connect"
  /\ link' = "up"
  /\ Go("loop", "publish")
  /\ UNCHANGED <<state, pending, found, commands, line>>

\* Seeded bug: the exception ends the loop.
LoopConnectFails_Fault ==
  /\ at["loop"] = "connect"
  /\ Go("loop", "done")
  /\ UNCHANGED <<state, pending, found, commands, conn>>

LoopConnectFails ==
  /\ at["loop"] = "connect"
  /\ Go("loop", "after")
  /\ UNCHANGED <<state, pending, found, commands, conn>>

LoopConnectCancelled ==
  /\ at["loop"] = "connect"
  /\ cancelled
  /\ Go("loop", "done")
  /\ UNCHANGED <<state, pending, found, commands, conn>>

\* Under the lock.  The Connected event follows, whose handlers send commands:
\* a command may begin at any time.
LoopPublish ==
  /\ at["loop"] = "publish"
  /\ field' = TRUE
  /\ connected' = TRUE
  /\ Go("loop", "read")
  /\ UNCHANGED <<cancelled, disposed, pending, found, commands, conn>>

\* A line is read from a connection that is still open on this side; when the
\* backend has dropped it, what it had written before can still be read.
\* HandleResponse: an answer nobody waits for any more is ignored.
ReadAnswer(r) ==
  /\ at["loop"] = "read"
  /\ line[r] = "answered"
  /\ line' = [line EXCEPT ![r] = "read"]
  /\ pending' = pending \ {r}
  /\ \/ r \in pending /\ Complete(r, "answer")
     \/ r \notin pending /\ UNCHANGED result
  /\ UNCHANGED <<state, at, found, call, link>>

\* Seeded bug: the read loop is not given the token.
MustLeave_Fault == ~field \/ link # "up"

\* The read loop's conditions, a read that ends or fails, and a null reader.
MustLeave == cancelled \/ ~field \/ link # "up"

ReadEnds ==
  /\ at["loop"] = "read"
  /\ MustLeave
  /\ Go("loop", "after")
  /\ UNCHANGED <<state, pending, found, commands, conn>>

\* A line whose handling throws: an event's, in a handler of EventReceived, or one
\* with a field of the wrong type. It ends the session as a failed read does. An
\* answer is never such a line: serialize_response (protocol.cpp:60) writes ok as a
\* truth value, data as an object and error as a text.
ReadThrows ==
  /\ at["loop"] = "read"
  /\ link = "up"
  /\ Go("loop", "after")
  /\ UNCHANGED <<state, pending, found, commands, conn>>

\* Under the lock: the pipe is closed only by who finds _connected set.
LoopAfter ==
  /\ at["loop"] = "after"
  /\ connected' = FALSE
  /\ Go("loop", IF connected THEN "close" ELSE "delay")
  /\ UNCHANGED <<cancelled, disposed, field, pending, found, commands, conn>>

\* The backoff, and the loop's condition.
LoopDelay ==
  /\ at["loop"] = "delay"
  /\ Go("loop", IF cancelled THEN "done" ELSE "connect")
  /\ UNCHANGED <<state, pending, found, commands, conn>>

LoopStep ==
  \/ LoopConnectCancelled \/ LoopPublish
  \/ (\E r \in Request : ReadAnswer(r)) \/ ReadEnds
  \/ LoopAfter \/ ClosePipe("loop") \/ FailAllPending("loop") \/ LoopDelay
-----------------------------------------------------------------------------
(* SendCommandAsync.                                                       *)

Send(r) ==
  /\ call[r] = "idle"
  /\ \/ disposed /\ Reach(r, "done") /\ Complete(r, "failure")
     \/ ~disposed /\ Reach(r, "register") /\ UNCHANGED result
  /\ UNCHANGED <<state, pending, at, found, conn>>

\* Seeded bug: the command is not in _pending when it is written.
Register_Fault(r) ==
  /\ call[r] = "register"
  /\ Reach(r, "write")
  /\ UNCHANGED <<state, pending, at, found, result, conn>>

Register(r) ==
  /\ call[r] = "register"
  /\ pending' = pending \cup {r}
  /\ Reach(r, "write")
  /\ UNCHANGED <<state, at, found, result, conn>>

\* StreamWriter refuses an asynchronous write while another one is under way.
WriterBusy == \E r \in Request : line[r] # "none" /\ call[r] = "writing"
Writable == field /\ link # "closed" /\ ~WriterBusy

\* WriteLineAsync begins.  The line is the backend's to answer from here on.
WriteBegins(r) ==
  /\ call[r] = "write"
  /\ Writable
  /\ line' = [line EXCEPT ![r] = "written"]
  /\ Reach(r, "writing")
  /\ UNCHANGED <<state, pending, at, found, result, link>>

\* Seeded bug: the catch block does not clean up.
Throws_Fault(r) ==
  Reach(r, "done") /\ Complete(r, "failure") /\ UNCHANGED pending

\* The exception and the catch block.  An answer that came in is not looked at.
Throws(r) ==
  Reach(r, "done") /\ Complete(r, "failure") /\ pending' = pending \ {r}

WriteThrows(r) ==
  /\ call[r] = "write"
  /\ ~Writable
  /\ Throws(r)
  /\ UNCHANGED <<state, at, found, conn>>

\* When it ends, the timeout is armed and the task waits to be completed.  On a
\* connection that is gone, the write may have ended before or fails.
WriteEnds(r) ==
  /\ call[r] = "writing"
  /\ \/ Reach(r, "wait") /\ UNCHANGED <<pending, result>>
     \/ (line[r] = "none" \/ link # "up") /\ Throws(r)
  /\ UNCHANGED <<state, at, found, conn>>

\* Seeded bug: only the client's own cancellation is listened to.
Timeout_Fault(r) ==
  /\ cancelled
  /\ call[r] = "wait"
  /\ r \notin completed
  /\ Throws(r)
  /\ UNCHANGED <<state, at, found, conn>>

\* The timeout, or the caller's own cancellation.
Timeout(r) ==
  /\ call[r] = "wait"
  /\ r \notin completed
  /\ Throws(r)
  /\ UNCHANGED <<state, at, found, conn>>

\* Whoever completed the command has removed it from _pending.
Resume(r) ==
  /\ call[r] = "wait"
  /\ r \in completed
  /\ Reach(r, "done")
  /\ UNCHANGED <<state, pending, at, found, result, conn>>

CommandStep(r) ==
  \/ Register(r) \/ WriteBegins(r) \/ WriteThrows(r) \/ WriteEnds(r)
  \/ Timeout(r) \/ Resume(r)
-----------------------------------------------------------------------------
(* Disconnect() and Dispose().  Disconnect() after Dispose() only throws:  *)
(* its first step cancels a source that has been disposed of.              *)

\* The loop's task exists, so Disconnect() never returns at once.
CallDisconnect ==
  /\ at["owner"] = "idle"
  /\ cancelled' = TRUE
  /\ Go("owner", "close")
  /\ UNCHANGED <<connected, disposed, field, pending, found, commands, conn>>

DisconnectLast ==
  /\ at["owner"] = "last"
  /\ connected' = FALSE
  /\ Go("owner", "idle")
  /\ UNCHANGED <<cancelled, disposed, field, pending, found, commands, conn>>

CallDispose ==
  /\ at["owner"] = "idle"
  /\ disposed' = TRUE
  /\ cancelled' = TRUE
  /\ Go("owner", "close")
  /\ UNCHANGED <<connected, field, pending, found, commands, conn>>

OwnerStep == ClosePipe("owner") \/ FailAllPending("owner") \/ DisconnectLast
-----------------------------------------------------------------------------
(* The backend.                                                            *)

BackendAnswers(r) ==
  /\ link = "up"
  /\ line[r] = "written"
  /\ line' = [line EXCEPT ![r] = "answered"]
  /\ UNCHANGED <<state, pending, at, found, commands, link>>

BackendDrops ==
  /\ link = "up"
  /\ link' = "lost"
  /\ UNCHANGED <<state, pending, at, found, commands, line>>
-----------------------------------------------------------------------------
\* Connect() has been called.
Init ==
  /\ cancelled = FALSE /\ connected = FALSE /\ disposed = FALSE /\ field = FALSE
  /\ pending = {}
  /\ at = [t \in Thread |-> IF t = "loop" THEN "connect" ELSE "idle"]
  /\ found = [t \in Thread |-> {}]
  /\ call = [r \in Request |-> "idle"]
  /\ result = [r \in Request |-> "none"]
  /\ link = "closed"
  /\ line = [r \in Request |-> "none"]

Next ==
  \/ LoopStep \/ LoopConnects \/ LoopConnectFails \/ ReadThrows \/ BackendDrops
  \/ \E r \in Request : Send(r) \/ CommandStep(r) \/ BackendAnswers(r)
  \/ CallDisconnect \/ CallDispose \/ OwnerStep

Spec == Init /\ [][Next]_vars

\* The tasks and threads that have begun go on; a write that has begun ends; and
\* a client that tries to connect again and again succeeds in the end.  Nothing
\* obliges anyone to send, disconnect or dispose, or the backend to answer.
FairSpec ==
  /\ Spec
  /\ WF_vars(LoopStep)
  /\ SF_vars(LoopConnects)
  /\ \A r \in Request : WF_vars(CommandStep(r))
  /\ WF_vars(OwnerStep)
-----------------------------------------------------------------------------
(* Properties.                                                             *)

\* Every variable has values of its type.
TypeOK ==
  /\ cancelled \in BOOLEAN /\ connected \in BOOLEAN
  /\ disposed \in BOOLEAN /\ field \in BOOLEAN
  /\ pending \subseteq Request
  /\ result \in [Request -> {"none", "answer", "failure"}]
  /\ at \in [Thread -> LoopPlace \cup OwnerPlace]
  /\ at["loop"] \in LoopPlace /\ at["owner"] \in OwnerPlace
  /\ found \in [Thread -> SUBSET Request]
  /\ call \in [Request -> CallPlace]
  /\ link \in {"up", "lost", "closed"}
  /\ line \in [Request -> {"none", "written", "answered", "read"}]

\* A command that has returned to its caller is no longer in _pending, whichever
\* of the answer, the timeout, a failed write and a disconnection came first.
NoOrphanPending == \A r \in Request : call[r] = "done" => r \notin pending

\* The client keeps the promise of RequestReply.  A command's status is what its
\* completion source holds, and the replies are on the connection.
status == [r \in Request |->
  IF call[r] = "idle" THEN "idle"
  ELSE CASE result[r] = "none" -> "waiting"
         [] result[r] = "answer" -> "answered"
         [] result[r] = "failure" -> "failed"]
returned == {r \in Request : call[r] = "done"}
reply == [r \in Request |->
  CASE line[r] = "answered" -> "sent"
    [] line[r] = "read" -> "taken"
    [] OTHER -> "none"]
up == link = "up"

Promise == INSTANCE RequestReply

\* Every command ends once, with its own answer when that came in time, whichever
\* of the answer, the timeout, a failed write and a disconnection comes first; and
\* no connection is made with anything left of the one before.
KeepsPromise == Promise!Spec

\* While the loop is between two connections, no command waits for an answer
\* from the old one: FailAllPending reached it, however it raced with the write.
NoStrandedCommand ==
  at["loop"] \in {"delay", "connect"} /\ ~cancelled
    => \A r \in Request : call[r] \in {"writing", "wait"} => r \in completed

\* SendCommandAsync always returns, with an answer or an exception.
CommandsEnd ==
  \A r \in Request : call[r] = "register" ~> call[r] = "done"

\* Disconnect() and Dispose() stop the reconnect loop, wherever it is.
LoopEnds == cancelled ~> at["loop"] = "done"

\* A client that nobody disconnects is connected again after each loss.
Reconnects == []<>(cancelled \/ connected)
=============================================================================
