--------------------------- MODULE PipeClientProofs ---------------------------
(***************************************************************************)
(* Proofs about PipeClient for any set of commands: its safety invariants, *)
(* and that it implements RequestReply.                                    *)
(***************************************************************************)
EXTENDS PipeClient, TLAPS

\* A command in _pending is between its registration and its return, and its
\* answer has not been read; one that was registered and is not in _pending any
\* more is completed.
CommandOK(r) ==
  /\ call[r] \in {"idle", "register"} => result[r] = "none"
  /\ call[r] \in {"idle", "register", "write"} => line[r] = "none"
  /\ call[r] = "write" => result[r] # "answer"
  /\ r \in pending =>
       call[r] \in {"write", "writing", "wait"} /\ result[r] = "none" /\ line[r] # "read"
  /\ call[r] \in {"write", "writing", "wait", "done"} /\ r \notin pending =>
       result[r] # "none"

\* Nothing is left of the last connection when the next is made. Until someone
\* calls Disconnect() or Dispose() the loop alone opens and closes: the fields
\* are set from publishing to clearing, and then the connection is gone.
LoopOK ==
  /\ at["loop"] \in {"connect", "publish"} => ~field /\ \A r \in Request : line[r] = "none"
  /\ at["loop"] = "connect" => link = "closed"
  /\ ~cancelled =>
       /\ at["owner"] = "idle"
       /\ at["loop"] \in {"connect", "publish", "delay", "fail"} => ~field
       /\ at["loop"] \in {"connect", "publish", "delay", "close", "clear", "fail"} => ~connected
       /\ at["loop"] = "read" => field /\ connected
       /\ at["loop"] = "after" => field = connected
       /\ at["loop"] = "close" => field
       /\ at["loop"] \in {"clear", "fail", "delay"} \/ (at["loop"] = "after" /\ ~field) =>
            link = "closed" /\ \A r \in Request : line[r] = "none"

\* On the way to the next connection every command that was written is completed,
\* or the sweep that runs is sure to come across it.
SweepOK ==
  ~cancelled =>
    /\ at["loop"] = "fail" =>
         \A r \in pending : call[r] \in {"writing", "wait"} => r \in found["loop"]
    /\ at["loop"] \in {"connect", "publish", "delay"} \/ (at["loop"] = "after" /\ ~field) =>
         \A r \in pending : call[r] \notin {"writing", "wait"}

\* The inductive invariant. NoStrandedCommand is about the places between two
\* connections only, and holds there because of what the sweep before must meet.
IInv ==
  /\ TypeOK
  /\ \A r \in Request : CommandOK(r)
  /\ LoopOK
  /\ SweepOK
-----------------------------------------------------------------------------
(* Type correctness.                                                       *)

\* The types at the start.
LEMMA TypeInit == Init => TypeOK
BY DEF Init, TypeOK, Thread, LoopPlace, OwnerPlace, CallPlace

\* Every step keeps the types.
LEMMA TypeStep == TypeOK /\ [Next]_vars => TypeOK'
<1> SUFFICES ASSUME TypeOK, [Next]_vars PROVE TypeOK'
  OBVIOUS
<1> USE DEF TypeOK, state, commands, conn, Thread, LoopPlace, OwnerPlace, CallPlace, Go, Reach,
            Complete
<1>1. ASSUME NEW t \in Thread, ClosePipe(t) PROVE TypeOK'
  <2>1. ASSUME Close(t) PROVE TypeOK'
    BY <2>1 DEF Close
  <2>2. ASSUME Clear(t) PROVE TypeOK'
    BY <2>2 DEF Clear
  <2>3. QED
    BY <1>1, <2>1, <2>2 DEF ClosePipe
<1>2. ASSUME NEW t \in Thread, FailAllPending(t) PROVE TypeOK'
  <2>1. ASSUME NEW r \in Request, FailOne(t, r) PROVE TypeOK'
    BY <2>1 DEF FailOne
  <2>2. ASSUME EndSweep(t) PROVE TypeOK'
    BY <2>2 DEF EndSweep, Afterwards
  <2>3. QED
    BY <1>2, <2>1, <2>2 DEF FailAllPending
<1>3. ASSUME LoopConnects \/ LoopConnectFails \/ LoopConnectCancelled PROVE TypeOK'
  BY <1>3 DEF LoopConnects, LoopConnectFails, LoopConnectCancelled
<1>3a. ASSUME LoopPublish PROVE TypeOK'
  BY <1>3a DEF LoopPublish
<1>4. ASSUME ReadEnds \/ ReadThrows \/ LoopDelay PROVE TypeOK'
  BY <1>4 DEF ReadEnds, ReadThrows, LoopDelay
<1>4a. ASSUME LoopAfter PROVE TypeOK'
  BY <1>4a DEF LoopAfter
<1>5. ASSUME NEW r \in Request, ReadAnswer(r) \/ Send(r) \/ Register(r) PROVE TypeOK'
  BY <1>5 DEF ReadAnswer, Send, Register
<1>6. ASSUME NEW r \in Request, WriteBegins(r) \/ WriteThrows(r) \/ WriteEnds(r) PROVE TypeOK'
  BY <1>6 DEF WriteBegins, WriteThrows, WriteEnds, Throws
<1>7. ASSUME NEW r \in Request, Timeout(r) \/ Resume(r) \/ BackendAnswers(r) PROVE TypeOK'
  BY <1>7 DEF Timeout, Resume, Throws, BackendAnswers
<1>8. ASSUME CallDisconnect PROVE TypeOK'
  BY <1>8 DEF CallDisconnect
<1>8a. ASSUME DisconnectLast PROVE TypeOK'
  BY <1>8a DEF DisconnectLast
<1>8b. ASSUME CallDispose PROVE TypeOK'
  BY <1>8b DEF CallDispose
<1>8c. ASSUME BackendDrops PROVE TypeOK'
  BY <1>8c DEF BackendDrops
<1>9. ASSUME UNCHANGED vars PROVE TypeOK'
  BY <1>9 DEF vars
<1>10. QED
  BY <1>1, <1>2, <1>3, <1>3a, <1>4, <1>4a, <1>5, <1>6, <1>7, <1>8, <1>8a, <1>8b, <1>8c, <1>9
  DEF Next, LoopStep, CommandStep, OwnerStep, ClosePipe, vars

\* Every variable keeps the type of the field or local it stands for.
THEOREM TypeCorrect == Spec => []TypeOK
BY TypeInit, TypeStep, PTL DEF Spec
-----------------------------------------------------------------------------
(* The invariant is inductive, one lemma for each of its parts.            *)

\* The invariant holds at the start.
LEMMA InitInv == Init => IInv
<1> SUFFICES ASSUME Init PROVE IInv
  OBVIOUS
<1>1. at["loop"] = "connect" /\ at["owner"] = "idle"
  BY DEF Init, Thread
<1>2. QED
  BY <1>1, TypeInit DEF Init, IInv, CommandOK, LoopOK, SweepOK

\* What becomes of one command depends on its own place, result and line only.
LEMMA CommandsKept ==
  ASSUME TypeOK, \A r \in Request : CommandOK(r), [Next]_vars
  PROVE  (\A r \in Request : CommandOK(r))'
<1> USE DEF TypeOK, CommandOK, state, commands, conn, CallPlace
<1>1. ASSUME NEW t \in Thread, Close(t) PROVE (\A r \in Request : CommandOK(r))'
  BY <1>1 DEF Close
<1>2. ASSUME NEW t \in Thread, Clear(t) \/ EndSweep(t) PROVE (\A r \in Request : CommandOK(r))'
  BY <1>2 DEF Clear, EndSweep
<1>3. ASSUME NEW t \in Thread, NEW r \in Request, FailOne(t, r)
      PROVE  (\A q \in Request : CommandOK(q))'
  BY <1>3 DEF FailOne, Complete
<1>4. ASSUME LoopConnects \/ LoopConnectFails \/ LoopConnectCancelled \/ LoopPublish
      PROVE  (\A r \in Request : CommandOK(r))'
  BY <1>4 DEF LoopConnects, LoopConnectFails, LoopConnectCancelled, LoopPublish
<1>5. ASSUME ReadEnds \/ ReadThrows \/ LoopAfter \/ LoopDelay
      PROVE  (\A r \in Request : CommandOK(r))'
  BY <1>5 DEF ReadEnds, ReadThrows, LoopAfter, LoopDelay
<1>6. ASSUME CallDisconnect \/ CallDispose \/ DisconnectLast \/ BackendDrops \/ UNCHANGED vars
      PROVE  (\A r \in Request : CommandOK(r))'
  BY <1>6 DEF CallDisconnect, CallDispose, DisconnectLast, BackendDrops, vars
<1>7. ASSUME NEW r \in Request, ReadAnswer(r) PROVE (\A q \in Request : CommandOK(q))'
  BY <1>7 DEF ReadAnswer, Complete
<1>8. ASSUME NEW r \in Request, Send(r) PROVE (\A q \in Request : CommandOK(q))'
  BY <1>8 DEF Send, Reach, Complete
<1>9. ASSUME NEW r \in Request, Register(r) PROVE (\A q \in Request : CommandOK(q))'
  BY <1>9 DEF Register, Reach
<1>10. ASSUME NEW r \in Request, WriteBegins(r) PROVE (\A q \in Request : CommandOK(q))'
  BY <1>10 DEF WriteBegins, Reach
<1>11. ASSUME NEW r \in Request, WriteThrows(r) \/ Timeout(r)
       PROVE  (\A q \in Request : CommandOK(q))'
  BY <1>11 DEF WriteThrows, Timeout, Throws, Reach, Complete
<1>12. ASSUME NEW r \in Request, WriteEnds(r) PROVE (\A q \in Request : CommandOK(q))'
  BY <1>12 DEF WriteEnds, Throws, Reach, Complete
<1>13. ASSUME NEW r \in Request, Resume(r) PROVE (\A q \in Request : CommandOK(q))'
  BY <1>13 DEF Resume, Reach, completed
<1>14. ASSUME NEW r \in Request, BackendAnswers(r) PROVE (\A q \in Request : CommandOK(q))'
  BY <1>14 DEF BackendAnswers
<1>15. QED
  BY <1>1, <1>2, <1>3, <1>4, <1>5, <1>6, <1>7, <1>8, <1>9, <1>10, <1>11, <1>12, <1>13, <1>14
  DEF Next, LoopStep, CommandStep, OwnerStep, ClosePipe, FailAllPending, Thread

\* Until there is a cancellation the owner has not begun, so that the loop finds
\* the fields and the connection as it left them.
LEMMA LoopKept ==
  ASSUME TypeOK, LoopOK, [Next]_vars
  PROVE  LoopOK'
<1> USE DEF TypeOK, LoopOK, state, commands, conn, Thread, Go
<1>1. ASSUME NEW t \in Thread, Close(t) PROVE LoopOK'
  BY <1>1 DEF Close
<1>2. ASSUME NEW t \in Thread, Clear(t) PROVE LoopOK'
  <2>1. at["loop"] = "clear" \/ cancelled
    BY <1>2 DEF Clear
  <2>2. ~field' /\ at'["loop"] \in {at["loop"], "fail"} /\ at'["owner"] \in {at["owner"], "fail"}
    BY <1>2 DEF Clear
  <2>3. UNCHANGED <<cancelled, connected, link, line>>
    BY <1>2 DEF Clear
  <2>4. ~cancelled => at'["loop"] = "fail" /\ at'["owner"] = "idle"
    BY <1>2 DEF Clear
  <2>5. at'["loop"] \in {"connect", "publish"} => at'["loop"] = at["loop"]
    BY <2>2
  <2>6. QED
    BY <2>1, <2>2, <2>3, <2>4, <2>5
<1>3. ASSUME NEW t \in Thread, EndSweep(t) PROVE LoopOK'
  BY <1>3 DEF EndSweep, Afterwards
<1>4. ASSUME NEW t \in Thread, NEW r \in Request, FailOne(t, r) PROVE LoopOK'
  BY <1>4 DEF FailOne
<1>5. ASSUME LoopConnects PROVE LoopOK'
  BY <1>5 DEF LoopConnects
<1>6. ASSUME LoopConnectFails \/ LoopConnectCancelled PROVE LoopOK'
  BY <1>6 DEF LoopConnectFails, LoopConnectCancelled
<1>7. ASSUME LoopPublish PROVE LoopOK'
  BY <1>7 DEF LoopPublish
<1>8. ASSUME ReadEnds \/ ReadThrows PROVE LoopOK'
  BY <1>8 DEF ReadEnds, ReadThrows
<1>9. ASSUME LoopAfter PROVE LoopOK'
  BY <1>9 DEF LoopAfter
<1>10. ASSUME LoopDelay PROVE LoopOK'
  BY <1>10 DEF LoopDelay
<1>11. ASSUME CallDisconnect \/ CallDispose PROVE LoopOK'
  BY <1>11 DEF CallDisconnect, CallDispose
<1>12. ASSUME DisconnectLast PROVE LoopOK'
  BY <1>12 DEF DisconnectLast
<1>13. ASSUME NEW r \in Request, ReadAnswer(r) \/ BackendAnswers(r) \/ WriteBegins(r)
       PROVE  LoopOK'
  BY <1>13 DEF ReadAnswer, BackendAnswers, WriteBegins, Writable
<1>14. ASSUME NEW r \in Request,
              Send(r) \/ Register(r) \/ WriteThrows(r) \/ WriteEnds(r) \/ Timeout(r) \/ Resume(r)
       PROVE  LoopOK'
  BY <1>14 DEF Send, Register, WriteThrows, WriteEnds, Timeout, Resume
<1>15. ASSUME BackendDrops \/ UNCHANGED vars PROVE LoopOK'
  BY <1>15 DEF BackendDrops, vars
<1>16. QED
  BY <1>1, <1>2, <1>3, <1>4, <1>5, <1>6, <1>7, <1>8, <1>9, <1>10, <1>11, <1>12, <1>13, <1>14, <1>15
  DEF Next, LoopStep, CommandStep, OwnerStep, ClosePipe, FailAllPending

\* A sweep of the pending table still has every command of the old connection before it.
LEMMA SweepKept ==
  ASSUME IInv, [Next]_vars
  PROVE  SweepOK'
<1> USE DEF IInv, TypeOK, LoopOK, SweepOK, CommandOK, state, commands, conn, Thread, Go
<1>1. ASSUME NEW t \in Thread, Close(t) PROVE SweepOK'
  BY <1>1 DEF Close
<1>2. ASSUME NEW t \in Thread, Clear(t) PROVE SweepOK'
  BY <1>2 DEF Clear
<1>3. ASSUME NEW t \in Thread, EndSweep(t) PROVE SweepOK'
  BY <1>3 DEF EndSweep, Afterwards
<1>4. ASSUME NEW t \in Thread, NEW r \in Request, FailOne(t, r) PROVE SweepOK'
  BY <1>4 DEF FailOne
<1>5. ASSUME LoopConnects \/ LoopConnectFails \/ LoopConnectCancelled PROVE SweepOK'
  BY <1>5 DEF LoopConnects, LoopConnectFails, LoopConnectCancelled
<1>6. ASSUME LoopPublish PROVE SweepOK'
  BY <1>6 DEF LoopPublish
<1>7. ASSUME ReadEnds \/ ReadThrows PROVE SweepOK'
  BY <1>7 DEF ReadEnds, ReadThrows
<1>8. ASSUME LoopAfter PROVE SweepOK'
  BY <1>8 DEF LoopAfter
<1>9. ASSUME LoopDelay PROVE SweepOK'
  BY <1>9 DEF LoopDelay
<1>10. ASSUME CallDisconnect \/ CallDispose \/ DisconnectLast PROVE SweepOK'
  BY <1>10 DEF CallDisconnect, CallDispose, DisconnectLast
<1>11. ASSUME NEW r \in Request, ReadAnswer(r) \/ BackendAnswers(r) PROVE SweepOK'
  BY <1>11 DEF ReadAnswer, BackendAnswers
<1>12. ASSUME NEW r \in Request, Send(r) \/ Register(r) PROVE SweepOK'
  BY <1>12 DEF Send, Register, Reach
<1>13. ASSUME NEW r \in Request, WriteBegins(r) PROVE SweepOK'
  BY <1>13 DEF WriteBegins, Writable, Reach
<1>14. ASSUME NEW r \in Request, WriteThrows(r) \/ Timeout(r) \/ Resume(r) PROVE SweepOK'
  BY <1>14 DEF WriteThrows, Timeout, Resume, Throws, Reach
<1>15. ASSUME NEW r \in Request, WriteEnds(r) PROVE SweepOK'
  BY <1>15 DEF WriteEnds, Throws, Reach
<1>16. ASSUME BackendDrops \/ UNCHANGED vars PROVE SweepOK'
  BY <1>16 DEF BackendDrops, vars
<1>17. QED
  BY <1>1, <1>2, <1>3, <1>4, <1>5, <1>6, <1>7, <1>8, <1>9, <1>10, <1>11, <1>12, <1>13, <1>14, <1>15,
     <1>16
  DEF Next, LoopStep, CommandStep, OwnerStep, ClosePipe, FailAllPending

\* The inductive invariant of the client: where a command is says whether it is in
\* _pending, and what the last sweep has met (PipeClient.cs, SendCommandAsync and
\* FailAllPending).
THEOREM Invariance == Spec => []IInv
<1>1. IInv /\ [Next]_vars => IInv'
  BY TypeStep, CommandsKept, LoopKept, SweepKept DEF IInv
<1>2. QED
  BY InitInv, <1>1, PTL DEF Spec

\* SendCommandAsync leaves no key in _pending behind it (NoOrphanPending).
THEOREM NothingOrphaned == Spec => []NoOrphanPending
<1>1. IInv => NoOrphanPending
  BY DEF IInv, CommandOK, NoOrphanPending
<1>2. QED
  BY <1>1, Invariance, PTL

\* No command waits through a reconnection for an answer that the connection
\* before it took with it (NoStrandedCommand).
THEOREM NothingStranded == Spec => []NoStrandedCommand
<1>1. IInv => NoStrandedCommand
  BY DEF IInv, TypeOK, CommandOK, LoopOK, SweepOK, NoStrandedCommand, completed
<1>2. QED
  BY <1>1, Invariance, PTL
-----------------------------------------------------------------------------
(* The client implements RequestReply.                                     *)

\* A step that changes neither the commands nor the connection is a stutter.
LEMMA Stutters ==
  ASSUME UNCHANGED <<commands, conn>>
  PROVE  UNCHANGED Promise!vars
BY DEF commands, conn, Promise!vars, status, returned, reply, up

\* What a command's status says of its place and result.
LEMMA StatusMeans ==
  ASSUME TypeOK, NEW r \in Request
  PROVE  /\ status[r] = "idle" <=> call[r] = "idle"
         /\ call[r] # "idle" =>
              /\ status[r] = "waiting" <=> result[r] = "none"
              /\ status[r] = "answered" <=> result[r] = "answer"
              /\ status[r] = "failed" <=> result[r] = "failure"
BY DEF TypeOK, status

\* The reply that has been read over a connection that holds is not lost: the
\* command is completed with it, or was before.
LEMMA FailureAllowed ==
  ASSUME TypeOK, NEW r \in Request, call[r] # "idle", result[r] \in {"none", "answer"},
         link = "up" => line[r] # "read"
  PROVE  Promise!MayFail(r)
BY StatusMeans DEF Promise!MayFail, reply, up

\* Every step of the client is a step of RequestReply, or changes nothing it speaks of.
LEMMA StepRefines ==
  ASSUME IInv, [Next]_vars
  PROVE  [Promise!Next]_Promise!vars
<1> USE DEF IInv, TypeOK, CommandOK
<1> DEFINE Kept == UNCHANGED Promise!vars
<1>1. ASSUME NEW t \in Thread, Close(t) PROVE Promise!Break \/ Kept
  <2>1. CASE UNCHANGED conn
    BY <1>1, <2>1, Stutters DEF Close
  <2>2. CASE link' = "closed" /\ line' = [r \in Request |-> "none"]
    BY <1>1, <2>2 DEF Close, commands, Promise!Break, Promise!NoReply, status, returned, reply, up
  <2>3. QED
    BY <1>1, <2>1, <2>2 DEF Close
<1>2. ASSUME NEW t \in Thread, Clear(t) \/ EndSweep(t) PROVE Kept
  BY <1>2, Stutters DEF Clear, EndSweep
<1>3. ASSUME NEW t \in Thread, NEW r \in Request, FailOne(t, r) PROVE Promise!Fail(r)
  <2>1. call[r] \notin {"idle", "done"} /\ result[r] = "none" /\ line[r] # "read"
    BY <1>3 DEF FailOne
  <2>2. Promise!MayFail(r)
    BY <2>1, FailureAllowed
  <2>3. status' = [status EXCEPT ![r] = "failed"]
    BY <1>3, <2>1 DEF FailOne, Complete, status
  <2>4. QED
    BY <1>3, <2>1, <2>2, <2>3 DEF FailOne, conn, Promise!Fail, returned, reply, up
<1>4. ASSUME LoopConnects PROVE Promise!Open
  <2>1. link = "closed" /\ (\A r \in Request : line[r] = "none")
    BY <1>4 DEF LoopConnects, LoopOK
  <2>2. QED
    BY <1>4, <2>1
    DEF LoopConnects, commands, Promise!Open, Promise!NoReply, status, returned, reply, up
<1>5. ASSUME \/ LoopConnectFails \/ LoopConnectCancelled \/ LoopPublish \/ ReadEnds
             \/ ReadThrows \/ LoopAfter \/ LoopDelay
      PROVE  Kept
  BY <1>5, Stutters
  DEF LoopConnectFails, LoopConnectCancelled, LoopPublish, ReadEnds, ReadThrows, LoopAfter,
      LoopDelay, commands, conn
<1>6. ASSUME CallDisconnect \/ CallDispose \/ DisconnectLast PROVE Kept
  BY <1>6, Stutters DEF CallDisconnect, CallDispose, DisconnectLast
<1>7. ASSUME NEW r \in Request, ReadAnswer(r) PROVE Promise!Deliver(r)
  <2>1. call[r] \notin {"idle", "register"} /\ (r \notin pending => result[r] # "none")
    BY <1>7 DEF ReadAnswer, CallPlace
  <2>2. reply[r] = "sent" /\ reply' = [reply EXCEPT ![r] = "taken"]
    BY <1>7 DEF ReadAnswer, reply
  <2>3. status' = [status EXCEPT ![r] = IF @ = "waiting" THEN "answered" ELSE @]
    <3>1. CASE r \in pending
      <4>1. status[r] = "waiting" /\ result' = [result EXCEPT ![r] = "answer"] /\ call' = call
        BY <1>7, <2>1, <3>1, StatusMeans DEF ReadAnswer, Complete
      <4>2. status' = [status EXCEPT ![r] = "answered"]
        BY <2>1, <4>1 DEF status
      <4>3. QED
        BY <4>1, <4>2
    <3>2. CASE r \notin pending
      <4>1. status[r] # "waiting" /\ UNCHANGED commands
        BY <1>7, <2>1, <3>2, StatusMeans DEF ReadAnswer, commands
      <4>2. status' = status
        BY <4>1 DEF status, commands
      <4>3. status = [q \in Request |-> status[q]]
        BY DEF status
      <4>4. QED
        BY <4>1, <4>2, <4>3
    <3>3. QED
      BY <3>1, <3>2
  <2>4. QED
    BY <1>7, <2>2, <2>3 DEF ReadAnswer, Promise!Deliver, returned, up
<1>8. ASSUME NEW r \in Request, Send(r) PROVE Promise!Ask(r) \/ Promise!Return(r)
  <2>1. status[r] = "idle" /\ r \notin returned /\ result[r] = "none"
    BY <1>8 DEF Send, status, returned
  <2>2. CASE disposed
    <3>1. call' = [call EXCEPT ![r] = "done"] /\ result' = [result EXCEPT ![r] = "failure"]
      BY <1>8, <2>2 DEF Send, Reach, Complete
    <3>2. status' = [status EXCEPT ![r] = "failed"]
      BY <3>1 DEF status
    <3>3. returned' = returned \cup {r}
      BY <3>1 DEF returned
    <3>4. QED
      BY <1>8, <2>1, <3>2, <3>3 DEF Send, conn, Promise!Return, reply, up
  <2>3. CASE ~disposed
    <3>1. call' = [call EXCEPT ![r] = "register"] /\ result' = result
      BY <1>8, <2>3 DEF Send, Reach
    <3>2. status' = [status EXCEPT ![r] = "waiting"]
      BY <2>1, <3>1 DEF status
    <3>3. returned' = returned
      BY <2>1, <3>1 DEF returned
    <3>4. QED
      BY <1>8, <2>1, <3>2, <3>3 DEF Send, conn, Promise!Ask, reply, up
  <2>4. QED
    BY <2>2, <2>3
<1>9. ASSUME NEW r \in Request, Register(r) PROVE Kept
  BY <1>9 DEF Register, Reach, conn, Promise!vars, status, returned, reply, up
<1>10. ASSUME NEW r \in Request, WriteBegins(r) PROVE Kept
  BY <1>10 DEF WriteBegins, Reach, Promise!vars, status, returned, reply, up
<1>11. ASSUME NEW r \in Request, Throws(r), UNCHANGED conn, call[r] \in {"write", "writing", "wait"},
              result[r] = "failure" \/ Promise!MayFail(r)
       PROVE  Promise!Return(r)
  <2>1. r \notin returned /\ returned' = returned \cup {r}
    BY <1>11 DEF Throws, Reach, returned
  <2>2. status' = [status EXCEPT ![r] = "failed"]
    BY <1>11 DEF Throws, Reach, Complete, status
  <2>3. result[r] = "failure" => status[r] = "failed"
    BY <1>11, StatusMeans
  <2>4. status[r] = "failed" => status' = status
    BY <2>2 DEF status
  <2>5. QED
    BY <1>11, <2>1, <2>2, <2>3, <2>4 DEF conn, Promise!Return, reply, up
<1>12. ASSUME NEW r \in Request, WriteThrows(r) PROVE Promise!Return(r)
  <2>1. call[r] = "write" /\ line[r] = "none" /\ result[r] # "answer"
    BY <1>12 DEF WriteThrows
  <2>2. QED
    BY <1>11, <1>12, <2>1, FailureAllowed DEF WriteThrows
<1>13. ASSUME NEW r \in Request, WriteEnds(r) PROVE Promise!Return(r) \/ Kept
  <2>1. CASE Throws(r) /\ (line[r] = "none" \/ link # "up")
    BY <1>11, <1>13, <2>1, FailureAllowed DEF WriteEnds
  <2>2. CASE Reach(r, "wait") /\ UNCHANGED result
    BY <1>13, <2>2 DEF WriteEnds, Reach, conn, Promise!vars, status, returned, reply, up
  <2>3. QED
    BY <1>13, <2>1, <2>2 DEF WriteEnds
<1>14. ASSUME NEW r \in Request, Timeout(r) PROVE Promise!Return(r)
  <2>1. call[r] = "wait" /\ result[r] = "none" /\ line[r] # "read"
    BY <1>14 DEF Timeout, completed
  <2>2. QED
    BY <1>11, <1>14, <2>1, FailureAllowed DEF Timeout
<1>15. ASSUME NEW r \in Request, Resume(r) PROVE Promise!Return(r)
  <2>1. r \notin returned /\ returned' = returned \cup {r} /\ status' = status
    BY <1>15 DEF Resume, Reach, status, returned
  <2>2. status[r] \in {"answered", "failed"}
    BY <1>15, StatusMeans DEF Resume, completed
  <2>3. QED
    BY <1>15, <2>1, <2>2 DEF Resume, conn, Promise!Return, reply, up
<1>16. ASSUME NEW r \in Request, BackendAnswers(r) PROVE Promise!Reply(r)
  <2>1. reply[r] = "none" /\ reply' = [reply EXCEPT ![r] = "sent"] /\ status[r] # "idle"
    BY <1>16 DEF BackendAnswers, reply, status
  <2>2. QED
    BY <1>16, <2>1 DEF BackendAnswers, commands, Promise!Reply, status, returned, up
<1>17. ASSUME BackendDrops PROVE Promise!Break
  BY <1>17 DEF BackendDrops, commands, Promise!Break, status, returned, reply, up
<1>18. ASSUME UNCHANGED vars PROVE Kept
  BY <1>18, Stutters DEF vars
<1>19. QED
  BY <1>1, <1>2, <1>3, <1>4, <1>5, <1>6, <1>7, <1>8, <1>9, <1>10, <1>12, <1>13, <1>14, <1>15, <1>16,
     <1>17, <1>18
  DEF Next, LoopStep, CommandStep, OwnerStep, ClosePipe, FailAllPending, Thread, Promise!Next

\* PipeClient keeps the promise of RequestReply for every set of commands, under
\* any interleaving of answers, timeouts, failed writes, losses of the connection,
\* Disconnect() and Dispose() (KeepsPromise).
THEOREM Refinement == Spec => KeepsPromise
<1>1. Init => Promise!Init
  BY DEF Init, Promise!Init, Promise!NoReply, status, returned, reply, up
<1>2. IInv /\ [Next]_vars => [Promise!Next]_Promise!vars
  BY StepRefines
<1>3. QED
  BY <1>1, <1>2, Invariance, PTL DEF Spec, KeepsPromise, Promise!Spec
=============================================================================
