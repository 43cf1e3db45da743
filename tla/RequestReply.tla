----------------------------- MODULE RequestReply -----------------------------
(***************************************************************************)
(* What a pipe client promises to those who send commands, with nothing of *)
(* how it keeps track of them: a command is asked once and ends once, with *)
(* the backend's reply or with a failure, and a reply that reaches the     *)
(* client while the connection holds is what the command ends with.  A     *)
(* connection that breaks takes with it the replies that nobody has read.  *)
(***************************************************************************)
CONSTANT Request   \* the commands

VARIABLES
  status,    \* "idle", "waiting", or how it ends: "answered" or "failed"
  returned,  \* the commands whose callers have been told how it ended
  reply,     \* the reply to each: "none", "sent", or "taken" off the connection
  up         \* both ends of the connection are open

vars == <<status, returned, reply, up>>

NoReply == [r \in Request |-> "none"]

Init ==
  /\ status = [r \in Request |-> "idle"]
  /\ returned = {}
  /\ reply = NoReply
  /\ up = FALSE

\* A connection begins with nothing left over from the one before.
Open ==
  /\ ~up
  /\ reply = NoReply
  /\ up' = TRUE
  /\ UNCHANGED <<status, returned, reply>>

Break ==
  /\ up' = FALSE
  /\ reply' \in {reply, NoReply}
  /\ UNCHANGED <<status, returned>>

Ask(r) ==
  /\ status[r] = "idle"
  /\ status' = [status EXCEPT ![r] = "waiting"]
  /\ UNCHANGED <<returned, reply, up>>

\* The backend replies at most once, and only to what it was asked.
Reply(r) ==
  /\ up
  /\ status[r] # "idle"
  /\ reply[r] = "none"
  /\ reply' = [reply EXCEPT ![r] = "sent"]
  /\ UNCHANGED <<status, returned, up>>

\* A reply is for the one command it answers, if that still waits.
Deliver(r) ==
  /\ reply[r] = "sent"
  /\ reply' = [reply EXCEPT ![r] = "taken"]
  /\ status' = [status EXCEPT ![r] = IF @ = "waiting" THEN "answered" ELSE @]
  /\ UNCHANGED <<returned, up>>

\* A command may fail for many reasons, but not when its reply has come in over
\* a connection that holds.
MayFail(r) == status[r] \in {"waiting", "answered"} /\ ~(up /\ reply[r] = "taken")

Fail(r) ==
  /\ MayFail(r)
  /\ r \notin returned
  /\ status' = [status EXCEPT ![r] = "failed"]
  /\ UNCHANGED <<returned, reply, up>>

\* The caller is told; what it failed of may be found out only then.
Return(r) ==
  /\ r \notin returned
  /\ \/ status[r] \in {"answered", "failed"} /\ UNCHANGED status
     \/ (status[r] = "idle" \/ MayFail(r))
          /\ status' = [status EXCEPT ![r] = "failed"]
  /\ returned' = returned \cup {r}
  /\ UNCHANGED <<reply, up>>

Next ==
  \/ Open \/ Break
  \/ \E r \in Request :
       Ask(r) \/ Reply(r) \/ Deliver(r) \/ Fail(r) \/ Return(r)

Spec == Init /\ [][Next]_vars
=============================================================================
