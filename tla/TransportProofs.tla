---------------------------- MODULE TransportProofs ----------------------------
(***************************************************************************)
(* What the transport service promises about the connections, the lines it *)
(* reads and the answers that wait, for any number of clients, lines and   *)
(* callers of send_event.                                                  *)
(*                                                                         *)
(* The invariant has four parts. HandleInv says who may close the server,  *)
(* and when stop() misses a descriptor. ConnInv is about the connection    *)
(* thread and the clients: what the buffer and the wire hold between them  *)
(* is what the client has sent and the loop has not dispatched, however    *)
(* the reads cut it (StreamInv), and a connection that is up is the one    *)
(* the thread has accepted, or the one stop() missed (PeerInv, LinkInv).   *)
(* RestTypes types the other threads. On these rest the answers in the     *)
(* queue and SubscriptionInv. With them FlowInv is inductive: what a       *)
(* client has received, the batch and the queue hold, one after the other, *)
(* the answers to its lines, for as long as they can reach it.             *)
(***************************************************************************)
EXTENDS Transport, SequenceTheorems, TLAPS

-----------------------------------------------------------------------------
(* Pieces of lines.                                                        *)

\* The pieces of the lines after line k, in order.
Chain(s, k) ==
  /\ s # <<>> => s[1] = [line |-> k + 1, last |-> FALSE]
  /\ \A i \in 1..(Len(s) - 1) :
       s[i + 1] = IF s[i].last THEN [line |-> s[i].line + 1, last |-> FALSE]
                  ELSE [line |-> s[i].line, last |-> TRUE]

\* The first newline of a buffer is in its second piece, and ends line k + 1.
LEMMA FirstLine ==
  ASSUME NEW b \in Seq(Piece), NEW k \in Nat, Chain(b, k), HasLine(b)
  PROVE  /\ SelectInSeq(b, LAMBDA p : p.last) = 2 /\ 2 \in 1..Len(b)
         /\ b[2] = [line |-> k + 1, last |-> TRUE]
<1>1. PICK i \in 1..Len(b) : b[i].last
  BY DEF HasLine
<1>2. b # <<>> /\ Len(b) \in Nat /\ b[1] = [line |-> k + 1, last |-> FALSE]
  BY <1>1, LenProperties DEF Chain
<1>3. i # 1
  BY <1>1, <1>2
<1>4. 2 \in 1..Len(b) /\ b[2] = [line |-> k + 1, last |-> TRUE]
  <2>1. 1 \in 1..(Len(b) - 1) /\ 1 + 1 = 2 /\ 2 \in 1..Len(b)
    BY <1>1, <1>2, <1>3
  <2>2. b[1 + 1] = IF b[1].last THEN [line |-> b[1].line + 1, last |-> FALSE]
                   ELSE [line |-> b[1].line, last |-> TRUE]
    BY <2>1 DEF Chain
  <2>3. ~b[1].last /\ b[1].line = k + 1
    BY <1>2
  <2>4. QED
    BY <2>1, <2>2, <2>3
<1> DEFINE I == {j \in 1..Len(b) : b[j].last}
<1>5. 2 \in I /\ \A j \in I : 2 <= j
  BY <1>2, <1>4
<1>6. SelectInSeq(b, LAMBDA p : p.last) = IF I # {} THEN CHOOSE x \in I : \A y \in I : x <= y ELSE 0
  BY DEF SelectInSeq, Min
<1> HIDE DEF I
<1>7. \A x \in I : (\A y \in I : x <= y) => x = 2
  <2>1. I \subseteq Nat
    BY DEF I
  <2>2. QED
    BY <1>5, <2>1
<1>8. (CHOOSE x \in I : \A y \in I : x <= y) = 2
  BY <1>5, <1>7
<1>9. QED
  BY <1>4, <1>5, <1>6, <1>8

\* ... none beyond line n, which is the last that was begun.
Ordered(s, k, n) ==
  /\ Chain(s, k) /\ k <= n
  /\ \A i \in 1..Len(s) : s[i].line <= n

\* They go up to the last piece that was sent, which ends line n unless mid.
Ends(s, k, n, mid) ==
  IF s = <<>> THEN n = k /\ ~mid ELSE s[Len(s)] = [line |-> n, last |-> ~mid]

\* A sequence of pieces with one more.
LEMMA Extended ==
  ASSUME NEW s \in Seq(Piece), NEW p \in Piece
  PROVE  /\ Append(s, p) \in Seq(Piece) /\ Append(s, p) # <<>> /\ Len(s) \in Nat
         /\ Len(Append(s, p)) = Len(s) + 1 /\ Append(s, p)[Len(s) + 1] = p
         /\ \A i \in 1..Len(s) : Append(s, p)[i] = s[i]
BY AppendProperties, LenProperties

\* A line that begins adds its first piece.
LEMMA ChainBegin ==
  ASSUME NEW s \in Seq(Piece), NEW k \in Nat, NEW n \in Nat, Ordered(s, k, n), Ends(s, k, n, FALSE)
  PROVE  LET t == Append(s, [line |-> n + 1, last |-> FALSE])
         IN  Ordered(t, k, n + 1) /\ Ends(t, k, n + 1, TRUE)
<1> DEFINE p == [line |-> n + 1, last |-> FALSE]
           t == Append(s, p)
<1>1. p \in Piece /\ p.line = n + 1 /\ p.last = FALSE
  BY DEF Piece
<1> HIDE DEF p
<1>2. /\ t # <<>> /\ Len(t) = Len(s) + 1 /\ t[Len(s) + 1] = p /\ Len(s) \in Nat
      /\ \A i \in 1..Len(s) : t[i] = s[i]
  BY <1>1, Extended
<1> HIDE DEF t
<1>3. t[1] = [line |-> k + 1, last |-> FALSE]
  <2>1. CASE s = <<>>
    BY <1>2, <2>1 DEF Ends, p
  <2>2. CASE s # <<>>
    BY <1>2, <2>2, EmptySeq DEF Ordered, Chain
  <2>3. QED
    BY <2>1, <2>2
<1>4. ASSUME NEW i \in 1..(Len(t) - 1)
      PROVE  t[i + 1] = IF t[i].last THEN [line |-> t[i].line + 1, last |-> FALSE]
                        ELSE [line |-> t[i].line, last |-> TRUE]
  <2>1. CASE i = Len(s)
    <3>1. s # <<>> /\ t[i] = s[Len(s)]
      BY <1>2, <2>1, EmptySeq
    <3>2. t[i] = [line |-> n, last |-> TRUE]
      BY <3>1 DEF Ends
    <3>3. t[i + 1] = p /\ t[i].line = n /\ t[i].last
      BY <1>2, <2>1, <3>2
    <3>4. QED
      BY <3>3 DEF p
  <2>2. CASE i # Len(s)
    <3>1. i \in 1..(Len(s) - 1) /\ i + 1 \in 1..Len(s) /\ i \in 1..Len(s)
      BY <1>2, <2>2
    <3>2. QED
      BY <1>2, <3>1 DEF Ordered, Chain
  <2>3. QED
    BY <2>1, <2>2
<1>5. \A i \in 1..Len(t) : t[i].line <= n + 1
  <2> SUFFICES ASSUME NEW i \in 1..Len(t) PROVE t[i].line <= n + 1
    OBVIOUS
  <2>1. CASE i = Len(s) + 1
    BY <1>1, <1>2, <2>1
  <2>2. CASE i # Len(s) + 1
    <3>1. i \in 1..Len(s) /\ t[i] = s[i]
      BY <1>2, <2>2
    <3>2. s[i].line <= n /\ s[i] \in Piece
      BY <3>1, ElementOfSeq DEF Ordered
    <3>3. QED
      BY <3>1, <3>2 DEF Piece
  <2>3. QED
    BY <2>1, <2>2
<1>6. Ordered(t, k, n + 1)
  BY <1>3, <1>4, <1>5 DEF Ordered, Chain
<1>7. Ends(t, k, n + 1, TRUE)
  BY <1>2 DEF Ends, p
<1>8. QED
  BY <1>6, <1>7 DEF t, p

\* A line that ends adds its second piece.
LEMMA ChainFinish ==
  ASSUME NEW s \in Seq(Piece), NEW k \in Nat, NEW n \in Nat, n # 0, Ordered(s, k, n), Ends(s, k, n, TRUE)
  PROVE  LET t == Append(s, [line |-> n, last |-> TRUE])
         IN  Ordered(t, k, n) /\ Ends(t, k, n, FALSE)
<1> DEFINE p == [line |-> n, last |-> TRUE]
           t == Append(s, p)
<1>1. p \in Piece /\ p.line = n
  BY DEF Piece
<1> HIDE DEF p
<1>2. /\ t # <<>> /\ Len(t) = Len(s) + 1 /\ t[Len(s) + 1] = p /\ Len(s) \in Nat
      /\ \A i \in 1..Len(s) : t[i] = s[i]
  BY <1>1, Extended
<1> HIDE DEF t
<1>3. s # <<>> /\ s[Len(s)] = [line |-> n, last |-> FALSE] /\ 1 \in 1..Len(s) /\ Len(s) \in 1..Len(s)
  <2>1. s # <<>> /\ s[Len(s)] = [line |-> n, last |-> FALSE]
    BY DEF Ends
  <2>2. Len(s) # 0
    BY <2>1, EmptySeq
  <2>3. QED
    BY <1>2, <2>1, <2>2
<1>4. t[1] = [line |-> k + 1, last |-> FALSE]
  BY <1>2, <1>3 DEF Ordered, Chain
<1>5. ASSUME NEW i \in 1..(Len(t) - 1)
      PROVE  t[i + 1] = IF t[i].last THEN [line |-> t[i].line + 1, last |-> FALSE]
                        ELSE [line |-> t[i].line, last |-> TRUE]
  <2>1. CASE i = Len(s)
    <3>1. t[i + 1] = p /\ t[i] = s[Len(s)]
      BY <1>2, <1>3, <2>1
    <3>2. t[i].line = n /\ ~t[i].last
      BY <1>3, <3>1
    <3>3. QED
      BY <3>1, <3>2 DEF p
  <2>2. CASE i # Len(s)
    <3>1. i \in 1..(Len(s) - 1) /\ i + 1 \in 1..Len(s) /\ i \in 1..Len(s)
      BY <1>2, <2>2
    <3>2. QED
      BY <1>2, <3>1 DEF Ordered, Chain
  <2>3. QED
    BY <2>1, <2>2
<1>6. \A i \in 1..Len(t) : t[i].line <= n
  <2> SUFFICES ASSUME NEW i \in 1..Len(t) PROVE t[i].line <= n
    OBVIOUS
  <2>1. CASE i = Len(s) + 1
    BY <1>1, <1>2, <2>1
  <2>2. CASE i # Len(s) + 1
    <3>1. i \in 1..Len(s) /\ t[i] = s[i]
      BY <1>2, <2>2
    <3>2. QED
      BY <3>1 DEF Ordered
  <2>3. QED
    BY <2>1, <2>2
<1>7. Ordered(t, k, n)
  BY <1>4, <1>5, <1>6 DEF Ordered, Chain
<1>8. Ends(t, k, n, FALSE)
  BY <1>2 DEF Ends, p
<1>9. QED
  BY <1>7, <1>8 DEF t, p

\* Two sequences of pieces, one after the other.
LEMMA Joined ==
  ASSUME NEW a \in Seq(Piece), NEW b \in Seq(Piece)
  PROVE  /\ a \o b \in Seq(Piece) /\ Len(a) \in Nat /\ Len(b) \in Nat
         /\ Len(a \o b) = Len(a) + Len(b)
         /\ \A i \in 1..Len(a) : (a \o b)[i] = a[i]
         /\ \A i \in 1..Len(b) : (a \o b)[Len(a) + i] = b[i]
<1>1. Len(a) \in Nat /\ Len(b) \in Nat
  BY LenProperties
<1>2. QED
  BY <1>1, ConcatProperties

\* What the buffer holds is in order when buffer and wire together are.
LEMMA ChainPrefix ==
  ASSUME NEW a \in Seq(Piece), NEW b \in Seq(Piece), NEW k \in Nat, NEW n \in Nat, Ordered(a \o b, k, n)
  PROVE  Ordered(a, k, n)
<1> DEFINE s == a \o b
<1>1. /\ Len(a) \in Nat /\ Len(b) \in Nat /\ Len(s) = Len(a) + Len(b)
      /\ \A i \in 1..Len(a) : s[i] = a[i]
  BY Joined
<1>2. Ordered(s, k, n)
  OBVIOUS
<1> HIDE DEF s
<1>3. a # <<>> => 1 \in 1..Len(a) /\ s # <<>>
  <2>1. a # <<>> => Len(a) # 0
    BY EmptySeq
  <2>2. Len(s) # 0 => s # <<>>
    BY EmptySeq
  <2>3. QED
    BY <1>1, <2>1, <2>2
<1>4. a # <<>> => a[1] = [line |-> k + 1, last |-> FALSE]
  BY <1>1, <1>2, <1>3 DEF Ordered, Chain
<1>5. ASSUME NEW i \in 1..(Len(a) - 1)
      PROVE  a[i + 1] = IF a[i].last THEN [line |-> a[i].line + 1, last |-> FALSE]
                        ELSE [line |-> a[i].line, last |-> TRUE]
  <2>1. i \in 1..(Len(s) - 1) /\ i + 1 \in 1..Len(a) /\ i \in 1..Len(a)
    BY <1>1
  <2>2. QED
    BY <1>1, <1>2, <2>1 DEF Ordered, Chain
<1>6. \A i \in 1..Len(a) : a[i].line <= n
  BY <1>1, <1>2 DEF Ordered
<1>7. QED
  BY <1>2, <1>4, <1>5, <1>6 DEF Ordered, Chain

\* What is left when the first line has been taken off the buffer.
LEMMA ChainTake ==
  ASSUME NEW b \in Seq(Piece), NEW w \in Seq(Piece), NEW k \in Nat, NEW n \in Nat,
         Ordered(b \o w, k, n), HasLine(b)
  PROVE  LET e == SelectInSeq(b, LAMBDA p : p.last)
             t == SubSeq(b, e + 1, Len(b)) \o w
         IN  /\ e \in 1..Len(b) /\ b[e].line = k + 1 /\ k + 1 <= n
             /\ SubSeq(b, e + 1, Len(b)) \in Seq(Piece)
             /\ Ordered(t, k + 1, n)
             /\ \A mid \in BOOLEAN : Ends(b \o w, k, n, mid) => Ends(t, k + 1, n, mid)
<1> DEFINE s == b \o w
           r == SubSeq(b, 3, Len(b))
           t == r \o w
<1>1. Ordered(b, k, n)
  BY ChainPrefix
<1>2. /\ SelectInSeq(b, LAMBDA p : p.last) = 2 /\ 2 \in 1..Len(b)
      /\ b[2] = [line |-> k + 1, last |-> TRUE]
  BY <1>1, FirstLine DEF Ordered
<1>3. /\ Len(b) \in Nat /\ Len(w) \in Nat /\ Len(s) = Len(b) + Len(w)
      /\ \A i \in 1..Len(b) : s[i] = b[i]
      /\ \A i \in 1..Len(w) : s[Len(b) + i] = w[i]
  BY Joined
<1>4. /\ r \in Seq(Piece) /\ Len(r) = Len(b) - 2
      /\ \A i \in 1..(Len(b) - 2) : r[i] = b[i + 2]
  <2>1. \A i \in 3..Len(b) : b[i] \in Piece
    BY <1>3, ElementOfSeq
  <2>2. /\ r \in Seq(Piece) /\ Len(r) = IF 3 <= Len(b) THEN Len(b) - 3 + 1 ELSE 0
        /\ \A i \in 1..(Len(b) - 3 + 1) : r[i] = b[3 + i - 1]
    BY <1>3, <2>1, SubSeqProperties
  <2> HIDE DEF r
  <2>3. \A i \in 1..(Len(b) - 2) : i \in 1..(Len(b) - 3 + 1) /\ 3 + i - 1 = i + 2
    BY <1>3
  <2>4. Len(r) = Len(b) - 2
    <3>1. Len(b) \in Nat /\ 2 <= Len(b)
      BY <1>2, <1>3
    <3>2. \A x \in Nat : 2 <= x => (IF 3 <= x THEN x - 3 + 1 ELSE 0) = x - 2
      OBVIOUS
    <3>3. QED
      BY <2>2, <3>1, <3>2
  <2>5. QED
    BY <2>2, <2>3, <2>4
<1>5. Ordered(s, k, n)
  OBVIOUS
<1> HIDE DEF r
<1>6. /\ Len(t) = Len(r) + Len(w)
      /\ \A i \in 1..Len(r) : t[i] = r[i]
      /\ \A i \in 1..Len(w) : t[Len(r) + i] = w[i]
      /\ t \in Seq(Piece)
  BY <1>4, Joined
<1>7. s \in Seq(Piece)
  BY Joined
<1> HIDE DEF s, t
<1>8. Len(s) \in Nat /\ Len(t) = Len(s) - 2 /\ 2 <= Len(s)
  BY <1>2, <1>3, <1>4, <1>6
<1>9. ASSUME NEW i \in 1..Len(t)
      PROVE  t[i] = s[i + 2] /\ i + 2 \in 1..Len(s)
  <2>1. i + 2 \in 1..Len(s)
    BY <1>8
  <2>2. CASE i \in 1..Len(r)
    BY <1>3, <1>4, <1>6, <2>2
  <2>3. CASE i \notin 1..Len(r)
    <3>1. i - Len(r) \in 1..Len(w) /\ Len(r) + (i - Len(r)) = i /\ Len(b) + (i - Len(r)) = i + 2
      BY <1>3, <1>4, <1>6, <2>3
    <3>2. t[Len(r) + (i - Len(r))] = s[Len(b) + (i - Len(r))]
      BY <1>3, <1>6, <3>1
    <3>3. QED
      BY <2>1, <3>1, <3>2
  <2>4. QED
    BY <2>1, <2>2, <2>3
<1>10. 2 \in 1..Len(s) /\ s[2] = [line |-> k + 1, last |-> TRUE]
  BY <1>2, <1>3
<1>11. k + 1 <= n
  <2>1. s[2].line <= n /\ s[2].line = k + 1
    BY <1>5, <1>10 DEF Ordered
  <2>2. QED
    BY <2>1
<1>12. t # <<>> => t[1] = [line |-> (k + 1) + 1, last |-> FALSE]
  <2>1. SUFFICES ASSUME t # <<>> PROVE t[1] = [line |-> (k + 1) + 1, last |-> FALSE]
    OBVIOUS
  <2>2. Len(t) # 0
    BY <1>6, <2>1, EmptySeq
  <2>3. 1 \in 1..Len(t) /\ 2 \in 1..(Len(s) - 1) /\ 1 + 2 = 3 /\ 2 + 1 = 3
    BY <1>8, <2>2
  <2>4. t[1] = s[3]
    BY <1>9, <2>3
  <2>5. s[3] = IF s[2].last THEN [line |-> s[2].line + 1, last |-> FALSE]
               ELSE [line |-> s[2].line, last |-> TRUE]
    BY <1>5, <2>3 DEF Ordered, Chain
  <2>6. s[2].last /\ s[2].line = k + 1
    BY <1>10
  <2>7. QED
    BY <2>4, <2>5, <2>6
<1>13. ASSUME NEW i \in 1..(Len(t) - 1)
       PROVE  t[i + 1] = IF t[i].last THEN [line |-> t[i].line + 1, last |-> FALSE]
                         ELSE [line |-> t[i].line, last |-> TRUE]
  <2>1. i \in 1..Len(t) /\ i + 1 \in 1..Len(t) /\ i + 2 \in 1..(Len(s) - 1) /\ (i + 1) + 2 = (i + 2) + 1
    BY <1>8
  <2>2. t[i] = s[i + 2] /\ t[i + 1] = s[(i + 2) + 1]
    BY <1>9, <2>1
  <2>3. QED
    BY <1>5, <2>1, <2>2 DEF Ordered, Chain
<1>14. \A i \in 1..Len(t) : t[i].line <= n
  BY <1>5, <1>9 DEF Ordered
<1>15. Ordered(t, k + 1, n)
  BY <1>11, <1>12, <1>13, <1>14 DEF Ordered, Chain
<1>16. ASSUME NEW mid \in BOOLEAN, Ends(s, k, n, mid)
       PROVE  Ends(t, k + 1, n, mid)
  <2>1. s # <<>> /\ s[Len(s)] = [line |-> n, last |-> ~mid]
    BY <1>8, <1>16, EmptySeq DEF Ends
  <2>2. CASE t = <<>>
    <3>1. Len(s) = 2
      BY <1>8, <2>2, EmptySeq
    <3>2. [line |-> n, last |-> ~mid] = [line |-> k + 1, last |-> TRUE]
      BY <1>10, <2>1, <3>1
    <3>3. n = k + 1 /\ ~mid
      BY <3>2
    <3>4. QED
      BY <2>2, <3>3 DEF Ends
  <2>3. CASE t # <<>>
    <3>1. Len(t) # 0
      BY <1>6, <2>3, EmptySeq
    <3>2. Len(t) \in 1..Len(t) /\ Len(t) + 2 = Len(s)
      BY <1>8, <3>1
    <3>3. t[Len(t)] = s[Len(s)]
      BY <1>9, <3>2
    <3>4. QED
      BY <2>1, <2>3, <3>3 DEF Ends
  <2>4. QED
    BY <2>2, <2>3
<1>17. QED
  BY <1>2, <1>4, <1>11, <1>15, <1>16 DEF r, s, t
-----------------------------------------------------------------------------
(* The connection and the pieces of a client's lines.                      *)

Idle == {"top", "listen", "accept", "done"}

\* The part of TypeOK about the variables that the connection and the clients
\* change, but the flags.
ConnTypes ==
  /\ handle \in BOOLEAN /\ listening \in BOOLEAN
  /\ accepted \in Client \cup {None} /\ missed \in Client \cup {None}
  /\ buffer \in Seq(Piece)
  /\ conn \in [pc: {"top", "listen", "accept", "store", "accepted", "close", "verify", "setup",
                    "loop", "read", "reply", "leave", "unsubscribe", "drain",
                    "done"},
               peer: Client \cup {None},
               line: Nat]
  /\ link \in [Client -> {"off", "waiting", "up", "closed"}]
  /\ alive \in [Client -> BOOLEAN]
  /\ sent \in [Client -> Seq(Kind)]
  /\ midline \in [Client -> BOOLEAN]
  /\ wire \in [Client -> Seq(Piece)]

\* Who may close the server.  The handle is there from listen() to close_server,
\* and gone before that only after stop(), which sees the thread at no second
\* listen(); what stop() missed is the last connection of the thread, and is not
\* served.
HandleInv ==
  /\ stopper # "up" => ~running
  /\ handle => conn.pc \notin {"top", "listen", "done"}
  /\ ~handle /\ conn.pc \notin {"top", "listen", "done"} => ~running
  /\ stopper \in {"close_listen", "close_handle"} => conn.pc # "listen"
  /\ StopWasHere /\ accepted # None => accepted = missed
  /\ missed # None => ~running /\ conn.pc \in {"accepted", "close", "top", "done"}

\* The thread has a client exactly from the accept() to the close() of the
\* connection, and the server holds a descriptor for no other that stop() did not
\* miss.
PeerInv ==
  /\ conn.pc \in Idle => conn.peer = None
  /\ conn.pc \notin Idle \cup {"close"} => conn.peer \in Client
  /\ conn.pc \in Idle \cup {"store", "accepted", "verify"} => conn.line = 0
  /\ conn.pc = "reply" => conn.line # 0
  /\ accepted # None => accepted = missed \/ (conn.peer = accepted /\ conn.pc # "store")

LinkInv ==
  /\ conn.pc = "store" => link[conn.peer] = "up"
  /\ \A c \in Client :
       /\ conn.peer = c => link[c] \in {"up", "closed"}
       /\ link[c] = "up" =>
            c = missed \/ c = accepted \/ (conn.pc = "store" /\ conn.peer = c)
       /\ link[c] \in {"off", "closed"} => wire[c] = <<>>
       /\ link[c] = "off" => sent[c] = <<>> /\ ~midline[c]
       /\ midline[c] => sent[c] # <<>>

\* The pieces of client c that are not dispatched, and the line before them.
Unread(c) == IF Serving(c) THEN buffer \o wire[c] ELSE wire[c]
LineOf(c) == IF Serving(c) THEN conn.line ELSE 0

\* Whatever the buffer and the wire hold between them, it is the rest of what the
\* client has sent: no line is lost, read twice or torn, until the close.
StreamOf(c) ==
  \/ conn.pc = "close" /\ conn.peer = c /\ c # missed
  \/ /\ Ordered(Unread(c), LineOf(c), Len(sent[c]))
     /\ link[c] \in {"waiting", "up"} =>
          Ends(Unread(c), LineOf(c), Len(sent[c]), midline[c])
StreamInv == \A c \in Client : StreamOf(c)

ConnInv == ConnTypes /\ PeerInv /\ LinkInv /\ StreamInv

\* What ConnInv is about.
core == <<server, buffer, conn, link, alive, sent, midline, wire>>

Served == {"setup", "loop", "read", "reply", "leave", "unsubscribe", "drain"}

\* A step that leaves a client's bytes alone keeps its stream.
LEMMA StreamKept ==
  ASSUME NEW c \in Client, StreamOf(c), ~(conn.pc = "close" /\ conn.peer = c /\ c # missed),
         Unread(c)' = Unread(c), LineOf(c)' = LineOf(c), sent'[c] = sent[c],
         midline'[c] = midline[c], link'[c] = link[c]
  PROVE  StreamOf(c)'
BY DEF StreamOf

\* So does one that leaves the connection thread and the clients alone.
LEMMA CoreUntouched == ConnInv /\ UNCHANGED core => ConnInv'
BY DEF ConnInv, core, server, ConnTypes, PeerInv, LinkInv, StreamInv, StreamOf, Unread, LineOf, Serving

\* A step of the connection thread that changes nothing else of core but
\* whether it listens.
Moves(from, to) ==
  /\ conn.pc = from /\ ConnGoto(to)
  /\ UNCHANGED <<accepted, missed, buffer, link, alive, sent, midline, wire>>
  /\ handle' \in BOOLEAN /\ listening' \in BOOLEAN

\* A move of the connection thread that neither opens nor closes a connection.
LEMMA MovesKeep ==
  ASSUME HandleInv, ConnInv, NEW from, NEW to, Moves(from, to),
         to \in Idle \cup {"close", "verify"} \cup (Served \ {"reply"}),
         from \in Idle <=> (to \in Idle \/ (to = "close" /\ from = "accept")),
         from \notin {"close", "store"},
         to = "verify" => from = "accepted",
         to # "close" => (from \in Served <=> to \in Served)
  PROVE  ConnInv'
<1> USE DEF Moves, ConnGoto
<1>1. ConnTypes'
  <2>1. /\ conn' \in [pc: {"top", "listen", "accept", "store", "accepted", "close", "verify",
                           "setup", "loop", "read", "reply", "leave", "unsubscribe",
                           "drain", "done"},
                      peer: Client \cup {None}, line: Nat]
    BY DEF ConnInv, ConnTypes, Idle, Served
  <2>2. QED
    BY <2>1 DEF ConnInv, ConnTypes
<1>2. conn'.pc = to /\ conn'.peer = conn.peer /\ conn'.line = conn.line
  BY DEF ConnInv, ConnTypes
<1>3. PeerInv'
  <2>1. PeerInv /\ conn.pc = from /\ UNCHANGED <<accepted, missed>>
    BY DEF ConnInv
  <2>2. to \in Idle => from \in Idle
    BY DEF Idle
  <2>3. to \notin Idle \cup {"close"} => from \notin Idle \cup {"close"}
    BY DEF Idle
  <2>4. to \in Idle \cup {"store", "accepted", "verify"}
        => from \in Idle \cup {"store", "accepted", "verify"}
    BY DEF Idle, Served
  <2>5. to # "reply" /\ to # "store"
    BY DEF Idle, Served
  <2>6. QED
    BY ONLY <1>2, <2>1, <2>2, <2>3, <2>4, <2>5 DEF PeerInv
<1>4. LinkInv'
  BY <1>2 DEF ConnInv, LinkInv, Idle, Served
<1>5. ASSUME NEW c \in Client PROVE StreamOf(c)'
  <2>1. CASE to = "close" /\ conn.peer = c /\ c # missed
    BY <1>2, <2>1 DEF StreamOf
  <2>2. CASE ~(to = "close" /\ conn.peer = c /\ c # missed)
    <3>1. Serving(c)' = Serving(c)
      <4>1. CASE to = "close" /\ conn.peer = c
        \* A client that was missed was never served.
        <5>1. from \notin Served
          BY <2>2, <4>1, TransportAssumption DEF HandleInv, Served
        <5>2. QED
          BY <1>2, <4>1, <5>1 DEF Serving, Served
      <4>2. CASE ~(to = "close" /\ conn.peer = c)
        BY <1>2, <4>2 DEF Serving, Served
      <4>3. QED
        BY <4>1, <4>2
    <3>2. Unread(c)' = Unread(c) /\ LineOf(c)' = LineOf(c)
      BY <1>2, <3>1 DEF Unread, LineOf
    <3>3. QED
      BY <3>2, StreamKept DEF ConnInv, StreamInv
  <2>3. QED
    BY <2>1, <2>2
<1>6. QED
  BY <1>1, <1>3, <1>4, <1>5 DEF ConnInv, StreamInv

\* The steps that are such moves.
LEMMA MovingSteps ==
  ASSUME HandleInv, ConnInv,
         \/ ConnTop \/ Listen \/ ListenFails \/ AcceptTimeout \/ Accepted \/ Refuse
         \/ ResetSubscription \/ ReadLoop \/ ReadFails \/ Reply \/ Leave
         \/ LeaveSubscription \/ Drain
  PROVE  ConnInv'
<1> USE DEF ConnMove, net, server, clients
<1>0. handle \in BOOLEAN /\ listening \in BOOLEAN
  BY DEF ConnInv, ConnTypes
<1>1. \/ Moves("top", "listen") \/ Moves("top", "done") \/ Moves("listen", "accept")
      \/ Moves("listen", "top") \/ Moves("accept", "close") \/ Moves("accepted", "verify")
      \/ Moves("accepted", "close") \/ Moves("verify", "close") \/ Moves("setup", "loop")
      \/ Moves("loop", "read") \/ Moves("loop", "leave") \/ Moves("read", "loop")
      \/ Moves("read", "leave") \/ Moves("reply", "loop") \/ Moves("leave", "unsubscribe")
      \/ Moves("unsubscribe", "drain") \/ Moves("drain", "close")
  <2>1. CASE ConnTop
    BY <1>0, <2>1 DEF ConnTop, Moves
  <2>2. CASE Listen
    <3>1. accepted = None
      BY <2>2, TransportAssumption DEF Listen, HandleInv, ConnInv, ConnTypes, PeerInv, Idle
    <3>2. QED
      BY <1>0, <2>2, <3>1 DEF Listen, Moves
  <2>3. CASE ListenFails
    BY <1>0, <2>3 DEF ListenFails, Moves
  <2>4. CASE AcceptTimeout
    BY <1>0, <2>4 DEF AcceptTimeout, Moves
  <2>5. CASE Accepted
    BY <1>0, <2>5 DEF Accepted, Moves
  <2>6. CASE Refuse
    BY <1>0, <2>6 DEF Refuse, Moves
  <2>7. CASE ResetSubscription
    BY <1>0, <2>7 DEF ResetSubscription, Moves
  <2>8. CASE ReadLoop
    BY <1>0, <2>8 DEF ReadLoop, Moves
  <2>9. CASE ReadFails
    BY <1>0, <2>9 DEF ReadFails, Moves
  <2>10. CASE Reply
    BY <1>0, <2>10 DEF Reply, Moves
  <2>11. CASE Leave
    BY <1>0, <2>11 DEF Leave, Moves
  <2>12. CASE LeaveSubscription
    BY <1>0, <2>12 DEF LeaveSubscription, Moves
  <2>13. CASE Drain
    BY <1>0, <2>13 DEF Drain, Moves
  <2>14. QED
    BY <2>1, <2>2, <2>3, <2>4, <2>5, <2>6, <2>7, <2>8, <2>9, <2>10, <2>11, <2>12, <2>13
<1>2. QED
  <2> USE MovesKeep DEF Idle, Served
  <2>1. CASE Moves("top", "listen")
    BY <2>1
  <2>2. CASE Moves("top", "done")
    BY <2>2
  <2>3. CASE Moves("listen", "accept")
    BY <2>3
  <2>4. CASE Moves("listen", "top")
    BY <2>4
  <2>5. CASE Moves("accept", "close")
    BY <2>5
  <2>6. CASE Moves("accepted", "verify")
    BY <2>6
  <2>7. CASE Moves("accepted", "close")
    BY <2>7
  <2>8. CASE Moves("verify", "close")
    BY <2>8
  <2>9. CASE Moves("setup", "loop")
    BY <2>9
  <2>10. CASE Moves("loop", "read")
    BY <2>10
  <2>11. CASE Moves("loop", "leave")
    BY <2>11
  <2>12. CASE Moves("read", "loop")
    BY <2>12
  <2>13. CASE Moves("read", "leave")
    BY <2>13
  <2>14. CASE Moves("reply", "loop")
    BY <2>14
  <2>15. CASE Moves("leave", "unsubscribe")
    BY <2>15
  <2>16. CASE Moves("unsubscribe", "drain")
    BY <2>16
  <2>17. CASE Moves("drain", "close")
    BY <2>17
  <2>18. QED
    BY <1>1, <2>1, <2>2, <2>3, <2>4, <2>5, <2>6, <2>7, <2>8, <2>9, <2>10, <2>11, <2>12, <2>13, <2>14, <2>15, <2>16, <2>17

\* A client connects.
LEMMA DialStep ==
  ASSUME HandleInv, ConnInv, NEW c \in Client, Dial(c)
  PROVE  ConnInv'
<1> USE DEF Dial, backend, server
<1>1. ConnTypes'
  BY DEF ConnInv, ConnTypes
<1>2. PeerInv'
  BY DEF ConnInv, PeerInv
<1>3. link'[c] = "waiting" /\ \A d \in Client \ {c} : link'[d] = link[d]
  BY DEF ConnInv, ConnTypes
<1>4. conn.peer # c /\ link[c] = "off" /\ wire[c] = <<>> /\ sent[c] = <<>> /\ ~midline[c]
  BY DEF ConnInv, LinkInv
<1>5. LinkInv'
  BY <1>3, <1>4 DEF ConnInv, LinkInv
<1>6. StreamOf(c)'
  <2>1. ~Serving(c)' /\ wire'[c] = <<>> /\ sent'[c] = <<>> /\ ~midline'[c]
    BY <1>4 DEF Serving
  <2>2. Unread(c)' = <<>> /\ LineOf(c)' = 0
    BY <2>1 DEF Unread, LineOf
  <2>3. Len(sent'[c]) = 0
    BY <2>1
  <2>4. Ordered(<<>>, 0, 0)
    BY DEF Ordered, Chain
  <2>5. Ends(<<>>, 0, 0, midline'[c])
    BY <2>1 DEF Ends
  <2>6. QED
    BY <2>2, <2>3, <2>4, <2>5 DEF StreamOf
<1>7. ASSUME NEW d \in Client \ {c} PROVE StreamOf(d)'
  BY <1>3 DEF ConnInv, StreamInv, StreamOf, Unread, LineOf, Serving
<1>8. QED
  BY <1>1, <1>2, <1>5, <1>6, <1>7 DEF ConnInv, StreamInv

\* A piece put on the wire is put at the end of what is unread.
LEMMA UnreadGrows ==
  ASSUME HandleInv, ConnInv, NEW c \in Client, NEW p \in Piece, UNCHANGED <<buffer, conn>>,
         wire' = [wire EXCEPT ![c] = Append(@, p)]
  PROVE  /\ Unread(c) \in Seq(Piece) /\ LineOf(c) \in Nat
         /\ Unread(c)' = Append(Unread(c), p) /\ LineOf(c)' = LineOf(c)
         /\ wire' \in [Client -> Seq(Piece)]
         /\ \A d \in Client \ {c} : wire'[d] = wire[d]
<1>1. buffer \in Seq(Piece) /\ wire[c] \in Seq(Piece) /\ wire \in [Client -> Seq(Piece)] /\ conn.line \in Nat
  BY DEF ConnInv, ConnTypes
<1>2. /\ wire'[c] = Append(wire[c], p)
      /\ \A d \in Client \ {c} : wire'[d] = wire[d]
  BY <1>1
<1>3. wire' \in [Client -> Seq(Piece)]
  <2>1. Append(wire[c], p) \in Seq(Piece)
    BY <1>1, Extended
  <2>2. QED
    BY <1>1, <2>1
<1>4. Serving(c)' = Serving(c) /\ LineOf(c)' = LineOf(c) /\ LineOf(c) \in Nat
  BY <1>1 DEF Serving, LineOf
<1>5. buffer \o Append(wire[c], p) = Append(buffer \o wire[c], p)
  <2>1. <<p>> \in Seq(Piece) /\ buffer \o wire[c] \in Seq(Piece)
    BY <1>1, Joined
  <2>2. Append(wire[c], p) = wire[c] \o <<p>> /\ Append(buffer \o wire[c], p) = (buffer \o wire[c]) \o <<p>>
    BY <1>1, <2>1, AppendIsConcat
  <2>3. (buffer \o wire[c]) \o <<p>> = buffer \o (wire[c] \o <<p>>)
    BY <1>1, <2>1, ConcatAssociative
  <2>4. QED
    BY <2>2, <2>3
<1>6. Unread(c) \in Seq(Piece)
  <2>1. buffer \o wire[c] \in Seq(Piece)
    BY <1>1, Joined
  <2>2. QED
    BY <1>1, <2>1 DEF Unread
<1>7. Unread(c)' = Append(Unread(c), p)
  BY <1>2, <1>4, <1>5 DEF Unread
<1>8. QED
  BY <1>2, <1>3, <1>4, <1>6, <1>7

\* A client sends the first piece of a line,
LEMMA BeginStep ==
  ASSUME HandleInv, ConnInv, NEW c \in Client, NEW k \in Kind, BeginLine(c, k)
  PROVE  ConnInv'
<1> USE DEF BeginLine, backend, server
<1> DEFINE n == Len(sent[c])
           p == [line |-> n + 1, last |-> FALSE]
<1>1. n \in Nat /\ sent[c] \in Seq(Kind) /\ sent \in [Client -> Seq(Kind)]
  BY LenProperties DEF ConnInv, ConnTypes
<1>2. p \in Piece
  BY <1>1 DEF Piece
<1>3. /\ Append(sent[c], k) \in Seq(Kind) /\ Append(sent[c], k) # <<>>
      /\ Len(Append(sent[c], k)) = n + 1
  BY <1>1, AppendProperties
<1>4. /\ sent' \in [Client -> Seq(Kind)] /\ sent'[c] = Append(sent[c], k)
      /\ \A d \in Client \ {c} : sent'[d] = sent[d]
  BY <1>1, <1>3
<1>5. /\ midline' \in [Client -> BOOLEAN] /\ midline'[c]
      /\ \A d \in Client \ {c} : midline'[d] = midline[d]
  BY DEF ConnInv, ConnTypes
<1>6. /\ Unread(c) \in Seq(Piece) /\ LineOf(c) \in Nat
      /\ Unread(c)' = Append(Unread(c), p) /\ LineOf(c)' = LineOf(c)
      /\ wire' \in [Client -> Seq(Piece)]
      /\ \A d \in Client \ {c} : wire'[d] = wire[d]
  <2>1. wire' = [wire EXCEPT ![c] = Append(@, p)]
    OBVIOUS
  <2>2. UNCHANGED <<buffer, conn>>
    OBVIOUS
  <2> HIDE DEF p
  <2>3. QED
    BY <1>2, <2>1, <2>2, UnreadGrows
<1>7. ConnTypes'
  BY <1>4, <1>5, <1>6 DEF ConnInv, ConnTypes
<1>8. PeerInv'
  BY DEF ConnInv, PeerInv
<1>9. LinkInv'
  <2>1. link[c] \notin {"off", "closed"}
    BY DEF Reachable
  <2>2. QED
    BY <1>3, <1>4, <1>5, <1>6, <2>1 DEF ConnInv, LinkInv
<1>10. StreamOf(c)'
  <2>1. CASE conn.pc = "close" /\ conn.peer = c /\ c # missed
    BY <2>1 DEF StreamOf
  <2>2. CASE ~(conn.pc = "close" /\ conn.peer = c /\ c # missed)
    <3>1. Ordered(Unread(c), LineOf(c), n) /\ Ends(Unread(c), LineOf(c), n, FALSE)
      <4>1. midline[c] = FALSE /\ link[c] \in {"waiting", "up"}
        BY DEF Reachable, ConnInv, ConnTypes
      <4>2. QED
        BY <2>2, <4>1 DEF ConnInv, StreamInv, StreamOf
    <3>2. Ordered(Unread(c)', LineOf(c)', n + 1) /\ Ends(Unread(c)', LineOf(c)', n + 1, TRUE)
      BY <1>1, <1>6, <3>1, ChainBegin
    <3>3. Len(sent'[c]) = n + 1 /\ midline'[c] = TRUE
      BY <1>3, <1>4, <1>5
    <3>4. QED
      BY <3>2, <3>3 DEF StreamOf
  <2>3. QED
    BY <2>1, <2>2
<1>11. ASSUME NEW d \in Client \ {c} PROVE StreamOf(d)'
  BY <1>4, <1>5, <1>6 DEF ConnInv, StreamInv, StreamOf, Unread, LineOf, Serving
<1>12. QED
  BY <1>7, <1>8, <1>9, <1>10, <1>11 DEF ConnInv, StreamInv

\* then the second.
LEMMA FinishStep ==
  ASSUME HandleInv, ConnInv, NEW c \in Client, FinishLine(c)
  PROVE  ConnInv'
<1> USE DEF FinishLine, backend, server
<1> DEFINE n == Len(sent[c])
           p == [line |-> n, last |-> TRUE]
<1>1. n \in Nat /\ n # 0
  <2>1. sent[c] \in Seq(Kind) /\ sent[c] # <<>>
    BY DEF ConnInv, ConnTypes, LinkInv
  <2>2. QED
    BY <2>1, EmptySeq
<1>2. p \in Piece
  BY <1>1 DEF Piece
<1>3. /\ midline' \in [Client -> BOOLEAN] /\ midline'[c] = FALSE
      /\ \A d \in Client \ {c} : midline'[d] = midline[d]
  BY DEF ConnInv, ConnTypes
<1>4. /\ Unread(c) \in Seq(Piece) /\ LineOf(c) \in Nat
      /\ Unread(c)' = Append(Unread(c), p) /\ LineOf(c)' = LineOf(c)
      /\ wire' \in [Client -> Seq(Piece)]
      /\ \A d \in Client \ {c} : wire'[d] = wire[d]
  <2>1. wire' = [wire EXCEPT ![c] = Append(@, p)]
    OBVIOUS
  <2>2. UNCHANGED <<buffer, conn>>
    OBVIOUS
  <2> HIDE DEF p
  <2>3. QED
    BY <1>2, <2>1, <2>2, UnreadGrows
<1>5. ConnTypes'
  BY <1>3, <1>4 DEF ConnInv, ConnTypes
<1>6. PeerInv'
  BY DEF ConnInv, PeerInv
<1>7. LinkInv'
  <2>1. link[c] \notin {"off", "closed"}
    BY DEF Reachable
  <2>2. QED
    BY <1>3, <1>4, <2>1 DEF ConnInv, LinkInv
<1>8. StreamOf(c)'
  <2>1. CASE conn.pc = "close" /\ conn.peer = c /\ c # missed
    BY <2>1 DEF StreamOf
  <2>2. CASE ~(conn.pc = "close" /\ conn.peer = c /\ c # missed)
    <3>1. Ordered(Unread(c), LineOf(c), n) /\ Ends(Unread(c), LineOf(c), n, TRUE)
      <4>1. midline[c] = TRUE /\ link[c] \in {"waiting", "up"}
        BY DEF Reachable, ConnInv, ConnTypes
      <4>2. QED
        BY <2>2, <4>1 DEF ConnInv, StreamInv, StreamOf
    <3>2. Ordered(Unread(c)', LineOf(c)', n) /\ Ends(Unread(c)', LineOf(c)', n, FALSE)
      BY <1>1, <1>4, <3>1, ChainFinish
    <3>3. QED
      BY <1>3, <3>2 DEF StreamOf
  <2>3. QED
    BY <2>1, <2>2
<1>9. ASSUME NEW d \in Client \ {c} PROVE StreamOf(d)'
  BY <1>3, <1>4 DEF ConnInv, StreamInv, StreamOf, Unread, LineOf, Serving
<1>10. QED
  BY <1>5, <1>6, <1>7, <1>8, <1>9 DEF ConnInv, StreamInv

\* A client hangs up.
LEMMA HangupStep ==
  ASSUME HandleInv, ConnInv, NEW c \in Client, Hangup(c)
  PROVE  ConnInv'
<1> USE DEF Hangup, backend, server
<1>1. ConnTypes'
  BY DEF ConnInv, ConnTypes
<1>2. PeerInv' /\ LinkInv'
  BY DEF ConnInv, PeerInv, LinkInv
<1>3. StreamInv'
  BY DEF ConnInv, StreamInv, StreamOf, Unread, LineOf, Serving
<1>4. QED
  BY <1>1, <1>2, <1>3 DEF ConnInv

\* The server accepts the next client,
LEMMA AcceptStep ==
  ASSUME HandleInv, ConnInv, NEW c \in Client, Accept(c)
  PROVE  ConnInv'
<1> USE DEF Accept, server
<1>0. conn.pc = "accept" /\ conn.peer = None /\ accepted = None /\ missed = None
  BY TransportAssumption DEF HandleInv, ConnInv, ConnTypes, PeerInv, Idle
<1>1. ConnTypes'
  <2>1. conn' \in [pc: {"top", "listen", "accept", "store", "accepted", "close", "verify",
                        "setup", "loop", "read", "reply", "leave", "unsubscribe",
                        "drain", "done"},
                   peer: Client \cup {None}, line: Nat]
    OBVIOUS
  <2>2. QED
    BY <2>1 DEF ConnInv, ConnTypes
<1>2. PeerInv'
  BY <1>0 DEF PeerInv, Idle
<1>3. link'[c] = "up" /\ \A d \in Client \ {c} : link'[d] = link[d] /\ link[d] # "up"
  BY <1>0, TransportAssumption DEF ConnInv, LinkInv, ConnTypes
<1>4. LinkInv'
  BY <1>0, <1>3 DEF ConnInv, LinkInv
<1>5. \A d \in Client : ~Serving(d) /\ ~Serving(d)'
  BY DEF Serving
<1>6. ASSUME NEW d \in Client PROVE StreamOf(d)'
  BY <1>3, <1>5 DEF ConnInv, StreamInv, StreamOf, Unread, LineOf
<1>7. QED
  BY <1>1, <1>2, <1>4, <1>6 DEF ConnInv, StreamInv

\* and publishes its descriptor.
LEMMA StoreStep ==
  ASSUME HandleInv, ConnInv, StoreClient
  PROVE  ConnInv'
<1> USE DEF StoreClient, clients
<1>0. /\ conn.pc = "store" /\ conn.peer \in Client /\ conn.line = 0
      /\ accepted = None /\ missed = None
  BY TransportAssumption DEF ConnMove, HandleInv, ConnInv, ConnTypes, PeerInv, Idle
<1>1. /\ conn' \in [pc: {"top", "listen", "accept", "store", "accepted", "close", "verify",
                         "setup", "loop", "read", "reply", "leave", "unsubscribe",
                         "drain", "done"},
                    peer: Client \cup {None}, line: Nat]
      /\ conn'.pc \in {"accepted", "close"} /\ conn'.peer = conn.peer /\ conn'.line = 0
  BY <1>0 DEF ConnMove, ConnGoto, ConnInv, ConnTypes
<1>2. accepted' = conn.peer /\ missed' \in {None, conn.peer}
  BY <1>0
<1>3. ConnTypes'
  BY <1>0, <1>1, <1>2 DEF ConnInv, ConnTypes
<1>4. PeerInv'
  BY <1>0, <1>1, <1>2 DEF PeerInv, Idle
<1>5. LinkInv'
  BY <1>0, <1>1, <1>2, TransportAssumption DEF ConnInv, LinkInv
<1>6. ASSUME NEW d \in Client PROVE StreamOf(d)'
  <2>1. ~Serving(d) /\ ~Serving(d)'
    BY <1>0, <1>1 DEF Serving
  <2>2. Unread(d)' = Unread(d) /\ LineOf(d)' = LineOf(d)
    BY <2>1 DEF Unread, LineOf
  <2>3. QED
    BY <1>0, <2>2, StreamKept DEF ConnInv, StreamInv
<1>7. QED
  BY <1>3, <1>4, <1>5, <1>6 DEF ConnInv, StreamInv

\* What closing the connections of some clients does to one of them.
LEMMA Closed ==
  ASSUME ConnInv, NEW S, CloseLinks(S)
  PROVE  /\ link' \in [Client -> {"off", "waiting", "up", "closed"}]
         /\ wire' \in [Client -> Seq(Piece)]
         /\ \A c \in Client : IF c \in S THEN link'[c] = "closed" /\ wire'[c] = <<>>
                              ELSE link'[c] = link[c] /\ wire'[c] = wire[c]
         /\ UNCHANGED <<alive, sent, midline>>
<1> USE DEF CloseLinks
<1>1. \A c \in Client : IF c \in S THEN link'[c] = "closed" /\ wire'[c] = <<>>
                        ELSE link'[c] = link[c] /\ wire'[c] = wire[c]
  OBVIOUS
<1>2. /\ link' = [c \in Client |-> link'[c]]
      /\ wire' = [c \in Client |-> wire'[c]]
  OBVIOUS
<1>3. \A c \in Client : /\ link'[c] \in {"off", "waiting", "up", "closed"}
                        /\ wire'[c] \in Seq(Piece)
  <2>1. <<>> \in Seq(Piece)
    OBVIOUS
  <2>2. QED
    BY <1>1, <2>1 DEF ConnInv, ConnTypes
<1>4. QED
  BY <1>1, <1>2, <1>3

\* What is left of a client's stream when its connection is closed under the thread:
\* the buffer, if it is served, or nothing.
LEMMA StreamCut ==
  ASSUME HandleInv, ConnInv, NEW S, CloseLinks(S), UNCHANGED <<buffer, conn, missed>>,
         NEW c \in Client
  PROVE  StreamOf(c)'
<1>0. /\ IF c \in S THEN link'[c] = "closed" /\ wire'[c] = <<>>
         ELSE link'[c] = link[c] /\ wire'[c] = wire[c]
      /\ UNCHANGED <<alive, sent, midline>>
  BY Closed
<1>1. CASE conn.pc = "close" /\ conn.peer = c /\ c # missed
  BY <1>1 DEF StreamOf
<1>2. CASE ~(conn.pc = "close" /\ conn.peer = c /\ c # missed)
  <2>1. /\ buffer \in Seq(Piece) /\ wire[c] \in Seq(Piece) /\ Len(sent[c]) \in Nat
        /\ LineOf(c) \in Nat
    BY LenProperties DEF ConnInv, ConnTypes, LineOf
  <2>2. StreamOf(c) /\ Ordered(Unread(c), LineOf(c), Len(sent[c]))
    BY <1>2 DEF ConnInv, StreamInv, StreamOf
  <2>3. Serving(c)' = Serving(c) /\ LineOf(c)' = LineOf(c)
    BY DEF Serving, LineOf
  <2>4. CASE c \in S /\ Serving(c)
    <3>1. Unread(c)' = buffer /\ Unread(c) = buffer \o wire[c]
      BY <1>0, <2>1, <2>3, <2>4, ConcatEmptySeq DEF Unread
    <3>2. Ordered(Unread(c)', LineOf(c), Len(sent[c]))
      BY <2>1, <2>2, <3>1, ChainPrefix
    <3>3. QED
      BY <1>0, <2>3, <2>4, <3>2 DEF StreamOf
  <2>5. CASE c \in S /\ ~Serving(c)
    <3>1. Unread(c)' = <<>> /\ LineOf(c) <= Len(sent[c])
      BY <1>0, <2>2, <2>3, <2>5 DEF Unread, Ordered
    <3>2. Ordered(Unread(c)', LineOf(c), Len(sent[c]))
      BY <3>1 DEF Ordered, Chain
    <3>3. QED
      BY <1>0, <2>3, <2>5, <3>2 DEF StreamOf
  <2>6. CASE c \notin S
    <3>1. Unread(c)' = Unread(c)
      BY <1>0, <2>3, <2>6 DEF Unread
    <3>2. QED
      BY <1>0, <1>2, <2>2, <2>3, <2>6, <3>1, StreamKept
  <2>7. QED
    BY <2>4, <2>5, <2>6
<1>3. QED
  BY <1>1, <1>2

\* The connection thread closes the server's connection, if stop() was not faster.
LEMMA CloseServerStep ==
  ASSUME HandleInv, ConnInv, CloseServer
  PROVE  ConnInv'
<1> USE DEF CloseServer, clients
<1>0. conn.pc = "close" /\ ConnTypes /\ None \notin Client
  BY TransportAssumption DEF ConnInv
<1>1. PICK S \in SUBSET Client :
        /\ S = IF handle THEN Waiting \cup {c \in Client : c = accepted} ELSE {}
        /\ link' \in [Client -> {"off", "waiting", "up", "closed"}]
        /\ wire' \in [Client -> Seq(Piece)]
        /\ \A c \in Client : IF c \in S THEN link'[c] = "closed" /\ wire'[c] = <<>>
                             ELSE link'[c] = link[c] /\ wire'[c] = wire[c]
  <2>1. CASE handle
    <3>1. CloseLinks(Waiting \cup {c \in Client : c = accepted})
      BY <2>1 DEF close_server
    <3>2. Waiting \cup {c \in Client : c = accepted} \in SUBSET Client
      BY DEF Waiting
    <3>3. QED
      BY <2>1, <3>1, <3>2, Closed
  <2>2. CASE ~handle
    <3>1. link' = link /\ wire' = wire /\ {} \in SUBSET Client
      BY <2>2 DEF close_server
    <3>2. QED
      BY <1>0, <2>2, <3>1 DEF ConnTypes
  <2>3. QED
    BY <2>1, <2>2
<1>2. /\ UNCHANGED <<alive, sent, midline, buffer, missed>>
      /\ listening' \in BOOLEAN /\ handle' = FALSE
      /\ accepted' = IF handle THEN None ELSE accepted
  BY <1>0 DEF close_server, CloseLinks, ConnTypes
<1>3. /\ conn' \in [pc: {"top", "listen", "accept", "store", "accepted", "close", "verify",
                         "setup", "loop", "read", "reply", "leave", "unsubscribe",
                         "drain", "done"},
                    peer: Client \cup {None}, line: Nat]
      /\ conn'.pc = "top" /\ conn'.peer = None /\ conn'.line = 0
  OBVIOUS
<1>4. ConnTypes'
  BY <1>0, <1>1, <1>2, <1>3 DEF ConnTypes
<1>5. accepted' # None => accepted' = missed'
  BY <1>2 DEF HandleInv, StopWasHere
<1>6. PeerInv'
  BY <1>3, <1>5 DEF PeerInv, Idle
<1>7. LinkInv'
  <2>1. ASSUME NEW c \in Client, link'[c] = "up" PROVE c = missed'
    <3>1. link[c] = "up" /\ c \notin S
      BY <1>1, <2>1
    <3>2. c = missed \/ c = accepted
      BY <1>0, <3>1 DEF ConnInv, LinkInv
    <3>3. QED
      BY <1>0, <1>1, <1>2, <3>1, <3>2 DEF HandleInv, StopWasHere
  <2>2. QED
    BY <1>0, <1>1, <1>2, <1>3, <2>1 DEF ConnInv, LinkInv
<1>8. ASSUME NEW c \in Client PROVE StreamOf(c)'
  <2>1. Unread(c)' = wire'[c] /\ LineOf(c)' = 0
    BY <1>3 DEF Unread, LineOf, Serving
  <2>2. Len(sent[c]) \in Nat
    BY LenProperties DEF ConnInv, ConnTypes
  <2>3. CASE wire'[c] = <<>> /\ link'[c] \in {"off", "closed"}
    <3>1. Ordered(<<>>, 0, Len(sent[c]))
      BY <2>2 DEF Ordered, Chain
    <3>2. QED
      BY <1>2, <2>1, <2>3, <3>1 DEF StreamOf
  <2>4. CASE ~(wire'[c] = <<>> /\ link'[c] \in {"off", "closed"})
    <3>1. c \notin S /\ link'[c] = link[c] /\ wire'[c] = wire[c]
      BY <1>1, <2>4
    <3>2. ~(conn.pc = "close" /\ conn.peer = c /\ c # missed)
      <4>1. SUFFICES ASSUME conn.peer = c, c # missed PROVE FALSE
        OBVIOUS
      <4>2. link[c] = "up"
        BY <2>4, <3>1, <4>1 DEF ConnInv, LinkInv
      <4>3. c = accepted
        BY <1>0, <4>1, <4>2 DEF ConnInv, LinkInv
      <4>4. QED
        BY <1>0, <1>1, <3>1, <4>1, <4>3 DEF HandleInv, StopWasHere
    <3>3. Unread(c) = wire[c] /\ LineOf(c) = 0
      BY <1>0 DEF Unread, LineOf, Serving
    <3>4. StreamOf(c)
      BY DEF ConnInv, StreamInv
    <3>5. QED
      BY <1>2, <2>1, <3>1, <3>2, <3>3, <3>4, StreamKept
  <2>5. QED
    BY <2>3, <2>4
<1>9. QED
  BY <1>4, <1>6, <1>7, <1>8 DEF ConnInv, StreamInv

\* stop() closes the server under the connection thread.
LEMMA StopCloseStep ==
  ASSUME HandleInv, ConnInv, StopClose
  PROVE  ConnInv'
<1> USE DEF StopMove, clients
<1>0. conn' = conn /\ buffer' = buffer /\ ConnTypes /\ None \notin Client
  BY TransportAssumption DEF StopClose, StopCloseClient, StopCloseListen, StopCloseHandle, ConnInv
<1>1. CASE StopCloseClient /\ handle
  <2>1. /\ CloseLinks({c \in Client : c = accepted}) /\ accepted' = None
        /\ UNCHANGED <<handle, listening, missed>>
    BY <1>1 DEF StopCloseClient
  <2>2. /\ link' \in [Client -> {"off", "waiting", "up", "closed"}]
        /\ wire' \in [Client -> Seq(Piece)]
        /\ \A c \in Client : IF c = accepted THEN link'[c] = "closed" /\ wire'[c] = <<>>
                             ELSE link'[c] = link[c] /\ wire'[c] = wire[c]
        /\ UNCHANGED <<alive, sent, midline>>
    BY <2>1, Closed
  <2>3. ConnTypes' /\ PeerInv'
    BY <1>0, <2>1, <2>2 DEF ConnInv, ConnTypes, PeerInv
  <2>4. LinkInv'
    <3>1. conn.pc = "store" => accepted = None /\ conn.peer \in Client
      BY <1>0 DEF HandleInv, ConnInv, PeerInv, Idle
    <3>2. QED
      BY <1>0, <2>1, <2>2, <3>1 DEF ConnInv, LinkInv
  <2>5. ASSUME NEW c \in Client PROVE StreamOf(c)'
    BY <1>0, <2>1, StreamCut
  <2>6. QED
    BY <2>3, <2>4, <2>5 DEF ConnInv, StreamInv
<1>2. CASE StopCloseListen
  <2>1. /\ CloseLinks(Waiting) /\ listening' = FALSE
        /\ UNCHANGED <<handle, accepted, missed>>
    BY <1>2 DEF StopCloseListen
  <2>2. /\ link' \in [Client -> {"off", "waiting", "up", "closed"}]
        /\ wire' \in [Client -> Seq(Piece)]
        /\ \A c \in Client : IF link[c] = "waiting" THEN link'[c] = "closed" /\ wire'[c] = <<>>
                             ELSE link'[c] = link[c] /\ wire'[c] = wire[c]
        /\ UNCHANGED <<alive, sent, midline>>
    BY <2>1, Closed DEF Waiting
  <2>3. ConnTypes' /\ PeerInv'
    BY <1>0, <2>1, <2>2 DEF ConnInv, ConnTypes, PeerInv
  <2>4. LinkInv'
    <3>1. conn.pc = "store" => conn.peer \in Client
      BY DEF ConnInv, PeerInv, Idle
    <3>2. QED
      BY <1>0, <2>1, <2>2, <3>1 DEF ConnInv, LinkInv
  <2>5. ASSUME NEW c \in Client PROVE StreamOf(c)'
    BY <1>0, <2>1, StreamCut
  <2>6. QED
    BY <2>3, <2>4, <2>5 DEF ConnInv, StreamInv
<1>3. CASE StopCloseHandle \/ (StopCloseClient /\ ~handle)
  <2>1. /\ UNCHANGED <<buffer, conn, accepted, missed, link, alive, sent, midline, wire>>
        /\ handle' \in BOOLEAN /\ listening' = listening
    BY <1>0, <1>3 DEF StopCloseHandle, StopCloseClient, ConnTypes
  <2>2. ConnTypes' /\ PeerInv' /\ LinkInv'
    BY <2>1 DEF ConnInv, ConnTypes, PeerInv, LinkInv
  <2>3. StreamInv'
    BY <2>1 DEF ConnInv, StreamInv, StreamOf, Unread, LineOf, Serving
  <2>4. QED
    BY <2>2, <2>3 DEF ConnInv
<1>4. QED
  BY <1>1, <1>2, <1>3 DEF StopClose

\* The client that has been verified is the one served.
LEMMA AdmitStep ==
  ASSUME HandleInv, ConnInv, Admit
  PROVE  ConnInv'
<1> USE DEF Admit, ConnMove, ConnGoto, net, server, clients
<1>1. conn' \in [pc: {"top", "listen", "accept", "store", "accepted", "close", "verify",
                      "setup", "loop", "read", "reply", "leave", "unsubscribe",
                      "drain", "done"},
                 peer: Client \cup {None}, line: Nat]
  BY DEF ConnInv, ConnTypes
<1>2. conn'.pc = "setup" /\ conn'.peer = conn.peer /\ conn'.line = 0
  BY DEF ConnInv, ConnTypes, PeerInv, Idle
<1>3. ConnTypes'
  <2>1. <<>> \in Seq(Piece)
    OBVIOUS
  <2>2. QED
    BY <1>1, <2>1 DEF ConnInv, ConnTypes
<1>4. PeerInv'
  BY <1>2 DEF ConnInv, PeerInv, Idle
<1>5. LinkInv'
  BY <1>2 DEF ConnInv, LinkInv
<1>6. ASSUME NEW c \in Client PROVE StreamOf(c)'
  <2>1. ~Serving(c) /\ conn.pc # "close"
    BY DEF Serving
  <2>2. LineOf(c)' = 0 /\ LineOf(c) = 0
    BY <1>2, <2>1 DEF LineOf
  <2>3. wire[c] \in Seq(Piece)
    BY DEF ConnInv, ConnTypes
  <2>4. <<>> \o wire[c] = wire[c]
    BY <2>3, ConcatEmptySeq
  <2>5. Unread(c)' = Unread(c)
    BY <2>1, <2>4 DEF Unread
  <2>6. QED
    BY <2>1, <2>2, <2>5, StreamKept DEF ConnInv, StreamInv
<1>7. QED
  BY <1>3, <1>4, <1>5, <1>6 DEF ConnInv, StreamInv

\* read_line: b is the buffer with what was read, w what is left on the wire.
LEMMA TakeStep ==
  ASSUME HandleInv, ConnInv, conn.pc = "read", NEW b \in Seq(Piece), NEW w \in Seq(Piece),
         TakeLine(b), b \o w = buffer \o wire[conn.peer],
         conn.peer \in Client => wire' = [wire EXCEPT ![conn.peer] = w],
         link[conn.peer] = "closed" => w = <<>>,
         UNCHANGED <<server, link, alive, sent, midline>>
  PROVE  ConnInv' /\ (conn'.pc = "reply" => conn'.line = conn.line + 1 /\ conn'.line <= Len(sent[conn.peer]))
<1> DEFINE e == SelectInSeq(b, LAMBDA p : p.last)
<1> USE DEF server
<1>0. PICK me \in Client : me = conn.peer
  BY DEF ConnInv, PeerInv, Idle
<1>1. /\ me \in Client /\ link[me] \in {"up", "closed"} /\ conn.line \in Nat
      /\ Len(sent[me]) \in Nat /\ wire' = [wire EXCEPT ![me] = w]
  BY <1>0, LenProperties DEF ConnInv, LinkInv, ConnTypes
<1>2. /\ Ordered(b \o w, conn.line, Len(sent[me]))
      /\ link[me] = "up" => Ends(b \o w, conn.line, Len(sent[me]), midline[me])
  <2>1. Serving(me) /\ ~(conn.pc = "close")
    BY <1>0 DEF Serving
  <2>2. StreamOf(me)
    BY <1>1 DEF ConnInv, StreamInv
  <2>3. Unread(me) = b \o w /\ LineOf(me) = conn.line
    BY <1>0, <2>1 DEF Unread, LineOf
  <2>4. QED
    BY <2>1, <2>2, <2>3 DEF StreamOf
<1>3. /\ HasLine(b) => /\ buffer' = SubSeq(b, e + 1, Len(b))
                       /\ conn' = [conn EXCEPT !.line = b[e].line, !.pc = "reply"]
      /\ ~HasLine(b) => buffer' = b /\ conn' = [conn EXCEPT !.pc = "loop"]
  BY DEF TakeLine, ConnGoto
<1>4. HasLine(b) =>
        /\ b[e].line = conn.line + 1 /\ conn.line + 1 <= Len(sent[me])
        /\ buffer' \in Seq(Piece)
        /\ Ordered(buffer' \o w, conn.line + 1, Len(sent[me]))
        /\ \A mid \in BOOLEAN :
             Ends(b \o w, conn.line, Len(sent[me]), mid)
             => Ends(buffer' \o w, conn.line + 1, Len(sent[me]), mid)
  <2> SUFFICES ASSUME HasLine(b)
               PROVE  /\ b[e].line = conn.line + 1 /\ conn.line + 1 <= Len(sent[me])
                      /\ buffer' \in Seq(Piece)
                      /\ Ordered(buffer' \o w, conn.line + 1, Len(sent[me]))
                      /\ \A mid \in BOOLEAN :
                           Ends(b \o w, conn.line, Len(sent[me]), mid)
                           => Ends(buffer' \o w, conn.line + 1, Len(sent[me]), mid)
    OBVIOUS
  <2>1. buffer' = SubSeq(b, e + 1, Len(b))
    BY <1>3
  <2>2. LET t == SubSeq(b, e + 1, Len(b)) \o w
        IN  /\ e \in 1..Len(b) /\ b[e].line = conn.line + 1 /\ conn.line + 1 <= Len(sent[me])
            /\ SubSeq(b, e + 1, Len(b)) \in Seq(Piece)
            /\ Ordered(t, conn.line + 1, Len(sent[me]))
            /\ \A mid \in BOOLEAN : Ends(b \o w, conn.line, Len(sent[me]), mid)
                                    => Ends(t, conn.line + 1, Len(sent[me]), mid)
    BY <1>1, <1>2, ChainTake
  <2> HIDE DEF e
  <2>3. QED
    BY <2>1, <2>2
<1> HIDE DEF e
<1>5. /\ conn' \in [pc: {"top", "listen", "accept", "store", "accepted", "close", "verify",
                         "setup", "loop", "read", "reply", "leave", "unsubscribe",
                         "drain", "done"},
                    peer: Client \cup {None}, line: Nat]
      /\ conn'.peer = me
      /\ \/ conn'.pc = "loop" /\ conn'.line = conn.line
         \/ conn'.pc = "reply" /\ conn'.line = conn.line + 1 /\ conn.line + 1 <= Len(sent[me])
  <2>1. conn.line + 1 \in Nat
    BY <1>1
  <2>2. QED
    BY <1>0, <1>3, <1>4, <2>1 DEF ConnInv, ConnTypes
<1>6. /\ buffer' \in Seq(Piece)
      /\ Ordered(buffer' \o w, conn'.line, Len(sent[me]))
      /\ link[me] = "up" => Ends(buffer' \o w, conn'.line, Len(sent[me]), midline[me])
  <2>1. midline[me] \in BOOLEAN
    BY <1>1 DEF ConnInv, ConnTypes
  <2>2. CASE HasLine(b)
    <3>1. conn'.line = conn.line + 1
      BY <1>3, <1>4, <2>2 DEF ConnInv, ConnTypes
    <3>2. QED
      BY <1>2, <1>4, <2>1, <2>2, <3>1
  <2>3. CASE ~HasLine(b)
    <3>1. conn'.line = conn.line /\ buffer' = b
      BY <1>3, <2>3 DEF ConnInv, ConnTypes
    <3>2. QED
      BY <1>2, <3>1
  <2>4. QED
    BY <2>2, <2>3
<1>7. /\ wire' \in [Client -> Seq(Piece)] /\ wire'[me] = w
      /\ \A c \in Client \ {me} : wire'[c] = wire[c]
  BY <1>1 DEF ConnInv, ConnTypes
<1>8. ConnTypes'
  BY <1>5, <1>6, <1>7 DEF ConnInv, ConnTypes
<1>9. PeerInv'
  <2>1. conn'.line # 0 \/ conn'.pc = "loop"
    BY <1>1, <1>5
  <2>2. QED
    BY <1>0, <1>1, <1>5, <2>1 DEF ConnInv, PeerInv, Idle
<1>10. LinkInv'
  <2>1. link[me] # "off" /\ (link[me] = "closed" => wire'[me] = <<>>)
    BY <1>0, <1>1, <1>7
  <2>2. QED
    BY <1>0, <1>5, <1>7, <2>1 DEF ConnInv, LinkInv
<1>11. StreamOf(me)'
  <2>1. Serving(me)'
    BY <1>0, <1>5 DEF Serving
  <2>2. Unread(me)' = buffer' \o w /\ LineOf(me)' = conn'.line
    BY <1>7, <2>1 DEF Unread, LineOf
  <2>3. link[me] \in {"waiting", "up"} => link[me] = "up"
    BY <1>1
  <2>4. QED
    BY <1>6, <2>2, <2>3 DEF StreamOf
<1>12. ASSUME NEW c \in Client \ {me} PROVE StreamOf(c)'
  BY <1>0, <1>5, <1>7 DEF ConnInv, StreamInv, StreamOf, Unread, LineOf, Serving
<1>13. QED
  BY <1>0, <1>1, <1>5, <1>8, <1>9, <1>10, <1>11, <1>12 DEF ConnInv, StreamInv

\* A read takes the thread one line further at most, to one that was begun.
LEMMA ReadSteps ==
  ASSUME HandleInv, ConnInv, ReadBuffered \/ ReadPipe
  PROVE  /\ ConnInv'
         /\ conn'.pc = "reply" => conn'.line = conn.line + 1 /\ conn'.line <= Len(sent[conn.peer])
<1>0. /\ buffer \in Seq(Piece) /\ wire \in [Client -> Seq(Piece)]
      /\ conn.pc = "read" => conn.peer \in Client
  BY DEF ConnInv, ConnTypes, PeerInv, Idle
<1>1. CASE ReadBuffered
  <2> USE DEF ReadBuffered, net, server, clients
  <2>1. conn.pc = "read" /\ TakeLine(buffer) /\ conn.peer \in Client
    BY <1>0, <1>1
  <2>2. UNCHANGED <<server, link, alive, sent, midline, wire>>
    BY <1>1
  <2>3. wire[conn.peer] \in Seq(Piece) /\ wire' = [wire EXCEPT ![conn.peer] = wire[conn.peer]]
    BY <1>0, <2>1, <2>2
  <2>4. link[conn.peer] = "closed" => wire[conn.peer] = <<>>
    BY <2>1 DEF ConnInv, LinkInv
  <2>5. QED
    BY <1>0, <2>1, <2>2, <2>3, <2>4, TakeStep
<1>2. CASE ReadPipe
  <2> USE DEF ReadPipe, server
  <2>1. conn.pc = "read" /\ conn.peer \in Client /\ ClientFd = conn.peer
    BY <1>0, <1>2 DEF ClientFd, HandleInv, ConnInv, PeerInv
  <2>2. PICK k \in 1..Len(wire[ClientFd]) :
          /\ TakeLine(buffer \o SubSeq(wire[ClientFd], 1, k))
          /\ wire' = [wire EXCEPT ![ClientFd] = SubSeq(@, k + 1, Len(@))]
    BY <1>2
  <2>3. UNCHANGED <<server, link, alive, sent, midline>>
    BY <1>2
  <2> DEFINE w == wire[conn.peer]
             b == buffer \o SubSeq(w, 1, k)
             r == SubSeq(w, k + 1, Len(w))
  <2>4. w \in Seq(Piece) /\ Len(w) \in Nat /\ k \in 1..Len(w)
    BY <1>0, <2>1, <2>2, LenProperties
  <2>5. SubSeq(w, 1, k) \in Seq(Piece) /\ r \in Seq(Piece)
    <3> HIDE DEF w
    <3>1. (\A i \in 1..k : w[i] \in Piece) /\ (\A i \in (k + 1)..Len(w) : w[i] \in Piece)
      BY <2>4, ElementOfSeq
    <3>2. 1 \in Int /\ k \in Int /\ k + 1 \in Int /\ Len(w) \in Int
      BY <2>4
    <3>3. QED
      BY <3>1, <3>2, SubSeqProperties
  <2>6. SubSeq(w, 1, k) \o r = w
    <3> HIDE DEF w
    <3>1. 1 \in 1..(Len(w) + 1) /\ k \in (1 - 1)..Len(w) /\ Len(w) \in k..Len(w)
      BY <2>4
    <3>2. SubSeq(w, 1, k) \o r = SubSeq(w, 1, Len(w))
      BY <2>4, <3>1, ConcatAdjacentSubSeq
    <3>3. SubSeq(w, 1, Len(w)) = w
      BY <2>4, SubSeqFull
    <3>4. QED
      BY <3>2, <3>3
  <2>7. b \in Seq(Piece) /\ b \o r = buffer \o w
    <3> HIDE DEF w, r
    <3>1. b \in Seq(Piece)
      BY <1>0, <2>5, Joined
    <3>2. b \o r = buffer \o (SubSeq(w, 1, k) \o r)
      BY <1>0, <2>5, ConcatAssociative
    <3>3. QED
      BY <2>6, <3>1, <3>2
  <2>8. link[conn.peer] = "closed" => r = <<>>
    <3>1. link[conn.peer] = "closed" => Len(w) = 0
      BY <2>1 DEF ConnInv, LinkInv
    <3>2. QED
      BY <2>4, <3>1
  <2>9. TakeLine(b) /\ wire' = [wire EXCEPT ![conn.peer] = r]
    BY <2>1, <2>2
  <2> HIDE DEF b, r
  <2>10. QED
    BY <2>1, <2>3, <2>5, <2>7, <2>8, <2>9, TakeStep
<1>3. QED
  BY <1>1, <1>2

\* The steps that leave the connection and the clients' lines alone.
LEMMA CoreSteps ==
  ASSUME [Next]_vars,
         ~Clients, ~Connection, ~StopClose
  PROVE  UNCHANGED core
<1> USE DEF core, net, server, clients, flags
<1>1. CASE Writer \/ SpuriousWakeup
  BY <1>1 DEF Writer, SpuriousWakeup, WriterMove, WriterTop, WriterWait, WriterBlock, WriterTake,
              WriterGate, pipe_write
<1>2. CASE Pusher
  BY <1>2 DEF Pusher, PushRead, PushWake, PushGate, PushLine
<1>3. CASE \E t \in Caller : SendGate(t) \/ SendLine(t)
  BY <1>3 DEF SendGate, SendLine
<1>4. CASE Stop
  BY <1>4 DEF Stop, StopFlag, StopNotify, StopJoin
<1>5. CASE UNCHANGED vars
  BY <1>5 DEF vars
<1>6. QED
  BY <1>1, <1>2, <1>3, <1>4, <1>5 DEF Next, Stopped

\* Every step keeps ConnInv.
LEMMA ConnStep == HandleInv /\ ConnInv /\ [Next]_vars => ConnInv'
<1> SUFFICES ASSUME HandleInv, ConnInv, [Next]_vars PROVE ConnInv'
  OBVIOUS
<1>1. CASE Clients
  <2>1. PICK c \in Client : \/ Dial(c) \/ (\E k \in Offered : BeginLine(c, k))
                            \/ FinishLine(c) \/ Hangup(c)
    BY <1>1 DEF Clients
  <2>2. Offered \subseteq Kind
    BY TransportAssumption
  <2>3. QED
    BY <2>1, <2>2, DialStep, BeginStep, FinishStep, HangupStep
<1>2. CASE Connection
  BY <1>2, MovingSteps, AcceptStep, StoreStep, CloseServerStep, AdmitStep, ReadSteps DEF Connection
<1>3. CASE StopClose
  BY <1>3, StopCloseStep
<1>4. CASE ~Clients /\ ~Connection /\ ~StopClose
  BY <1>4, CoreSteps, CoreUntouched
<1>5. QED
  BY <1>1, <1>2, <1>3, <1>4

\* Every step keeps HandleInv.
LEMMA HandleStep ==
  ASSUME HandleInv, ConnInv, [Next]_vars
  PROVE  HandleInv'
<1>0. ConnTypes /\ PeerInv /\ None \notin Client
  BY TransportAssumption DEF ConnInv
<1>1. CASE UNCHANGED <<server, conn.pc, stopper, running>>
  BY <1>1 DEF HandleInv, StopWasHere, server
<1>2. CASE Clients
  BY <1>1, <1>2 DEF Clients, Dial, BeginLine, FinishLine, Hangup, backend, flags
<1>3. CASE Connection
  <2>1. ASSUME NEW from, NEW to, conn.pc = from, conn'.pc = to, UNCHANGED <<server, stopper, running>>,
               from \notin {"top", "listen", "done"} /\ to \notin {"top", "listen", "done"},
               from # "accepted" \/ to = "close", from # "close"
        PROVE  HandleInv'
    BY <2>1 DEF HandleInv, StopWasHere, server
  <2>2. \A to : ConnGoto(to) => conn'.pc = to
    BY <1>0 DEF ConnGoto, ConnTypes
  <2>3. CASE ConnTop \/ Listen \/ ListenFails
    <3>1. /\ UNCHANGED <<missed, stopper, running>>
          /\ \/ /\ conn.pc = "top" /\ conn'.pc = (IF running THEN "listen" ELSE "done")
                /\ UNCHANGED <<handle, accepted>>
             \/ conn.pc = "listen" /\ conn'.pc = "accept" /\ handle' = TRUE /\ accepted' = None
             \/ /\ conn.pc = "listen" /\ conn'.pc = "top" /\ UNCHANGED <<handle, accepted>>
      BY <2>2, <2>3 DEF ConnTop, Listen, ListenFails, ConnMove, others, flags, net, server
    <3>2. QED
      BY <3>1 DEF HandleInv, StopWasHere
  <2>4. CASE \E c \in Client : Accept(c)
    BY <2>1, <2>4 DEF Accept, others, flags
  <2>5. CASE StoreClient
    <3>1. /\ UNCHANGED <<handle, stopper, running>> /\ conn.pc = "store"
          /\ conn'.pc \in {"accepted", "close"} /\ accepted' = conn.peer
          /\ missed' = IF StopWasHere THEN conn.peer ELSE missed
      BY <2>2, <2>5 DEF StoreClient, ConnMove, others, flags
    <3>2. StopWasHere => ~running
      BY <3>1 DEF HandleInv, StopWasHere
    <3>3. missed = None
      BY <3>1 DEF HandleInv
    <3>4. QED
      BY <3>1, <3>2, <3>3 DEF HandleInv, StopWasHere
  <2>6. CASE CloseServer
    <3>1. /\ UNCHANGED <<missed, stopper, running>> /\ conn.pc = "close" /\ conn'.pc = "top"
          /\ handle' = FALSE /\ accepted' = IF handle THEN None ELSE accepted
      BY <2>6 DEF CloseServer, close_server, others, flags
    <3>2. QED
      BY <3>1 DEF HandleInv, StopWasHere
  <2>7. CASE Accepted
    <3>1. /\ UNCHANGED <<server, stopper, running>> /\ conn.pc = "accepted"
          /\ conn'.pc = IF running THEN "verify" ELSE "close"
      BY <2>2, <2>7 DEF Accepted, ConnMove, others, flags, net
    <3>2. QED
      BY <3>1 DEF HandleInv, StopWasHere, server
  <2>8. CASE ReadBuffered \/ ReadPipe
    <3>1. /\ conn.pc = "read" /\ UNCHANGED <<server, stopper, running>> /\ \E b : TakeLine(b)
      BY <2>8 DEF ReadBuffered, ReadPipe, others, net
    <3>2. conn'.pc \in {"loop", "reply"}
      BY <1>0, <3>1 DEF TakeLine, ConnGoto, ConnTypes
    <3>3. QED
      BY <2>1, <3>1, <3>2
  <2>9. CASE \/ AcceptTimeout \/ Refuse \/ Admit \/ ResetSubscription \/ ReadLoop \/ ReadFails
             \/ Reply \/ Leave \/ LeaveSubscription \/ Drain
    <3>1. /\ conn.pc \in {"accept", "verify", "setup", "loop", "read", "reply", "leave",
                          "unsubscribe", "drain"}
          /\ UNCHANGED <<server, stopper, running>>
          /\ \E to \in {"close", "setup", "loop", "read", "leave", "unsubscribe", "drain"} :
               ConnGoto(to)
      BY <2>9 DEF AcceptTimeout, Refuse, Admit, ResetSubscription, ReadLoop, ReadFails, Reply,
         Leave, LeaveSubscription, Drain, ConnMove, others, flags, net
    <3>2. conn'.pc \in {"close", "setup", "loop", "read", "leave", "unsubscribe", "drain"}
      BY <2>2, <3>1
    <3>3. QED
      BY <2>1, <3>1, <3>2
  <2>10. QED
    BY <1>3, <2>3, <2>4, <2>5, <2>6, <2>7, <2>8, <2>9 DEF Connection
<1>4. CASE Writer \/ SpuriousWakeup
  BY <1>1, <1>4 DEF Writer, SpuriousWakeup, WriterMove, WriterTop, WriterWait, WriterBlock,
     WriterTake, WriterGate, pipe_write, others, flags, net
<1>5. CASE Pusher
  BY <1>1, <1>5 DEF Pusher, PushRead, PushWake, PushGate, PushLine, flags, net
<1>6. CASE \E t \in Caller : SendGate(t) \/ SendLine(t)
  BY <1>1, <1>6 DEF SendGate, SendLine, flags, net
<1>7. CASE StopFlag \/ StopNotify \/ StopJoin
  <2>1. /\ UNCHANGED <<server, conn>> /\ (stopper = "up" => running' = FALSE)
        /\ (stopper # "up" => running' = running)
        /\ stopper' \in {"notify", "close", "stopped"}
        /\ stopper \in {"up", "notify", "join"}
    BY <1>7 DEF StopFlag, StopNotify, StopJoin, flags, net
  <2>2. QED
    BY <2>1 DEF HandleInv, StopWasHere, server
<1>8. CASE StopClose
  <2>1. UNCHANGED <<running, conn, missed>> /\ stopper \in {"close", "close_listen", "close_handle"}
    BY <1>8 DEF StopClose, StopCloseClient, StopCloseListen, StopCloseHandle, StopMove, flags
  <2>2. CASE StopCloseClient
    BY <2>1, <2>2 DEF StopCloseClient, StopMove, HandleInv, StopWasHere
  <2>3. CASE StopCloseListen
    BY <2>1, <2>3 DEF StopCloseListen, StopMove, HandleInv, StopWasHere
  <2>4. CASE StopCloseHandle
    BY <2>1, <2>4 DEF StopCloseHandle, StopMove, HandleInv, StopWasHere
  <2>5. QED
    BY <1>8, <2>2, <2>3, <2>4 DEF StopClose
<1>9. CASE UNCHANGED vars
  BY <1>1, <1>9 DEF vars, flags
<1>10. QED
  BY <1>2, <1>3, <1>4, <1>5, <1>6, <1>7, <1>8, <1>9 DEF Next, Stop, Stopped

\* Both at the start.
LEMMA ConnInit == Init => HandleInv /\ ConnInv
<1> SUFFICES ASSUME Init PROVE HandleInv /\ ConnInv
  OBVIOUS
<1>0. HandleInv
  BY DEF Init, HandleInv, StopWasHere
<1> USE DEF Init
<1>1. ConnTypes
  <2>1. <<>> \in Seq(Piece) /\ <<>> \in Seq(Kind)
    OBVIOUS
  <2>2. QED
    BY <2>1 DEF ConnTypes
<1>2. PeerInv /\ LinkInv
  BY TransportAssumption DEF PeerInv, LinkInv, Idle
<1>3. ASSUME NEW c \in Client PROVE StreamOf(c)
  <2>1. Unread(c) = <<>> /\ LineOf(c) = 0 /\ Len(sent[c]) = 0
    BY DEF Unread, LineOf, Serving
  <2>2. Ordered(<<>>, 0, 0)
    BY DEF Ordered, Chain
  <2>3. QED
    BY <2>1, <2>2 DEF StreamOf
<1>4. QED
  BY <1>0, <1>1, <1>2, <1>3 DEF ConnInv, StreamInv
-----------------------------------------------------------------------------
(* The flags, the queue and the other threads.                             *)

FlagTypes == running \in BOOLEAN /\ connected \in BOOLEAN /\ subscribed \in BOOLEAN

\* A batch is never empty, so the writer may take its head.
QueueTypes ==
  /\ queue \in Seq(Line)
  /\ writer \in [pc: {"top", "lock", "blocking", "waiting", "gate", "write", "done"},
                 batch: Seq(Line)]
  /\ writer.pc \in {"gate", "write"} <=> writer.batch # <<>>

ThreadTypes ==
  /\ pusher \in [pc: {"top", "wait", "gate", "push", "done"},
                 subscribed: BOOLEAN,
                 to: Client \cup {None}]
  /\ caller \in [Caller -> [pc: {"idle", "push"}, to: Client \cup {None}]]
  /\ stopper \in {"up", "notify", "close", "close_listen", "close_handle", "join",
                "stopped"}
  /\ unsolicited \in 0..MaxUnsolicited

ReceivedTypes == received \in [Client -> Seq(Line)]

RestTypes == FlagTypes /\ QueueTypes /\ ThreadTypes /\ ReceivedTypes

\* The flags after read_line: dispatch may change the subscription, no more.
LEMMA FlagStep ==
  ASSUME FlagTypes, [Next]_vars
  PROVE  FlagTypes'
<1> USE DEF FlagTypes, flags
<1>1. CASE Clients
  BY <1>1 DEF Clients, Dial, BeginLine, FinishLine, Hangup, backend
<1>2. CASE Connection
  <2>1. CASE \/ ConnTop \/ Listen \/ ListenFails \/ (\E c \in Client : Accept(c)) \/ StoreClient
             \/ AcceptTimeout \/ CloseServer \/ Accepted \/ Refuse \/ Admit
             \/ ResetSubscription \/ ReadLoop \/ ReadFails \/ Reply \/ Leave
             \/ LeaveSubscription \/ Drain
    BY <2>1 DEF ConnTop, Listen, ListenFails, Accept, StoreClient, AcceptTimeout, CloseServer, Accepted,
                Refuse, Admit, ResetSubscription, ReadLoop, ReadFails, Reply, Leave,
                LeaveSubscription, Drain
  <2>2. CASE ReadBuffered \/ ReadPipe
    <3>1. running' = running /\ connected' = connected /\ \E b : TakeLine(b)
      BY <2>2 DEF ReadBuffered, ReadPipe
    <3>2. subscribed' = subscribed \/ \E k : dispatch(k)
      BY <3>1 DEF TakeLine
    <3>3. subscribed' \in BOOLEAN
      BY <3>2 DEF dispatch
    <3>4. QED
      BY <3>1, <3>3
  <2>3. QED
    BY <1>2, <2>1, <2>2 DEF Connection
<1>3. CASE Writer \/ SpuriousWakeup
  BY <1>3 DEF Writer, SpuriousWakeup, WriterMove, WriterTop, WriterWait, WriterBlock, WriterTake,
              WriterGate, pipe_write
<1>4. CASE Pusher
  BY <1>4 DEF Pusher, PushRead, PushWake, PushGate, PushLine
<1>5. CASE \E t \in Caller : SendGate(t) \/ SendLine(t)
  BY <1>5 DEF SendGate, SendLine
<1>6. CASE Stop
  BY <1>6 DEF Stop, StopFlag, StopNotify, StopClose, StopCloseClient, StopCloseListen,
     StopCloseHandle, StopMove, StopJoin
<1>7. CASE UNCHANGED vars
  BY <1>7 DEF vars
<1>8. QED
  BY <1>1, <1>2, <1>3, <1>4, <1>5, <1>6, <1>7 DEF Next, Stopped

\* A writer that wakes has a batch when it has something to write.
LEMMA WokenTyped ==
  ASSUME QueueTypes
  PROVE  /\ Woken \in [pc: {"top", "lock", "blocking", "waiting", "gate", "write", "done"},
                       batch: Seq(Line)]
         /\ Woken.pc \in {"gate", "write"} <=> Woken.batch # <<>>
<1>1. CASE writer.pc = "waiting"
  <2>1. Woken = [writer EXCEPT !.pc = "lock"]
    BY <1>1 DEF Woken
  <2>2. Woken.pc = "lock" /\ Woken.batch = writer.batch /\ writer.batch = <<>>
    BY <1>1, <2>1 DEF QueueTypes
  <2>3. Woken \in [pc: {"top", "lock", "blocking", "waiting", "gate", "write", "done"},
                   batch: Seq(Line)]
    BY <2>1 DEF QueueTypes
  <2>4. QED
    BY <2>2, <2>3
<1>2. CASE writer.pc # "waiting"
  BY <1>2 DEF Woken, QueueTypes
<1>3. QED
  BY <1>1, <1>2

\* A line put into the queue keeps the types,
LEMMA EnqueueTyped ==
  ASSUME QueueTypes, NEW l \in Line, Enqueue(l)
  PROVE  QueueTypes'
<1>1. Append(queue, l) \in Seq(Line)
  BY AppendProperties DEF QueueTypes
<1>2. queue' = Append(queue, l) /\ writer' = Woken
  BY DEF Enqueue
<1>3. QED
  BY <1>1, <1>2, WokenTyped DEF QueueTypes

\* Where the lines in the queue come from.
LEMMA LinesAreTyped ==
  ASSUME HandleInv, ConnInv, ThreadTypes
  PROVE  /\ conn.pc = "reply" => Answer(conn.peer, conn.line) \in Line
         /\ Unsolicited("metrics", pusher.to) \in Line
         /\ \A t \in Caller : Unsolicited("event", caller[t].to) \in Line
<1>1. conn.pc = "reply" => conn.peer \in Client /\ conn.line \in Nat \ {0}
  BY DEF ConnInv, ConnTypes, PeerInv, Idle
<1>2. pusher.to \in Client \cup {None} /\ \A t \in Caller : caller[t].to \in Client \cup {None}
  BY DEF ThreadTypes
<1>3. QED
  BY <1>1, <1>2 DEF Line, Answer, Unsolicited

\* and so do the writer's steps.
LEMMA WriterSteps ==
  ASSUME QueueTypes, ReceivedTypes, Writer \/ SpuriousWakeup, accepted \in Client \cup {None}
  PROVE  QueueTypes' /\ ReceivedTypes'
<1> DEFINE W == [pc: {"top", "lock", "blocking", "waiting", "gate", "write", "done"},
                 batch: Seq(Line)]
<1>1. CASE WriterTop \/ WriterWait \/ WriterBlock \/ SpuriousWakeup
  <2>1. \E to \in {"lock", "done", "blocking", "waiting"} :
          writer.pc \notin {"gate", "write"} /\ writer' = [writer EXCEPT !.pc = to]
    BY <1>1 DEF WriterTop, WriterWait, WriterBlock, SpuriousWakeup, WriterMove
  <2>2. writer' \in W /\ writer'.pc \notin {"gate", "write"} /\ writer'.batch = writer.batch
    BY <2>1 DEF QueueTypes
  <2>3. queue' = queue /\ received' = received
    BY <1>1 DEF WriterTop, WriterWait, WriterBlock, SpuriousWakeup, WriterMove, net, clients
  <2>4. QED
    BY <2>1, <2>2, <2>3 DEF QueueTypes, ReceivedTypes
<1>2. CASE WriterTake
  <2>1. /\ queue' = <<>> /\ received' = received
        /\ writer' = [pc |-> IF queue = <<>> THEN "done" ELSE "gate", batch |-> queue]
    BY <1>2 DEF WriterTake, net, clients
  <2>2. writer' \in W /\ writer'.batch = queue
    BY <2>1 DEF QueueTypes
  <2>3. writer'.pc = IF queue = <<>> THEN "done" ELSE "gate"
    BY <2>1
  <2>4. QED
    BY <2>1, <2>2, <2>3 DEF QueueTypes, ReceivedTypes
<1>3. CASE WriterGate
  <2>1. /\ queue' = queue /\ received' = received /\ writer.pc = "gate"
        /\ writer' = IF connected THEN [writer EXCEPT !.pc = "write"]
                     ELSE [pc |-> "top", batch |-> <<>>]
    BY <1>3 DEF WriterGate, net, clients
  <2>2. CASE connected
    <3>1. writer' \in W /\ writer'.pc = "write" /\ writer'.batch = writer.batch
      BY <2>1, <2>2 DEF QueueTypes
    <3>2. QED
      BY <2>1, <3>1 DEF QueueTypes, ReceivedTypes
  <2>3. CASE ~connected
    <3>1. writer' \in W /\ writer'.pc = "top" /\ writer'.batch = <<>>
      BY <2>1, <2>3
    <3>2. QED
      BY <2>1, <3>1 DEF QueueTypes, ReceivedTypes
  <2>4. QED
    BY <2>2, <2>3
<1>4. CASE pipe_write
  <2>0. ClientFd # None => ClientFd \in Client
    BY DEF ClientFd
  <2>1. queue' = queue /\ writer.pc = "write" /\ writer.batch \in Seq(Line) /\ writer.batch # <<>>
    BY <1>4 DEF pipe_write, QueueTypes
  <2>2. CASE ClientFd # None /\ alive[ClientFd]
    <3>1. /\ received' = [received EXCEPT ![ClientFd] = Append(@, Head(writer.batch))]
          /\ writer' = [pc |-> IF Len(writer.batch) = 1 THEN "top" ELSE "write",
                        batch |-> Tail(writer.batch)]
      BY <1>4, <2>2 DEF pipe_write
    <3>2. /\ Head(writer.batch) \in Line /\ Tail(writer.batch) \in Seq(Line)
          /\ Len(Tail(writer.batch)) = Len(writer.batch) - 1 /\ Len(writer.batch) \in Nat
      BY <2>1, HeadTailProperties, LenProperties
    <3>3. Append(received[ClientFd], Head(writer.batch)) \in Seq(Line)
      BY <2>0, <2>2, <3>2, AppendProperties DEF ReceivedTypes
    <3>4. ReceivedTypes'
      BY <2>0, <2>2, <3>1, <3>3 DEF ReceivedTypes
    <3>5. Tail(writer.batch) = <<>> <=> Len(Tail(writer.batch)) = 0
      BY <3>2, EmptySeq
    <3>6. Len(Tail(writer.batch)) = 0 <=> Len(writer.batch) = 1
      BY <3>2
    <3>7. writer' \in W /\ writer'.batch = Tail(writer.batch)
          /\ writer'.pc = IF Len(writer.batch) = 1 THEN "top" ELSE "write"
      BY <3>1, <3>2
    <3>8. QED
      BY <2>1, <3>4, <3>5, <3>6, <3>7 DEF QueueTypes
  <2>3. CASE ~(ClientFd # None /\ alive[ClientFd])
    <3>1. writer' = [pc |-> "top", batch |-> <<>>] /\ received' = received
      BY <1>4, <2>3 DEF pipe_write
    <3>2. writer' \in W /\ writer'.pc = "top" /\ writer'.batch = <<>>
      BY <3>1
    <3>3. QED
      BY <2>1, <3>1, <3>2 DEF QueueTypes, ReceivedTypes
  <2>4. QED
    BY <2>2, <2>3
<1>5. QED
  BY <1>1, <1>2, <1>3, <1>4 DEF Writer

\* The steps of the other threads leave the queue as it is, empty it, put one line
\* in it, or only wake the writer.
LEMMA QueueSteps ==
  ASSUME HandleInv, ConnInv, ThreadTypes, [Next]_vars, ~(Writer \/ SpuriousWakeup)
  PROVE  /\ received' = received
         /\ \/ queue' = queue /\ writer' = writer
            \/ queue' = queue /\ writer' = Woken
            \/ queue' = <<>> /\ writer' = writer /\ Drain
            \/ Enqueue(Answer(conn.peer, conn.line)) /\ Reply
            \/ \E l \in Line : Enqueue(l) /\ l.kind # "answer" /\ conn' = conn
<1> USE DEF net, clients
<1>1. CASE Clients
  BY <1>1 DEF Clients, Dial, BeginLine, FinishLine, Hangup, backend
<1>2. CASE Connection
  <2>1. CASE \/ ConnTop \/ Listen \/ ListenFails \/ (\E c \in Client : Accept(c)) \/ StoreClient
             \/ AcceptTimeout \/ Accepted \/ Refuse \/ Admit
             \/ ResetSubscription \/ ReadLoop \/ ReadBuffered \/ ReadPipe \/ ReadFails
             \/ Leave \/ LeaveSubscription
    BY <2>1 DEF ConnTop, Listen, ListenFails, Accept, StoreClient, AcceptTimeout, Accepted,
                Refuse, Admit, ResetSubscription, ReadLoop, ReadBuffered, ReadPipe, ReadFails,
                Leave, LeaveSubscription
  <2>2. CASE CloseServer
    BY <2>2 DEF CloseServer, close_server, CloseLinks
  <2>3. CASE Reply
    BY <2>3 DEF Reply
  <2>4. CASE Drain
    BY <2>4 DEF Drain
  <2>5. QED
    BY <1>2, <2>1, <2>2, <2>3, <2>4 DEF Connection
<1>3. CASE Pusher
  <2>1. CASE PushRead \/ PushWake \/ PushGate
    BY <2>1 DEF PushRead, PushWake, PushGate
  <2>2. CASE PushLine
    <3>1. Unsolicited("metrics", pusher.to) \in Line
      BY LinesAreTyped
    <3>2. /\ Enqueue(Unsolicited("metrics", pusher.to)) /\ conn' = conn /\ received' = received
          /\ Unsolicited("metrics", pusher.to).kind # "answer"
      BY <2>2 DEF PushLine, Unsolicited
    <3>3. QED
      BY <3>1, <3>2
  <2>3. QED
    BY <1>3, <2>1, <2>2 DEF Pusher
<1>4. CASE \E t \in Caller : SendGate(t) \/ SendLine(t)
  <2>1. PICK t \in Caller : SendGate(t) \/ SendLine(t)
    BY <1>4
  <2>2. CASE SendGate(t)
    BY <2>2 DEF SendGate
  <2>3. CASE SendLine(t)
    <3>1. Unsolicited("event", caller[t].to) \in Line
      BY LinesAreTyped
    <3>2. /\ Enqueue(Unsolicited("event", caller[t].to)) /\ conn' = conn /\ received' = received
          /\ Unsolicited("event", caller[t].to).kind # "answer"
      BY <2>3 DEF SendLine, Unsolicited
    <3>3. QED
      BY <3>1, <3>2
  <2>4. QED
    BY <2>1, <2>2, <2>3
<1>5. CASE Stop
  BY <1>5 DEF Stop, StopFlag, StopNotify, StopClose, StopCloseClient, StopCloseListen,
     StopCloseHandle, StopMove, StopJoin, close_server, CloseLinks
<1>6. CASE UNCHANGED vars
  BY <1>6 DEF vars
<1>7. QED
  BY <1>1, <1>2, <1>3, <1>4, <1>5, <1>6 DEF Next, Stopped

\* Every step keeps the types of the threads,
LEMMA ThreadStep ==
  ASSUME ThreadTypes, FlagTypes, accepted \in Client \cup {None}, [Next]_vars
  PROVE  ThreadTypes'
<1>1. CASE Clients
  BY <1>1 DEF Clients, Dial, BeginLine, FinishLine, Hangup, backend, ThreadTypes
<1>2. CASE Connection
  BY <1>2 DEF Connection, ConnMove, others, ConnTop, Listen, ListenFails, Accept, StoreClient, AcceptTimeout,
              CloseServer, Accepted, Refuse, Admit, ResetSubscription, ReadLoop, ReadBuffered,
              ReadPipe, ReadFails, Reply, Leave, LeaveSubscription, Drain, ThreadTypes
<1>3. CASE Writer \/ SpuriousWakeup
  BY <1>3 DEF Writer, SpuriousWakeup, WriterMove, WriterTop, WriterWait, WriterBlock, WriterTake,
              WriterGate, pipe_write, others, ThreadTypes
<1>4. CASE Pusher
  <2>1. caller' = caller /\ stopper' = stopper
    BY <1>4 DEF Pusher, PushRead, PushWake, PushGate, PushLine
  <2>2. unsolicited' \in 0..MaxUnsolicited
    BY <1>4, TransportAssumption DEF Pusher, PushRead, PushWake, PushGate, PushLine, ThreadTypes
  <2>3. pusher' \in [pc: {"top", "wait", "gate", "push", "done"}, subscribed: BOOLEAN,
                     to: Client \cup {None}]
    <3>1. CASE PushRead
      <4>1. \E pc \in {"wait", "done"} :
              pusher' = [pusher EXCEPT !.pc = pc, !.subscribed = subscribed]
        BY <3>1 DEF PushRead
      <4>2. QED
        BY <4>1 DEF ThreadTypes, FlagTypes
    <3>2. CASE PushWake
      <4>1. \E pc \in {"gate", "done"} : pusher' = [pusher EXCEPT !.pc = pc]
        BY <3>2 DEF PushWake
      <4>2. QED
        BY <4>1 DEF ThreadTypes
    <3>3. CASE PushGate
      <4>1. \/ pusher' = [pusher EXCEPT !.pc = "push", !.to = accepted]
            \/ pusher' = [pusher EXCEPT !.pc = "top"]
        BY <3>3 DEF PushGate
      <4>2. QED
        BY <4>1 DEF ThreadTypes
    <3>4. CASE PushLine
      <4>1. pusher' = [pusher EXCEPT !.pc = "top", !.to = None]
        BY <3>4 DEF PushLine
      <4>2. QED
        BY <4>1 DEF ThreadTypes
    <3>5. QED
      BY <1>4, <3>1, <3>2, <3>3, <3>4 DEF Pusher
  <2>4. QED
    BY <2>1, <2>2, <2>3 DEF ThreadTypes
<1>5. CASE \E t \in Caller : SendGate(t) \/ SendLine(t)
  <2>1. PICK t \in Caller : SendGate(t) \/ SendLine(t)
    BY <1>5
  <2>2. pusher' = pusher /\ stopper' = stopper
    BY <2>1 DEF SendGate, SendLine
  <2>3. unsolicited' \in 0..MaxUnsolicited
    BY <2>1, TransportAssumption DEF SendGate, SendLine, ThreadTypes
  <2>4. caller' \in [Caller -> [pc: {"idle", "push"}, to: Client \cup {None}]]
    BY <2>1 DEF SendGate, SendLine, ThreadTypes
  <2>5. QED
    BY <2>2, <2>3, <2>4 DEF ThreadTypes
<1>6. CASE Stop
  BY <1>6 DEF Stop, StopFlag, StopNotify, StopClose, StopCloseClient, StopCloseListen,
     StopCloseHandle, StopMove, StopJoin, ThreadTypes
<1>7. CASE UNCHANGED vars
  BY <1>7 DEF vars, ThreadTypes
<1>8. QED
  BY <1>1, <1>2, <1>3, <1>4, <1>5, <1>6, <1>7 DEF Next, Stopped
-----------------------------------------------------------------------------
(* The answers in the queue, and the subscription.                         *)

\* A step that leaves the served part of the loop is Drain.
LEMMA StillServing ==
  ASSUME HandleInv, ConnInv, [Next]_vars, ~Drain, NEW c \in Client, Serving(c)
  PROVE  Serving(c)'
<1>1. conn.pc \in Served /\ conn.peer = c
  BY DEF Serving, Served
<1>2. CASE Connection
  <2>1. CASE ReadBuffered \/ ReadPipe
    <3>1. \E b : TakeLine(b)
      BY <2>1 DEF ReadBuffered, ReadPipe
    <3>2. conn'.peer = c /\ conn'.pc \in Served
      BY <1>1, <3>1 DEF TakeLine, ConnGoto, ConnInv, ConnTypes, Served
    <3>3. QED
      BY <3>2 DEF Serving, Served
  <2>2. CASE ResetSubscription \/ ReadLoop \/ ReadFails \/ Reply \/ Leave \/ LeaveSubscription
    <3>1. \E to \in Served : conn' = [conn EXCEPT !.pc = to]
      BY <2>2 DEF ResetSubscription, ReadLoop, ReadFails, Reply, Leave, LeaveSubscription,
                  ConnMove, ConnGoto, Served
    <3>2. conn'.peer = c /\ conn'.pc \in Served
      BY <1>1, <3>1 DEF ConnInv, ConnTypes
    <3>3. QED
      BY <3>2 DEF Serving, Served
  <2>3. QED
    BY <1>1, <1>2, <2>1, <2>2 DEF Connection, ConnTop, Listen, ListenFails, Accept, StoreClient, AcceptTimeout,
       CloseServer, Accepted, Refuse, Admit, ConnMove, Served
<1>3. CASE ~Connection
  <2>1. conn' = conn
    <3>1. CASE Clients
      BY <3>1 DEF Clients, Dial, BeginLine, FinishLine, Hangup, backend
    <3>2. CASE StopClose
      BY <3>2 DEF StopClose, StopCloseClient, StopCloseListen,
     StopCloseHandle, StopMove
    <3>3. QED
      BY <1>3, <3>1, <3>2, CoreSteps DEF core
  <2>2. QED
    BY <2>1 DEF Serving
<1>4. QED
  BY <1>2, <1>3

\* of the queue and of what the clients have received.
LEMMA QueueStep ==
  ASSUME HandleInv, ConnInv, QueueTypes, ThreadTypes, ReceivedTypes, [Next]_vars
  PROVE  QueueTypes' /\ ReceivedTypes'
<1>1. CASE Writer \/ SpuriousWakeup
  BY <1>1, WriterSteps DEF ConnInv, ConnTypes
<1>2. CASE ~(Writer \/ SpuriousWakeup)
  <2>1. /\ received' = received
        /\ \/ queue' = queue /\ writer' = writer
           \/ queue' = queue /\ writer' = Woken
           \/ queue' = <<>> /\ writer' = writer /\ Drain
           \/ Enqueue(Answer(conn.peer, conn.line)) /\ Reply
           \/ \E l \in Line : Enqueue(l) /\ l.kind # "answer" /\ conn' = conn
    BY <1>2, QueueSteps
  <2>2. ReceivedTypes'
    BY <2>1 DEF ReceivedTypes
  <2>3. CASE queue' = queue /\ writer' = writer
    BY <2>2, <2>3 DEF QueueTypes
  <2>4. CASE queue' = queue /\ writer' = Woken
    BY <2>2, <2>4, WokenTyped DEF QueueTypes
  <2>5. CASE queue' = <<>> /\ writer' = writer
    BY <2>2, <2>5 DEF QueueTypes
  <2>6. CASE Enqueue(Answer(conn.peer, conn.line)) /\ Reply
    <3>1. Answer(conn.peer, conn.line) \in Line
      BY <2>6, LinesAreTyped DEF Reply, ConnMove
    <3>2. QED
      BY <2>2, <2>6, <3>1, EnqueueTyped
  <2>7. CASE \E l \in Line : Enqueue(l)
    BY <2>2, <2>7, EnqueueTyped
  <2>8. QED
    BY <2>1, <2>3, <2>4, <2>5, <2>6, <2>7
<1>3. QED
  BY <1>1, <1>2

\* Every step keeps the answers in the queue those of the client being served.
LEMMA CurrentAnswersStep ==
  ASSUME HandleInv, ConnInv, QueueTypes, ThreadTypes, QueuedAnswersCurrent, [Next]_vars
  PROVE  QueuedAnswersCurrent'
<1>1. ASSUME ~Drain, NEW i \in 1..Len(queue), queue[i].kind = "answer"
      PROVE  conn'.peer = queue[i].to /\ conn'.pc \in Served
  <2>1. queue[i] \in Line
    BY ElementOfSeq DEF QueueTypes
  <2>2. queue[i].to \in Client /\ Serving(queue[i].to)
    BY <1>1, <2>1 DEF QueuedAnswersCurrent, Line
  <2>3. PICK c \in Client : c = queue[i].to
    BY <2>2
  <2>4. Serving(c)'
    BY <1>1, <2>2, <2>3, StillServing
  <2>5. QED
    BY <2>3, <2>4 DEF Serving, Served
<1>2. CASE queue' = <<>>
  BY <1>2 DEF QueuedAnswersCurrent
<1>3. CASE queue' = queue /\ ~Drain
  BY <1>1, <1>3 DEF QueuedAnswersCurrent, Serving, Served
<1>4. ASSUME NEW l \in Line, Enqueue(l), ~Drain,
             l.kind = "answer" => conn'.peer = l.to /\ conn'.pc \in Served
      PROVE  QueuedAnswersCurrent'
  <2>1. /\ Len(queue) \in Nat /\ Len(queue') = Len(queue) + 1 /\ queue'[Len(queue) + 1] = l
        /\ \A i \in 1..Len(queue) : queue'[i] = queue[i]
    BY <1>4, AppendProperties, LenProperties DEF QueueTypes, Enqueue
  <2>2. ASSUME NEW i \in 1..Len(queue'), queue'[i].kind = "answer"
        PROVE  conn'.peer = queue'[i].to /\ conn'.pc \in Served
    <3>1. CASE i = Len(queue) + 1
      BY <1>4, <2>1, <2>2, <3>1
    <3>2. CASE i # Len(queue) + 1
      <4>1. i \in 1..Len(queue) /\ queue'[i] = queue[i]
        BY <2>1, <3>2
      <4>2. QED
        BY <1>1, <1>4, <2>2, <4>1
    <3>3. QED
      BY <3>1, <3>2
  <2>3. QED
    BY <2>2 DEF QueuedAnswersCurrent, Serving, Served
<1>5. CASE Reply
  <2>1. conn.pc = "reply" /\ conn'.peer = conn.peer /\ conn'.pc = "loop" /\ ~Drain
    BY <1>5 DEF Reply, Drain, ConnMove, ConnGoto, ConnInv, ConnTypes
  <2>2. /\ Answer(conn.peer, conn.line) \in Line /\ Answer(conn.peer, conn.line).to = conn.peer
        /\ Enqueue(Answer(conn.peer, conn.line))
    BY <1>5, <2>1, LinesAreTyped DEF Answer, Reply
  <2>3. QED
    BY <1>4, <2>1, <2>2 DEF Served
<1>6. CASE Writer \/ SpuriousWakeup
  <2>1. conn' = conn /\ (queue' = queue \/ queue' = <<>>)
    BY <1>6 DEF Writer, SpuriousWakeup, WriterMove, WriterTop, WriterWait, WriterBlock, WriterTake,
                WriterGate, pipe_write
  <2>2. ~Drain
    BY <2>1 DEF Drain, ConnMove, ConnGoto, ConnInv, ConnTypes
  <2>3. QED
    BY <1>2, <1>3, <2>1, <2>2
<1>7. CASE ~(Writer \/ SpuriousWakeup) /\ ~Reply
  <2>1. \/ queue' = queue \/ queue' = <<>>
        \/ \E l \in Line : Enqueue(l) /\ l.kind # "answer" /\ conn' = conn
    BY <1>7, QueueSteps
  <2>2. queue' = queue => ~Drain \/ queue' = <<>>
    BY DEF Drain
  <2>3. conn' = conn => ~Drain
    BY DEF Drain, ConnMove, ConnGoto, ConnInv, ConnTypes
  <2>4. QED
    BY <1>2, <1>3, <1>4, <2>1, <2>2, <2>3
<1>8. QED
  BY <1>5, <1>6, <1>7

\* The subscription belongs to the client of the connection, and to the commands
\* of it that were dispatched so far.
SubscriptionInv ==
  subscribed => /\ conn.pc \in {"loop", "read", "reply", "leave", "unsubscribe"}
                /\ \E c \in Client : conn.peer = c /\ Wants(c)

\* A client's choice stands while lines are only added behind the one dispatched.
LEMMA ChoiceStands ==
  ASSUME HandleInv, ConnInv, [Next]_vars, NEW c \in Client, Serving(c), Wants(c), conn' = conn
  PROVE  Wants(c)'
<1>1. sent[c] \in Seq(Kind) /\ Len(sent[c]) \in Nat /\ conn.line \in Nat
  BY LenProperties DEF ConnInv, ConnTypes
<1>2. conn.line <= Len(sent[c])
  BY DEF ConnInv, StreamInv, StreamOf, Serving, LineOf, Ordered
<1>3. \A i \in 1..conn.line : sent'[c][i] = sent[c][i]
  <2>1. CASE Clients
    <3>1. PICK d \in Client : \/ Dial(d) \/ (\E k \in Offered : BeginLine(d, k))
                              \/ FinishLine(d) \/ Hangup(d)
      BY <2>1 DEF Clients
    <3>2. CASE Dial(d) \/ FinishLine(d) \/ Hangup(d)
      BY <3>2 DEF Dial, FinishLine, Hangup
    <3>3. CASE \E k \in Offered : BeginLine(d, k)
      <4>1. PICK k \in Kind : BeginLine(d, k)
        BY <3>3, TransportAssumption
      <4>2. sent'[c] = IF d = c THEN Append(sent[c], k) ELSE sent[c]
        BY <4>1 DEF BeginLine, ConnInv, ConnTypes
      <4>3. \A i \in 1..Len(sent[c]) : Append(sent[c], k)[i] = sent[c][i]
        BY <1>1, AppendProperties
      <4>4. QED
        BY <1>1, <1>2, <4>2, <4>3
    <3>4. QED
      BY <3>1, <3>2, <3>3
  <2>2. CASE Connection
    BY <2>2 DEF Connection, ConnMove, ConnTop, Listen, ListenFails, Accept, StoreClient, AcceptTimeout,
       CloseServer, close_server, CloseLinks, Accepted, Refuse, Admit, ResetSubscription, ReadLoop,
       ReadBuffered, ReadPipe, ReadFails, Reply, Leave, LeaveSubscription, Drain, net, clients
  <2>3. CASE StopClose
    BY <2>3 DEF StopClose, StopCloseClient, StopCloseListen,
     StopCloseHandle, StopMove, clients, CloseLinks
  <2>4. CASE ~Clients /\ ~Connection /\ ~StopClose
    BY <2>4, CoreSteps DEF core
  <2>5. QED
    BY <2>1, <2>2, <2>3, <2>4
<1>4. QED
  BY <1>3 DEF Wants

\* Every step keeps SubscriptionInv.
LEMMA SubscriptionStep ==
  ASSUME HandleInv, ConnInv, FlagTypes, SubscriptionInv, [Next]_vars
  PROVE  SubscriptionInv'
<1>1. SUFFICES ASSUME subscribed' = TRUE PROVE SubscriptionInv'
  BY DEF SubscriptionInv
<1>2. CASE conn' = conn /\ subscribed' = subscribed
  <2>1. PICK c \in Client : conn.peer = c /\ Wants(c) /\ Serving(c)
    BY <1>1, <1>2 DEF SubscriptionInv, Serving
  <2>2. Wants(c)'
    BY <1>2, <2>1, ChoiceStands
  <2>3. QED
    BY <1>1, <1>2, <2>1, <2>2 DEF SubscriptionInv
<1>3. CASE ReadBuffered \/ ReadPipe
  <2>1. /\ ConnInv' /\ sent' = sent
        /\ conn'.pc = "reply" => conn'.line = conn.line + 1 /\ conn'.line <= Len(sent[conn.peer])
    BY <1>3, ReadSteps DEF ReadBuffered, ReadPipe, net, clients
  <2>2. PICK c \in Client : conn.peer = c /\ conn.pc = "read"
    BY <1>3 DEF ReadBuffered, ReadPipe, ConnInv, PeerInv, Idle
  <2>3. /\ conn'.peer = c
        /\ \/ conn'.pc = "loop" /\ conn'.line = conn.line /\ subscribed' = subscribed
           \/ conn'.pc = "reply" /\ dispatch(sent[c][conn'.line])
    <3>1. PICK b : TakeLine(b)
      BY <1>3 DEF ReadBuffered, ReadPipe
    <3>2. QED
      BY <2>2, <3>1 DEF TakeLine, ConnGoto, ConnInv, ConnTypes
  <2>4. subscribed => Wants(c)
    BY <2>2 DEF SubscriptionInv
  <2>5. CASE conn'.pc = "loop"
    <3>1. Wants(c)'
      BY <1>1, <2>1, <2>3, <2>4, <2>5 DEF Wants
    <3>2. QED
      BY <2>3, <2>5, <3>1 DEF SubscriptionInv
  <2>6. CASE conn'.pc = "reply"
    <3>1. conn.line \in Nat /\ conn'.line = conn.line + 1 /\ conn'.line \in 1..Len(sent[c])
      <4>1. sent[c] \in Seq(Kind) /\ Len(sent[c]) \in Nat /\ conn.line \in Nat
        BY LenProperties DEF ConnInv, ConnTypes
      <4>2. QED
        BY <2>1, <2>2, <2>6, <4>1
    <3>2. PICK k \in Kind : sent[c][conn'.line] = k /\ dispatch(k)
      BY <2>3, <2>6, <3>1, ElementOfSeq DEF ConnInv, ConnTypes
    <3> DEFINE choices == {i \in 1..conn.line : sent[c][i] \in {"subscribe", "unsubscribe"}}
               after == {i \in 1..(conn.line + 1) : sent[c][i] \in {"subscribe", "unsubscribe"}}
    <3>3. Wants(c)' <=> \E i \in after : sent[c][i] = "subscribe" /\ \A j \in after : j <= i
      BY <2>1, <3>1 DEF Wants
    <3>4. Wants(c) <=> \E i \in choices : sent[c][i] = "subscribe" /\ \A j \in choices : j <= i
      BY DEF Wants
    <3>5. CASE k = "subscribe"
      <4>1. conn.line + 1 \in after /\ sent[c][conn.line + 1] = "subscribe"
            /\ \A j \in after : j <= conn.line + 1
        BY <3>1, <3>2, <3>5
      <4>2. Wants(c)'
        BY <3>3, <4>1
      <4>3. QED
        BY <2>3, <2>6, <4>2 DEF SubscriptionInv
    <3>6. CASE k = "unsubscribe"
      BY <1>1, <3>2, <3>6 DEF dispatch
    <3>7. CASE k = "other"
      <4>1. after = choices
        BY <3>1, <3>2, <3>7
      <4>2. subscribed
        BY <1>1, <3>2, <3>7 DEF dispatch
      <4>3. Wants(c)'
        BY <2>4, <3>3, <3>4, <4>1, <4>2
      <4>4. QED
        BY <2>3, <2>6, <4>3 DEF SubscriptionInv
    <3>8. QED
      BY <3>2, <3>5, <3>6, <3>7 DEF Kind
  <2>7. QED
    BY <2>3, <2>5, <2>6
<1>4. CASE ReadLoop \/ ReadFails \/ Reply \/ Leave
  <2>1. /\ subscribed' = subscribed /\ sent' = sent
        /\ \E to \in {"loop", "read", "leave", "unsubscribe"} : conn' = [conn EXCEPT !.pc = to]
    BY <1>4 DEF ReadLoop, ReadFails, Reply, Leave, ConnMove, ConnGoto, net, clients, flags
  <2>2. /\ conn'.pc \in {"loop", "read", "leave", "unsubscribe"}
        /\ conn'.peer = conn.peer /\ conn'.line = conn.line
    BY <2>1 DEF ConnInv, ConnTypes
  <2>3. PICK c \in Client : conn.peer = c /\ Wants(c)
    BY <1>1, <2>1 DEF SubscriptionInv
  <2>4. Wants(c)'
    BY <2>1, <2>2, <2>3 DEF Wants
  <2>5. QED
    BY <2>2, <2>3, <2>4 DEF SubscriptionInv
<1>5. CASE ResetSubscription \/ LeaveSubscription
  BY <1>1, <1>5 DEF ResetSubscription, LeaveSubscription
<1>6. CASE \/ ConnTop \/ Listen \/ ListenFails \/ (\E c \in Client : Accept(c)) \/ StoreClient
           \/ AcceptTimeout \/ CloseServer \/ Accepted \/ Refuse \/ Admit \/ Drain
  <2>1. subscribed' = subscribed /\ conn.pc \notin {"loop", "read", "reply", "leave", "unsubscribe"}
    BY <1>6 DEF ConnTop, Listen, ListenFails, Accept, StoreClient, AcceptTimeout, CloseServer, Accepted, Refuse,
       Admit, Drain, ConnMove, flags
  <2>2. QED
    BY <1>1, <2>1 DEF SubscriptionInv
<1>7. CASE ~Connection
  <2>1. conn' = conn
    <3>1. CASE Clients
      BY <3>1 DEF Clients, Dial, BeginLine, FinishLine, Hangup, backend
    <3>2. CASE StopClose
      BY <3>2 DEF StopClose, StopCloseClient, StopCloseListen,
     StopCloseHandle, StopMove
    <3>3. QED
      BY <1>7, <3>1, <3>2, CoreSteps DEF core
  <2>2. subscribed' = subscribed
    <3> USE DEF flags
    <3>1. CASE Clients
      BY <3>1 DEF Clients, Dial, BeginLine, FinishLine, Hangup, backend
    <3>2. CASE Writer \/ SpuriousWakeup
      BY <3>2 DEF Writer, SpuriousWakeup, WriterMove, WriterTop, WriterWait, WriterBlock,
                  WriterTake, WriterGate, pipe_write
    <3>3. CASE Pusher
      BY <3>3 DEF Pusher, PushRead, PushWake, PushGate, PushLine
    <3>4. CASE \E t \in Caller : SendGate(t) \/ SendLine(t)
      BY <3>4 DEF SendGate, SendLine
    <3>5. CASE Stop
      BY <3>5 DEF Stop, StopFlag, StopNotify, StopClose, StopCloseClient, StopCloseListen,
     StopCloseHandle, StopMove, StopJoin
    <3>6. CASE UNCHANGED vars
      BY <3>6 DEF vars
    <3>7. QED
      BY <1>7, <3>1, <3>2, <3>3, <3>4, <3>5, <3>6 DEF Next, Stopped
  <2>3. QED
    BY <1>2, <2>1, <2>2
<1>8. QED
  BY <1>3, <1>4, <1>5, <1>6, <1>7 DEF Connection
-----------------------------------------------------------------------------
(* The answers on their way: received, in the batch, in the queue.         *)

\* The answers to client c in a sequence of lines, by their places.
Mine(s, c) == {i \in 1..Len(s) : s[i].kind = "answer" /\ s[i].to = c}

\* They are those to its lines after a, up to b, in order.
Run(s, c, a, b) ==
  /\ a <= b
  /\ \A i \in Mine(s, c) : s[i].line \in a + 1 .. b
  /\ \A i, j \in Mine(s, c) : i < j => s[i].line < s[j].line
  /\ \A n \in a + 1 .. b : \E i \in Mine(s, c) : s[i].line = n

\* Nothing of client c was read yet.
Fresh(c) ==
  \/ link[c] \in {"off", "waiting"}
  \/ conn.peer = c /\ conn.pc \in {"store", "accepted", "verify"}

\* What is written reaches client c.
Open(c) == ClientFd = c /\ alive[c]

\* The lines of the client being served whose answers were put into the queue.
Replied == IF conn.pc = "reply" THEN conn.line - 1 ELSE conn.line

\* What client c has received up to line r, what is in the batch up to line b, and what
\* is in the queue are the answers to its lines so far, one after the other, for as
\* long as they can reach it: the batch when the writer is past its gate or may pass
\* it, the queue when it may.
Flows(c, r, b) ==
  /\ Run(received[c], c, 0, r) /\ r <= b
  /\ Fresh(c) => b = 0 /\ Run(writer.batch, c, 0, 0) /\ Run(queue, c, 0, 0)
  /\ Open(c) /\ (connected \/ writer.pc = "write") => Run(writer.batch, c, r, b)
  /\ Open(c) /\ connected => Run(queue, c, b, Replied)

FlowOf(c) == \E r, b \in 0 .. WholeLines(c) : Flows(c, r, b)

\* client_connected_ is set from the admission of a client to its cleanup, and the
\* descriptor of the server is that of a connection that is up.
SessionInv ==
  /\ connected => conn.pc \in {"setup", "loop", "read", "reply", "leave"}
  /\ accepted # None => link[accepted] = "up"

FlowInv == SessionInv /\ \A c \in Client : FlowOf(c)

\* No line, no answer.
LEMMA RunNone ==
  ASSUME NEW c, NEW a \in Nat, NEW b \in Nat
  PROVE  Run(<<>>, c, a, b) <=> a = b
<1>1. Mine(<<>>, c) = {}
  BY DEF Mine
<1>2. a < b => a + 1 \in a + 1 .. b
  OBVIOUS
<1>3. QED
  BY <1>1, <1>2 DEF Run

\* The next answer is put behind the others,
LEMMA RunOwn ==
  ASSUME NEW c \in Client, NEW s \in Seq(Line), NEW a \in Nat, NEW b \in Nat, Run(s, c, a, b),
         NEW l \in Line, l.kind = "answer", l.to = c, l.line = b + 1
  PROVE  Run(Append(s, l), c, a, b + 1)
<1> DEFINE t == Append(s, l)
           k == Len(s) + 1
<1>1. /\ Len(s) \in Nat /\ Len(t) = k /\ t[k] = l /\ \A i \in 1..Len(s) : t[i] = s[i]
  BY AppendProperties, LenProperties
<1> HIDE DEF t
<1>2. \A i \in Mine(t, c) : i = k \/ (i \in Mine(s, c) /\ t[i] = s[i] /\ i < k)
  BY <1>1 DEF Mine
<1>3. k \in Mine(t, c) /\ \A i \in Mine(s, c) : i \in Mine(t, c) /\ t[i] = s[i]
  BY <1>1 DEF Mine
<1>4. \A i \in Mine(s, c) : s[i].line \in a + 1 .. b
  BY DEF Run
<1>5. \A i \in Mine(t, c) : t[i].line \in a + 1 .. b + 1
  BY <1>1, <1>2, <1>4 DEF Run
<1>6. ASSUME NEW i \in Mine(t, c), NEW j \in Mine(t, c), i < j
      PROVE  t[i].line < t[j].line
  <2>1. i \in Mine(s, c) /\ t[i] = s[i] /\ i < k
    BY <1>1, <1>2, <1>6 DEF Mine
  <2>2. CASE j = k
    BY <1>1, <1>4, <2>1, <2>2
  <2>3. CASE j # k
    BY <1>2, <1>6, <2>1, <2>3 DEF Run
  <2>4. QED
    BY <2>2, <2>3
<1>7. ASSUME NEW n \in a + 1 .. b + 1
      PROVE  \E i \in Mine(t, c) : t[i].line = n
  <2>1. CASE n = b + 1
    BY <1>1, <1>3, <2>1
  <2>2. CASE n # b + 1
    <3>1. n \in a + 1 .. b
      BY <2>2
    <3>2. PICK i \in Mine(s, c) : s[i].line = n
      BY <3>1 DEF Run
    <3>3. QED
      BY <1>3, <3>2
  <2>3. QED
    BY <2>1, <2>2
<1>8. a <= b + 1
  BY DEF Run
<1>9. Run(t, c, a, b + 1)
  BY <1>5, <1>6, <1>7, <1>8 DEF Run
<1>10. QED
  BY <1>9 DEF t

\* or a line that is none.
LEMMA RunOther ==
  ASSUME NEW c \in Client, NEW s \in Seq(Line), NEW a \in Nat, NEW b \in Nat, Run(s, c, a, b),
         NEW l \in Line, l.kind = "answer" => l.to # c
  PROVE  Run(Append(s, l), c, a, b)
<1> DEFINE t == Append(s, l)
<1>1. /\ Len(s) \in Nat /\ Len(t) = Len(s) + 1 /\ t[Len(s) + 1] = l
      /\ \A i \in 1..Len(s) : t[i] = s[i]
  BY AppendProperties, LenProperties
<1> HIDE DEF t
<1>2. Mine(t, c) = Mine(s, c)
  BY <1>1 DEF Mine
<1>3. \A i \in Mine(s, c) : t[i] = s[i]
  BY <1>1 DEF Mine
<1>4. Run(t, c, a, b)
  BY <1>2, <1>3 DEF Run
<1>5. QED
  BY <1>4 DEF t

\* The first line is taken off: the next answer,
LEMMA RunTail ==
  ASSUME NEW c \in Client, NEW s \in Seq(Line), s # <<>>, NEW a \in Nat, NEW b \in Nat,
         Run(s, c, a, b)
  PROVE  /\ Head(s) \in Line
         /\ Head(s).kind = "answer" /\ Head(s).to = c =>
              Head(s).line = a + 1 /\ a + 1 <= b /\ Run(Tail(s), c, a + 1, b)
         /\ ~(Head(s).kind = "answer" /\ Head(s).to = c) => Run(Tail(s), c, a, b)
<1> DEFINE t == Tail(s)
<1>1. /\ Len(s) \in Nat \ {0} /\ Head(s) = s[1] /\ Head(s) \in Line
      /\ Len(t) = Len(s) - 1 /\ \A i \in 1..Len(t) : t[i] = s[i + 1]
  BY HeadTailProperties, EmptySeq
<1> HIDE DEF t
<1>2. \A i \in Mine(t, c) : i \in Nat /\ i + 1 \in Mine(s, c) /\ t[i] = s[i + 1]
  BY <1>1 DEF Mine
<1>3. \A i \in Mine(s, c) : i \in Nat /\ (i = 1 \/ (i - 1 \in Mine(t, c) /\ t[i - 1] = s[i]))
  <2> SUFFICES ASSUME NEW i \in Mine(s, c), i # 1
               PROVE  i - 1 \in Mine(t, c) /\ t[i - 1] = s[i]
    BY DEF Mine
  <2>1. i - 1 \in 1..Len(t) /\ (i - 1) + 1 = i
    BY <1>1 DEF Mine
  <2>2. t[i - 1] = s[i]
    BY <1>1, <2>1
  <2>3. QED
    BY <2>1, <2>2 DEF Mine
<1>4. /\ a <= b /\ \A i \in Mine(s, c) : s[i].line \in a + 1 .. b
      /\ \A i, j \in Mine(s, c) : i < j => s[i].line < s[j].line
      /\ \A n \in a + 1 .. b : \E i \in Mine(s, c) : s[i].line = n
  BY DEF Run
<1>5. \A i, j \in Mine(t, c) : i < j => t[i].line < t[j].line
  <2> SUFFICES ASSUME NEW i \in Mine(t, c), NEW j \in Mine(t, c), i < j
               PROVE  t[i].line < t[j].line
    OBVIOUS
  <2>1. i + 1 \in Mine(s, c) /\ j + 1 \in Mine(s, c) /\ i + 1 < j + 1
    BY <1>2
  <2>2. QED
    BY <1>2, <1>4, <2>1
<1>6. CASE Head(s).kind = "answer" /\ Head(s).to = c
  <2>1. 1 \in Mine(s, c)
    BY <1>1, <1>6 DEF Mine
  <2>2. s[1].line \in a + 1 .. b /\ a + 1 <= b
    BY <1>4, <2>1
  <2>3. s[1].line = a + 1
    <3>1. PICK i \in Mine(s, c) : s[i].line = a + 1
      BY <1>4, <2>2
    <3>2. i = 1 \/ 1 < i
      BY <1>1 DEF Mine
    <3>3. QED
      BY <1>4, <2>1, <2>2, <3>1, <3>2
  <2>4. ASSUME NEW i \in Mine(t, c)
        PROVE  t[i].line \in (a + 1) + 1 .. b
    <3>1. i + 1 \in Mine(s, c) /\ 1 < i + 1 /\ t[i] = s[i + 1]
      BY <1>2 DEF Mine
    <3>2. s[1].line < s[i + 1].line /\ s[i + 1].line \in a + 1 .. b
      BY <1>4, <2>1, <3>1
    <3>3. QED
      BY <2>3, <3>1, <3>2
  <2>5. ASSUME NEW n \in (a + 1) + 1 .. b
        PROVE  \E i \in Mine(t, c) : t[i].line = n
    <3>1. PICK i \in Mine(s, c) : s[i].line = n
      BY <1>4
    <3>2. i # 1
      BY <2>3, <3>1
    <3>3. QED
      BY <1>3, <3>1, <3>2
  <2>6. Run(t, c, a + 1, b)
    BY <1>5, <2>2, <2>4, <2>5 DEF Run
  <2>7. QED
    BY <1>1, <1>6, <2>2, <2>3, <2>6 DEF t
<1>7. CASE ~(Head(s).kind = "answer" /\ Head(s).to = c)
  <2>1. 1 \notin Mine(s, c)
    BY <1>1, <1>7 DEF Mine
  <2>2. \A i \in Mine(t, c) : t[i].line \in a + 1 .. b
    BY <1>2, <1>4
  <2>3. ASSUME NEW n \in a + 1 .. b
        PROVE  \E i \in Mine(t, c) : t[i].line = n
    <3>1. PICK i \in Mine(s, c) : s[i].line = n
      BY <1>4
    <3>2. QED
      BY <1>3, <2>1, <3>1
  <2>4. Run(t, c, a, b)
    BY <1>4, <1>5, <2>2, <2>3 DEF Run
  <2>5. QED
    BY <1>1, <1>7, <2>4 DEF t
<1>8. QED
  BY <1>6, <1>7

\* A client that has sent nothing, or half a line, and one that sends more.
LEMMA WholeLinesGrow ==
  ASSUME HandleInv, ConnInv, [Next]_vars, NEW c \in Client
  PROVE  /\ WholeLines(c) \in Nat /\ WholeLines(c)' \in Nat /\ WholeLines(c)' >= WholeLines(c)
         /\ WholeLines(c) <= Len(sent[c])
<1>1. /\ sent[c] \in Seq(Kind) /\ Len(sent[c]) \in Nat /\ (midline[c] => Len(sent[c]) # 0)
  BY LenProperties, EmptySeq DEF ConnInv, ConnTypes, LinkInv
<1>2. WholeLines(c) \in Nat /\ WholeLines(c) <= Len(sent[c])
  BY <1>1 DEF WholeLines
<1>3. CASE sent'[c] = sent[c] /\ midline'[c] = midline[c]
  BY <1>2, <1>3 DEF WholeLines
<1>4. CASE \E k \in Offered : BeginLine(c, k)
  <2>1. PICK k \in Offered : BeginLine(c, k)
    BY <1>4
  <2>2. k \in Kind
    BY TransportAssumption
  <2>3. sent'[c] = Append(sent[c], k) /\ midline'[c] = TRUE /\ ~midline[c]
    BY <2>1 DEF BeginLine, ConnInv, ConnTypes
  <2>4. Len(sent'[c]) = Len(sent[c]) + 1
    BY <1>1, <2>2, <2>3, AppendProperties
  <2>5. QED
    BY <1>1, <1>2, <2>3, <2>4 DEF WholeLines
<1>5. CASE FinishLine(c)
  <2>1. sent'[c] = sent[c] /\ midline'[c] = FALSE /\ midline[c]
    BY <1>5 DEF FinishLine, ConnInv, ConnTypes
  <2>2. QED
    BY <1>1, <1>2, <2>1 DEF WholeLines
<1>6. QED
  <2>1. CASE Clients
    <3>1. PICK d \in Client : \/ Dial(d) \/ (\E k \in Offered : BeginLine(d, k))
                              \/ FinishLine(d) \/ Hangup(d)
      BY <2>1 DEF Clients
    <3>2. CASE d = c
      BY <1>3, <1>4, <1>5, <3>1, <3>2 DEF Dial, Hangup
    <3>3. CASE d # c
      <4>1. sent'[c] = sent[c] /\ midline'[c] = midline[c]
        BY <3>1, <3>3 DEF Dial, BeginLine, FinishLine, Hangup, ConnInv, ConnTypes
      <4>2. QED
        BY <1>3, <4>1
    <3>4. QED
      BY <3>2, <3>3
  <2>2. CASE Connection \/ StopClose
    <3>1. sent' = sent /\ midline' = midline
      BY <2>2 DEF Connection, ConnMove, net, clients, ConnTop, Listen, ListenFails, Accept, StoreClient, AcceptTimeout,
         CloseServer, Accepted, Refuse, Admit, ResetSubscription, ReadLoop, ReadBuffered, ReadPipe,
         ReadFails, Reply, Leave, LeaveSubscription, Drain,
         StopClose, StopCloseClient, StopCloseListen,
     StopCloseHandle, StopMove,
         close_server, CloseLinks
    <3>2. QED
      BY <1>3, <3>1
  <2>3. CASE ~Clients /\ ~Connection /\ ~StopClose
    <3>1. sent' = sent /\ midline' = midline
      BY <2>3, CoreSteps DEF core
    <3>2. QED
      BY <1>3, <3>1
  <2>4. QED
    BY <2>1, <2>2, <2>3

\* The lines dispatched of a client whose connection is up were sent in whole.
LEMMA DispatchedWhole ==
  ASSUME HandleInv, ConnInv, NEW c \in Client, Serving(c), link[c] = "up"
  PROVE  conn.line <= WholeLines(c)
<1> DEFINE s == buffer \o wire[c]
           n == Len(sent[c])
           k == conn.line
<1>1. Ordered(s, k, n) /\ Ends(s, k, n, midline[c])
  BY DEF ConnInv, StreamInv, StreamOf, Serving, Unread, LineOf
<1>2. k \in Nat /\ n \in Nat /\ midline[c] \in BOOLEAN /\ k <= n
  BY <1>1, LenProperties DEF ConnInv, ConnTypes, Ordered
<1>3. s \in Seq(Piece)
  BY ConcatProperties DEF ConnInv, ConnTypes
<1> HIDE DEF s, n, k
<1>4. CASE ~midline[c]
  BY <1>2, <1>4 DEF WholeLines, n, k
<1>5. CASE midline[c]
  <2>1. s # <<>> /\ s[Len(s)] = [line |-> n, last |-> ~midline[c]]
    BY <1>1, <1>5 DEF Ends
  <2>2. Len(s) \in Nat /\ Len(s) # 0
    BY <1>3, <2>1, LenProperties, EmptySeq
  <2>3. s[1] = [line |-> k + 1, last |-> FALSE]
    BY <1>1, <2>1 DEF Ordered, Chain
  <2>4. 1 \in 1..Len(s)
    BY <2>2
  <2>5. s[1].line <= n
    BY <1>1, <2>4 DEF Ordered
  <2>6. k + 1 <= n
    BY <2>3, <2>5
  <2>7. QED
    BY <1>2, <1>5, <2>6 DEF WholeLines, n, k
<1>6. QED
  BY <1>4, <1>5

\* Only the connection thread changes client_connected_.
LEMMA FlagsKept ==
  ASSUME [Next]_vars, ~Connection
  PROVE  connected' = connected
<1> USE DEF flags
<1>1. CASE Clients
  BY <1>1 DEF Clients, Dial, BeginLine, FinishLine, Hangup, backend
<1>2. CASE Writer \/ SpuriousWakeup
  BY <1>2 DEF Writer, SpuriousWakeup, WriterMove, WriterTop, WriterWait, WriterBlock, WriterTake,
              WriterGate, pipe_write
<1>3. CASE Pusher
  BY <1>3 DEF Pusher, PushRead, PushWake, PushGate, PushLine
<1>4. CASE \E t \in Caller : SendGate(t) \/ SendLine(t)
  BY <1>4 DEF SendGate, SendLine
<1>5. CASE Stop
  BY <1>5 DEF Stop, StopFlag, StopNotify, StopClose, StopCloseClient, StopCloseListen,
     StopCloseHandle, StopMove, StopJoin
<1>6. CASE UNCHANGED vars
  BY <1>6 DEF vars
<1>7. QED
  BY <1>1, <1>2, <1>3, <1>4, <1>5, <1>6 DEF Next, Stopped

\* SessionInv at the start, and after every step.
LEMMA SessionStep ==
  ASSUME HandleInv, ConnInv, SessionInv, [Next]_vars
  PROVE  SessionInv'
<1>1. None \notin Client /\ ConnTypes /\ PeerInv /\ LinkInv
  BY TransportAssumption DEF ConnInv
<1>2. CASE Clients
  <2>1. PICK c \in Client : \/ Dial(c) \/ (\E k \in Offered : BeginLine(c, k))
                            \/ FinishLine(c) \/ Hangup(c)
    BY <1>2 DEF Clients
  <2>2. connected' = connected /\ conn' = conn /\ accepted' = accepted
    BY <2>1 DEF Dial, BeginLine, FinishLine, Hangup, backend, flags, server
  <2>3. \A d \in Client : link[d] = "up" => link'[d] = "up"
    BY <1>1, <2>1 DEF Dial, BeginLine, FinishLine, Hangup, ConnTypes
  <2>4. QED
    BY <1>1, <2>2, <2>3 DEF SessionInv, ConnTypes
<1>3. CASE Connection
  <2>1. CASE \/ ConnTop \/ Listen \/ ListenFails \/ AcceptTimeout \/ Accepted \/ Refuse
             \/ ResetSubscription \/ ReadLoop \/ ReadFails \/ Reply \/ LeaveSubscription \/ Drain
    <3>1. connected' = connected /\ accepted' \in {accepted, None} /\ link' = link
      BY <2>1 DEF net, clients, server, flags, ConnTop, Listen, ListenFails, AcceptTimeout,
         Accepted, Refuse, ResetSubscription, ReadLoop, ReadFails, Reply, LeaveSubscription, Drain
    <3>2. \/ conn.pc \notin {"setup", "loop", "read", "reply", "leave"}
          \/ \E to \in {"loop", "read", "leave"} : conn' = [conn EXCEPT !.pc = to]
      BY <2>1 DEF ConnTop, Listen, ListenFails, AcceptTimeout, Accepted, Refuse,
         ResetSubscription, ReadLoop, ReadFails, Reply, LeaveSubscription, Drain, ConnMove, ConnGoto
    <3>3. QED
      BY <1>1, <3>1, <3>2 DEF SessionInv, ConnTypes
  <2>2. CASE (\E c \in Client : Accept(c)) \/ StoreClient
    <3>1. CASE \E c \in Client : Accept(c)
      <4>1. PICK c \in Client : Accept(c)
        BY <3>1
      <4>2. /\ connected' = connected /\ conn.pc = "accept" /\ accepted' = accepted
            /\ \A d \in Client : link[d] = "up" => link'[d] = "up"
        BY <1>1, <4>1 DEF Accept, flags, server, ConnTypes
      <4>3. QED
        BY <1>1, <4>2 DEF SessionInv, ConnTypes
    <3>2. CASE StoreClient
      <4>1. /\ connected' = connected /\ conn.pc = "store" /\ accepted' = conn.peer
            /\ link' = link
        BY <3>2 DEF StoreClient, ConnMove, flags, clients
      <4>2. QED
        BY <1>1, <4>1 DEF SessionInv, LinkInv
    <3>3. QED
      BY <2>2, <3>1, <3>2
  <2>3. CASE CloseServer
    <3>1. /\ connected' = connected /\ conn.pc = "close"
          /\ \/ accepted' = None
             \/ accepted' = accepted /\ link' = link
      BY <2>3 DEF CloseServer, close_server, flags, clients
    <3>2. QED
      BY <3>1 DEF SessionInv
  <2>4. CASE Admit \/ Leave
    <3>1. /\ accepted' = accepted /\ link' = link
          /\ connected' => conn' = [conn EXCEPT !.pc = "setup"]
      BY <2>4 DEF Admit, Leave, ConnMove, ConnGoto, net, clients, server
    <3>2. QED
      BY <1>1, <3>1 DEF SessionInv, ConnTypes
  <2>5. CASE ReadBuffered \/ ReadPipe
    <3>1. /\ connected' = connected /\ accepted' = accepted /\ link' = link
          /\ \E b : TakeLine(b)
      BY <2>5 DEF ReadBuffered, ReadPipe, net, clients, server
    <3>2. conn'.pc \in {"loop", "reply"}
      BY <1>1, <3>1 DEF TakeLine, ConnGoto, ConnTypes
    <3>3. QED
      BY <3>1, <3>2 DEF SessionInv
  <2>6. QED
    BY <1>3, <2>1, <2>2, <2>3, <2>4, <2>5 DEF Connection
<1>4. CASE StopClose
  <2>1. /\ connected' = connected /\ conn' = conn
        /\ \/ accepted' = None
           \/ accepted' = accepted /\ \A d \in Client : link[d] = "up" => link'[d] = "up"
    <3>1. CASE StopCloseListen
      BY <3>1 DEF StopCloseListen, StopMove, CloseLinks, Waiting, flags
    <3>2. CASE StopCloseClient \/ StopCloseHandle
      BY <3>2 DEF StopCloseClient, StopCloseHandle, StopMove, flags, clients
    <3>3. QED
      BY <1>4, <3>1, <3>2 DEF StopClose
  <2>2. QED
    BY <1>1, <2>1 DEF SessionInv, ConnTypes
<1>5. CASE ~Clients /\ ~Connection /\ ~StopClose
  <2>1. conn' = conn /\ accepted' = accepted /\ link' = link
    BY <1>5, CoreSteps DEF core, server
  <2>2. connected' = connected
    BY <1>5, FlagsKept
  <2>3. QED
    BY <2>1, <2>2 DEF SessionInv
<1>6. QED
  BY <1>2, <1>3, <1>4, <1>5

\* What a step of the connection or of a client does to the client's session, but
\* for a reply: it begins with nothing on the way.
LEMMA ContextStep ==
  ASSUME HandleInv, ConnInv, SessionInv, [Next]_vars, ~Reply, NEW c \in Client
  PROVE  /\ Fresh(c)' => Fresh(c)
         /\ Open(c)' => Open(c) \/ Fresh(c)
         /\ Open(c)' /\ connected' =>
              \/ Open(c) /\ connected /\ Replied' = Replied
              \/ Fresh(c) /\ Replied' = 0
<1>1. /\ None \notin Client /\ ConnTypes /\ PeerInv /\ LinkInv
      /\ link \in [Client -> {"off", "waiting", "up", "closed"}]
      /\ alive \in [Client -> BOOLEAN]
  BY TransportAssumption DEF ConnInv, ConnTypes
<1>2. ASSUME accepted' = accepted, handle' => handle, conn' = conn, connected' = connected, link'[c] = link[c],
             alive'[c] => alive[c]
      PROVE  /\ Fresh(c)' => Fresh(c)
             /\ Open(c)' => Open(c)
             /\ Open(c)' /\ connected' => Open(c) /\ connected /\ Replied' = Replied
  BY <1>1, <1>2 DEF Fresh, Open, ClientFd, Replied
<1>3. CASE Clients
  <2>1. PICK d \in Client : \/ Dial(d) \/ (\E k \in Offered : BeginLine(d, k))
                            \/ FinishLine(d) \/ Hangup(d)
    BY <1>3 DEF Clients
  <2>2. connected' = connected /\ conn' = conn /\ accepted' = accepted /\ handle' = handle
    BY <2>1 DEF Dial, BeginLine, FinishLine, Hangup, backend, flags, server
  <2>3. CASE Dial(c)
    <3>1. link[c] = "off" /\ accepted # c
      BY <1>1, <2>3 DEF Dial, SessionInv
    <3>2. QED
      BY <1>1, <2>2, <3>1 DEF Fresh, Open, ClientFd
  <2>4. CASE ~Dial(c)
    <3>1. link'[c] = link[c] /\ (alive'[c] => alive[c])
      BY <1>1, <2>1, <2>4 DEF Dial, BeginLine, FinishLine, Hangup
    <3>2. QED
      BY <1>2, <2>2, <3>1
  <2>5. QED
    BY <2>3, <2>4
<1>4. CASE Connection
  <2>1. CASE \/ ConnTop \/ Listen \/ ListenFails \/ AcceptTimeout \/ Accepted \/ Refuse
             \/ ResetSubscription \/ ReadLoop \/ ReadFails \/ Leave \/ LeaveSubscription \/ Drain
    <3>1. /\ link' = link /\ alive' = alive /\ (connected' => connected)
          /\ \/ accepted' = None
             \/ accepted' = accepted /\ handle' = handle
      BY <2>1 DEF net, clients, server, flags, ConnTop, Listen, ListenFails, AcceptTimeout,
         Accepted, Refuse, ResetSubscription, ReadLoop, ReadFails, Leave, LeaveSubscription, Drain
    <3>2. PICK to \in {"listen", "done", "accept", "top", "close", "verify", "loop", "read",
                       "leave", "unsubscribe", "drain"} :
            /\ conn' = [conn EXCEPT !.pc = to] /\ conn.pc # "reply"
            /\ to = "verify" => conn.pc = "accepted"
      BY <2>1 DEF ConnTop, Listen, ListenFails, AcceptTimeout, Accepted, Refuse,
         ResetSubscription, ReadLoop, ReadFails, Leave, LeaveSubscription, Drain, ConnMove, ConnGoto
    <3>3. conn'.pc = to /\ conn'.peer = conn.peer /\ conn'.line = conn.line
      BY <1>1, <3>2 DEF ConnTypes
    <3>4. Fresh(c)' => Fresh(c)
      BY <3>1, <3>2, <3>3 DEF Fresh
    <3>5. Replied' = Replied
      BY <3>2, <3>3 DEF Replied
    <3>6. QED
      BY <1>1, <3>1, <3>4, <3>5 DEF Open, ClientFd
  <2>2. CASE (\E d \in Client : Accept(d)) \/ StoreClient
    <3>1. CASE \E d \in Client : Accept(d)
      <4>1. PICK d \in Client : Accept(d)
        BY <3>1
      <4>2. /\ connected' = connected /\ conn.pc = "accept" /\ link[d] = "waiting"
            /\ UNCHANGED <<handle, accepted, alive>> /\ conn'.peer = d
            /\ link' = [link EXCEPT ![d] = "up"]
        BY <4>1 DEF Accept, flags, server
      <4>3. ~connected'
        BY <4>2 DEF SessionInv
      <4>4. Fresh(c)' => Fresh(c)
        BY <1>1, <4>2 DEF Fresh
      <4>5. Open(c)' => Open(c)
        BY <4>2 DEF Open, ClientFd
      <4>6. QED
        BY <4>3, <4>4, <4>5
    <3>2. CASE StoreClient
      <4>1. /\ connected' = connected /\ conn.pc = "store" /\ accepted' = conn.peer
            /\ UNCHANGED <<handle, alive, link>>
            /\ \E to \in {"accepted", "close"} : conn' = [conn EXCEPT !.pc = to]
        BY <3>2 DEF StoreClient, ConnMove, ConnGoto, flags, clients
      <4>2. conn'.peer = conn.peer
        BY <1>1, <4>1 DEF ConnTypes
      <4>3. ~connected'
        BY <4>1 DEF SessionInv
      <4>4. Fresh(c)' => Fresh(c)
        BY <4>1, <4>2 DEF Fresh
      <4>5. Open(c)' => Fresh(c)
        BY <1>1, <4>1 DEF Open, ClientFd, Fresh
      <4>6. QED
        BY <4>3, <4>4, <4>5
    <3>3. QED
      BY <2>2, <3>1, <3>2
  <2>3. CASE CloseServer
    <3>1. /\ handle' = FALSE /\ conn'.pc = "top" /\ conn'.peer = None
          /\ link'[c] = "closed" \/ link'[c] = link[c]
      BY <2>3 DEF CloseServer, close_server, CloseLinks, clients
    <3>2. QED
      BY <1>1, <3>1 DEF Fresh, Open, ClientFd
  <2>4. CASE Admit
    <3>1. /\ UNCHANGED <<handle, accepted, link, alive>> /\ conn.pc = "verify"
          /\ conn' = [conn EXCEPT !.pc = "setup"]
      BY <2>4 DEF Admit, ConnMove, ConnGoto, net, clients, server
    <3>2. conn'.pc = "setup" /\ conn'.peer = conn.peer /\ conn'.line = 0
      BY <1>1, <3>1 DEF ConnTypes, PeerInv
    <3>3. Open(c)' => Open(c) /\ Fresh(c)
      <4>1. accepted # None => conn.peer = accepted
        BY <1>1, <3>1 DEF PeerInv, HandleInv
      <4>2. QED
        BY <1>1, <3>1, <4>1 DEF Open, ClientFd, Fresh
    <3>4. Replied' = 0
      BY <3>2 DEF Replied
    <3>5. QED
      BY <3>1, <3>2, <3>3, <3>4 DEF Fresh
  <2>5. CASE ReadBuffered \/ ReadPipe
    <3>1. /\ UNCHANGED <<connected, handle, accepted, link, alive>>
          /\ conn.pc = "read" /\ \E b : TakeLine(b)
      BY <2>5 DEF ReadBuffered, ReadPipe, net, clients, server
    <3>2. /\ conn'.peer = conn.peer
          /\ conn'.pc = "reply" \/ (conn'.pc = "loop" /\ conn'.line = conn.line)
      BY <1>1, <3>1 DEF TakeLine, ConnGoto, ConnTypes
    <3>3. conn'.pc = "reply" => conn'.line = conn.line + 1
      BY <2>5, ReadSteps
    <3>4. conn.line \in Nat
      BY <1>1 DEF ConnTypes
    <3>5. Replied' = Replied
      BY <3>1, <3>2, <3>3, <3>4 DEF Replied
    <3>6. QED
      BY <3>1, <3>2, <3>5 DEF Fresh, Open, ClientFd
  <2>6. QED
    BY <1>4, <2>1, <2>2, <2>3, <2>4, <2>5 DEF Connection
<1>5. CASE StopClose
  <2>1. /\ conn' = conn /\ connected' = connected /\ alive' = alive /\ (handle' => handle)
        /\ \/ accepted' = None
           \/ accepted' = accepted
        /\ link'[c] = "closed" \/ link'[c] = link[c]
    <3>1. CASE StopCloseListen
      BY <3>1 DEF StopCloseListen, StopMove, CloseLinks, flags
    <3>2. CASE StopCloseClient
      BY <3>2 DEF StopCloseClient, StopMove, CloseLinks, flags, clients
    <3>3. CASE StopCloseHandle
      BY <3>3 DEF StopCloseHandle, StopMove, flags, clients
    <3>4. QED
      BY <1>5, <3>1, <3>2, <3>3 DEF StopClose
  <2>2. QED
    BY <1>1, <2>1 DEF Fresh, Open, ClientFd, Replied
<1>6. CASE ~Clients /\ ~Connection /\ ~StopClose
  <2>1. UNCHANGED <<conn, accepted, handle, link, alive>>
    BY <1>6, CoreSteps DEF core, server
  <2>2. connected' = connected
    BY <1>6, FlagsKept
  <2>3. QED
    BY <1>2, <2>1, <2>2
<1>7. QED
  BY <1>3, <1>4, <1>5, <1>6

\* The writer's steps change nothing that the queue and the batch are measured by.
LEMMA WriterContext ==
  ASSUME Writer \/ SpuriousWakeup, NEW c
  PROVE  /\ Fresh(c)' = Fresh(c) /\ Open(c)' = Open(c) /\ Replied' = Replied
         /\ connected' = connected /\ WholeLines(c)' = WholeLines(c)
<1>1. UNCHANGED <<conn, connected, handle, accepted, link, alive, sent, midline>>
  BY DEF Writer, SpuriousWakeup, WriterMove, WriterTop, WriterWait, WriterBlock, WriterTake,
         WriterGate, pipe_write, flags, net, server, clients
<1>2. QED
  BY <1>1 DEF Fresh, Open, ClientFd, Replied, WholeLines

\* The client that is written to while one is connected is the one served.
LEMMA OpenServed ==
  ASSUME HandleInv, ConnInv, SessionInv, connected, NEW c \in Client, Open(c)
  PROVE  Serving(c) /\ link[c] = "up"
<1>1. accepted = c /\ None \notin Client
  BY TransportAssumption DEF Open, ClientFd
<1>2. missed = None /\ conn.pc \in {"setup", "loop", "read", "reply", "leave"}
  BY DEF SessionInv, HandleInv
<1>3. QED
  BY <1>1, <1>2 DEF SessionInv, ConnInv, PeerInv, Serving

\* The writer takes the queue, passes its gate or not, and writes line by line.
LEMMA WriterFlow ==
  ASSUME HandleInv, ConnInv, QueueTypes, ReceivedTypes, SessionInv, Writer \/ SpuriousWakeup,
         NEW c \in Client, FlowOf(c)
  PROVE  FlowOf(c)'
<1>1. PICK r \in 0..WholeLines(c), b \in 0..WholeLines(c) : Flows(c, r, b)
  BY DEF FlowOf
<1>2. /\ Fresh(c)' = Fresh(c) /\ Open(c)' = Open(c) /\ Replied' = Replied
      /\ connected' = connected /\ WholeLines(c)' = WholeLines(c)
  BY WriterContext
<1>3. WholeLines(c) \in Nat
  <2>1. sent[c] \in Seq(Kind) /\ Len(sent[c]) \in Nat /\ (midline[c] => Len(sent[c]) # 0)
    BY LenProperties, EmptySeq DEF ConnInv, ConnTypes, LinkInv
  <2>2. QED
    BY <2>1 DEF WholeLines
<1>4. r \in Nat /\ b \in Nat
  BY <1>1, <1>3
<1>5. ASSUME NEW q \in 0..WholeLines(c), NEW d \in 0..WholeLines(c), Flows(c, q, d)'
      PROVE  FlowOf(c)'
  BY <1>2, <1>5 DEF FlowOf
<1>6. CASE WriterTop \/ WriterWait \/ WriterBlock \/ SpuriousWakeup
  <2>1. \E to \in {"lock", "done", "blocking", "waiting"} : writer' = [writer EXCEPT !.pc = to]
    BY <1>6 DEF WriterTop, WriterWait, WriterBlock, SpuriousWakeup, WriterMove
  <2>2. writer'.batch = writer.batch /\ writer'.pc # "write"
    BY <2>1 DEF QueueTypes
  <2>3. queue' = queue /\ received' = received
    BY <1>6 DEF WriterTop, WriterWait, WriterBlock, SpuriousWakeup, WriterMove, net, clients
  <2>4. Flows(c, r, b)'
    BY <1>1, <1>2, <2>2, <2>3 DEF Flows
  <2>5. QED
    BY <1>5, <2>4
<1>7. CASE WriterTake
  <2>1. /\ queue' = <<>> /\ received' = received /\ writer.pc = "lock"
        /\ writer'.batch = queue /\ writer'.pc # "write"
    BY <1>7 DEF WriterTake, net, clients
  <2>2. writer.batch = <<>>
    BY <2>1 DEF QueueTypes
  <2>3. \A d \in Nat : Run(<<>>, c, d, d)
    BY RunNone
  <2>4. CASE Open(c) /\ connected
    <3>1. Serving(c) /\ link[c] = "up"
      BY <2>4, OpenServed
    <3>2. ~Fresh(c)
      BY <2>4, <3>1 DEF Fresh, SessionInv
    <3>3. Replied \in Nat /\ Replied <= WholeLines(c)
      <4>1. conn.line <= WholeLines(c) /\ conn.line \in Nat /\ (conn.pc = "reply" => conn.line # 0)
        BY <3>1, DispatchedWhole DEF ConnInv, ConnTypes, PeerInv
      <4>2. QED
        BY <1>3, <4>1 DEF Replied
    <3>4. r = b /\ Run(queue, c, b, Replied) /\ Run(received[c], c, 0, r)
      BY <1>1, <1>4, <2>2, <2>4, RunNone DEF Flows
    <3>5. b <= Replied
      BY <3>4 DEF Run
    <3>6. Flows(c, r, Replied)'
      BY <1>2, <2>1, <2>3, <3>2, <3>3, <3>4, <3>5 DEF Flows
    <3>7. Replied \in 0..WholeLines(c)
      BY <1>3, <3>3
    <3>8. QED
      BY <1>2, <1>5, <3>6, <3>7
  <2>5. CASE ~(Open(c) /\ connected)
    <3>1. Flows(c, r, b)'
      BY <1>1, <1>2, <2>1, <2>3, <2>5 DEF Flows
    <3>2. QED
      BY <1>5, <3>1
  <2>6. QED
    BY <2>4, <2>5
<1>8. CASE WriterGate
  <2>1. queue' = queue /\ received' = received
    BY <1>8 DEF WriterGate, net, clients
  <2>2. CASE connected
    <3>1. writer'.batch = writer.batch
      BY <1>8, <2>2 DEF WriterGate, QueueTypes
    <3>2. Flows(c, r, b)'
      BY <1>1, <1>2, <2>1, <2>2, <3>1 DEF Flows
    <3>3. QED
      BY <1>5, <3>2
  <2>3. CASE ~connected
    <3>1. writer'.batch = <<>> /\ writer'.pc = "top" /\ Run(<<>>, c, 0, 0)
      BY <1>8, <2>3, RunNone DEF WriterGate
    <3>2. Flows(c, r, b)'
      BY <1>1, <1>2, <2>1, <2>3, <3>1 DEF Flows
    <3>3. QED
      BY <1>5, <3>2
  <2>4. QED
    BY <2>2, <2>3
<1>9. CASE pipe_write
  <2> DEFINE h == Head(writer.batch)
             own == h.kind = "answer" /\ h.to = c
  <2>1. /\ queue' = queue /\ writer.pc = "write"
        /\ writer.batch \in Seq(Line) /\ writer.batch # <<>> /\ received \in [Client -> Seq(Line)]
    BY <1>9 DEF pipe_write, QueueTypes, ReceivedTypes
  <2>2. CASE ClientFd # None /\ alive[ClientFd]
    <3>1. /\ received' = [received EXCEPT ![ClientFd] = Append(@, h)]
          /\ writer'.batch = Tail(writer.batch)
      BY <1>9, <2>2 DEF pipe_write
    <3>2. ClientFd = c <=> Open(c)
      BY <2>2 DEF Open
    <3>3. Fresh(c) => Run(Tail(writer.batch), c, 0, 0) /\ ~own
      <4>1. Fresh(c) => Run(writer.batch, c, 0, 0)
        BY <1>1 DEF Flows
      <4>2. Fresh(c) => /\ own => 0 + 1 <= 0
                        /\ ~own => Run(Tail(writer.batch), c, 0, 0)
        BY <2>1, <4>1, RunTail
      <4>3. QED
        BY <4>2
    <3>4. CASE ClientFd # c
      <4>1. received'[c] = received[c]
        BY <2>1, <3>1, <3>4
      <4>2. Flows(c, r, b)'
        BY <1>1, <1>2, <2>1, <3>1, <3>2, <3>3, <3>4, <4>1 DEF Flows
      <4>3. QED
        BY <1>5, <4>2
    <3>5. CASE ClientFd = c
      <4>1. /\ Run(writer.batch, c, r, b) /\ Run(received[c], c, 0, r) /\ r <= b
            /\ received'[c] = Append(received[c], h) /\ received[c] \in Seq(Line)
        BY <1>1, <2>1, <3>1, <3>2, <3>5 DEF Flows
      <4>2. /\ h \in Line
            /\ own => h.line = r + 1 /\ r + 1 <= b /\ Run(Tail(writer.batch), c, r + 1, b)
            /\ ~own => Run(Tail(writer.batch), c, r, b)
        BY <1>4, <2>1, <4>1, RunTail
      <4>3. CASE own
        <5>1. Run(received'[c], c, 0, r + 1)
          BY <1>4, <4>1, <4>2, <4>3, RunOwn
        <5>2. ~Fresh(c)
          BY <3>3, <4>3
        <5>3. Flows(c, r + 1, b)'
          BY <1>1, <1>2, <2>1, <3>1, <4>2, <4>3, <5>1, <5>2 DEF Flows
        <5>4. r + 1 \in 0..WholeLines(c)
          BY <1>1, <1>3, <4>2, <4>3
        <5>5. QED
          BY <1>5, <5>3, <5>4
      <4>4. CASE ~own
        <5>1. Run(received'[c], c, 0, r)
          BY <1>4, <4>1, <4>2, <4>4, RunOther
        <5>2. Flows(c, r, b)'
          BY <1>1, <1>2, <2>1, <3>1, <3>3, <4>2, <4>4, <5>1 DEF Flows
        <5>3. QED
          BY <1>5, <5>2
      <4>5. QED
        BY <4>3, <4>4
    <3>6. QED
      BY <3>4, <3>5
  <2>3. CASE ~(ClientFd # None /\ alive[ClientFd])
    <3>1. /\ writer'.batch = <<>> /\ writer'.pc = "top" /\ received' = received
          /\ Run(<<>>, c, 0, 0) /\ ~Open(c)
      BY <1>9, <2>3, RunNone, TransportAssumption DEF pipe_write, Open
    <3>2. Flows(c, r, b)'
      BY <1>1, <1>2, <2>1, <3>1 DEF Flows
    <3>3. QED
      BY <1>5, <3>2
  <2>4. QED
    BY <2>2, <2>3
<1>10. QED
  BY <1>6, <1>7, <1>8, <1>9 DEF Writer

\* The other threads put their lines behind those of the client, or empty the queue
\* when it is no longer served.
LEMMA ThreadFlow ==
  ASSUME HandleInv, ConnInv, QueueTypes, ThreadTypes, SessionInv, [Next]_vars, ~(Writer \/ SpuriousWakeup),
         NEW c \in Client, FlowOf(c)
  PROVE  FlowOf(c)'
<1>1. PICK r \in 0..WholeLines(c), b \in 0..WholeLines(c) : Flows(c, r, b)
  BY DEF FlowOf
<1>2. /\ WholeLines(c) \in Nat /\ WholeLines(c)' \in Nat /\ WholeLines(c)' >= WholeLines(c)
      /\ r \in Nat /\ b \in Nat /\ r \in 0..WholeLines(c)' /\ b \in 0..WholeLines(c)'
  <2>1. WholeLines(c) \in Nat /\ WholeLines(c)' \in Nat /\ WholeLines(c)' >= WholeLines(c)
    BY WholeLinesGrow
  <2>2. QED
    BY <1>1, <2>1
<1>3. SUFFICES Flows(c, r, b)'
  BY <1>2 DEF FlowOf
<1>4. /\ received' = received
      /\ \/ queue' = queue /\ writer' = writer
         \/ queue' = queue /\ writer' = Woken
         \/ queue' = <<>> /\ writer' = writer /\ Drain
         \/ Enqueue(Answer(conn.peer, conn.line)) /\ Reply
         \/ \E l \in Line : Enqueue(l) /\ l.kind # "answer" /\ conn' = conn
  BY QueueSteps
<1>5. /\ Woken.batch = writer.batch
      /\ Woken.pc = "write" <=> writer.pc = "write"
  BY DEF Woken, QueueTypes
<1>6. CASE Reply
  <2>1. /\ conn.pc = "reply" /\ Enqueue(Answer(conn.peer, conn.line))
        /\ conn' = [conn EXCEPT !.pc = "loop"]
        /\ UNCHANGED <<connected, handle, accepted, link, alive>>
    BY <1>6 DEF Reply, ConnMove, ConnGoto, flags, net, clients, server
  <2>2. conn'.pc = "loop" /\ conn'.peer = conn.peer /\ conn'.line = conn.line
    BY <2>1 DEF ConnInv, ConnTypes
  <2> DEFINE l == Answer(conn.peer, conn.line)
  <2>3. /\ l \in Line /\ l.kind = "answer" /\ l.to = conn.peer /\ l.line = conn.line
        /\ queue' = Append(queue, l) /\ writer' = Woken /\ queue \in Seq(Line)
    BY <2>1, LinesAreTyped DEF Answer, Enqueue, QueueTypes
  <2> HIDE DEF l
  <2>4. Fresh(c)' => Fresh(c) /\ l.to # c
    BY <2>1, <2>2, <2>3 DEF Fresh, ConnInv, LinkInv
  <2>5. Fresh(c)' => b = 0 /\ Run(writer'.batch, c, 0, 0) /\ Run(queue', c, 0, 0)
    BY <1>1, <1>5, <2>3, <2>4, RunOther DEF Flows
  <2>6. Open(c)' /\ connected' => Run(queue', c, b, Replied')
    <3>1. SUFFICES ASSUME Open(c), connected
                   PROVE  Run(queue', c, b, Replied')
      BY <2>1 DEF Open, ClientFd
    <3>2. Run(queue, c, b, Replied) /\ conn.peer = c /\ conn.line \in Nat /\ conn.line # 0
      BY <1>1, <2>1, <3>1, OpenServed DEF Flows, Serving, ConnInv, ConnTypes, PeerInv
    <3>3. Replied \in Nat /\ l.line = Replied + 1 /\ Replied' = Replied + 1
      BY <2>1, <2>2, <2>3, <3>2 DEF Replied
    <3>4. QED
      BY <1>2, <2>3, <3>2, <3>3, RunOwn
  <2>7. QED
    BY <1>1, <1>4, <1>5, <2>1, <2>3, <2>5, <2>6 DEF Flows, Open, ClientFd
<1>7. CASE ~Reply
  <2>1. /\ Fresh(c)' => Fresh(c)
        /\ Open(c)' => Open(c) \/ Fresh(c)
        /\ Open(c)' /\ connected' =>
             \/ Open(c) /\ connected /\ Replied' = Replied
             \/ Fresh(c) /\ Replied' = 0
    BY <1>7, ContextStep
  <2>2. writer'.batch = writer.batch /\ (writer'.pc = "write" <=> writer.pc = "write")
    BY <1>4, <1>5, <1>7 DEF Enqueue
  <2>3. Open(c)' /\ (connected' \/ writer'.pc = "write") => Run(writer'.batch, c, r, b)
    <3>1. Fresh(c) => r = 0 /\ b = 0 /\ Run(writer.batch, c, r, b)
      BY <1>1, <1>2 DEF Flows
    <3>2. QED
      BY <1>1, <2>1, <2>2, <3>1 DEF Flows
  <2>4. /\ Run(received'[c], c, 0, r) /\ r <= b
        /\ Fresh(c)' => Fresh(c) /\ b = 0 /\ Run(writer'.batch, c, 0, 0) /\ Run(queue, c, 0, 0)
        /\ Open(c)' /\ connected' => Run(queue, c, b, Replied')
    BY <1>1, <1>4, <2>1, <2>2 DEF Flows
  <2>5. CASE queue' = queue
    BY <2>3, <2>4, <2>5 DEF Flows
  <2>6. CASE queue' = <<>> /\ Drain
    <3>1. ~connected'
      BY <2>6 DEF Drain, ConnMove, flags, SessionInv
    <3>2. Run(<<>>, c, 0, 0)
      BY RunNone
    <3>3. QED
      BY <2>3, <2>4, <2>6, <3>1, <3>2 DEF Flows
  <2>7. CASE \E l \in Line : Enqueue(l) /\ l.kind # "answer" /\ conn' = conn
    <3>1. PICK l \in Line : queue' = Append(queue, l) /\ l.kind # "answer"
      BY <2>7 DEF Enqueue
    <3>2. queue \in Seq(Line)
      BY DEF QueueTypes
    <3>3. Fresh(c)' => Run(queue', c, 0, 0)
      BY <2>4, <3>1, <3>2, RunOther
    <3>4. Open(c)' /\ connected' => Run(queue', c, b, Replied')
      <4>1. Open(c)' /\ connected' => Replied' \in Nat
        BY <2>1 DEF Replied, ConnInv, ConnTypes, PeerInv
      <4>2. QED
        BY <1>2, <2>4, <3>1, <3>2, <4>1, RunOther
    <3>5. QED
      BY <2>3, <2>4, <3>3, <3>4 DEF Flows
  <2>8. QED
    BY <1>4, <1>7, <2>5, <2>6, <2>7
<1>8. QED
  BY <1>6, <1>7

\* At the start nothing is on the way.
LEMMA FlowInit == Init => FlowInv
<1> SUFFICES ASSUME Init PROVE FlowInv
  OBVIOUS
<1>1. SessionInv
  BY DEF Init, SessionInv
<1>2. ASSUME NEW c \in Client PROVE FlowOf(c)
  <2>1. WholeLines(c) = 0 /\ 0 \in 0..WholeLines(c)
    BY DEF Init, WholeLines
  <2>2. Run(<<>>, c, 0, 0)
    BY RunNone
  <2>3. Flows(c, 0, 0)
    BY <2>2 DEF Init, Flows, Replied
  <2>4. QED
    BY <2>1, <2>3 DEF FlowOf
<1>3. QED
  BY <1>1, <1>2 DEF FlowInv
-----------------------------------------------------------------------------
(* The theorems.                                                           *)

IInv == HandleInv /\ ConnInv /\ RestTypes /\ QueuedAnswersCurrent /\ SubscriptionInv

\* The inductive invariant of the service: one connection at a time, the one the
\* thread has accepted, but for the last one if stop() missed it; its bytes in
\* order, the queue and the subscription its own (transport.cpp:239-340,
\* platform_linux.cpp:223-258, 297-304).
THEOREM Invariance == Spec => []IInv
<1>1. Init => IInv
  <2> SUFFICES ASSUME Init PROVE IInv
    OBVIOUS
  <2>1. HandleInv /\ ConnInv
    BY ConnInit
  <2>2. FlagTypes /\ QueuedAnswersCurrent /\ SubscriptionInv
    <3>1. FlagTypes /\ SubscriptionInv
      BY DEF Init, FlagTypes, SubscriptionInv
    <3>2. Len(queue) = 0
      BY DEF Init
    <3>3. QED
      BY <3>1, <3>2 DEF QueuedAnswersCurrent
  <2>3. QueueTypes /\ ReceivedTypes
    <3>1. <<>> \in Seq(Line)
      OBVIOUS
    <3>2. QED
      BY <3>1 DEF Init, QueueTypes, ReceivedTypes
  <2>4. ThreadTypes
    BY TransportAssumption DEF Init, ThreadTypes
  <2>5. QED
    BY <2>1, <2>2, <2>3, <2>4 DEF IInv, RestTypes
<1>2. IInv /\ [Next]_vars => IInv'
  <2> SUFFICES ASSUME IInv, [Next]_vars PROVE IInv'
    OBVIOUS
  <2>1. HandleInv /\ ConnInv /\ FlagTypes /\ QueueTypes /\ ThreadTypes /\ ReceivedTypes /\ QueuedAnswersCurrent
        /\ SubscriptionInv /\ accepted \in Client \cup {None}
    BY DEF IInv, RestTypes, ConnInv, ConnTypes
  <2>2. HandleInv' /\ ConnInv'
    BY <2>1, HandleStep, ConnStep
  <2>3. FlagTypes' /\ ThreadTypes'
    BY <2>1, FlagStep, ThreadStep
  <2>4. QueueTypes' /\ ReceivedTypes'
    BY <2>1, QueueStep
  <2>5. QueuedAnswersCurrent' /\ SubscriptionInv'
    BY <2>1, CurrentAnswersStep, SubscriptionStep
  <2>6. QED
    BY <2>2, <2>3, <2>4, <2>5 DEF IInv, RestTypes
<1>3. QED
  BY <1>1, <1>2, PTL DEF Spec

\* Every variable has its type, in every state of the service.
THEOREM TypeCorrect == Spec => []TypeOK
<1>1. IInv => TypeOK
  BY DEF IInv, ConnInv, ConnTypes, RestTypes, FlagTypes, QueueTypes, ThreadTypes, ReceivedTypes, TypeOK
<1>2. QED
  BY <1>1, Invariance, PTL

\* No connection is left open behind the thread's back, but for the one whose descriptor
\* is stored when stop() has already looked for it (transport.cpp:282-340,
\* platform_linux.cpp:242-246, 297-304).
THEOREM ConnectionsClosed == Spec => []NoLeakedConnection
<1>1. IInv => NoLeakedConnection
  <2> SUFFICES ASSUME IInv, NEW c \in Client, link[c] = "up"
               PROVE  \/ c = missed /\ ~running
                      \/ /\ accepted = c \/ (conn.pc = "store" /\ conn.peer = c)
                         /\ conn.pc \notin {"top", "listen", "accept", "done"}
    BY DEF NoLeakedConnection
  <2>1. HandleInv /\ PeerInv /\ LinkInv /\ None \notin Client
    BY TransportAssumption DEF IInv, ConnInv
  <2>2. CASE c = missed
    BY <2>1, <2>2 DEF HandleInv
  <2>3. CASE c # missed
    <3>1. c = accepted \/ (conn.pc = "store" /\ conn.peer = c)
      BY <2>1, <2>3 DEF LinkInv
    <3>2. c = accepted => conn.peer = c
      BY <2>1, <2>3 DEF PeerInv
    <3>3. conn.peer = c
      BY <3>1, <3>2
    <3>4. QED
      BY <2>1, <3>1, <3>3 DEF PeerInv, Idle
  <2>4. QED
    BY <2>2, <2>3
<1>2. QED
  BY <1>1, Invariance, PTL

\* The answers that wait are for the client that is served (transport.cpp:325-333).
THEOREM AnswersCurrent == Spec => []QueuedAnswersCurrent
<1>1. IInv => QueuedAnswersCurrent
  BY DEF IInv
<1>2. QED
  BY <1>1, Invariance, PTL

\* The metrics that are pushed were asked for by the client that is served.
THEOREM SubscriptionOwned == Spec => []SubscriptionIsCurrent
<1>1. IInv => SubscriptionIsCurrent
  <2> SUFFICES ASSUME IInv, subscribed PROVE \E c \in Client : Serving(c) /\ Wants(c)
    BY DEF SubscriptionIsCurrent
  <2>1. PICK c \in Client : conn.peer = c /\ Wants(c)
    BY DEF IInv, SubscriptionInv
  <2>2. Serving(c)
    BY <2>1 DEF IInv, SubscriptionInv, Serving
  <2>3. QED
    BY <2>1, <2>2
<1>2. QED
  BY <1>1, Invariance, PTL

\* A line that is dispatched is the next one its client has begun: no line is
\* skipped, dispatched twice or put together from two (transport.cpp:284-313).
NextLine ==
  conn.pc = "read" /\ conn'.pc = "reply"
  => /\ conn'.peer = conn.peer
     /\ conn'.line = conn.line + 1 /\ conn'.line <= Len(sent[conn.peer])

\* Every line is dispatched in its turn, on the connection it was sent on.
THEOREM LinesInOrder == Spec => [][NextLine]_vars
<1>1. ASSUME IInv, [Next]_vars PROVE NextLine
  <2> SUFFICES ASSUME conn.pc = "read", conn'.pc = "reply" PROVE NextLine
    BY DEF NextLine
  <2>1. HandleInv /\ ConnInv
    BY <1>1 DEF IInv
  <2>2. conn.peer \in Client /\ Serving(conn.peer)
    BY <2>1 DEF ConnInv, PeerInv, Idle, Serving
  <2>3. PICK c \in Client : conn.peer = c /\ Serving(c)
    BY <2>2
  <2>4. conn' # conn
    OBVIOUS
  <2>5. CASE Connection
    <3>1. ReadBuffered \/ ReadPipe
      <4>1. CASE ReadFails
        <5>1. \E to \in {"loop", "leave"} : conn' = [conn EXCEPT !.pc = to]
          BY <4>1 DEF ReadFails, ConnMove, ConnGoto
        <5>2. QED
          BY <2>1, <5>1 DEF ConnInv, ConnTypes
      <4>2. QED
        BY <2>5, <4>1 DEF Connection, ConnMove, ConnTop, Listen, ListenFails, Accept, StoreClient,
           AcceptTimeout, CloseServer, Accepted, Refuse, Admit, ResetSubscription, ReadLoop, Reply,
           Leave, LeaveSubscription, Drain
    <3>2. ~Drain
      BY DEF Drain, ConnMove
    <3>3. Serving(c)'
      BY <1>1, <2>1, <2>3, <3>2, StillServing
    <3>4. QED
      BY <2>1, <2>3, <3>1, <3>3, ReadSteps DEF NextLine, Serving
  <2>6. CASE ~Connection
    <3>1. CASE Clients
      BY <2>4, <3>1 DEF Clients, Dial, BeginLine, FinishLine, Hangup, backend
    <3>2. CASE StopClose
      BY <2>4, <3>2 DEF StopClose, StopCloseClient, StopCloseListen,
     StopCloseHandle, StopMove
    <3>3. QED
      BY <1>1, <2>4, <2>6, <3>1, <3>2, CoreSteps DEF core
  <2>7. QED
    BY <2>5, <2>6
<1>2. Spec => [][Next]_vars
  BY DEF Spec
<1>3. QED
  BY <1>1, <1>2, Invariance, PTL

\* Each client receives the answers to its own lines in the order of the lines, each
\* once and without a gap (transport.cpp:284-333, 403-476).
THEOREM AnswersOrdered == Spec => []AnswersInOrder
<1>1. ASSUME IInv, FlowInv, [Next]_vars PROVE FlowInv'
  <2>1. HandleInv /\ ConnInv /\ QueueTypes /\ ThreadTypes /\ ReceivedTypes /\ SessionInv
    BY <1>1 DEF IInv, RestTypes, FlowInv
  <2>2. \A c \in Client : FlowOf(c)'
    BY <1>1, <2>1, WriterFlow, ThreadFlow DEF FlowInv
  <2>3. SessionInv'
    BY <1>1, <2>1, SessionStep
  <2>4. QED
    BY <2>2, <2>3 DEF FlowInv
<1>2. ASSUME IInv, FlowInv PROVE AnswersInOrder
  <2> SUFFICES ASSUME NEW c \in Client
               PROVE  /\ \A i, j \in OwnAnswers(c) : i < j => received[c][i].line < received[c][j].line
                      /\ \A i \in OwnAnswers(c) :
                           /\ received[c][i].line \in 1..WholeLines(c)
                           /\ \A n \in 1..received[c][i].line : Answered(c, n)
    BY DEF AnswersInOrder
  <2>1. PICK r \in 0..WholeLines(c) : Run(received[c], c, 0, r)
    BY <1>2 DEF FlowInv, FlowOf, Flows
  <2>2. OwnAnswers(c) = Mine(received[c], c)
    BY DEF OwnAnswers, Mine
  <2>3. \A i \in OwnAnswers(c) : received[c][i].line \in 1..r
    BY <2>1, <2>2 DEF Run
  <2>4. \A n \in 1..r : Answered(c, n)
    BY <2>1, <2>2 DEF Run, Answered
  <2>5. ASSUME NEW i \in OwnAnswers(c)
        PROVE  /\ received[c][i].line \in 1..WholeLines(c)
               /\ \A n \in 1..received[c][i].line : Answered(c, n)
    <3>1. received[c][i].line \in 1..r
      BY <2>3
    <3>2. WholeLines(c) \in Int
      <4>1. Len(sent[c]) \in Nat
        BY <1>2, LenProperties DEF IInv, ConnInv, ConnTypes
      <4>2. QED
        BY <4>1 DEF WholeLines
    <3>3. QED
      BY <2>4, <3>1, <3>2
  <2>6. QED
    BY <2>1, <2>2, <2>5 DEF Run
<1>3. QED
  BY <1>1, <1>2, FlowInit, Invariance, PTL DEF Spec
=============================================================================
