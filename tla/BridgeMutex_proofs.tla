-------------------------- MODULE BridgeMutex_proofs --------------------------
(***************************************************************************)
(* What every step of the command bridge does to the clients of a node, to *)
(* the handlers and to cmdMu.                                              *)
(*                                                                         *)
(* The proof is in two parts.  Types, Match and Held are shown here: the   *)
(* types, that an open client has as many commands or replies under way as *)
(* its mutex has holders, and that a holder is waiting for its reply.      *)
(* CommandBridge_proofs builds on them.                                    *)
(***************************************************************************)
EXTENDS CommandBridge, SequenceTheorems, TLAPS

Frame == [ kind : {"event", "sofia", "count"}, cmd : {Nil}, late : BOOLEAN ]
           \cup [ kind : {"bgapi"}, cmd : Commands, late : BOOLEAN ]

Reply == [ kind : Kinds, ok : BOOLEAN, late : BOOLEAN ]

Client == [ open : BOOLEAN, mutex : Callers \cup {Nil}, wire : Seq(Frame), replies : Seq(Reply) ]

-----------------------------------------------------------------------------
(* The operations of a client.                                             *)

allLate(frames) == \A k \in DOMAIN frames : frames[k].late

count(c) == Len(c.wire) + Len(c.replies)

(* The only command or reply under way is that of the mutex's holder.      *)
matched(c) ==
  /\ count(c) <= 1
  /\ c.open => IF c.mutex = Nil THEN count(c) = 0 ELSE count(c) = 1

(* The wire of d carries the commands of the wire of c.                    *)
sameWire(c, d) ==
  /\ Len(d.wire) = Len(c.wire)
  /\ \A k \in 1 .. Len(c.wire) : d.wire[k].cmd = c.wire[k].cmd /\ d.wire[k].kind = c.wire[k].kind

(* d is c after its sender has left.                                       *)
Released(c, d) ==
  /\ d \in Client /\ d.open = c.open /\ d.mutex = Nil
  /\ sameWire(c, d) /\ allLate(d.wire) /\ allLate(d.replies)
  /\ Len(d.replies) <= Len(c.replies)

(* d is c with another command on its wire.                                *)
Sent(c, d, p, kind, cmd) ==
  /\ d \in Client /\ d.open = c.open /\ d.mutex = p
  /\ Len(d.wire) = Len(c.wire) + 1
  /\ \A k \in 1 .. Len(c.wire) : d.wire[k].cmd = c.wire[k].cmd
  /\ d.wire[Len(c.wire) + 1] = [ kind |-> kind, cmd |-> cmd, late |-> FALSE ]
  /\ Len(d.replies) <= Len(c.replies)

(* ... and nothing else under way has anybody waiting.                     *)
onlyLast(d) ==
  /\ \A k \in 1 .. Len(d.wire) - 1 : d.wire[k].late
  /\ allLate(d.replies)

(* Marking frames or replies late changes nothing else about them.         *)
LEMMA LateFrames ==
  /\ \A s \in Seq(Frame) :
       /\ late(s) \in Seq(Frame) /\ Len(late(s)) = Len(s) /\ allLate(late(s))
       /\ \A k \in 1 .. Len(s) : late(s)[k].cmd = s[k].cmd /\ late(s)[k].kind = s[k].kind
  /\ \A s \in Seq(Reply) :
       late(s) \in Seq(Reply) /\ Len(late(s)) = Len(s) /\ allLate(late(s))
<1>1. ASSUME NEW f \in Frame
      PROVE  /\ [f EXCEPT !.late = TRUE] \in Frame /\ [f EXCEPT !.late = TRUE].late
             /\ [f EXCEPT !.late = TRUE].cmd = f.cmd /\ [f EXCEPT !.late = TRUE].kind = f.kind
  BY Zenon DEF Frame
<1>2. ASSUME NEW f \in Reply
      PROVE  [f EXCEPT !.late = TRUE] \in Reply /\ [f EXCEPT !.late = TRUE].late
  BY Zenon DEF Reply
<1>3. ASSUME NEW s \in Seq(Frame)
      PROVE  /\ late(s) \in Seq(Frame) /\ Len(late(s)) = Len(s) /\ allLate(late(s))
             /\ \A k \in 1 .. Len(s) : late(s)[k].cmd = s[k].cmd /\ late(s)[k].kind = s[k].kind
  <2>1. DOMAIN s = 1 .. Len(s) /\ Len(s) \in Nat /\ \A k \in 1 .. Len(s) : s[k] \in Frame
    OBVIOUS
  <2>2. /\ DOMAIN late(s) = 1 .. Len(s)
        /\ \A k \in 1 .. Len(s) : late(s)[k] = [s[k] EXCEPT !.late = TRUE]
        /\ late(s) = [k \in 1 .. Len(s) |-> late(s)[k]]
    BY <2>1, Zenon DEF late
  <2>3. \A k \in 1 .. Len(s) : /\ late(s)[k] \in Frame /\ late(s)[k].late
                               /\ late(s)[k].cmd = s[k].cmd /\ late(s)[k].kind = s[k].kind
    <3> TAKE k \in 1 .. Len(s)
    <3>1. s[k] \in Frame /\ late(s)[k] = [s[k] EXCEPT !.late = TRUE]
      BY <2>1, <2>2, Zenon
    <3> DEFINE f == s[k]
    <3> HIDE DEF f
    <3>2. f \in Frame /\ late(s)[k] = [f EXCEPT !.late = TRUE]
      BY <3>1, Zenon DEF f
    <3>3. /\ late(s)[k] \in Frame /\ late(s)[k].late
          /\ late(s)[k].cmd = f.cmd /\ late(s)[k].kind = f.kind
      BY <1>1, <3>2, Zenon
    <3>4. QED
      BY <3>3, Zenon DEF f
  <2>4. late(s) \in Seq(Frame) /\ Len(late(s)) = Len(s)
    BY <2>1, <2>2, <2>3
  <2>5. QED
    BY <2>2, <2>3, <2>4, Zenon DEF allLate
<1>4. ASSUME NEW s \in Seq(Reply)
      PROVE  late(s) \in Seq(Reply) /\ Len(late(s)) = Len(s) /\ allLate(late(s))
  <2>1. DOMAIN s = 1 .. Len(s) /\ Len(s) \in Nat /\ \A k \in 1 .. Len(s) : s[k] \in Reply
    OBVIOUS
  <2>2. /\ DOMAIN late(s) = 1 .. Len(s)
        /\ \A k \in 1 .. Len(s) : late(s)[k] = [s[k] EXCEPT !.late = TRUE]
        /\ late(s) = [k \in 1 .. Len(s) |-> late(s)[k]]
    BY <2>1, Zenon DEF late
  <2>3. \A k \in 1 .. Len(s) : late(s)[k] \in Reply /\ late(s)[k].late
    <3> TAKE k \in 1 .. Len(s)
    <3>1. s[k] \in Reply /\ late(s)[k] = [s[k] EXCEPT !.late = TRUE]
      BY <2>1, <2>2, Zenon
    <3> DEFINE f == s[k]
    <3> HIDE DEF f
    <3>2. f \in Reply /\ late(s)[k] = [f EXCEPT !.late = TRUE]
      BY <3>1, Zenon DEF f
    <3>3. QED
      BY <1>2, <3>2, Zenon
  <2>4. late(s) \in Seq(Reply) /\ Len(late(s)) = Len(s)
    BY <2>1, <2>2, <2>3
  <2>5. QED
    BY <2>2, <2>3, <2>4, Zenon DEF allLate
<1>5. QED
  BY <1>3, <1>4, Zenon

(* The fields of a client and the lengths of its sequences.                *)
LEMMA ClientFields ==
  ASSUME NEW c \in Client
  PROVE  /\ c.open \in BOOLEAN /\ c.mutex \in Callers \cup {Nil}
         /\ c.wire \in Seq(Frame) /\ c.replies \in Seq(Reply)
         /\ Len(c.wire) \in Nat /\ Len(c.replies) \in Nat
         /\ DOMAIN c.wire = 1 .. Len(c.wire) /\ DOMAIN c.replies = 1 .. Len(c.replies)
         /\ \A k \in 1 .. Len(c.wire) : c.wire[k] \in Frame
         /\ \A k \in 1 .. Len(c.replies) : c.replies[k] \in Reply
         /\ c.replies # << >> => Len(c.replies) > 0
         /\ c.wire # << >> => Len(c.wire) > 0
<1>1. /\ c.open \in BOOLEAN /\ c.mutex \in Callers \cup {Nil}
      /\ c.wire \in Seq(Frame) /\ c.replies \in Seq(Reply)
  BY Zenon DEF Client
<1>2. QED
  BY <1>1, EmptySeq

(* Sums of two lengths.                                                    *)
LEMMA Sums ==
  \A m, n \in Nat :
    /\ m + n \in Nat
    /\ m + n <= 1 /\ m > 0 => m = 1 /\ n = 0 /\ m + n = 1
    /\ m + n <= 1 /\ n > 0 => m = 0 /\ n = 1 /\ n - 1 = 0
    /\ m + n = 0 => m = 0 /\ n = 0
    /\ \A k \in Nat : m + n <= 1 /\ k <= n => 0 + k <= 1
    /\ 1 + 0 = 1 /\ 0 + 1 = 1
OBVIOUS

(* A client whose sender has left.                                         *)
LEMMA LeaveIs ==
  ASSUME NEW c \in Client
  PROVE  /\ Released(c, leave(c))
         /\ Len(leave(c).replies) = IF c.open THEN Len(c.replies) ELSE 0
<1> DEFINE r == IF c.open THEN late(c.replies) ELSE << >>
<1>1. /\ late(c.wire) \in Seq(Frame) /\ Len(late(c.wire)) = Len(c.wire) /\ allLate(late(c.wire))
      /\ \A k \in 1 .. Len(c.wire) : /\ late(c.wire)[k].cmd = c.wire[k].cmd
                                     /\ late(c.wire)[k].kind = c.wire[k].kind
  BY ClientFields, LateFrames, Zenon
<1>2. /\ r \in Seq(Reply) /\ allLate(r) /\ Len(r) = IF c.open THEN Len(c.replies) ELSE 0
  <2>1. << >> \in Seq(Reply) /\ Len(<< >>) = 0 /\ allLate(<< >>)
    BY EmptySeq DEF allLate
  <2>2. QED
    BY <2>1, ClientFields, LateFrames, Zenon
<1>3. leave(c) = [c EXCEPT !.mutex = Nil, !.wire = late(c.wire), !.replies = r]
  BY Zenon DEF leave
<1> HIDE DEF r
<1>4. /\ leave(c) \in Client /\ leave(c).open = c.open /\ leave(c).mutex = Nil
      /\ leave(c).wire = late(c.wire) /\ leave(c).replies = r
  BY <1>1, <1>2, <1>3, Zenon DEF Client
<1>5. sameWire(c, leave(c)) /\ allLate(leave(c).wire) /\ allLate(leave(c).replies)
  BY <1>1, <1>2, <1>4, Zenon DEF sameWire
<1>6. Len(leave(c).replies) = IF c.open THEN Len(c.replies) ELSE 0
  BY <1>2, <1>4, Zenon
<1>7. Len(c.replies) \in Nat
  BY ClientFields, Zenon
<1>8. Len(leave(c).replies) <= Len(c.replies)
  BY <1>6, <1>7
<1>9. QED
  BY <1>4, <1>5, <1>6, <1>8, Zenon DEF Released

(* A client after its reply was read or given up.                          *)
LEMMA TailIs ==
  ASSUME NEW c \in Client, c.replies # << >>
  PROVE  LET d == [c EXCEPT !.replies = Tail(@)] IN
         /\ d \in Client /\ d.open = c.open /\ d.mutex = c.mutex /\ d.wire = c.wire
         /\ Len(d.replies) = Len(c.replies) - 1
<1>1. c.replies \in Seq(Reply)
  BY ClientFields, Zenon
<1>2. Tail(c.replies) \in Seq(Reply) /\ Len(Tail(c.replies)) = Len(c.replies) - 1
  BY <1>1, HeadTailProperties, Zenon
<1>3. QED
  BY <1>2, Zenon DEF Client

(* Taking a reply releases the mutex and keeps the client matched.         *)
LEMMA ReceiveIs ==
  ASSUME NEW c \in Client, c.replies # << >>
  PROVE  /\ Released(c, receive(c))
         /\ matched(c) => matched(receive(c)) /\ count(receive(c)) = 0
<1> DEFINE d == [c EXCEPT !.replies = Tail(@)]
<1>1. /\ d \in Client /\ d.open = c.open /\ d.mutex = c.mutex /\ d.wire = c.wire
      /\ Len(d.replies) = Len(c.replies) - 1
  BY TailIs, Zenon
<1>2. receive(c) = leave(d)
  BY Zenon DEF receive
<1> HIDE DEF d
<1>3. Released(d, leave(d)) /\ Len(leave(d).replies) = IF d.open THEN Len(d.replies) ELSE 0
  BY <1>1, LeaveIs, Zenon
<1>4. /\ Len(c.replies) \in Nat /\ Len(c.replies) > 0 /\ Len(c.wire) \in Nat
  BY ClientFields, Zenon
<1> DEFINE e == receive(c)
<1> HIDE DEF e
<1>5. /\ e \in Client /\ e.open = c.open /\ e.mutex = Nil /\ allLate(e.wire) /\ allLate(e.replies)
      /\ sameWire(c, e) /\ Len(e.wire) = Len(c.wire)
      /\ Len(e.replies) = IF c.open THEN Len(c.replies) - 1 ELSE 0
  BY <1>1, <1>2, <1>3, Zenon DEF Released, sameWire, e
<1>6. Released(c, e)
  BY <1>4, <1>5 DEF Released
<1>7. matched(c) => matched(e) /\ count(e) = 0
  <2> SUFFICES ASSUME matched(c)
               PROVE  matched(e) /\ count(e) = 0
    BY Zenon
  <2>1. Len(c.wire) + Len(c.replies) <= 1
    BY Zenon DEF matched, count
  <2>2. Len(e.wire) = 0 /\ Len(e.replies) = 0
    <3>1. Len(c.wire) = 0 /\ Len(c.replies) = 1 /\ Len(c.replies) - 1 = 0
      BY <1>4, <2>1, Sums, Zenon
    <3>2. QED
      BY <1>5, <3>1, Zenon
  <2>3. QED
    BY <1>5, <2>2 DEF matched, count
<1>8. QED
  BY <1>6, <1>7, Zenon DEF e

(* Giving up releases the mutex.                                           *)
LEMMA ExpireIs ==
  ASSUME NEW c \in Client
  PROVE  Released(c, expire(c))
<1>1. CASE c.replies = << >>
  <2>1. expire(c) = leave([c EXCEPT !.replies = c.replies])
    BY <1>1, Zenon DEF expire
  <2>2. [c EXCEPT !.replies = c.replies] = c
    BY Zenon DEF Client
  <2>3. QED
    BY <2>1, <2>2, LeaveIs, Zenon
<1>2. CASE c.replies # << >>
  <2>1. expire(c) = receive(c)
    BY <1>2, Zenon DEF expire, receive
  <2>2. QED
    BY <1>2, <2>1, ReceiveIs, Zenon
<1>3. QED
  BY <1>1, <1>2, Zenon

(* A write takes the mutex and puts one frame at the end of the wire.      *)
LEMMA WriteIs ==
  ASSUME NEW c \in Client, NEW p \in Callers, NEW kind, NEW cmd,
         [ kind |-> kind, cmd |-> cmd, late |-> FALSE ] \in Frame
  PROVE  /\ Sent(c, write(c, p, kind, cmd), p, kind, cmd)
         /\ count(c) = 0 => matched(write(c, p, kind, cmd))
         /\ allLate(c.wire) /\ allLate(c.replies) => onlyLast(write(c, p, kind, cmd))
<1> DEFINE f == [ kind |-> kind, cmd |-> cmd, late |-> FALSE ]
           d == write(c, p, kind, cmd)
<1>1. f \in Frame
  BY Zenon
<1>2. d = [c EXCEPT !.mutex = p, !.wire = Append(c.wire, f)]
  BY Zenon DEF write
<1> HIDE DEF f
<1>3. /\ Append(c.wire, f) \in Seq(Frame) /\ Len(Append(c.wire, f)) = Len(c.wire) + 1
      /\ \A k \in 1 .. Len(c.wire) : Append(c.wire, f)[k] = c.wire[k]
      /\ Append(c.wire, f)[Len(c.wire) + 1] = f
  BY <1>1, ClientFields
<1> HIDE DEF d
<1>4. /\ d \in Client /\ d.open = c.open /\ d.mutex = p /\ d.replies = c.replies
      /\ d.wire = Append(c.wire, f)
  BY <1>2, <1>3, Zenon DEF Client
<1>5. Sent(c, d, p, kind, cmd)
  BY <1>3, <1>4, ClientFields DEF Sent, f
<1>6. count(c) = 0 => matched(d)
  <2>1. p # Nil
    BY BridgeAssumption, Zenon
  <2>2. Len(d.wire) = Len(c.wire) + 1 /\ Len(d.replies) = Len(c.replies)
    BY <1>3, <1>4, Zenon
  <2>3. Len(c.wire) \in Nat /\ Len(c.replies) \in Nat
    BY ClientFields, Zenon
  <2>4. count(c) = 0 => count(d) = 1
    <3> SUFFICES ASSUME Len(c.wire) + Len(c.replies) = 0
                 PROVE  Len(d.wire) + Len(d.replies) = 1
      BY Zenon DEF count
    <3>1. Len(c.wire) = 0 /\ Len(c.replies) = 0
      BY <2>3, Sums, Zenon
    <3>2. Len(d.wire) = 1 /\ Len(d.replies) = 0
      BY <2>2, <3>1
    <3>3. QED
      BY <3>2
  <2>5. QED
    BY <1>4, <2>1, <2>4 DEF matched
<1>7. allLate(c.wire) /\ allLate(c.replies) => onlyLast(d)
  BY <1>3, <1>4, ClientFields DEF allLate, onlyLast
<1>8. QED
  BY <1>5, <1>6, <1>7, Zenon DEF d

(* Closing empties the wire and keeps the client matched.                  *)
LEMMA CloseIs ==
  ASSUME NEW c \in Client
  PROVE  /\ close(c) \in Client /\ close(c).open = FALSE /\ close(c).mutex = c.mutex
         /\ close(c).wire = << >>
         /\ close(c).replies = IF c.mutex = Nil THEN << >> ELSE c.replies
         /\ Len(close(c).replies) <= Len(c.replies)
         /\ matched(c) => matched(close(c))
<1>1. /\ close(c) \in Client /\ close(c).open = FALSE /\ close(c).mutex = c.mutex
      /\ close(c).wire = << >>
      /\ close(c).replies = IF c.mutex = Nil THEN << >> ELSE c.replies
  BY EmptySeq, Zenon DEF close, Client
<1>2. Len(<< >>) = 0
  BY EmptySeq, Zenon
<1>3. Len(close(c).wire) = 0 /\ Len(close(c).replies) <= Len(c.replies)
      /\ Len(close(c).replies) \in Nat
  BY <1>1, <1>2, ClientFields
<1>4. Len(c.wire) \in Nat /\ Len(c.replies) \in Nat
  BY ClientFields, Zenon
<1>5. count(c) <= 1 => count(close(c)) <= 1
  <2> SUFFICES ASSUME Len(c.wire) + Len(c.replies) <= 1
               PROVE  Len(close(c).wire) + Len(close(c).replies) <= 1
    BY Zenon DEF count
  <2>1. 0 + Len(close(c).replies) <= 1
    BY <1>3, <1>4, Sums
  <2>2. QED
    BY <1>3, <2>1, Zenon
<1>6. QED
  BY <1>1, <1>3, <1>5, Zenon DEF matched

(* FreeSWITCH takes the first frame, and its reply is appended or dropped. *)
LEMMA AnswerIs ==
  ASSUME NEW c \in Client, c.wire # << >>, NEW ok \in BOOLEAN
  PROVE  LET d == answer(c, ok)
             f == c.wire[1]
             r == [ kind |-> f.kind, ok |-> ok, late |-> f.late ]
         IN
         /\ Head(c.wire) = f /\ f \in Frame
         /\ d \in Client /\ d.open = c.open /\ d.mutex = c.mutex
         /\ Len(d.wire) = Len(c.wire) - 1
         /\ \A k \in 1 .. Len(d.wire) : d.wire[k] = c.wire[k + 1]
         /\ d.replies \in {c.replies, Append(c.replies, r)} /\ r \in Reply
         /\ Len(c.replies) <= ReplyBuffer => Len(d.replies) <= ReplyBuffer
         /\ matched(c) => matched(d)
<1> DEFINE d == answer(c, ok)
           f == c.wire[1]
           r == [ kind |-> f.kind, ok |-> ok, late |-> f.late ]
           rs == IF Len(c.replies) < ReplyBuffer THEN Append(c.replies, r) ELSE c.replies
<1>1. /\ c.wire \in Seq(Frame) /\ Len(c.wire) \in Nat /\ Len(c.wire) > 0
      /\ Len(c.replies) \in Nat /\ c.replies \in Seq(Reply)
  BY ClientFields, Zenon
<1>2. /\ Head(c.wire) = f /\ f \in Frame
      /\ Tail(c.wire) \in Seq(Frame) /\ Len(Tail(c.wire)) = Len(c.wire) - 1
      /\ \A k \in 1 .. Len(Tail(c.wire)) : Tail(c.wire)[k] = c.wire[k + 1]
  BY <1>1, HeadTailProperties
<1>3. r \in Reply
  BY <1>2, Zenon DEF Frame, Reply, Kinds
<1>4. d = [c EXCEPT !.wire = Tail(c.wire), !.replies = rs]
  BY <1>2, Zenon DEF answer
<1> HIDE DEF f, r
<1>5. /\ rs \in Seq(Reply) /\ rs \in {c.replies, Append(c.replies, r)}
      /\ Len(rs) = IF Len(c.replies) < ReplyBuffer THEN Len(c.replies) + 1 ELSE Len(c.replies)
  BY <1>1, <1>3
<1> HIDE DEF rs, d
<1>6. /\ d \in Client /\ d.open = c.open /\ d.mutex = c.mutex
      /\ d.wire = Tail(c.wire) /\ d.replies = rs
  BY <1>2, <1>4, <1>5, Zenon DEF Client
<1>7. Len(c.replies) <= ReplyBuffer => Len(d.replies) <= ReplyBuffer
  BY <1>1, <1>5, <1>6, ReplyAssumption
<1>8. matched(c) => matched(d)
  <2> SUFFICES ASSUME matched(c)
               PROVE  matched(d)
    BY Zenon
  <2>1. Len(c.wire) \in Nat /\ Len(c.replies) \in Nat /\ Len(c.wire) > 0
    BY <1>1, Zenon
  <2>2. count(c) <= 1 /\ (c.open /\ c.mutex = Nil => count(c) = 0)
    BY Zenon DEF matched
  <2>3. Len(c.wire) = 1 /\ Len(c.replies) = 0 /\ count(c) = 1
    <3>1. Len(c.wire) + Len(c.replies) <= 1
      BY <2>2, Zenon DEF count
    <3>2. Len(c.wire) = 1 /\ Len(c.replies) = 0 /\ Len(c.wire) + Len(c.replies) = 1
      BY <2>1, <3>1, Sums, Zenon
    <3>3. QED
      BY <3>2, Zenon DEF count
  <2>4. Len(d.wire) = 0 /\ Len(d.replies) = 1
    BY <1>2, <1>5, <1>6, <2>3, ReplyAssumption
  <2>5. count(d) = 1
    BY <2>4 DEF count
  <2>6. QED
    BY <1>6, <2>2, <2>3, <2>5, Zenon DEF matched
<1>9. QED
  BY <1>2, <1>3, <1>5, <1>6, <1>7, <1>8, Zenon DEF d, f, r, rs
-----------------------------------------------------------------------------
(* The connections of the replicas.                                        *)

Job == [ pc : {"idle", "mark", "get", "send", "wait"}, cmd : Commands \cup {Nil}, client : Nat ]

Sups == {"down", "subscribing", "gating", "serve", "probing", "close", "unpublish"}

Conns ==
  /\ clients \in [Replicas -> Seq(Client)]
  /\ \A b \in Replicas : \A i \in 1 .. Len(clients[b]) :
       Len(clients[b][i].replies) <= ReplyBuffer

Control ==
  /\ stream \in [Commands -> {"none", "pending", "acked"}]
  /\ seen \subseteq Commands
  /\ node \in [Replicas -> Nat] /\ rec \in [Replicas -> Nat]
  /\ job \in [Replicas -> Job] /\ sup \in [Replicas -> Sups]
  /\ executed \in [Commands -> Nat]
  /\ failed \subseteq Commands /\ crossed \subseteq Callers
  /\ \A b \in Replicas :
       /\ node[b] <= Len(clients[b]) /\ rec[b] <= Len(clients[b])
       /\ job[b].client <= Len(clients[b])
       /\ job[b].pc # "idle" => job[b].cmd \in Commands
       /\ job[b].pc \in {"send", "wait"} => job[b].client # 0
       /\ sup[b] # "down" => Len(clients[b]) # 0

Types == Conns /\ Control

(* A step gives client i of b the state d, and touches no other.           *)
Put(b, i, d) ==
  /\ clients' \in [Replicas -> Seq(Client)]
  /\ \A q \in Replicas : Len(clients'[q]) = Len(clients[q])
  /\ clients'[b][i] = d
  /\ \A q \in Replicas : \A j \in 1 .. Len(clients[q]) :
       q # b \/ j # i => clients'[q][j] = clients[q][j]

(* setClient replaces one client.                                          *)
LEMMA SetClient ==
  ASSUME Conns, NEW b \in Replicas, NEW i \in 1 .. Len(clients[b]), NEW d \in Client,
         setClient(b, i, d)
  PROVE  Put(b, i, d)
<1>1. clients' = [clients EXCEPT ![b] = [clients[b] EXCEPT ![i] = d]]
  BY Zenon DEF setClient
<1>2. clients[b] \in Seq(Client) /\ DOMAIN clients = Replicas
  BY Zenon DEF Conns
<1> DEFINE s == [clients[b] EXCEPT ![i] = d]
<1>3. /\ s \in Seq(Client) /\ Len(s) = Len(clients[b])
      /\ \A j \in 1 .. Len(clients[b]) : s[j] = IF j = i THEN d ELSE clients[b][j]
  BY <1>2, ExceptSeq
<1> HIDE DEF s
<1>4. clients' = [clients EXCEPT ![b] = s]
  BY <1>1, Zenon DEF s
<1>5. /\ clients'[b] = s /\ \A q \in Replicas \ {b} : clients'[q] = clients[q]
      /\ clients' \in [Replicas -> Seq(Client)]
  BY <1>3, <1>4, Zenon DEF Conns
<1>6. QED
  BY <1>3, <1>5, Zenon DEF Put

(* The clients that are there.                                             *)
LEMMA ClientOf ==
  ASSUME Conns, NEW b \in Replicas
  PROVE  /\ Len(clients[b]) \in Nat /\ DOMAIN clients[b] = 1 .. Len(clients[b])
         /\ \A i \in 1 .. Len(clients[b]) : clients[b][i] \in Client
         /\ Len(clients[b]) # 0 => Len(clients[b]) \in 1 .. Len(clients[b])
<1>1. clients[b] \in Seq(Client)
  BY Zenon DEF Conns
<1>2. QED
  BY <1>1

(* Whoever points at a client points at one that exists.                   *)
LEMMA Indices ==
  ASSUME Types, NEW b \in Replicas
  PROVE  /\ job[b].pc \in {"send", "wait"} => job[b].client \in 1 .. Len(clients[b])
         /\ node[b] # 0 => node[b] \in 1 .. Len(clients[b])
         /\ rec[b] # 0 => rec[b] \in 1 .. Len(clients[b])
         /\ sup[b] # "down" => Len(clients[b]) \in 1 .. Len(clients[b])
<1>1. job[b] \in Job /\ job[b].client \in Nat /\ node[b] \in Nat /\ rec[b] \in Nat
  BY Zenon DEF Types, Control, Job
<1>2. Len(clients[b]) \in Nat
  BY ClientOf, Zenon DEF Types
<1>3. QED
  BY <1>1, <1>2 DEF Types, Control

(* The kinds of steps of a client: its sender leaves, somebody sends, the  *)
(* node answers, the connection closes.                                    *)
fits(b, i, d) ==
  b \notin expired' /\ i = Len(clients[b]) /\ matched(clients[b][i]) => matched(d)

Leaves(b, i) ==
  \E d : Put(b, i, d) /\ Released(clients[b][i], d) /\ fits(b, i, d)

Sends(b, i, p, kind, cmd) ==
  \E d : /\ Put(b, i, d) /\ Sent(clients[b][i], d, p, kind, cmd) /\ fits(b, i, d)
         /\ \/ clients[b][i].mutex = Nil
                 /\ (allLate(clients[b][i].wire) /\ allLate(clients[b][i].replies) => onlyLast(d))
            \/ onlyLast(d)

Closes(b, i) == Put(b, i, close(clients[b][i]))

Answers(b, i, ok) == clients[b][i].wire # << >> /\ Put(b, i, answer(clients[b][i], ok))

(* A reply that is taken is a way of leaving the client.                   *)
LEMMA OnReceive ==
  ASSUME Conns, NEW b \in Replicas, NEW i \in 1 .. Len(clients[b]), NEW p,
         canReceive(clients[b][i], p), setClient(b, i, receive(clients[b][i]))
  PROVE  Leaves(b, i)
<1>1. clients[b][i] \in Client /\ clients[b][i].replies # << >>
  BY ClientOf, Zenon DEF canReceive
<1>2. /\ Released(clients[b][i], receive(clients[b][i]))
      /\ matched(clients[b][i]) => matched(receive(clients[b][i]))
  BY <1>1, ReceiveIs, Zenon
<1>3. Put(b, i, receive(clients[b][i]))
  BY <1>2, SetClient, Zenon DEF Released
<1>4. QED
  BY <1>2, <1>3, Zenon DEF Leaves, fits

(* So is giving up.                                                        *)
LEMMA OnGiveUp ==
  ASSUME Conns, NEW b \in Replicas, NEW i \in 1 .. Len(clients[b]), giveUp(b, i)
  PROVE  Leaves(b, i)
<1>1. clients[b][i] \in Client
  BY ClientOf, Zenon
<1>2. Released(clients[b][i], expire(clients[b][i]))
  BY <1>1, ExpireIs, Zenon
<1>3. Put(b, i, expire(clients[b][i]))
  BY <1>2, SetClient, Zenon DEF Released, giveUp
<1>4. i = Len(clients[b]) => b \in expired'
  BY Zenon DEF giveUp, current
<1>5. QED
  BY <1>2, <1>3, <1>4, Zenon DEF Leaves, fits

(* So is noticing that the client is closed.                               *)
LEMMA OnLeave ==
  ASSUME Conns, NEW b \in Replicas, NEW i \in 1 .. Len(clients[b]),
         ~ clients[b][i].open, setClient(b, i, leave(clients[b][i]))
  PROVE  Leaves(b, i)
<1> DEFINE c == clients[b][i]
           d == leave(clients[b][i])
<1>1. c \in Client
  BY ClientOf, Zenon
<1>2. Released(c, d) /\ Len(d.replies) = 0 /\ Len(d.wire) = Len(c.wire)
  BY <1>1, LeaveIs, Zenon DEF Released, sameWire
<1>3. Put(b, i, d)
  BY <1>2, SetClient, Zenon DEF Released
<1>4. matched(c) => matched(d)
  <2>1. Len(c.wire) \in Nat /\ Len(c.replies) \in Nat
    BY <1>1, ClientFields, Zenon
  <2>2. count(c) <= 1 => count(d) <= 1
    <3> SUFFICES ASSUME Len(c.wire) + Len(c.replies) <= 1
                 PROVE  Len(d.wire) + Len(d.replies) <= 1
      BY Zenon DEF count
    <3>1. \A m, n \in Nat : m + n <= 1 => m + 0 <= 1
      OBVIOUS
    <3>2. Len(c.wire) + 0 <= 1
      BY <2>1, <3>1, Zenon
    <3>3. QED
      BY <1>2, <3>2, Zenon
  <2>3. d.open = c.open
    BY <1>2, Zenon DEF Released
  <2>4. QED
    BY <2>2, <2>3, Zenon DEF matched
<1> HIDE DEF c, d
<1>5. QED
  BY <1>2, <1>3, <1>4, Zenon DEF Leaves, fits, c, d

(* A write is a way of sending.                                            *)
LEMMA OnWrite ==
  ASSUME Conns, NEW b \in Replicas, NEW i \in 1 .. Len(clients[b]), NEW p \in Callers,
         NEW kind, NEW cmd, [ kind |-> kind, cmd |-> cmd, late |-> FALSE ] \in Frame,
         canWrite(clients[b][i]), setClient(b, i, write(clients[b][i], p, kind, cmd))
  PROVE  Sends(b, i, p, kind, cmd)
<1> DEFINE c == clients[b][i]
           d == write(clients[b][i], p, kind, cmd)
<1>1. c \in Client /\ c.open /\ c.mutex = Nil
  BY ClientOf, Zenon DEF canWrite
<1>2. /\ Sent(c, d, p, kind, cmd) /\ (count(c) = 0 => matched(d))
      /\ allLate(c.wire) /\ allLate(c.replies) => onlyLast(d)
  BY <1>1, WriteIs, Zenon
<1>3. Put(b, i, d)
  BY <1>2, SetClient, Zenon DEF Sent
<1>4. matched(c) => matched(d)
  BY <1>1, <1>2, Zenon DEF matched
<1> HIDE DEF c, d
<1>5. QED
  BY <1>1, <1>2, <1>3, <1>4, Zenon DEF Sends, fits, c, d

(* The supervisor reads the answer to its subscription and sends a probe.  *)
LEMMA OnReceiveWrite ==
  ASSUME Conns, NEW b \in Replicas, NEW i \in 1 .. Len(clients[b]), NEW p \in Callers,
         canReceive(clients[b][i], p),
         setClient(b, i, write(receive(clients[b][i]), p, "sofia", Nil))
  PROVE  Sends(b, i, p, "sofia", Nil)
<1> DEFINE c == clients[b][i]
           e == receive(clients[b][i])
           d == write(receive(clients[b][i]), p, "sofia", Nil)
<1>1. c \in Client /\ c.replies # << >>
  BY ClientOf, Zenon DEF canReceive
<1>2. Released(c, e) /\ (matched(c) => count(e) = 0)
  BY <1>1, ReceiveIs, Zenon
<1>3. [ kind |-> "sofia", cmd |-> Nil, late |-> FALSE ] \in Frame /\ e \in Client
  BY <1>2, Zenon DEF Frame, Released
<1>4. /\ Sent(e, d, p, "sofia", Nil) /\ (count(e) = 0 => matched(d))
      /\ allLate(e.wire) /\ allLate(e.replies) => onlyLast(d)
  BY <1>3, WriteIs, Zenon
<1>5. Put(b, i, d)
  BY <1>4, SetClient, Zenon DEF Sent
<1> HIDE DEF c, d, e
<1>6. Sent(c, d, p, "sofia", Nil)
  <2>1. /\ Len(e.wire) = Len(c.wire) /\ Len(e.replies) <= Len(c.replies) /\ e.open = c.open
        /\ \A k \in 1 .. Len(c.wire) : e.wire[k].cmd = c.wire[k].cmd
    BY <1>2, Zenon DEF Released, sameWire
  <2>2. d \in Client
    BY <1>4, Zenon DEF Sent
  <2>3. Len(d.replies) <= Len(c.replies)
    <3>1. Len(d.replies) \in Nat /\ Len(e.replies) \in Nat /\ Len(c.replies) \in Nat
      BY <1>1, <1>3, <2>2, ClientFields, Zenon
    <3>2. \A x, y, z \in Nat : x <= y /\ y <= z => x <= z
      OBVIOUS
    <3>3. Len(d.replies) <= Len(e.replies)
      BY <1>4, Zenon DEF Sent
    <3>4. QED
      BY <2>1, <3>1, <3>2, <3>3, Zenon
  <2>4. QED
    BY <1>4, <2>1, <2>3, Zenon DEF Sent
<1>7. matched(c) => matched(d)
  BY <1>2, <1>4, Zenon
<1>8. onlyLast(d)
  BY <1>2, <1>4, Zenon DEF Released
<1>9. QED
  BY <1>5, <1>6, <1>7, <1>8, Zenon DEF Sends, fits, c, d

(* Closing a client changes that client only.                              *)
LEMMA OnClose ==
  ASSUME Conns, NEW b \in Replicas, NEW i \in 1 .. Len(clients[b]),
         setClient(b, i, close(clients[b][i]))
  PROVE  Closes(b, i)
<1>1. clients[b][i] \in Client
  BY ClientOf, Zenon
<1>2. close(clients[b][i]) \in Client
  BY <1>1, CloseIs, Zenon
<1>3. QED
  BY <1>2, SetClient, Zenon DEF Closes

(* An answer changes the client that asked only.                           *)
LEMMA OnAnswer ==
  ASSUME Conns, NEW b \in Replicas, NEW i \in 1 .. Len(clients[b]), NEW ok \in BOOLEAN,
         clients[b][i].wire # << >>, setClient(b, i, answer(clients[b][i], ok))
  PROVE  Answers(b, i, ok)
<1>1. clients[b][i] \in Client
  BY ClientOf, Zenon
<1>2. answer(clients[b][i], ok) \in Client
  BY <1>1, AnswerIs, Zenon
<1>3. QED
  BY <1>2, SetClient, Zenon DEF Answers
-----------------------------------------------------------------------------
(* What the actions do to the clients.                                     *)

cur(b) == Len(clients[b])

(* What every action does to the clients, in these terms.                  *)
LEMMA Moves ==
  ASSUME Types, NEW b \in Replicas
  PROVE  /\ Send(b) => Sends(b, job[b].client, "handler", "bgapi", job[b].cmd)
         /\ Receive(b) \/ TimesOut(b) => Leaves(b, job[b].client)
         /\ NotConnected(b) => IF job[b].pc = "wait" THEN Leaves(b, job[b].client)
                               ELSE UNCHANGED clients
         /\ Subscribed(b) => Leaves(b, cur(b)) \/ Sends(b, cur(b), "supervisor", "sofia", Nil)
         /\ Probe(b) => Sends(b, cur(b), "supervisor", "sofia", Nil)
         /\ Probed(b) \/ SupervisorTimesOut(b) => Leaves(b, cur(b))
         /\ SupervisorNotices(b) =>
              IF clients[b][cur(b)].mutex = "supervisor" THEN Leaves(b, cur(b))
              ELSE UNCHANGED clients
         /\ CloseClient(b) \/ LinkLost(b) => Closes(b, cur(b)) /\ cur(b) \in 1 .. Len(clients[b])
         /\ ReconcilerSends(b) => Sends(b, node[b], "reconciler", "count", Nil)
         /\ ReconcilerReceives(b) \/ ReconcilerFails(b) => Leaves(b, rec[b])
         /\ Answer(b) => \E i \in 1 .. Len(clients[b]), ok \in BOOLEAN :
              LET f == clients[b][i].wire[1] IN
              /\ Answers(b, i, ok)
              /\ executed' = IF f.kind = "bgapi" /\ ok
                             THEN [executed EXCEPT ![f.cmd] = @ + 1] ELSE executed
<1> USE DEF cur
<1>1. Conns
  BY Zenon DEF Types
<1>2. ASSUME Send(b)
      PROVE  Sends(b, job[b].client, "handler", "bgapi", job[b].cmd)
  <2>1. job[b].client \in 1 .. Len(clients[b]) /\ job[b].cmd \in Commands
    BY <1>2, Indices, Zenon DEF Send, Types, Control
  <2>2. [ kind |-> "bgapi", cmd |-> job[b].cmd, late |-> FALSE ] \in Frame
    BY <2>1, Zenon DEF Frame
  <2>3. QED
    BY <1>1, <1>2, <2>1, <2>2, OnWrite, Zenon DEF Send, Callers
<1>3. ASSUME Receive(b) \/ TimesOut(b)
      PROVE  Leaves(b, job[b].client)
  <2>1. job[b].client \in 1 .. Len(clients[b])
    BY <1>3, Indices, Zenon DEF Receive, TimesOut
  <2>2. QED
    BY <1>1, <1>3, <2>1, OnReceive, OnGiveUp, Zenon DEF Receive, take, TimesOut
<1>4. ASSUME NotConnected(b)
      PROVE  IF job[b].pc = "wait" THEN Leaves(b, job[b].client) ELSE UNCHANGED clients
  <2>1. job[b].client \in 1 .. Len(clients[b])
    BY <1>4, Indices, Zenon DEF NotConnected
  <2>2. QED
    BY <1>1, <1>4, <2>1, OnLeave, Zenon DEF NotConnected
<1>5. sup[b] # "down" => cur(b) \in 1 .. Len(clients[b])
  BY Indices, Zenon
<1>6. [ kind |-> "sofia", cmd |-> Nil, late |-> FALSE ] \in Frame
      /\ [ kind |-> "count", cmd |-> Nil, late |-> FALSE ] \in Frame
  BY Zenon DEF Frame
<1>7. ASSUME Subscribed(b)
      PROVE  Leaves(b, cur(b)) \/ Sends(b, cur(b), "supervisor", "sofia", Nil)
  <2>1. cur(b) \in 1 .. Len(clients[b])
    BY <1>5, <1>7, Zenon DEF Subscribed
  <2>2. QED
    BY <1>1, <1>7, <2>1, OnReceive, OnReceiveWrite, Zenon DEF Subscribed, current, Callers
<1>8. ASSUME Probe(b)
      PROVE  Sends(b, cur(b), "supervisor", "sofia", Nil)
  <2>1. cur(b) \in 1 .. Len(clients[b])
    BY <1>5, <1>8, Zenon DEF Probe
  <2>2. QED
    BY <1>1, <1>6, <1>8, <2>1, OnWrite, ZenonT(40) DEF Probe, current, Callers
<1>9. ASSUME Probed(b) \/ SupervisorTimesOut(b)
      PROVE  Leaves(b, cur(b))
  <2>1. cur(b) \in 1 .. Len(clients[b])
    BY <1>5, <1>9, Zenon DEF Probed, SupervisorTimesOut
  <2>2. QED
    BY <1>1, <1>9, <2>1, OnReceive, OnGiveUp, Zenon DEF Probed, take, SupervisorTimesOut, current
<1>10. ASSUME SupervisorNotices(b)
       PROVE  IF clients[b][cur(b)].mutex = "supervisor" THEN Leaves(b, cur(b))
              ELSE UNCHANGED clients
  <2>1. cur(b) \in 1 .. Len(clients[b])
    BY <1>5, <1>10, Zenon DEF SupervisorNotices
  <2>2. QED
    BY <1>1, <1>10, <2>1, OnLeave, Zenon DEF SupervisorNotices, waiting, current
<1>11. ASSUME CloseClient(b) \/ LinkLost(b)
       PROVE  Closes(b, cur(b)) /\ cur(b) \in 1 .. Len(clients[b])
  <2>1. cur(b) \in 1 .. Len(clients[b])
    BY <1>1, <1>5, <1>11, ClientOf, Zenon DEF CloseClient, LinkLost, current
  <2>2. setClient(b, cur(b), close(clients[b][cur(b)]))
    BY <1>11, Zenon DEF CloseClient, LinkLost, current
  <2>3. QED
    BY <1>1, <2>1, <2>2, OnClose, Zenon
<1>12. ASSUME ReconcilerSends(b)
       PROVE  Sends(b, node[b], "reconciler", "count", Nil)
  <2>1. node[b] \in 1 .. Len(clients[b])
    BY <1>12, Indices, Zenon DEF ReconcilerSends
  <2>2. QED
    BY <1>1, <1>6, <1>12, <2>1, OnWrite, Zenon DEF ReconcilerSends, Callers
<1>13. ASSUME ReconcilerReceives(b) \/ ReconcilerFails(b)
       PROVE  Leaves(b, rec[b])
  <2>1. rec[b] \in 1 .. Len(clients[b])
    BY <1>13, Indices, Zenon DEF ReconcilerReceives, ReconcilerFails
  <2>2. QED
    BY <1>1, <1>13, <2>1, OnReceive, OnGiveUp, OnLeave, Zenon
       DEF ReconcilerReceives, ReconcilerFails
<1>14. ASSUME Answer(b)
       PROVE  \E i \in 1 .. Len(clients[b]), ok \in BOOLEAN :
                LET f == clients[b][i].wire[1] IN
                /\ Answers(b, i, ok)
                /\ executed' = IF f.kind = "bgapi" /\ ok
                               THEN [executed EXCEPT ![f.cmd] = @ + 1] ELSE executed
  <2> DEFINE done(f, ok) == IF f.kind = "bgapi" /\ ok
                            THEN [executed EXCEPT ![f.cmd] = @ + 1] ELSE executed
  <2>1. PICK i \in DOMAIN clients[b] :
          /\ clients[b][i].wire # << >>
          /\ \E ok \in BOOLEAN : /\ setClient(b, i, answer(clients[b][i], ok))
                                 /\ executed' = done(Head(clients[b][i].wire), ok)
    BY <1>14, Zenon DEF Answer
  <2>2. i \in 1 .. Len(clients[b]) /\ clients[b][i] \in Client
    BY <1>1, ClientOf, Zenon
  <2>3. Head(clients[b][i].wire) = clients[b][i].wire[1]
    BY <2>1, <2>2, AnswerIs, Zenon
  <2>4. PICK ok \in BOOLEAN : /\ setClient(b, i, answer(clients[b][i], ok))
                              /\ executed' = done(Head(clients[b][i].wire), ok)
    BY <2>1, Zenon
  <2>5. Answers(b, i, ok)
    BY <1>1, <2>1, <2>2, <2>4, OnAnswer, ZenonT(40)
  <2>6. QED
    BY <2>2, <2>3, <2>4, <2>5, Zenon
<1>15. QED
  BY <1>2, <1>3, <1>4, <1>7, <1>8, <1>9, <1>10, <1>11, <1>12, <1>13, <1>14, Zenon

(* The current client of a replica no command has timed out on.            *)
Match ==
  \A b \in Replicas : b \notin expired /\ Len(clients[b]) # 0 => matched(clients[b][cur(b)])

(* Replacing one client by one that fits keeps the types and Match.        *)
LEMMA PutKeeps ==
  ASSUME Conns, NEW b \in Replicas, NEW i \in 1 .. Len(clients[b]), NEW d \in Client,
         Put(b, i, d), Len(d.replies) <= ReplyBuffer
  PROVE  /\ Conns'
         /\ Match /\ fits(b, i, d) /\ expired \subseteq expired' => Match'
<1>1. Conns'
  <2>1. ASSUME NEW q \in Replicas, NEW j \in 1 .. Len(clients'[q])
        PROVE  Len(clients'[q][j].replies) <= ReplyBuffer
    <3>1. j \in 1 .. Len(clients[q])
      BY <2>1, Zenon DEF Put
    <3>2. CASE q = b /\ j = i
      BY <3>2, Zenon DEF Put
    <3>3. CASE q # b \/ j # i
      <4>1. clients'[q][j] = clients[q][j]
        BY <3>1, <3>3, Zenon DEF Put
      <4>2. QED
        BY <3>1, <4>1, Zenon DEF Conns
    <3>4. QED
      BY <3>2, <3>3, Zenon
  <2>2. QED
    BY <2>1, Zenon DEF Conns, Put
<1>2. ASSUME Match, fits(b, i, d), expired \subseteq expired',
             NEW q \in Replicas, q \notin expired', Len(clients'[q]) # 0
      PROVE  matched(clients'[q][Len(clients'[q])])
  <2>1. Len(clients'[q]) = Len(clients[q]) /\ Len(clients[q]) \in 1 .. Len(clients[q])
    BY <1>2, ClientOf, Zenon DEF Put
  <2>2. matched(clients[q][Len(clients[q])])
    BY <1>2, <2>1, Zenon DEF Match, cur
  <2>3. CASE q = b /\ i = Len(clients[q])
    BY <1>2, <2>1, <2>2, <2>3, Zenon DEF fits, Put
  <2>4. CASE ~ (q = b /\ i = Len(clients[q]))
    BY <2>1, <2>2, <2>4, Zenon DEF Put
  <2>5. QED
    BY <2>3, <2>4, Zenon
<1>3. Match /\ fits(b, i, d) /\ expired \subseteq expired' => Match'
  <2> SUFFICES ASSUME Match, fits(b, i, d), expired \subseteq expired'
               PROVE  Match'
    BY Zenon
  <2>1. \A q \in Replicas : q \notin expired' /\ Len(clients'[q]) # 0 =>
          matched(clients'[q][Len(clients'[q])])
    BY <1>2, Zenon
  <2>2. QED
    BY <2>1, Zenon DEF Match, cur, matched, count
<1>4. QED
  BY <1>1, <1>3, Zenon

(* So does each of the four kinds of change.                               *)
LEMMA KindsKeep ==
  ASSUME Conns, NEW b \in Replicas, NEW i \in 1 .. Len(clients[b]),
         \/ Leaves(b, i)
         \/ \E p, kind, cmd : Sends(b, i, p, kind, cmd)
         \/ Closes(b, i)
         \/ \E ok \in BOOLEAN : Answers(b, i, ok)
  PROVE  /\ Conns' /\ (Match /\ expired \subseteq expired' => Match')
         /\ \A q \in Replicas : Len(clients'[q]) = Len(clients[q])
<1> DEFINE c == clients[b][i]
<1>1. c \in Client /\ Len(c.replies) <= ReplyBuffer /\ Len(c.replies) \in Nat /\ ReplyBuffer \in Nat
  BY ClientOf, ClientFields, ReplyAssumption, Zenon DEF Conns
<1>2. \E d \in Client : Put(b, i, d) /\ fits(b, i, d) /\ Len(d.replies) <= ReplyBuffer
  <2>1. \A d \in Client : Len(d.replies) \in Nat
    BY ClientFields, Zenon
  <2>2. \A x, y, z \in Nat : x <= y /\ y <= z => x <= z
    OBVIOUS
  <2>3. CASE Leaves(b, i)
    BY <1>1, <2>1, <2>2, <2>3, Zenon DEF Leaves, Released
  <2>4. CASE \E p, kind, cmd : Sends(b, i, p, kind, cmd)
    BY <1>1, <2>1, <2>2, <2>4, Zenon DEF Sends, Sent
  <2>5. CASE Closes(b, i)
    <3>1. close(c) \in Client /\ Len(close(c).replies) <= Len(c.replies)
          /\ (matched(c) => matched(close(c)))
      BY <1>1, CloseIs, Zenon
    <3>2. Len(close(c).replies) <= ReplyBuffer
      BY <1>1, <2>1, <2>2, <3>1, Zenon
    <3>3. QED
      BY <2>5, <3>1, <3>2, Zenon DEF Closes, fits
  <2>6. CASE \E ok \in BOOLEAN : Answers(b, i, ok)
    <3>1. PICK ok \in BOOLEAN : Answers(b, i, ok)
      BY <2>6, Zenon
    <3>2. answer(c, ok) \in Client /\ Len(answer(c, ok).replies) <= ReplyBuffer
          /\ (matched(c) => matched(answer(c, ok)))
      BY <1>1, <3>1, AnswerIs, Zenon DEF Answers
    <3>3. QED
      BY <3>1, <3>2, Zenon DEF Answers, fits
  <2>7. QED
    BY <2>3, <2>4, <2>5, <2>6, Zenon
<1>3. PICK d \in Client : Put(b, i, d) /\ fits(b, i, d) /\ Len(d.replies) <= ReplyBuffer
  BY <1>2, Zenon
<1>4. QED
  BY <1>3, PutKeeps, Zenon DEF Put
(* A new connection.                                                       *)
LEMMA OnDial ==
  ASSUME Conns, NEW b \in Replicas, Dial(b)
  PROVE  \E d \in Client :
           /\ clients' \in [Replicas -> Seq(Client)]
           /\ Len(clients'[b]) = Len(clients[b]) + 1 /\ clients'[b][Len(clients[b]) + 1] = d
           /\ \A q \in Replicas \ {b} : clients'[q] = clients[q]
           /\ \A j \in 1 .. Len(clients[b]) : clients'[b][j] = clients[b][j]
           /\ d.mutex = "supervisor" /\ Len(d.wire) = 1 /\ d.wire[1].cmd = Nil
           /\ Len(d.replies) = 0 /\ matched(d)
<1> DEFINE d == write(NewClient, "supervisor", "event", Nil)
<1>1. /\ NewClient \in Client /\ Len(NewClient.wire) = 0 /\ Len(NewClient.replies) = 0
  BY EmptySeq, Zenon DEF NewClient, Client
<1>2. count(NewClient) = 0
  BY <1>1 DEF count
<1>3. "supervisor" \in Callers /\ [ kind |-> "event", cmd |-> Nil, late |-> FALSE ] \in Frame
  BY Zenon DEF Frame, Callers
<1>4. Sent(NewClient, d, "supervisor", "event", Nil) /\ matched(d)
  BY <1>1, <1>2, <1>3, WriteIs, Zenon
<1>5. clients' = [clients EXCEPT ![b] = Append(clients[b], d)]
  BY Zenon DEF Dial
<1> HIDE DEF d
<1>6. /\ d \in Client /\ d.mutex = "supervisor" /\ Len(d.wire) = 1 /\ d.wire[1].cmd = Nil
      /\ Len(d.replies) = 0
  <2>1. d \in Client /\ Len(d.replies) \in Nat /\ Len(d.replies) <= 0
    BY <1>1, <1>4, ClientFields, Zenon DEF Sent
  <2>2. Len(d.wire) = 0 + 1 /\ d.wire[0 + 1].cmd = Nil /\ d.mutex = "supervisor"
    BY <1>1, <1>4 DEF Sent
  <2>3. QED
    BY <2>1, <2>2
<1>7. clients[b] \in Seq(Client)
  BY Zenon DEF Conns
<1>8. /\ Append(clients[b], d) \in Seq(Client)
      /\ Len(Append(clients[b], d)) = Len(clients[b]) + 1
      /\ Append(clients[b], d)[Len(clients[b]) + 1] = d
      /\ \A j \in 1 .. Len(clients[b]) : Append(clients[b], d)[j] = clients[b][j]
  BY <1>6, <1>7
<1>9. /\ clients'[b] = Append(clients[b], d) /\ clients' \in [Replicas -> Seq(Client)]
      /\ \A q \in Replicas \ {b} : clients'[q] = clients[q]
  BY <1>5, <1>8, Zenon DEF Conns
<1>10. QED
  BY <1>4, <1>6, <1>8, <1>9, Zenon

(* The process is gone, and its connections with it.                       *)
LEMMA OnCrash ==
  ASSUME Conns, NEW b \in Replicas, Crash(b)
  PROVE  /\ clients' \in [Replicas -> Seq(Client)]
         /\ Len(clients'[b]) = 0
         /\ \A q \in Replicas \ {b} : clients'[q] = clients[q]
<1>1. clients' = [clients EXCEPT ![b] = << >>]
  BY Zenon DEF Crash
<1>2. << >> \in Seq(Client) /\ Len(<< >>) = 0
  BY EmptySeq, Zenon
<1>3. QED
  BY <1>1, <1>2, Zenon DEF Conns

-----------------------------------------------------------------------------
(* The connections keep their types, and replies their callers.            *)
LEMMA ConnsStep ==
  ASSUME Types, [Next]_vars
  PROVE  Conns' /\ (Match => Match')
<1>1. Conns
  BY Zenon DEF Types
<1>2. CASE UNCHANGED <<clients, expired>>
  <2>1. Conns'
    BY <1>1, <1>2, Zenon DEF Conns
  <2>2. Match => Match'
    BY <1>2, Zenon DEF Match, cur, matched, count
  <2>3. QED
    BY <2>1, <2>2, Zenon
<1>3. ASSUME NEW b \in Replicas,
             \/ Send(b) \/ Receive(b) \/ TimesOut(b) \/ NotConnected(b)
             \/ Subscribed(b) \/ Probe(b) \/ Probed(b) \/ SupervisorTimesOut(b)
             \/ SupervisorNotices(b) \/ CloseClient(b) \/ LinkLost(b)
             \/ ReconcilerSends(b) \/ ReconcilerReceives(b) \/ ReconcilerFails(b)
             \/ Answer(b)
      PROVE  Conns' /\ (Match => Match')
  <2>1. expired \subseteq expired'
    BY <1>3, Zenon DEF Send, Receive, TimesOut, giveUp, NotConnected, Subscribed, Probe, Probed,
       SupervisorTimesOut, SupervisorNotices, CloseClient, LinkLost, ReconcilerSends,
       ReconcilerReceives, ReconcilerFails, Answer
  <2>2. CASE Send(b) \/ Receive(b) \/ TimesOut(b)
    <3>1. job[b].client \in 1 .. Len(clients[b])
      BY <2>2, Indices, Zenon DEF Send, Receive, TimesOut
    <3>2. QED
      BY <1>1, <2>1, <2>2, <3>1, Moves, KindsKeep, ZenonT(40)
  <2>3. CASE NotConnected(b)
    <3>1. job[b].client \in 1 .. Len(clients[b])
      BY <2>3, Indices, Zenon DEF NotConnected
    <3>2. CASE job[b].pc = "wait"
      BY <1>1, <2>1, <2>3, <3>1, <3>2, Moves, KindsKeep, ZenonT(40)
    <3>3. CASE job[b].pc # "wait"
      <4>1. UNCHANGED <<clients, expired>>
        BY <2>3, <3>3, Zenon DEF NotConnected
      <4>2. QED
        BY <1>2, <4>1, Zenon
    <3>4. QED
      BY <3>2, <3>3, Zenon
  <2>4. CASE Subscribed(b) \/ Probe(b) \/ Probed(b) \/ SupervisorTimesOut(b)
    <3>1. cur(b) \in 1 .. Len(clients[b])
      BY <2>4, Indices, ZenonT(40) DEF Subscribed, Probe, Probed, SupervisorTimesOut, cur
    <3>2. QED
      BY <1>1, <2>1, <2>4, <3>1, Moves, KindsKeep, ZenonT(40)
  <2>5. CASE SupervisorNotices(b)
    <3>1. cur(b) \in 1 .. Len(clients[b])
      BY <2>5, Indices, Zenon DEF SupervisorNotices, cur
    <3>2. CASE clients[b][cur(b)].mutex = "supervisor"
      BY <1>1, <2>1, <2>5, <3>1, <3>2, Moves, KindsKeep, ZenonT(40)
    <3>3. CASE clients[b][cur(b)].mutex # "supervisor"
      <4>1. UNCHANGED <<clients, expired>>
        BY <2>5, <3>3, Moves, ZenonT(40) DEF SupervisorNotices
      <4>2. QED
        BY <1>2, <4>1, Zenon
    <3>4. QED
      BY <3>2, <3>3, Zenon
  <2>6. CASE CloseClient(b) \/ LinkLost(b)
    BY <1>1, <2>1, <2>6, Moves, KindsKeep, ZenonT(40)
  <2>7. CASE ReconcilerSends(b) \/ ReconcilerReceives(b) \/ ReconcilerFails(b)
    <3>1. /\ ReconcilerSends(b) => node[b] \in 1 .. Len(clients[b])
          /\ ReconcilerReceives(b) \/ ReconcilerFails(b) => rec[b] \in 1 .. Len(clients[b])
      BY Indices, Zenon DEF ReconcilerSends, ReconcilerReceives, ReconcilerFails
    <3>2. QED
      BY <1>1, <2>1, <2>7, <3>1, Moves, KindsKeep, ZenonT(40)
  <2>8. CASE Answer(b)
    BY <1>1, <2>1, <2>8, Moves, KindsKeep, ZenonT(40)
  <2>9. QED
    BY <1>3, <2>2, <2>3, <2>4, <2>5, <2>6, <2>7, <2>8, ZenonT(40)
<1>4. ASSUME NEW b \in Replicas, Dial(b)
      PROVE  Conns' /\ (Match => Match')
  <2>1. PICK d \in Client :
           /\ clients' \in [Replicas -> Seq(Client)]
           /\ Len(clients'[b]) = Len(clients[b]) + 1 /\ clients'[b][Len(clients[b]) + 1] = d
           /\ \A q \in Replicas \ {b} : clients'[q] = clients[q]
           /\ \A j \in 1 .. Len(clients[b]) : clients'[b][j] = clients[b][j]
           /\ Len(d.replies) = 0 /\ matched(d)
    BY <1>1, <1>4, OnDial, Zenon
  <2>2. Len(clients[b]) \in Nat /\ ReplyBuffer \in Nat
    BY <1>1, ClientOf, ReplyAssumption, ZenonT(40)
  <2>3. \A j \in 1 .. Len(clients[b]) + 1 : j \in 1 .. Len(clients[b]) \/ j = Len(clients[b]) + 1
    BY <2>2
  <2>4. Conns'
    <3>1. ASSUME NEW q \in Replicas, NEW j \in 1 .. Len(clients'[q])
          PROVE  Len(clients'[q][j].replies) <= ReplyBuffer
      <4>1. CASE q # b
        BY <1>1, <2>1, <3>1, <4>1, ZenonT(40) DEF Conns
      <4>2. CASE q = b /\ j = Len(clients[b]) + 1
        BY <2>1, <2>2, <4>2
      <4>3. CASE q = b /\ j \in 1 .. Len(clients[b])
        <5>1. Len(clients[b][j].replies) <= ReplyBuffer
          BY <1>1, <4>3, Zenon DEF Conns
        <5>2. QED
          BY <2>1, <4>3, <5>1, Zenon
      <4>4. QED
        BY <2>1, <2>3, <4>1, <4>2, <4>3, ZenonT(40)
    <3>2. QED
      BY <2>1, <3>1, Zenon DEF Conns
  <2>5. expired' = expired \ {b}
    BY <1>4, Zenon DEF Dial
  <2>6. Match => \A q \in Replicas : q \notin expired' /\ Len(clients'[q]) # 0 =>
                   matched(clients'[q][Len(clients'[q])])
    BY <2>1, <2>5, Zenon DEF Match, cur
  <2>7. QED
    BY <2>4, <2>6, Zenon DEF Match, cur, matched, count
<1>5. ASSUME NEW b \in Replicas, Crash(b)
      PROVE  Conns' /\ (Match => Match')
  <2>1. /\ clients' \in [Replicas -> Seq(Client)] /\ Len(clients'[b]) = 0
        /\ \A q \in Replicas \ {b} : clients'[q] = clients[q]
    BY <1>1, <1>5, OnCrash, Zenon
  <2>2. expired' = expired \ {b}
    BY <1>5, Zenon DEF Crash
  <2>3. Conns'
    <3>1. ASSUME NEW q \in Replicas, NEW j \in 1 .. Len(clients'[q])
          PROVE  Len(clients'[q][j].replies) <= ReplyBuffer
      <4>1. q # b
        BY <2>1
      <4>2. QED
        BY <1>1, <2>1, <4>1, Zenon DEF Conns
    <3>2. QED
      BY <2>1, <3>1, Zenon DEF Conns
  <2>4. Match => \A q \in Replicas : q \notin expired' /\ Len(clients'[q]) # 0 =>
                   matched(clients'[q][Len(clients'[q])])
    BY <2>1, <2>2, Zenon DEF Match, cur
  <2>5. QED
    BY <2>3, <2>4, Zenon DEF Match, cur, matched, count
<1>6. QED
  BY <1>2, <1>3, <1>4, <1>5, ZenonT(40)
     DEF Next, vars, Publish, Deliver, Handle, MarkSeen, Get, MarkSeenFails,
     Supervise, Reconcile, Unpublish
(* The rest of the state keeps its types.                                  *)
LEMMA SameLens ==
  ASSUME Types, NEW b \in Replicas,
         \/ Handle(b) \/ Subscribed(b) \/ Probe(b) \/ Probed(b) \/ SupervisorTimesOut(b)
         \/ SupervisorNotices(b) \/ CloseClient(b) \/ LinkLost(b) \/ Reconcile(b) \/ Answer(b)
  PROVE  \A q \in Replicas : Len(clients'[q]) = Len(clients[q])
<1>1. \/ UNCHANGED clients
      \/ \E i : \/ Leaves(b, i)
                \/ \E p, kind, cmd : Sends(b, i, p, kind, cmd)
                \/ Closes(b, i)
                \/ \E ok \in BOOLEAN : Answers(b, i, ok)
  <2>1. CASE Handle(b)
    <3>1. CASE MarkSeen(b) \/ Get(b)
      BY <3>1, Zenon DEF MarkSeen, Get
    <3>2. CASE Send(b) \/ Receive(b) \/ TimesOut(b)
      BY <3>2, Moves, Zenon
    <3>3. CASE NotConnected(b)
      BY <3>3, Moves, Zenon
    <3>4. QED
      BY <2>1, <3>1, <3>2, <3>3, Zenon DEF Handle
  <2>2. CASE Subscribed(b) \/ Probe(b) \/ Probed(b) \/ SupervisorTimesOut(b)
    BY <2>2, Moves, Zenon
  <2>3. CASE SupervisorNotices(b)
    BY <2>3, Moves, Zenon
  <2>4. CASE CloseClient(b) \/ LinkLost(b)
    BY <2>4, Moves, Zenon
  <2>5. CASE Reconcile(b)
    BY <2>5, Moves, Zenon DEF Reconcile
  <2>6. CASE Answer(b)
    BY <2>6, Moves, Zenon
  <2>7. QED
    BY <2>1, <2>2, <2>3, <2>4, <2>5, <2>6, Zenon
<1>2. QED
  BY <1>1, ZenonT(40) DEF Leaves, Sends, Closes, Answers, Put

(* A step that changes one job to a sound one keeps the control state.     *)
LEMMA ControlOnJob ==
  ASSUME Types, NEW b \in Replicas, NEW j \in Job, job' = [job EXCEPT ![b] = j],
         j.pc # "idle" => j.cmd \in Commands, j.client <= Len(clients[b]),
         j.pc \in {"send", "wait"} => j.client # 0,
         \A q \in Replicas : Len(clients'[q]) = Len(clients[q]),
         UNCHANGED <<node, sup, rec, executed>>,
         stream' \in [Commands -> {"none", "pending", "acked"}],
         seen' \subseteq Commands, failed' \subseteq Commands, crossed' \subseteq Callers
  PROVE  Control'
<1>1. job' \in [Replicas -> Job] /\ job'[b] = j /\ \A q \in Replicas \ {b} : job'[q] = job[q]
  BY Zenon DEF Types, Control
<1>2. ASSUME NEW q \in Replicas
      PROVE  /\ node'[q] <= Len(clients'[q]) /\ rec'[q] <= Len(clients'[q])
             /\ job'[q].client <= Len(clients'[q])
             /\ job'[q].pc # "idle" => job'[q].cmd \in Commands
             /\ job'[q].pc \in {"send", "wait"} => job'[q].client # 0
             /\ sup'[q] # "down" => Len(clients'[q]) # 0
  <2>1. CASE q = b
    BY <1>1, <2>1, Zenon DEF Types, Control
  <2>2. CASE q # b
    BY <1>1, <2>2, Zenon DEF Types, Control
  <2>3. QED
    BY <2>1, <2>2, Zenon
<1>3. QED
  BY <1>1, <1>2, Zenon DEF Types, Control

(* A pointer set to an existing client stays within the clients.           *)
LEMMA PointerSet ==
  ASSUME NEW f \in [Replicas -> Nat], \A q \in Replicas : f[q] <= Len(clients[q]),
         NEW b \in Replicas, NEW v \in Nat, v <= Len(clients[b])
  PROVE  /\ [f EXCEPT ![b] = v] \in [Replicas -> Nat]
         /\ \A q \in Replicas : [f EXCEPT ![b] = v][q] <= Len(clients[q])
BY Zenon

(* Every step keeps the control state.                                     *)
LEMMA ControlStep ==
  ASSUME Types, [Next]_vars
  PROVE  Control'
<1>1. CASE UNCHANGED vars
  BY <1>1, Zenon DEF vars, Types, Control
<1>2. ASSUME NEW c \in Commands, Publish(c)
      PROVE  Control'
  BY <1>2, Zenon DEF Publish, Types, Control
<1>3. ASSUME NEW b \in Replicas, NEW c \in Commands, Deliver(b, c)
      PROVE  Control'
  <2>1. [ pc |-> "mark", cmd |-> c, client |-> 0 ] \in Job
    BY Zenon DEF Job
  <2>2. Len(clients[b]) \in Nat
    BY ClientOf, Zenon DEF Types
  <2>3. QED
    BY <1>3, <2>1, <2>2 DEF Deliver, Types, Control
<1>4. /\ IdleJob \in Job /\ IdleJob.pc = "idle" /\ IdleJob.client = 0
  BY Zenon DEF IdleJob, Job
<1>5. \A b \in Replicas : Len(clients[b]) \in Nat
  BY ClientOf, Zenon DEF Types
<1>6. ASSUME NEW b \in Replicas, job[b].pc # "idle",
             job' = [job EXCEPT ![b] = IdleJob],
             stream' = [stream EXCEPT ![job[b].cmd] = "acked"] \/ UNCHANGED stream,
             failed' \in {failed, failed \cup {job[b].cmd}},
             seen' \in {seen, seen \cup {job[b].cmd}},
             crossed' \subseteq Callers,
             \A q \in Replicas : Len(clients'[q]) = Len(clients[q]),
             UNCHANGED <<node, sup, rec, executed>>
      PROVE  Control'
  <2>1. job[b].cmd \in Commands
    BY <1>6, Zenon DEF Types, Control
  <2>2. /\ stream' \in [Commands -> {"none", "pending", "acked"}]
        /\ seen' \subseteq Commands /\ failed' \subseteq Commands
    BY <1>6, <2>1, Zenon DEF Types, Control
  <2>3. IdleJob.client <= Len(clients[b])
    BY <1>4, <1>5
  <2>4. QED
    BY <1>4, <1>6, <2>2, <2>3, ControlOnJob, Zenon
<1>7. ASSUME NEW b \in Replicas, MarkSeen(b)
      PROVE  Control'
  <2>1. CASE job[b].cmd \in seen \cup Malformed
    <3>1. /\ job[b].pc # "idle" /\ job' = [job EXCEPT ![b] = IdleJob]
          /\ stream' = [stream EXCEPT ![job[b].cmd] = "acked"] \/ UNCHANGED stream
          /\ failed' = failed /\ seen' = seen \cup {job[b].cmd}
          /\ crossed' = crossed /\ UNCHANGED <<clients, node, sup, rec, executed>>
      BY <1>7, <2>1, Zenon DEF MarkSeen, Ack
    <3>2. crossed \subseteq Callers
      BY Zenon DEF Types, Control
    <3>3. QED
      BY <1>6, <3>1, <3>2, Zenon
  <2>2. CASE job[b].cmd \notin seen \cup Malformed
    <3> DEFINE j == [job[b] EXCEPT !.pc = "get"]
    <3>1. /\ job' = [job EXCEPT ![b] = j] /\ job[b].pc = "mark"
          /\ UNCHANGED <<stream, failed, crossed, clients, node, sup, rec, executed>>
          /\ seen' = seen \cup {job[b].cmd}
      BY <1>7, <2>2, Zenon DEF MarkSeen
    <3>2. job[b] \in Job /\ job[b].cmd \in Commands /\ job[b].client <= Len(clients[b])
      BY <3>1, Zenon DEF Types, Control
    <3>3. j \in Job /\ j.pc = "get" /\ j.cmd = job[b].cmd /\ j.client = job[b].client
      BY <3>2, Zenon DEF Job
    <3> HIDE DEF j
    <3>4. /\ stream' \in [Commands -> {"none", "pending", "acked"}]
          /\ seen' \subseteq Commands /\ failed' \subseteq Commands /\ crossed' \subseteq Callers
      BY <3>1, <3>2, Zenon DEF Types, Control
    <3>5. QED
      BY <3>1, <3>2, <3>3, <3>4, ControlOnJob, Zenon
  <2>3. QED
    BY <2>1, <2>2, Zenon
<1>8. ASSUME NEW b \in Replicas, MarkSeenFails(b)
      PROVE  Control'
  BY <1>6, <1>8, Zenon DEF MarkSeenFails, Types, Control
<1>9. ASSUME NEW b \in Replicas, Get(b)
      PROVE  Control'
  <2>1. CASE node[b] = 0
    BY <1>6, <1>9, <2>1, Zenon DEF Get, Nak, Types, Control
  <2>2. CASE node[b] # 0
    <3> DEFINE j == [job[b] EXCEPT !.pc = "send", !.client = node[b]]
    <3>1. /\ job' = [job EXCEPT ![b] = j] /\ job[b].pc = "get"
          /\ UNCHANGED <<stream, failed, crossed, clients, node, sup, rec, executed, seen>>
      BY <1>9, <2>2, Zenon DEF Get
    <3>2. /\ job[b] \in Job /\ job[b].cmd \in Commands
          /\ node[b] \in Nat /\ node[b] <= Len(clients[b])
      BY <3>1, Zenon DEF Types, Control
    <3>3. j \in Job /\ j.pc = "send" /\ j.cmd = job[b].cmd /\ j.client = node[b]
      BY <3>2, Zenon DEF Job
    <3> HIDE DEF j
    <3>4. /\ stream' \in [Commands -> {"none", "pending", "acked"}]
          /\ seen' \subseteq Commands /\ failed' \subseteq Commands /\ crossed' \subseteq Callers
      BY <3>1, Zenon DEF Types, Control
    <3>5. QED
      BY <2>2, <3>1, <3>2, <3>3, <3>4, ControlOnJob, Zenon
  <2>3. QED
    BY <2>1, <2>2, Zenon
<1>10. ASSUME NEW b \in Replicas, Send(b)
       PROVE  Control'
  <2>1. \A q \in Replicas : Len(clients'[q]) = Len(clients[q])
    BY <1>10, SameLens, Zenon DEF Handle
  <2>2. QED
    BY <1>10, <2>1, ZenonT(40) DEF Send, Types, Control, Job
<1>11. ASSUME NEW b \in Replicas, Receive(b) \/ TimesOut(b) \/ NotConnected(b)
       PROVE  Control'
  <2>1. \A q \in Replicas : Len(clients'[q]) = Len(clients[q])
    BY <1>11, SameLens, Zenon DEF Handle
  <2>2. crossed' \subseteq Callers
    BY <1>11, Zenon DEF Receive, take, TimesOut, NotConnected, Types, Control, Callers
  <2>3. QED
    BY <1>6, <1>11, <2>1, <2>2, Zenon DEF Receive, TimesOut, NotConnected, Ack, Nak
<1>12. ASSUME NEW b \in Replicas,
              \/ Subscribed(b) \/ Probe(b) \/ Probed(b) \/ SupervisorTimesOut(b)
              \/ SupervisorNotices(b)
       PROVE  Control'
  <2>1. \A q \in Replicas : Len(clients'[q]) = Len(clients[q])
    BY <1>12, SameLens, Zenon
  <2>2. crossed' \subseteq Callers /\ UNCHANGED <<stream, seen, job, rec, executed, failed>>
    BY <1>12, Zenon DEF Subscribed, Probe, Probed, take, SupervisorTimesOut, SupervisorNotices,
       Types, Control, Callers
  <2>3. /\ sup[b] # "down"
        /\ \E pc \in Sups : sup' = [sup EXCEPT ![b] = pc]
        /\ node' = node \/ node' = [node EXCEPT ![b] = Len(clients[b])]
    <3>1. CASE Subscribed(b)
      BY <3>1, Zenon DEF Subscribed, supervise, Sups
    <3>2. CASE Probe(b)
      BY <3>2, Zenon DEF Probe, supervise, Sups
    <3>3. CASE Probed(b)
      <4>1. node' = node \/ node' = [node EXCEPT ![b] = Len(clients[b])]
        BY <3>3, Zenon DEF Probed, current, Types, Control
      <4>2. QED
        BY <3>3, <4>1, Zenon DEF Probed, supervise, Sups
    <3>4. CASE SupervisorTimesOut(b)
      BY <3>4, Zenon DEF SupervisorTimesOut, supervise, Sups
    <3>5. CASE SupervisorNotices(b)
      BY <3>5, Zenon DEF SupervisorNotices, supervise, Sups
    <3>6. QED
      BY <1>12, <3>1, <3>2, <3>3, <3>4, <3>5, Zenon
  <2>4. PICK pc \in Sups : sup' = [sup EXCEPT ![b] = pc]
    BY <2>3, Zenon
  <2>5. sup' \in [Replicas -> Sups] /\ \A q \in Replicas \ {b} : sup'[q] = sup[q]
    BY <2>4, Zenon DEF Types, Control
  <2>6. /\ node' \in [Replicas -> Nat] /\ \A q \in Replicas : node'[q] <= Len(clients[q])
    <3>1. node \in [Replicas -> Nat] /\ \A q \in Replicas : node[q] <= Len(clients[q])
      BY Zenon DEF Types, Control
    <3>2. Len(clients[b]) \in Nat /\ Len(clients[b]) <= Len(clients[b])
      BY <1>5
    <3>3. QED
      BY <2>3, <3>1, <3>2, PointerSet
  <2>7. \A q \in Replicas : sup'[q] # "down" => Len(clients[q]) # 0
    BY <2>3, <2>5, Zenon DEF Types, Control
  <2>8. QED
    BY <2>1, <2>2, <2>5, <2>6, <2>7, ZenonT(40) DEF Types, Control
<1>13. ASSUME NEW b \in Replicas, Dial(b)
       PROVE  Control'
  <2>1. /\ Len(clients'[b]) = Len(clients[b]) + 1
        /\ \A q \in Replicas \ {b} : clients'[q] = clients[q]
    BY <1>13, OnDial, Zenon DEF Types
  <2>2. QED
    BY <1>5, <1>13, <2>1 DEF Dial, supervise, Sups, Types, Control, Job
<1>14. ASSUME NEW b \in Replicas, NEW k, NEW c, carriesOut(c, k)
       PROVE  executed' \in [Commands -> Nat]
  BY <1>14, SMTT(30) DEF carriesOut, Types, Control
<1>15. ASSUME NEW b \in Replicas, CloseClient(b)
       PROVE  Control'
  <2>1. \A q \in Replicas : Len(clients'[q]) = Len(clients[q])
    BY <1>15, SameLens, Zenon
  <2>2. executed' \in [Commands -> Nat]
    BY <1>14, <1>15, Zenon DEF CloseClient
  <2>3. QED
    BY <1>15, <2>1, <2>2, ZenonT(40) DEF CloseClient, supervise, Sups, Types, Control
<1>16. ASSUME NEW b \in Replicas, LinkLost(b)
       PROVE  Control'
  <2>1. \A q \in Replicas : Len(clients'[q]) = Len(clients[q])
    BY <1>16, SameLens, Zenon
  <2>2. executed' \in [Commands -> Nat]
    BY <1>14, <1>16, ZenonT(40) DEF LinkLost
  <2>3. QED
    BY <1>16, <2>1, <2>2, Zenon DEF LinkLost, Types, Control
<1>17. ASSUME NEW b \in Replicas, Unpublish(b)
       PROVE  Control'
  BY <1>5, <1>17 DEF Unpublish, supervise, Sups, Types, Control
<1>18. ASSUME NEW b \in Replicas, Reconcile(b)
       PROVE  Control'
  <2>1. \A q \in Replicas : Len(clients'[q]) = Len(clients[q])
    BY <1>18, SameLens, Zenon
  <2>2. /\ rec' = [rec EXCEPT ![b] = node[b]] \/ rec' = [rec EXCEPT ![b] = 0]
        /\ UNCHANGED <<stream, seen, node, job, sup, executed, failed>>
        /\ crossed' \subseteq Callers
    BY <1>18, ZenonT(40)
       DEF Reconcile, ReconcilerSends, ReconcilerReceives, ReconcilerFails, Types, Control,
       Callers
  <2>3. rec' \in [Replicas -> Nat] /\ \A q \in Replicas : rec'[q] <= Len(clients[q])
    <3>1. /\ rec \in [Replicas -> Nat] /\ \A q \in Replicas : rec[q] <= Len(clients[q])
          /\ node[b] \in Nat /\ node[b] <= Len(clients[b])
      BY Zenon DEF Types, Control
    <3>2. 0 \in Nat /\ 0 <= Len(clients[b])
      BY <1>5
    <3>3. QED
      BY <2>2, <3>1, <3>2, PointerSet
  <2>4. QED
    BY <2>1, <2>2, <2>3, Zenon DEF Types, Control
<1>19. ASSUME NEW b \in Replicas, Answer(b)
       PROVE  Control'
  <2>1. \A q \in Replicas : Len(clients'[q]) = Len(clients[q])
    BY <1>19, SameLens, Zenon
  <2>2. executed' = executed \/ \E x : executed' = [executed EXCEPT ![x] = @ + 1]
    BY <1>19, Moves, Zenon
  <2>3. executed' \in [Commands -> Nat]
    BY <2>2 DEF Types, Control
  <2>4. QED
    BY <1>19, <2>1, <2>3, ZenonT(40) DEF Answer, Types, Control
<1>20. ASSUME NEW b \in Replicas, Crash(b)
       PROVE  Control'
  <2>1. Len(clients'[b]) = 0 /\ \A q \in Replicas \ {b} : clients'[q] = clients[q]
    BY <1>20, OnCrash, Zenon DEF Types
  <2>2. executed' \in [Commands -> Nat]
    BY <1>14, <1>20, Zenon DEF Crash
  <2>3. job[b].cmd \in Commands \cup {Nil}
    BY Zenon DEF Types, Control, Job
  <2>4. /\ stream' = stream /\ seen' = seen /\ crossed' = crossed
        /\ node' = [node EXCEPT ![b] = 0] /\ rec' = [rec EXCEPT ![b] = 0]
        /\ job' = [job EXCEPT ![b] = IdleJob] /\ sup' = [sup EXCEPT ![b] = "down"]
        /\ failed' = failed \cup ({job[b].cmd} \ {Nil})
    BY <1>20, Zenon DEF Crash
  <2>5. /\ node' \in [Replicas -> Nat] /\ rec' \in [Replicas -> Nat]
        /\ job' \in [Replicas -> Job] /\ sup' \in [Replicas -> Sups]
    BY <1>4, <2>4 DEF Sups, Types, Control
  <2>6. failed' \subseteq Commands
    BY <2>3, <2>4, ZenonT(40) DEF Types, Control
  <2>7. /\ node'[b] = 0 /\ rec'[b] = 0 /\ job'[b] = IdleJob /\ sup'[b] = "down"
        /\ \A q \in Replicas \ {b} :
             node'[q] = node[q] /\ rec'[q] = rec[q] /\ job'[q] = job[q] /\ sup'[q] = sup[q]
    BY <2>4, ZenonT(40) DEF Types, Control
  <2>8. 0 <= Len(clients'[b])
    BY <2>1
  <2>9. ASSUME NEW q \in Replicas
        PROVE  /\ node'[q] <= Len(clients'[q]) /\ rec'[q] <= Len(clients'[q])
               /\ job'[q].client <= Len(clients'[q])
               /\ job'[q].pc # "idle" => job'[q].cmd \in Commands
               /\ job'[q].pc \in {"send", "wait"} => job'[q].client # 0
               /\ sup'[q] # "down" => Len(clients'[q]) # 0
    <3>1. CASE q = b
      BY <1>4, <2>7, <2>8, <3>1, ZenonT(40)
    <3>2. CASE q # b
      BY <2>1, <2>7, <3>2, ZenonT(40) DEF Types, Control
    <3>3. QED
      BY <3>1, <3>2, Zenon
  <2>10. stream' \in [Commands -> {"none", "pending", "acked"}] /\ seen' \subseteq Commands
         /\ crossed' \subseteq Callers
    BY <2>4, Zenon DEF Types, Control
  <2>11. QED
    BY <2>2, <2>5, <2>6, <2>9, <2>10, ZenonT(40) DEF Control
<1>21. QED
  BY <1>1, <1>2, <1>3, <1>7, <1>8, <1>9, <1>10, <1>11, <1>12, <1>13, <1>15, <1>16, <1>17, <1>18,
     <1>19, <1>20, ZenonT(40) DEF Next, Handle, Supervise
-----------------------------------------------------------------------------
(* The mutex.                                                              *)

(* MutexIsHeldByWaiter, one conjunct per caller.                           *)
Held ==
  \A b \in Replicas : \A i \in 1 .. Len(clients[b]) :
    /\ clients[b][i].mutex = "handler" => job[b].pc = "wait" /\ job[b].client = i
    /\ clients[b][i].mutex = "supervisor" =>
         sup[b] \in {"subscribing", "gating", "probing"} /\ i = Len(clients[b])
    /\ clients[b][i].mutex = "reconciler" => rec[b] = i

(* A step that leaves the control of other replicas alone, and gives       *)
(* client i of b to p or to nobody.                                        *)
LEMMA HeldOnPut ==
  ASSUME Conns, Held, NEW b \in Replicas, NEW i \in 1 .. Len(clients[b]), NEW d, Put(b, i, d),
         \A q \in Replicas \ {b} : job'[q] = job[q] /\ sup'[q] = sup[q] /\ rec'[q] = rec[q],
         d.mutex = "handler" => job'[b].pc = "wait" /\ job'[b].client = i,
         d.mutex = "supervisor" =>
           sup'[b] \in {"subscribing", "gating", "probing"} /\ i = Len(clients[b]),
         d.mutex = "reconciler" => rec'[b] = i,
         \/ job'[b].pc = job[b].pc /\ job'[b].client = job[b].client
         \/ job[b].pc # "wait" \/ job[b].client = i,
         \/ sup'[b] = sup[b]
         \/ sup[b] \notin {"subscribing", "gating", "probing"} \/ i = Len(clients[b]),
         rec'[b] = rec[b] \/ rec[b] = 0 \/ rec[b] = i
  PROVE  Held'
<1>1. ASSUME NEW q \in Replicas, NEW j \in 1 .. Len(clients'[q])
      PROVE  /\ clients'[q][j].mutex = "handler" => job'[q].pc = "wait" /\ job'[q].client = j
             /\ clients'[q][j].mutex = "supervisor" =>
                  sup'[q] \in {"subscribing", "gating", "probing"} /\ j = Len(clients'[q])
             /\ clients'[q][j].mutex = "reconciler" => rec'[q] = j
  <2>1. Len(clients'[q]) = Len(clients[q]) /\ j \in 1 .. Len(clients[q]) /\ j # 0
    BY ClientOf, SMTT(30) DEF Put
  <2>2. CASE q = b /\ j = i
    BY <2>1, <2>2, ZenonT(40) DEF Put
  <2>3. CASE q # b
    <3>1. clients'[q][j] = clients[q][j]
      BY <2>1, <2>3, ZenonT(40) DEF Put
    <3>2. QED
      BY <2>1, <2>3, <3>1, SMTT(30) DEF Held
  <2>4. CASE q = b /\ j # i
    <3>1. clients'[q][j] = clients[q][j]
      BY <2>1, <2>4, Zenon DEF Put
    <3>2. QED
      BY <2>1, <2>4, <3>1, SMTT(30) DEF Held
  <2>5. QED
    BY <2>2, <2>3, <2>4, Zenon
<1>2. QED
  BY <1>1, Zenon DEF Held

(* Every step keeps a mutex with one who waits on that client.             *)
LEMMA HeldStep ==
  ASSUME Types, Held, [Next]_vars
  PROVE  Held'
<1>1. Conns /\ job \in [Replicas -> Job] /\ sup \in [Replicas -> Sups] /\ rec \in [Replicas -> Nat]
  BY Zenon DEF Types, Control
<1>2. Nil \notin {"handler", "supervisor", "reconciler"}
  BY BridgeAssumption, Zenon DEF Callers
<1>3. CASE UNCHANGED <<clients, job, sup, rec>>
  BY <1>3, ZenonT(40) DEF Held
<1>4. ASSUME NEW b \in Replicas, UNCHANGED <<clients, sup, rec>>,
             \A q \in Replicas \ {b} : job'[q] = job[q], job[b].pc # "wait"
      PROVE  Held'
  <2> SUFFICES ASSUME NEW q \in Replicas, NEW j \in 1 .. Len(clients[q])
               PROVE  /\ clients[q][j].mutex = "handler" =>
                           job'[q].pc = "wait" /\ job'[q].client = j
                      /\ clients[q][j].mutex = "supervisor" =>
                           sup[q] \in {"subscribing", "gating", "probing"} /\ j = Len(clients[q])
                      /\ clients[q][j].mutex = "reconciler" => rec[q] = j
    BY <1>4, ZenonT(40) DEF Held
  <2>1. /\ clients[q][j].mutex = "handler" => job[q].pc = "wait" /\ job[q].client = j
        /\ clients[q][j].mutex = "supervisor" =>
             sup[q] \in {"subscribing", "gating", "probing"} /\ j = Len(clients[q])
        /\ clients[q][j].mutex = "reconciler" => rec[q] = j
    BY Zenon DEF Held
  <2>2. q # b => job'[q] = job[q]
    BY <1>4, Zenon
  <2>3. QED
    BY <1>4, <2>1, <2>2, Zenon
<1>5. ASSUME NEW b \in Replicas, NEW i \in 1 .. Len(clients[b]), Leaves(b, i),
             \A q \in Replicas \ {b} : job'[q] = job[q] /\ sup'[q] = sup[q] /\ rec'[q] = rec[q],
             job'[b] = job[b] \/ job[b].client = i,
             sup'[b] = sup[b] \/ i = Len(clients[b]),
             rec'[b] = rec[b] \/ rec[b] = i
      PROVE  Held'
  <2>1. PICK d : Put(b, i, d) /\ d.mutex = Nil
    BY <1>5, Zenon DEF Leaves, Released
  <2>2. QED
    BY <1>1, <1>2, <1>5, <2>1, HeldOnPut, Zenon
<1>6. ASSUME NEW b \in Replicas, Send(b)
      PROVE  Held'
  <2>1. PICK d : Put(b, job[b].client, d) /\ d.mutex = "handler"
    BY <1>6, Moves, ZenonT(40) DEF Sends, Sent
  <2>2. /\ job'[b].pc = "wait" /\ job'[b].client = job[b].client /\ job[b].pc = "send"
        /\ \A q \in Replicas \ {b} : job'[q] = job[q]
        /\ sup' = sup /\ rec' = rec
    BY <1>1, <1>6, Zenon DEF Send, Job
  <2>3. job[b].client \in 1 .. Len(clients[b])
    BY <2>2, Indices, Zenon
  <2>4. QED
    BY <1>1, <2>1, <2>2, <2>3, HeldOnPut, Zenon
<1>7. ASSUME NEW b \in Replicas, Receive(b) \/ TimesOut(b) \/ NotConnected(b)
      PROVE  Held'
  <2>1. job[b].client \in 1 .. Len(clients[b])
    BY <1>7, Indices, Zenon DEF Receive, TimesOut, NotConnected
  <2>2. /\ \A q \in Replicas \ {b} : job'[q] = job[q]
        /\ sup' = sup /\ rec' = rec
    BY <1>1, <1>7, Zenon DEF Receive, TimesOut, NotConnected, Ack, Nak
  <2>3. Leaves(b, job[b].client) \/ (UNCHANGED clients /\ job[b].pc # "wait")
    BY <1>7, Moves, Zenon
  <2>4. QED
    BY <1>4, <1>5, <2>1, <2>2, <2>3, Zenon
<1>8. ASSUME NEW b \in Replicas,
             \/ Subscribed(b) \/ Probe(b) \/ Probed(b) \/ SupervisorTimesOut(b)
             \/ SupervisorNotices(b)
      PROVE  Held'
  <2>1. cur(b) \in 1 .. Len(clients[b])
    BY <1>8, Indices, Zenon
       DEF Subscribed, Probe, Probed, SupervisorTimesOut, SupervisorNotices, cur
  <2>2. /\ \A q \in Replicas \ {b} : sup'[q] = sup[q]
        /\ job' = job /\ rec' = rec
    BY <1>1, <1>8, Zenon
       DEF Subscribed, Probe, Probed, SupervisorTimesOut, SupervisorNotices, supervise
  <2>3. CASE Leaves(b, cur(b))
    BY <1>5, <2>1, <2>2, <2>3, Zenon DEF cur
  <2>4. CASE Sends(b, cur(b), "supervisor", "sofia", Nil) /\ (Subscribed(b) \/ Probe(b))
    <3>1. PICK d : Put(b, cur(b), d) /\ d.mutex = "supervisor"
      BY <2>4, Zenon DEF Sends, Sent
    <3>2. CASE sup'[b] \in {"gating", "probing"}
      BY <1>1, <2>1, <2>2, <3>1, <3>2, HeldOnPut, Zenon DEF cur
    <3>3. CASE sup'[b] \notin {"gating", "probing"}
      <4>1. Leaves(b, cur(b))
        <5>1. Subscribed(b) /\ setClient(b, cur(b), receive(clients[b][cur(b)]))
              /\ canReceive(clients[b][cur(b)], "supervisor")
          BY <1>1, <2>4, <3>3, ZenonT(40) DEF Subscribed, Probe, supervise, cur, current
        <5>2. QED
          BY <1>1, <2>1, <5>1, OnReceive, Zenon
      <4>2. QED
        BY <2>3, <4>1, Zenon
    <3>4. QED
      BY <3>2, <3>3, Zenon
  <2>5. CASE SupervisorNotices(b) /\ clients[b][cur(b)].mutex # "supervisor"
    <3>1. UNCHANGED clients
      BY <2>5, Moves, ZenonT(40)
    <3>2. \A i \in 1 .. Len(clients[b]) : clients[b][i].mutex # "supervisor"
      BY <2>5, ZenonT(40) DEF Held, cur
    <3>3. QED
      BY <2>2, <3>1, <3>2 DEF Held
  <2>6. QED
    BY <1>8, <2>3, <2>4, <2>5, Moves, Zenon
<1>9. ASSUME NEW b \in Replicas, Dial(b)
      PROVE  Held'
  <2>1. PICK d \in Client :
           /\ Len(clients'[b]) = Len(clients[b]) + 1 /\ clients'[b][Len(clients[b]) + 1] = d
           /\ \A q \in Replicas \ {b} : clients'[q] = clients[q]
           /\ \A j \in 1 .. Len(clients[b]) : clients'[b][j] = clients[b][j]
           /\ d.mutex = "supervisor"
    BY <1>1, <1>9, OnDial, Zenon
  <2>2. /\ \A q \in Replicas \ {b} : sup'[q] = sup[q]
        /\ sup'[b] = "subscribing" /\ sup[b] = "down" /\ job' = job /\ rec' = rec
    BY <1>1, <1>9, Zenon DEF Dial, supervise
  <2>3. \A j \in 1 .. Len(clients[b]) + 1 : j \in 1 .. Len(clients[b]) \/ j = Len(clients[b]) + 1
    BY <1>1, ClientOf
  <2>4. ASSUME NEW q \in Replicas, NEW i \in 1 .. Len(clients'[q])
        PROVE  /\ clients'[q][i].mutex = "handler" => job'[q].pc = "wait" /\ job'[q].client = i
               /\ clients'[q][i].mutex = "supervisor" =>
                    sup'[q] \in {"subscribing", "gating", "probing"} /\ i = Len(clients'[q])
               /\ clients'[q][i].mutex = "reconciler" => rec'[q] = i
    <3>1. CASE q # b
      <4>1. /\ clients'[q] = clients[q] /\ sup'[q] = sup[q]
            /\ job'[q] = job[q] /\ rec'[q] = rec[q]
        BY <2>1, <2>2, <3>1, Zenon
      <4>2. i \in 1 .. Len(clients[q])
        BY <4>1, Zenon
      <4>3. /\ clients[q][i].mutex = "handler" => job[q].pc = "wait" /\ job[q].client = i
            /\ clients[q][i].mutex = "supervisor" =>
                 sup[q] \in {"subscribing", "gating", "probing"} /\ i = Len(clients[q])
            /\ clients[q][i].mutex = "reconciler" => rec[q] = i
        BY <4>2, Zenon DEF Held
      <4>4. QED
        BY <4>1, <4>3, ZenonT(40)
    <3>2. CASE q = b /\ i \in 1 .. Len(clients[b])
      <4>1. clients'[b][i] = clients[b][i]
        BY <2>1, <3>2, Zenon
      <4>2. clients[b][i].mutex # "supervisor"
        BY <2>2, <3>2, ZenonT(40) DEF Held
      <4>3. QED
        BY <2>2, <3>2, <4>1, <4>2, ZenonT(40) DEF Held
    <3>3. CASE q = b /\ i = Len(clients[b]) + 1
      BY <2>1, <2>2, <3>3, ZenonT(40)
    <3>4. QED
      BY <2>1, <2>3, <2>4, <3>1, <3>2, <3>3, ZenonT(40)
  <2>5. QED
    BY <2>4, Zenon DEF Held
<1>10. ASSUME NEW b \in Replicas, CloseClient(b) \/ LinkLost(b)
       PROVE  Held'
  <2>1. Put(b, cur(b), close(clients[b][cur(b)])) /\ cur(b) \in 1 .. Len(clients[b])
    BY <1>10, Moves, Zenon DEF Closes
  <2>2. close(clients[b][cur(b)]).mutex = clients[b][cur(b)].mutex
    BY <1>1, <2>1, ClientOf, CloseIs, Zenon
  <2>3. /\ \A q \in Replicas \ {b} : sup'[q] = sup[q]
        /\ job' = job /\ rec' = rec /\ (sup'[b] = sup[b] \/ sup[b] = "close")
    BY <1>1, <1>10, Zenon DEF CloseClient, LinkLost, supervise
  <2>4. /\ clients[b][cur(b)].mutex = "handler" => job[b].pc = "wait" /\ job[b].client = cur(b)
        /\ clients[b][cur(b)].mutex = "supervisor" =>
             sup[b] \in {"subscribing", "gating", "probing"}
        /\ clients[b][cur(b)].mutex = "reconciler" => rec[b] = cur(b)
    BY <2>1, ZenonT(40) DEF Held
  <2> DEFINE d == close(clients[b][cur(b)])
  <2> HIDE DEF d
  <2>5. Put(b, cur(b), d) /\ d.mutex = clients[b][cur(b)].mutex
    BY <2>1, <2>2, Zenon DEF d
  <2>6. QED
    BY <1>1, <2>1, <2>3, <2>4, <2>5, HeldOnPut, Zenon DEF cur
<1>11. ASSUME NEW b \in Replicas, Unpublish(b)
       PROVE  Held'
  <2>1. /\ \A q \in Replicas \ {b} : sup'[q] = sup[q]
        /\ sup[b] = "unpublish" /\ UNCHANGED <<clients, job, rec>>
    BY <1>1, <1>11, Zenon DEF Unpublish, supervise
  <2>2. QED
    BY <2>1 DEF Held
<1>12. ASSUME NEW b \in Replicas, ReconcilerSends(b)
       PROVE  Held'
  <2>1. PICK d : Put(b, node[b], d) /\ d.mutex = "reconciler"
    BY <1>12, Moves, ZenonT(40) DEF Sends, Sent
  <2>2. /\ rec'[b] = node[b] /\ rec[b] = 0 /\ \A q \in Replicas \ {b} : rec'[q] = rec[q]
        /\ sup' = sup /\ job' = job
    BY <1>1, <1>12, Zenon DEF ReconcilerSends
  <2>3. node[b] \in 1 .. Len(clients[b])
    BY <1>12, Indices, Zenon DEF ReconcilerSends
  <2>4. QED
    BY <1>1, <2>1, <2>2, <2>3, HeldOnPut, ZenonT(40)
<1>13. ASSUME NEW b \in Replicas, ReconcilerReceives(b) \/ ReconcilerFails(b)
       PROVE  Held'
  <2>1. Leaves(b, rec[b])
    BY <1>13, Moves, Zenon
  <2>2. rec[b] \in 1 .. Len(clients[b])
    BY <1>13, Indices, Zenon DEF ReconcilerReceives, ReconcilerFails
  <2>3. \A q \in Replicas \ {b} : rec'[q] = rec[q] /\ sup'[q] = sup[q] /\ job'[q] = job[q]
    BY <1>1, <1>13, Zenon DEF ReconcilerReceives, ReconcilerFails
  <2>4. sup' = sup /\ job' = job
    BY <1>13, Zenon DEF ReconcilerReceives, ReconcilerFails
  <2>5. QED
    BY <1>5, <2>1, <2>2, <2>3, <2>4, ZenonT(40)
<1>14. ASSUME NEW b \in Replicas, Answer(b)
       PROVE  Held'
  <2>1. PICK i \in 1 .. Len(clients[b]), ok \in BOOLEAN : Answers(b, i, ok)
    BY <1>14, Moves, ZenonT(40)
  <2> DEFINE d == answer(clients[b][i], ok)
  <2>2. d.mutex = clients[b][i].mutex /\ Put(b, i, d)
    BY <1>1, <2>1, ClientOf, AnswerIs, ZenonT(40) DEF Answers
  <2> HIDE DEF d
  <2>3. UNCHANGED <<job, sup, rec>>
    BY <1>14, Zenon DEF Answer
  <2>4. /\ d.mutex = "handler" => job'[b].pc = "wait" /\ job'[b].client = i
        /\ d.mutex = "supervisor" =>
             sup'[b] \in {"subscribing", "gating", "probing"} /\ i = Len(clients[b])
        /\ d.mutex = "reconciler" => rec'[b] = i
    <3>1. /\ clients[b][i].mutex = "handler" => job[b].pc = "wait" /\ job[b].client = i
          /\ clients[b][i].mutex = "supervisor" =>
               sup[b] \in {"subscribing", "gating", "probing"} /\ i = Len(clients[b])
          /\ clients[b][i].mutex = "reconciler" => rec[b] = i
      BY Zenon DEF Held
    <3>2. QED
      BY <2>2, <2>3, <3>1, Zenon
  <2>5. QED
    BY <1>1, <2>2, <2>3, <2>4, HeldOnPut, ZenonT(40)
<1>15. ASSUME NEW b \in Replicas, Crash(b)
       PROVE  Held'
  <2>1. Len(clients'[b]) = 0 /\ \A q \in Replicas \ {b} : clients'[q] = clients[q]
    BY <1>1, <1>15, OnCrash, Zenon
  <2>2. \A q \in Replicas \ {b} : rec'[q] = rec[q] /\ sup'[q] = sup[q] /\ job'[q] = job[q]
    BY <1>1, <1>15, Zenon DEF Crash
  <2>3. QED
    BY <2>1, <2>2, SMTT(30) DEF Held
<1>16. ASSUME NEW b \in Replicas, (\E c \in Commands : Deliver(b, c)) \/ MarkSeen(b)
              \/ MarkSeenFails(b) \/ Get(b)
       PROVE  Held'
  <2>1. /\ UNCHANGED <<clients, sup, rec>> /\ job[b].pc # "wait"
        /\ \A q \in Replicas \ {b} : job'[q] = job[q]
    BY <1>1, <1>16, Zenon DEF Deliver, MarkSeen, MarkSeenFails, Get, Ack, Nak
  <2>2. QED
    BY <1>4, <2>1, Zenon
<1>17. QED
  BY <1>3, <1>6, <1>7, <1>8, <1>9, <1>10, <1>11, <1>12, <1>13, <1>14, <1>15, <1>16, ZenonT(40)
     DEF Next, vars, Publish, Handle, Supervise, Reconcile
=============================================================================
