------------------------- MODULE CommandBridge_proofs -------------------------
(***************************************************************************)
(* For any replicas, commands, connections and faults, a command reaches   *)
(* FreeSWITCH at most once and cmdMu keeps replies and callers together    *)
(* (CommandsAreSafe), and no acknowledged command is lost without a trace  *)
(* (NoSilentLoss).                                                         *)
(*                                                                         *)
(* None of it is inductive alone.  Tokens follows the one right to carry   *)
(* out a command, from the idempotency key over the handler and the wire   *)
(* to FreeSWITCH; Ours says that a reply which is not late is the          *)
(* handler's own; Traced says where a command with a key has got to.       *)
(***************************************************************************)
EXTENDS BridgeMutex_proofs

-----------------------------------------------------------------------------
(* The right to carry out a command: with a handler, on a wire, or used.   *)

holds(b, c) == b \in Replicas /\ job[b].pc \in {"get", "send"} /\ job[b].cmd = c

onWire(c, b, i, k) ==
  /\ b \in Replicas /\ i \in 1 .. Len(clients[b]) /\ k \in 1 .. Len(clients[b][i].wire)
  /\ clients[b][i].wire[k].cmd = c

Token(c) ==
  /\ executed[c] <= 1
  /\ c \notin seen => executed[c] = 0
  /\ \A b : holds(b, c) => c \in seen /\ executed[c] = 0
  /\ \A b, i, k : onWire(c, b, i, k) => c \in seen /\ executed[c] = 0
  /\ \A b, q : holds(b, c) /\ holds(q, c) => b = q
  /\ \A b, q, i, k : ~ (holds(b, c) /\ onWire(c, q, i, k))
  /\ \A b, i, k, q, j, m :
       onWire(c, b, i, k) /\ onWire(c, q, j, m) => b = q /\ i = j /\ k = m

Tokens == \A c \in Commands : Token(c)

(* The wires after a step of client i of b.                                *)
LEMMA WireOnPut ==
  ASSUME NEW b \in Replicas, NEW i \in 1 .. Len(clients[b]), NEW d, Put(b, i, d),
         NEW c, NEW q, NEW j, NEW k, onWire(c, q, j, k)'
  PROVE  \/ q = b /\ j = i /\ k \in 1 .. Len(d.wire) /\ d.wire[k].cmd = c
         \/ (q # b \/ j # i) /\ onWire(c, q, j, k)
<1>1. /\ q \in Replicas /\ j \in 1 .. Len(clients'[q]) /\ k \in 1 .. Len(clients'[q][j].wire)
      /\ clients'[q][j].wire[k].cmd = c
  BY Zenon DEF onWire
<1>2. j \in 1 .. Len(clients[q])
  BY <1>1, Zenon DEF Put
<1>3. CASE q = b /\ j = i
  BY <1>1, <1>3, Zenon DEF Put
<1>4. CASE q # b \/ j # i
  <2>1. clients'[q][j] = clients[q][j]
    BY <1>1, <1>2, <1>4, Zenon DEF Put
  <2>2. QED
    BY <1>1, <1>2, <1>4, <2>1, Zenon DEF onWire
<1>5. QED
  BY <1>3, <1>4, Zenon

(* The wires when the sender of client i leaves, another one sends, the    *)
(* connection closes or the node answers.                                  *)
LEMMA WireLeaves ==
  ASSUME Conns, NEW b \in Replicas, NEW i \in 1 .. Len(clients[b]), Leaves(b, i),
         NEW c, NEW q, NEW j, NEW k, onWire(c, q, j, k)'
  PROVE  onWire(c, q, j, k)
<1>1. PICK d : Put(b, i, d) /\ sameWire(clients[b][i], d)
  BY Zenon DEF Leaves, Released
<1>2. CASE q = b /\ j = i /\ k \in 1 .. Len(d.wire) /\ d.wire[k].cmd = c
  BY <1>1, <1>2, Zenon DEF sameWire, onWire
<1>3. QED
  BY <1>1, <1>2, WireOnPut, Zenon

(* A write adds one frame to one wire.                                     *)
LEMMA WireSends ==
  ASSUME Conns, NEW b \in Replicas, NEW i \in 1 .. Len(clients[b]), NEW p, NEW kind, NEW cmd,
         Sends(b, i, p, kind, cmd), NEW c, NEW q, NEW j, NEW k, onWire(c, q, j, k)'
  PROVE  \/ onWire(c, q, j, k)
         \/ c = cmd /\ q = b /\ j = i /\ k = Len(clients[b][i].wire) + 1
<1>1. PICK d : Put(b, i, d) /\ Sent(clients[b][i], d, p, kind, cmd)
  BY Zenon DEF Sends
<1>2. CASE q = b /\ j = i /\ k \in 1 .. Len(d.wire) /\ d.wire[k].cmd = c
  <2>1. Len(clients[b][i].wire) \in Nat
    BY ClientOf, ClientFields, Zenon
  <2>2. k \in 1 .. Len(clients[b][i].wire) \/ k = Len(clients[b][i].wire) + 1
    BY <1>1, <1>2, <2>1 DEF Sent
  <2>3. CASE k \in 1 .. Len(clients[b][i].wire)
    BY <1>1, <1>2, <2>3, Zenon DEF Sent, onWire
  <2>4. CASE k = Len(clients[b][i].wire) + 1
    BY <1>1, <1>2, <2>4 DEF Sent
  <2>5. QED
    BY <2>2, <2>3, <2>4, Zenon
<1>3. QED
  BY <1>1, <1>2, WireOnPut, Zenon

(* Closing a client takes its frames away.                                 *)
LEMMA WireCloses ==
  ASSUME Conns, NEW b \in Replicas, NEW i \in 1 .. Len(clients[b]), Closes(b, i),
         NEW c, NEW q, NEW j, NEW k, onWire(c, q, j, k)'
  PROVE  onWire(c, q, j, k) /\ (q # b \/ j # i)
<1>1. Len(close(clients[b][i]).wire) = 0
  BY ClientOf, CloseIs, EmptySeq, Zenon
<1>2. k \notin 1 .. Len(close(clients[b][i]).wire)
  BY <1>1
<1>3. QED
  BY <1>2, WireOnPut DEF Closes

(* An answer moves the frames behind it up by one.                         *)
LEMMA WireAnswers ==
  ASSUME Conns, NEW b \in Replicas, NEW i \in 1 .. Len(clients[b]), NEW ok \in BOOLEAN,
         Answers(b, i, ok), NEW c, NEW q, NEW j, NEW k, onWire(c, q, j, k)'
  PROVE  k \in Nat \ {0} /\ onWire(c, q, j, IF q = b /\ j = i THEN k + 1 ELSE k)
<1> DEFINE d == answer(clients[b][i], ok)
<1>1. /\ Put(b, i, d) /\ Len(d.wire) = Len(clients[b][i].wire) - 1
      /\ \A m \in 1 .. Len(d.wire) : d.wire[m] = clients[b][i].wire[m + 1]
      /\ Len(clients[b][i].wire) \in Nat
  BY ClientOf, ClientFields, AnswerIs, Zenon DEF Answers
<1> HIDE DEF d
<1>2. k \in Nat \ {0}
  BY DEF onWire
<1>3. CASE q = b /\ j = i /\ k \in 1 .. Len(d.wire) /\ d.wire[k].cmd = c
  <2>1. k + 1 \in 1 .. Len(clients[b][i].wire)
    BY <1>1, <1>3
  <2>2. QED
    BY <1>1, <1>2, <1>3, <2>1, Zenon DEF onWire
<1>4. QED
  BY <1>1, <1>2, <1>3, WireOnPut

(* What may happen to a token: nothing, a key is set and a handler gets    *)
(* it, the handler sends it, FreeSWITCH carries it out.                    *)
LEMMA TokenMoves ==
  ASSUME NEW c \in Commands, Token(c), executed'[c] = executed[c], seen \subseteq seen',
         \A q : holds(q, c)' => holds(q, c),
         \A q, j, k : onWire(c, q, j, k)' => \E n : onWire(c, q, j, n),
         \A q, j, k, r, m, n :
           onWire(c, q, j, k)' /\ onWire(c, r, m, n)' => q = r /\ j = m /\ k = n
  PROVE  Token(c)'
<1>1. executed[c] <= 1 /\ (c \notin seen => executed[c] = 0)
  BY Zenon DEF Token
<1>2. \A q : holds(q, c) => c \in seen /\ executed[c] = 0
  BY Zenon DEF Token
<1>3. \A q, j, k : onWire(c, q, j, k) => c \in seen /\ executed[c] = 0
  BY Zenon DEF Token
<1>4. \A q, r : holds(q, c) /\ holds(r, c) => q = r
  BY Zenon DEF Token
<1>5. \A q, r, j, k : ~ (holds(q, c) /\ onWire(c, r, j, k))
  BY Zenon DEF Token
<1>6. executed'[c] <= 1 /\ (c \notin seen' => executed'[c] = 0)
  BY <1>1, Zenon
<1>7. \A q : holds(q, c)' => c \in seen' /\ executed'[c] = 0
  BY <1>2, Zenon
<1>8. \A q, j, k : onWire(c, q, j, k)' => c \in seen' /\ executed'[c] = 0
  <2> SUFFICES ASSUME NEW q, NEW j, NEW k, onWire(c, q, j, k)'
               PROVE  c \in seen' /\ executed'[c] = 0
    BY Zenon
  <2>1. PICK n : onWire(c, q, j, n)
    BY Zenon
  <2>2. QED
    BY <1>3, <2>1, Zenon
<1>9. \A q, r : holds(q, c)' /\ holds(r, c)' => q = r
  BY <1>4, Zenon
<1>10. \A q, r, j, k : ~ (holds(q, c)' /\ onWire(c, r, j, k)')
  <2> SUFFICES ASSUME NEW q, NEW r, NEW j, NEW k, holds(q, c)', onWire(c, r, j, k)'
               PROVE  FALSE
    BY Zenon
  <2>1. PICK n : onWire(c, r, j, n)
    BY Zenon
  <2>2. QED
    BY <1>5, <2>1, Zenon
<1>11. QED
  BY <1>6, <1>7, <1>8, <1>9, <1>10, Zenon DEF Token

(* A token stays sound when nothing is added to where it may be.           *)
LEMMA TokenStays ==
  ASSUME NEW c \in Commands, Token(c), executed'[c] = executed[c], seen \subseteq seen',
         \A q : holds(q, c)' => holds(q, c),
         \A q, j, k : onWire(c, q, j, k)' => onWire(c, q, j, k)
  PROVE  Token(c)'
<1>1. \A q, j, k, r, m, n : onWire(c, q, j, k) /\ onWire(c, r, m, n) => q = r /\ j = m /\ k = n
  BY Zenon DEF Token
<1>2. \A q, j, k, r, m, n :
        onWire(c, q, j, k)' /\ onWire(c, r, m, n)' => q = r /\ j = m /\ k = n
  BY <1>1
<1>3. \A q, j, k : onWire(c, q, j, k)' => \E n : onWire(c, q, j, n)
  BY Zenon
<1>4. QED
  BY <1>2, <1>3, TokenMoves, Zenon

(* The idempotency key creates the token, with one handler.                *)
LEMMA TokenIsTaken ==
  ASSUME NEW c \in Commands, Token(c), executed'[c] = executed[c], c \in seen', c \notin seen,
         NEW b, \A q : holds(q, c)' => holds(q, c) \/ q = b,
         \A q, j, k : onWire(c, q, j, k)' => onWire(c, q, j, k)
  PROVE  Token(c)'
<1>1. executed[c] = 0 /\ (\A q : ~ holds(q, c)) /\ \A q, j, k : ~ onWire(c, q, j, k)
  BY Zenon DEF Token
<1>2. executed'[c] = 0 /\ executed'[c] <= 1
  BY <1>1
<1>3. (\A q : holds(q, c)' => q = b) /\ \A q, j, k : ~ onWire(c, q, j, k)'
  BY <1>1, Zenon
<1>4. QED
  BY <1>2, <1>3, Zenon DEF Token

(* Sending moves the token from the handler to one place on one wire.      *)
LEMMA TokenIsSent ==
  ASSUME NEW c \in Commands, Token(c), executed'[c] = executed[c], seen \subseteq seen',
         NEW b, holds(b, c), ~ holds(b, c)', \A q : holds(q, c)' => holds(q, c),
         \A q, j, k, r, m, n :
           onWire(c, q, j, k)' /\ onWire(c, r, m, n)' => q = r /\ j = m /\ k = n
  PROVE  Token(c)'
<1>1. c \in seen /\ executed[c] = 0
  BY Zenon DEF Token
<1>2. \A q : holds(q, c) => q = b
  BY Zenon DEF Token
<1>3. executed'[c] = 0 /\ executed'[c] <= 1 /\ c \in seen'
  BY <1>1
<1>4. \A q : ~ holds(q, c)'
  BY <1>2, Zenon
<1>5. QED
  BY <1>3, <1>4, Zenon DEF Token

(* Carrying a command out uses its token up.                               *)
LEMMA TokenIsUsed ==
  ASSUME NEW c \in Commands, Token(c), executed'[c] = executed[c] + 1, seen \subseteq seen',
         NEW b, NEW i, NEW m, onWire(c, b, i, m),
         \A q : holds(q, c)' => holds(q, c), \A q, j, k : ~ onWire(c, q, j, k)'
  PROVE  Token(c)'
<1>1. executed[c] = 0 /\ c \in seen /\ \A q : ~ holds(q, c)
  BY Zenon DEF Token
<1>2. executed'[c] = 1 /\ executed'[c] <= 1 /\ c \in seen'
  BY <1>1
<1>3. \A q : ~ holds(q, c)'
  BY <1>1, Zenon
<1>4. QED
  BY <1>2, <1>3, Zenon DEF Token

(* Steps that put no command on a wire.                                    *)
LEMMA QuietWires ==
  ASSUME Types, NEW b \in Replicas, NEW c \in Commands,
         \/ Receive(b) \/ TimesOut(b) \/ NotConnected(b) \/ Dial(b) \/ Subscribed(b) \/ Probe(b)
         \/ Probed(b) \/ SupervisorTimesOut(b) \/ SupervisorNotices(b) \/ Reconcile(b),
         NEW q, NEW j, NEW k, onWire(c, q, j, k)'
  PROVE  onWire(c, q, j, k)
<1>1. Conns
  BY Zenon DEF Types
<1>2. c # Nil
  BY BridgeAssumption, Zenon
<1>3. CASE Dial(b)
  <2>1. PICK d \in Client :
          /\ Len(clients'[b]) = Len(clients[b]) + 1 /\ clients'[b][Len(clients[b]) + 1] = d
          /\ \A r \in Replicas \ {b} : clients'[r] = clients[r]
          /\ \A m \in 1 .. Len(clients[b]) : clients'[b][m] = clients[b][m]
          /\ Len(d.wire) = 1 /\ d.wire[1].cmd = Nil
    BY <1>1, <1>3, OnDial, Zenon
  <2>2. /\ q \in Replicas /\ j \in 1 .. Len(clients'[q]) /\ k \in 1 .. Len(clients'[q][j].wire)
        /\ clients'[q][j].wire[k].cmd = c
    BY Zenon DEF onWire
  <2>3. Len(clients[b]) \in Nat
    BY <1>1, ClientOf, Zenon
  <2>4. CASE q # b
    BY <2>1, <2>2, <2>4, Zenon DEF onWire
  <2>5. CASE q = b /\ j \in 1 .. Len(clients[b])
    BY <2>1, <2>2, <2>5, Zenon DEF onWire
  <2>6. CASE q = b /\ j = Len(clients[b]) + 1
    <3>1. k \in 1 .. 1 /\ d.wire[k].cmd = c
      BY <2>1, <2>2, <2>6, Zenon
    <3>2. k = 1
      BY <3>1
    <3>3. QED
      BY <1>2, <2>1, <3>1, <3>2, Zenon
  <2>7. \A m \in 1 .. Len(clients[b]) + 1 : m \in 1 .. Len(clients[b]) \/ m = Len(clients[b]) + 1
    BY <2>3
  <2>8. QED
    BY <2>1, <2>2, <2>4, <2>5, <2>6, <2>7, ZenonT(40)
<1>4. CASE UNCHANGED clients
  BY <1>4, Zenon DEF onWire
<1>5. /\ Receive(b) \/ TimesOut(b) \/ NotConnected(b) => job[b].client \in 1 .. Len(clients[b])
      /\ Subscribed(b) \/ Probe(b) \/ Probed(b) \/ SupervisorTimesOut(b) \/ SupervisorNotices(b)
           => cur(b) \in 1 .. Len(clients[b])
      /\ ReconcilerSends(b) => node[b] \in 1 .. Len(clients[b])
      /\ ReconcilerReceives(b) \/ ReconcilerFails(b) => rec[b] \in 1 .. Len(clients[b])
  <2>1. Receive(b) \/ TimesOut(b) \/ NotConnected(b) => job[b].client \in 1 .. Len(clients[b])
    BY Indices, Zenon DEF Receive, TimesOut, NotConnected
  <2>2. Subscribed(b) \/ Probe(b) \/ Probed(b) \/ SupervisorTimesOut(b) \/ SupervisorNotices(b)
          => cur(b) \in 1 .. Len(clients[b])
    BY Indices, Zenon DEF Subscribed, Probe, Probed, SupervisorTimesOut, SupervisorNotices, cur
  <2>3. /\ ReconcilerSends(b) => node[b] \in 1 .. Len(clients[b])
        /\ ReconcilerReceives(b) \/ ReconcilerFails(b) => rec[b] \in 1 .. Len(clients[b])
    BY Indices, Zenon DEF ReconcilerSends, ReconcilerReceives, ReconcilerFails
  <2>4. QED
    BY <2>1, <2>2, <2>3, Zenon
<1>6. CASE \E i \in 1 .. Len(clients[b]) : Leaves(b, i)
  BY <1>1, <1>6, WireLeaves, Zenon
<1>7. CASE \E i \in 1 .. Len(clients[b]) : \E p, kind : Sends(b, i, p, kind, Nil)
  BY <1>1, <1>2, <1>7, WireSends
<1>8. CASE Receive(b) \/ TimesOut(b)
  BY <1>5, <1>6, <1>8, Moves, Zenon
<1>9. CASE NotConnected(b)
  BY <1>4, <1>5, <1>6, <1>9, Moves, Zenon
<1>10. CASE Subscribed(b) \/ Probe(b) \/ Probed(b) \/ SupervisorTimesOut(b)
  BY <1>5, <1>6, <1>7, <1>10, Moves, Zenon
<1>11. CASE SupervisorNotices(b)
  BY <1>4, <1>5, <1>6, <1>11, Moves, Zenon
<1>12. CASE Reconcile(b)
  BY <1>5, <1>6, <1>7, <1>12, Moves, Zenon DEF Reconcile
<1>13. QED
  BY <1>3, <1>8, <1>9, <1>10, <1>11, <1>12, ZenonT(40)

(* What a dying connection carries out was on its wire.                    *)
LEMMA CarriesOut ==
  ASSUME Types, NEW b \in Replicas, cur(b) \in 1 .. Len(clients[b]), NEW c \in Commands,
         NEW k \in 0 .. Len(clients[b][cur(b)].wire), carriesOut(clients[b][cur(b)], k)
  PROVE  \/ executed'[c] = executed[c]
         \/ executed'[c] = executed[c] + 1 /\ \E m : onWire(c, b, cur(b), m)
<1>1. executed[c] \in Nat
  BY Zenon DEF Types, Control
<1>2. executed'[c] = executed[c]
        + (IF \E j \in 1 .. k : clients[b][cur(b)].wire[j].cmd = c THEN 1 ELSE 0)
  BY Zenon DEF carriesOut
<1>3. Len(clients[b][cur(b)].wire) \in Nat
  BY ClientOf, ClientFields, Zenon DEF Types
<1>4. CASE \E j \in 1 .. k : clients[b][cur(b)].wire[j].cmd = c
  <2>1. PICK j \in 1 .. k : clients[b][cur(b)].wire[j].cmd = c
    BY <1>4, Zenon
  <2>2. j \in 1 .. Len(clients[b][cur(b)].wire)
    BY <1>3
  <2>3. onWire(c, b, cur(b), j)
    BY <2>1, <2>2, Zenon DEF onWire
  <2>4. QED
    BY <1>2, <1>4, <2>3, Zenon
<1>5. CASE ~ \E j \in 1 .. k : clients[b][cur(b)].wire[j].cmd = c
  <2>1. executed'[c] = executed[c] + 0
    BY <1>2, <1>5, ZenonT(40)
  <2>2. QED
    BY <1>1, <2>1
<1>6. QED
  BY <1>4, <1>5, Zenon

(* Only MarkSeen hands out a token, and only with a new key.               *)
LEMMA HoldsStep ==
  ASSUME Types, [Next]_vars, NEW c \in Commands
  PROVE  /\ seen \subseteq seen'
         /\ \/ \A q : holds(q, c)' => holds(q, c)
            \/ \E b \in Replicas : MarkSeen(b) /\ c \notin seen /\ c \in seen'
                                   /\ \A q : holds(q, c)' => holds(q, c) \/ q = b
<1>1. job \in [Replicas -> Job]
  BY Zenon DEF Types, Control
<1>2. CASE UNCHANGED <<job, seen>>
  BY <1>2, Zenon DEF holds
<1>3. ASSUME NEW b \in Replicas, NEW x, job' = [job EXCEPT ![b] = x], seen \subseteq seen',
             x.pc \in {"get", "send"} => x.cmd = job[b].cmd /\ job[b].pc \in {"get", "send"}
      PROVE  seen \subseteq seen' /\ \A q : holds(q, c)' => holds(q, c)
  BY <1>1, <1>3, ZenonT(40) DEF holds
<1>4. ASSUME NEW b \in Replicas, Deliver(b, c) \/ (\E d \in Commands : Deliver(b, d))
      PROVE  seen \subseteq seen' /\ \A q : holds(q, c)' => holds(q, c)
  BY <1>3, <1>4, Zenon DEF Deliver
<1>5. IdleJob.pc = "idle"
  BY Zenon DEF IdleJob
<1>6. ASSUME NEW b \in Replicas,
             MarkSeenFails(b) \/ Receive(b) \/ TimesOut(b) \/ NotConnected(b) \/ Crash(b)
      PROVE  seen \subseteq seen' /\ \A q : holds(q, c)' => holds(q, c)
  <2>1. job' = [job EXCEPT ![b] = IdleJob] /\ seen \subseteq seen'
    BY <1>6, ZenonT(40) DEF MarkSeenFails, Receive, TimesOut, NotConnected, Crash, Ack, Nak
  <2>2. QED
    BY <1>3, <1>5, <2>1, ZenonT(40)
<1>7. ASSUME NEW b \in Replicas, Get(b)
      PROVE  seen \subseteq seen' /\ \A q : holds(q, c)' => holds(q, c)
  <2>1. job[b] \in Job /\ job[b].pc = "get" /\ seen' = seen
    BY <1>1, <1>7, ZenonT(40) DEF Get
  <2>2. CASE job' = [job EXCEPT ![b] = IdleJob]
    BY <1>3, <1>5, <2>1, <2>2, ZenonT(40)
  <2>3. CASE job' = [job EXCEPT ![b].pc = "send", ![b].client = node[b]]
    BY <1>1, <2>1, <2>3, ZenonT(40) DEF holds, Job
  <2>4. QED
    BY <1>7, <2>2, <2>3, ZenonT(40) DEF Get, Nak
<1>8. ASSUME NEW b \in Replicas, Send(b)
      PROVE  seen \subseteq seen' /\ \A q : holds(q, c)' => holds(q, c)
  BY <1>1, <1>8, ZenonT(40) DEF Send, holds, Job
<1>9. ASSUME NEW b \in Replicas, MarkSeen(b)
      PROVE  /\ seen \subseteq seen'
             /\ \/ \A q : holds(q, c)' => holds(q, c)
                \/ \E r \in Replicas : MarkSeen(r) /\ c \notin seen /\ c \in seen'
                                   /\ \A q : holds(q, c)' => holds(q, c) \/ q = r
  <2>1. job[b] \in Job /\ job[b].pc = "mark" /\ seen' = seen \cup {job[b].cmd}
    BY <1>1, <1>9, ZenonT(40) DEF MarkSeen
  <2>2. CASE job[b].cmd \in seen \cup Malformed
    <3>1. job' = [job EXCEPT ![b] = IdleJob]
      BY <1>9, <2>2, ZenonT(40) DEF MarkSeen, Ack
    <3>2. QED
      BY <1>3, <1>5, <2>1, <3>1, ZenonT(40)
  <2>3. CASE job[b].cmd \notin seen \cup Malformed
    <3>1. job' = [job EXCEPT ![b].pc = "get"]
      BY <1>9, <2>3, ZenonT(40) DEF MarkSeen
    <3>2. \A q \in Replicas \ {b} : job'[q] = job[q]
      BY <1>1, <3>1, ZenonT(40)
    <3>3. job'[b].cmd = job[b].cmd
      BY <1>1, <2>1, <3>1, ZenonT(40) DEF Job
    <3>4. CASE c = job[b].cmd
      BY <1>9, <2>1, <2>3, <3>2, <3>4 DEF holds
    <3>5. CASE c # job[b].cmd
      BY <2>1, <3>2, <3>3, <3>5, ZenonT(40) DEF holds
    <3>6. QED
      BY <3>4, <3>5, ZenonT(40)
  <2>4. QED
    BY <2>2, <2>3, ZenonT(40)
<1>10. ASSUME NEW b \in Replicas, Supervise(b) \/ Reconcile(b) \/ Answer(b) \/ LinkLost(b)
       PROVE  UNCHANGED <<job, seen>>
  BY <1>10, Zenon
     DEF Supervise, Dial, Subscribed, Probe, Probed, SupervisorTimesOut, SupervisorNotices,
     CloseClient, Unpublish, Reconcile, ReconcilerSends, ReconcilerReceives, ReconcilerFails,
     Answer, LinkLost
<1>11. QED
  BY <1>2, <1>4, <1>6, <1>7, <1>8, <1>9, <1>10, ZenonT(40) DEF Next, vars, Publish, Handle

(* A command is carried out by the step that takes it off its wire.        *)
LEMMA TokensStep ==
  ASSUME Types, Tokens, [Next]_vars
  PROVE  Tokens'
<1> SUFFICES ASSUME NEW c \in Commands
             PROVE  Token(c)'
  BY Zenon DEF Tokens
<1>1. Token(c) /\ Conns /\ executed[c] \in Nat /\ job \in [Replicas -> Job]
  BY Zenon DEF Tokens, Types, Control
<1>2. /\ seen \subseteq seen'
      /\ \/ \A q : holds(q, c)' => holds(q, c)
         \/ \E b \in Replicas : MarkSeen(b) /\ c \notin seen /\ c \in seen'
                                /\ \A q : holds(q, c)' => holds(q, c) \/ q = b
  BY HoldsStep, Zenon
<1>3. ASSUME executed'[c] = executed[c], \A q, j, k : onWire(c, q, j, k)' => onWire(c, q, j, k)
      PROVE  Token(c)'
  <2>1. CASE \A q : holds(q, c)' => holds(q, c)
    BY <1>1, <1>2, <1>3, <2>1, TokenStays, ZenonT(40)
  <2>2. CASE \E b \in Replicas : MarkSeen(b) /\ c \notin seen /\ c \in seen'
                                 /\ \A q : holds(q, c)' => holds(q, c) \/ q = b
    BY <1>1, <1>3, <2>2, TokenIsTaken, Zenon
  <2>3. QED
    BY <1>2, <2>1, <2>2, Zenon
<1>4. CASE UNCHANGED <<clients, executed>>
  BY <1>3, <1>4, Zenon DEF onWire
<1>5. ASSUME NEW b \in Replicas,
             \/ Receive(b) \/ TimesOut(b) \/ NotConnected(b) \/ Dial(b) \/ Subscribed(b) \/ Probe(b)
             \/ Probed(b) \/ SupervisorTimesOut(b) \/ SupervisorNotices(b) \/ Reconcile(b)
      PROVE  Token(c)'
  <2>1. executed' = executed
    BY <1>5, Zenon DEF Receive, TimesOut, NotConnected, Dial, Subscribed, Probe, Probed,
       SupervisorTimesOut, SupervisorNotices, Reconcile, ReconcilerSends, ReconcilerReceives,
       ReconcilerFails
  <2>2. \A q, j, k : onWire(c, q, j, k)' => onWire(c, q, j, k)
    BY <1>5, QuietWires, Zenon
  <2>3. QED
    BY <1>3, <2>1, <2>2, ZenonT(40)
<1>6. ASSUME NEW b \in Replicas, Send(b)
      PROVE  Token(c)'
  <2>1. Sends(b, job[b].client, "handler", "bgapi", job[b].cmd)
    BY <1>6, Moves, Zenon
  <2>2. job[b].client \in 1 .. Len(clients[b])
    BY <1>6, Indices, Zenon DEF Send
  <2>3. executed' = executed
    BY <1>6, ZenonT(40) DEF Send
  <2>4. CASE c # job[b].cmd
    <3>1. \A q, j, k : onWire(c, q, j, k)' => onWire(c, q, j, k)
      BY <1>1, <2>1, <2>2, <2>4, WireSends
    <3>2. QED
      BY <1>3, <2>3, <3>1, Zenon
  <2>5. CASE c = job[b].cmd
    <3>1. \A q, j, k : onWire(c, q, j, k)' => onWire(c, q, j, k)
                        \/ (q = b /\ j = job[b].client /\ k = Len(clients[b][job[b].client].wire) + 1)
      BY <1>1, <2>1, <2>2, WireSends
    <3>2. holds(b, c) /\ ~ holds(b, c)'
      BY <1>1, <1>6, <2>5, Zenon DEF holds, Send, Job
    <3>3. ~ \E r \in Replicas : MarkSeen(r) /\ c \notin seen
      BY <1>1, <3>2, Zenon DEF Token
    <3>4. \A q, j, k : ~ onWire(c, q, j, k)
      BY <1>1, <3>2, Zenon DEF Token
    <3>5. \A q, j, k, r, m, n :
            onWire(c, q, j, k)' /\ onWire(c, r, m, n)' => q = r /\ j = m /\ k = n
      BY <3>1, <3>4
    <3>6. seen \subseteq seen' /\ executed'[c] = executed[c] /\ \A q : holds(q, c)' => holds(q, c)
      BY <1>2, <2>3, <3>3, Zenon
    <3>7. QED
      BY <1>1, <3>2, <3>5, <3>6, TokenIsSent, ZenonT(40)
  <2>6. QED
    BY <2>4, <2>5, Zenon
<1>7. ASSUME NEW b \in Replicas, CloseClient(b) \/ LinkLost(b) \/ Crash(b)
      PROVE  Token(c)'
  <2>1. cur(b) \in 1 .. Len(clients[b])
    BY <1>1, <1>7, Moves, ClientOf, Zenon DEF Crash, current, cur
  <2>2. \E k \in 0 .. Len(clients[b][cur(b)].wire) : carriesOut(clients[b][cur(b)], k)
    BY <1>7, Zenon DEF CloseClient, LinkLost, Crash, current, cur
  <2>3. \A q, j, k : onWire(c, q, j, k)' => onWire(c, q, j, k) /\ (q # b \/ j # cur(b))
    <3>1. CASE CloseClient(b) \/ LinkLost(b)
      BY <1>1, <2>1, <3>1, Moves, WireCloses, Zenon
    <3>2. CASE Crash(b)
      <4>1. Len(clients'[b]) = 0 /\ \A q \in Replicas \ {b} : clients'[q] = clients[q]
        BY <1>1, <3>2, OnCrash, Zenon
      <4>2. ASSUME NEW q, NEW j, NEW k, onWire(c, q, j, k)', q = b
            PROVE  FALSE
        <5>1. j \in 1 .. Len(clients'[q])
          BY <4>2, Zenon DEF onWire
        <5>2. QED
          BY <4>1, <4>2, <5>1
      <4>3. QED
        BY <4>1, <4>2, ZenonT(40) DEF onWire
    <3>3. QED
      BY <1>7, <3>1, <3>2, Zenon
  <2>4. CASE executed'[c] = executed[c]
    BY <1>3, <2>3, <2>4, Zenon
  <2>5. CASE executed'[c] = executed[c] + 1 /\ \E m : onWire(c, b, cur(b), m)
    <3>1. PICK m : onWire(c, b, cur(b), m)
      BY <2>5, Zenon
    <3>2. \A q, j, k : ~ onWire(c, q, j, k)'
      BY <1>1, <2>3, <3>1 DEF Token
    <3>3. c \in seen
      BY <1>1, <3>1, Zenon DEF Token
    <3>4. QED
      BY <1>1, <1>2, <2>5, <3>1, <3>2, <3>3, TokenIsUsed, ZenonT(40)
  <2>6. QED
    BY <2>1, <2>2, <2>4, <2>5, CarriesOut, Zenon
<1>8. ASSUME NEW b \in Replicas, Answer(b)
      PROVE  Token(c)'
  <2> DEFINE f(i) == clients[b][i].wire[1]
  <2>1. PICK i \in 1 .. Len(clients[b]), ok \in BOOLEAN :
          /\ Answers(b, i, ok)
          /\ executed' = IF f(i).kind = "bgapi" /\ ok
                         THEN [executed EXCEPT ![f(i).cmd] = @ + 1] ELSE executed
    BY <1>8, Moves, Zenon
  <2>2. \A q, j, k : onWire(c, q, j, k)' =>
          k \in Nat \ {0} /\ onWire(c, q, j, IF q = b /\ j = i THEN k + 1 ELSE k)
    BY <1>1, <2>1, WireAnswers, ZenonT(40)
  <2>3. f(i) \in Frame /\ Len(clients[b][i].wire) \in Nat /\ Len(clients[b][i].wire) > 0
    BY <1>1, <2>1, ClientOf, ClientFields, AnswerIs, Zenon DEF Answers
  <2>4. ~ \E r \in Replicas : MarkSeen(r) /\ c \notin seen /\ c \in seen'
    BY <1>8, Zenon DEF Answer
  <2>5. CASE f(i).cmd = c /\ ok
    <3>1. f(i).kind = "bgapi"
      BY <2>3, <2>5, BridgeAssumption, ZenonT(40) DEF Frame
    <3>2. executed'[c] = executed[c] + 1
      BY <2>1, <2>5, <3>1, ZenonT(40) DEF Types, Control
    <3>3. onWire(c, b, i, 1)
      BY <2>3, <2>5 DEF onWire
    <3>4. \A q, j, k : ~ onWire(c, q, j, k)'
      <4> SUFFICES ASSUME NEW q, NEW j, NEW k, onWire(c, q, j, k)'
                   PROVE  FALSE
        BY ZenonT(40)
      <4>1. k \in Nat \ {0} /\ onWire(c, q, j, IF q = b /\ j = i THEN k + 1 ELSE k)
        BY <2>2, Zenon
      <4>2. q = b /\ j = i /\ 1 = IF q = b /\ j = i THEN k + 1 ELSE k
        BY <1>1, <3>3, <4>1, ZenonT(40) DEF Token
      <4>3. QED
        BY <4>1, <4>2
    <3>5. QED
      BY <1>1, <1>2, <2>4, <3>2, <3>3, <3>4, TokenIsUsed, ZenonT(40)
  <2>6. CASE ~ (f(i).cmd = c /\ ok)
    <3>1. executed'[c] = executed[c]
      BY <2>1, <2>6, ZenonT(40) DEF Types, Control
    <3>2. \A q : holds(q, c)' => holds(q, c)
      BY <1>2, <2>4, ZenonT(40)
    <3>3. \A q, j, k, r, m, n :
            onWire(c, q, j, k)' /\ onWire(c, r, m, n)' => q = r /\ j = m /\ k = n
      <4> SUFFICES ASSUME NEW q, NEW j, NEW k, NEW r, NEW m, NEW n,
                          onWire(c, q, j, k)', onWire(c, r, m, n)'
                   PROVE  q = r /\ j = m /\ k = n
        BY Zenon
      <4>1. /\ k \in Nat /\ onWire(c, q, j, IF q = b /\ j = i THEN k + 1 ELSE k)
            /\ n \in Nat /\ onWire(c, r, m, IF r = b /\ m = i THEN n + 1 ELSE n)
        BY <2>2, Zenon
      <4>2. q = r /\ j = m
            /\ (IF q = b /\ j = i THEN k + 1 ELSE k) = (IF r = b /\ m = i THEN n + 1 ELSE n)
        BY <1>1, <4>1, ZenonT(40) DEF Token
      <4>3. QED
        BY <4>1, <4>2
    <3>4. \A q, j, k : onWire(c, q, j, k)' => \E n : onWire(c, q, j, n)
      BY <2>2, ZenonT(40)
    <3>5. QED
      BY <1>1, <1>2, <3>1, <3>2, <3>3, <3>4, TokenMoves, ZenonT(40)
  <2>7. QED
    BY <2>5, <2>6, Zenon
<1>9. ASSUME NEW b \in Replicas, (\E d \in Commands : Deliver(b, d)) \/ MarkSeen(b)
             \/ MarkSeenFails(b) \/ Get(b) \/ Unpublish(b)
      PROVE  Token(c)'
  <2>1. UNCHANGED <<clients, executed>>
    BY <1>9, ZenonT(40) DEF Deliver, MarkSeen, MarkSeenFails, Get, Unpublish
  <2>2. QED
    BY <1>4, <2>1, ZenonT(40)
<1>10. QED
  BY <1>4, <1>5, <1>6, <1>7, <1>8, <1>9, ZenonT(40) DEF Next, vars, Publish, Handle, Supervise

-----------------------------------------------------------------------------
(* Whose the replies are.                                                  *)

(* Nobody waits for what a free client has under way; what a client in the *)
(* handler's hands has under way and is not late belongs to its command.   *)
own(c, cmd, done) ==
  /\ c.mutex = Nil => allLate(c.wire) /\ allLate(c.replies)
  /\ c.mutex = "handler" =>
       /\ \A k \in 1 .. Len(c.wire) : c.wire[k].late \/ c.wire[k].cmd = cmd
       /\ \A k \in 1 .. Len(c.replies) : c.replies[k].late \/ ~ c.replies[k].ok \/ done

done(b) == executed[job[b].cmd] > 0

Ours ==
  \A b \in Replicas : \A i \in 1 .. Len(clients[b]) : own(clients[b][i], job[b].cmd, done(b))

(* FreeSWITCH never takes a command back.                                  *)
LEMMA ExecutedGrows ==
  ASSUME Types, [Next]_vars, NEW c \in Commands
  PROVE  executed[c] > 0 => executed'[c] > 0
<1>1. executed \in [Commands -> Nat]
  BY Zenon DEF Types, Control
<1>2. ASSUME NEW b \in Replicas, CloseClient(b) \/ LinkLost(b) \/ Crash(b)
      PROVE  executed[c] > 0 => executed'[c] > 0
  <2>1. cur(b) \in 1 .. Len(clients[b])
    BY <1>2, Moves, ClientOf, Zenon DEF Crash, current, cur, Types
  <2>2. PICK k \in 0 .. Len(clients[b][cur(b)].wire) : carriesOut(clients[b][cur(b)], k)
    BY <1>2, Zenon DEF CloseClient, LinkLost, Crash, current, cur
  <2>3. executed'[c] = executed[c] \/ executed'[c] = executed[c] + 1
    BY <2>1, <2>2, CarriesOut, Zenon
  <2>4. QED
    BY <1>1, <2>3
<1>3. ASSUME NEW b \in Replicas, Answer(b)
      PROVE  executed[c] > 0 => executed'[c] > 0
  <2>1. \/ executed' = executed
        \/ \E x : executed' = [executed EXCEPT ![x] = @ + 1]
    BY <1>3, Zenon DEF Answer
  <2>2. QED
    BY <1>1, <2>1
<1>4. QED
  BY <1>2, <1>3, ZenonT(40)
     DEF Next, vars, Publish, Deliver, Handle, MarkSeen, Get, Send, Receive, TimesOut,
     NotConnected, MarkSeenFails, Supervise, Dial, Subscribed, Probe, Probed, SupervisorTimesOut,
     SupervisorNotices, Unpublish, Reconcile, ReconcilerSends, ReconcilerReceives, ReconcilerFails

(* Ours, client by client.                                                 *)
LEMMA OursNext ==
  ASSUME \A q \in Replicas : \A j \in 1 .. Len(clients'[q]) :
           own(clients'[q][j], job'[q].cmd, done(q)')
  PROVE  Ours'
BY Zenon DEF Ours, own, allLate, done

(* A step that gives client i of b the state d.                            *)
LEMMA OursOnPut ==
  ASSUME Types, Held, Ours, NEW b \in Replicas, NEW i \in 1 .. Len(clients[b]), NEW d,
         Put(b, i, d), own(d, job'[b].cmd, done(b)'),
         \A c \in Commands : executed[c] > 0 => executed'[c] > 0,
         \A q \in Replicas \ {b} : job'[q].cmd = job[q].cmd,
         job'[b].cmd = job[b].cmd \/ job[b].client = i \/ job[b].pc # "wait"
  PROVE  Ours'
<1> SUFFICES ASSUME NEW q \in Replicas, NEW j \in 1 .. Len(clients'[q])
             PROVE  own(clients'[q][j], job'[q].cmd, done(q)')
  BY Zenon DEF Ours, own, allLate, done
<1>1. j \in 1 .. Len(clients[q])
  BY Zenon DEF Put
<1>2. CASE q = b /\ j = i
  BY <1>2, Zenon DEF Put
<1>3. CASE q # b \/ j # i
  <2>1. clients'[q][j] = clients[q][j]
    BY <1>1, <1>3, Zenon DEF Put
  <2>2. own(clients[q][j], job[q].cmd, done(q))
    BY <1>1, Zenon DEF Ours
  <2>3. clients[q][j].mutex = "handler" =>
          job[q].pc = "wait" /\ job[q].client = j /\ job[q].cmd \in Commands
    <3>1. clients[q][j].mutex = "handler" => job[q].pc = "wait" /\ job[q].client = j
      BY <1>1, ZenonT(40) DEF Held
    <3>2. job[q].pc = "wait" => job[q].cmd \in Commands
      BY Zenon DEF Types, Control
    <3>3. QED
      BY <3>1, <3>2, Zenon
  <2>4. clients[q][j].mutex = "handler" => job'[q].cmd = job[q].cmd /\ (done(q) => done(q)')
    BY <1>3, <2>3, Zenon DEF done
  <2>5. QED
    BY <2>1, <2>2, <2>4, Zenon DEF own
<1>4. QED
  BY <1>2, <1>3, Zenon

(* Steps after which client i is free, or in other hands.                  *)
LEMMA OursOnLeave ==
  ASSUME Types, Held, Ours, [Next]_vars, NEW b \in Replicas, NEW i \in 1 .. Len(clients[b]),
         \/ Leaves(b, i)
         \/ \E p, kind : p \in {"supervisor", "reconciler"} /\ Sends(b, i, p, kind, Nil),
         \A q \in Replicas \ {b} : job'[q] = job[q],
         job' = job \/ job[b].client = i
  PROVE  Ours'
<1>1. \E d : Put(b, i, d) /\ own(d, job'[b].cmd, done(b)')
  <2>1. Nil # "handler"
    BY BridgeAssumption, Zenon DEF Callers
  <2>2. CASE Leaves(b, i)
    BY <2>1, <2>2, Zenon DEF Leaves, Released, own
  <2>3. CASE \E p, kind : p \in {"supervisor", "reconciler"} /\ Sends(b, i, p, kind, Nil)
    <3>1. PICK p, kind : p \in {"supervisor", "reconciler"} /\ Sends(b, i, p, kind, Nil)
      BY <2>3, Zenon
    <3>2. PICK d : Put(b, i, d) /\ d.mutex = p
      BY <3>1, Zenon DEF Sends, Sent
    <3>3. p # Nil /\ p # "handler"
      BY <3>1, BridgeAssumption, Zenon DEF Callers
    <3>4. QED
      BY <3>2, <3>3, Zenon DEF own
  <2>4. QED
    BY <2>2, <2>3, Zenon
<1>2. \A c \in Commands : executed[c] > 0 => executed'[c] > 0
  BY ExecutedGrows, Zenon
<1>3. QED
  BY <1>1, <1>2, OursOnPut, Zenon

(* Every step keeps a reply that is not late with its command.             *)
LEMMA OursStep ==
  ASSUME Types, Held, Ours, [Next]_vars
  PROVE  Ours'
<1>1. Conns /\ job \in [Replicas -> Job] /\ executed \in [Commands -> Nat]
  BY Zenon DEF Types, Control
<1>2. \A c \in Commands : executed[c] > 0 => executed'[c] > 0
  BY ExecutedGrows, Zenon
<1>3. "supervisor" # Nil /\ "handler" # Nil
  BY BridgeAssumption, Zenon DEF Callers
<1>4. ASSUME NEW b \in Replicas, UNCHANGED <<clients, executed>>,
             \A q \in Replicas \ {b} : job'[q] = job[q], job[b].pc # "wait" \/ job' = job
      PROVE  Ours'
  <2> SUFFICES ASSUME NEW q \in Replicas, NEW j \in 1 .. Len(clients[q])
               PROVE  own(clients[q][j], job'[q].cmd, done(q)')
    BY <1>4, OursNext, Zenon
  <2>1. own(clients[q][j], job[q].cmd, done(q))
    BY Zenon DEF Ours
  <2>2. clients[q][j].mutex = "handler" => job[q].pc = "wait"
    BY Zenon DEF Held
  <2>3. clients[q][j].mutex = "handler" => job'[q].cmd = job[q].cmd /\ (done(q) <=> done(q)')
    BY <1>4, <2>2, Zenon DEF done
  <2>4. QED
    BY <2>1, <2>3, Zenon DEF own
<1>5. CASE UNCHANGED <<clients, executed, job>>
  <2>1. \A q : done(q)' <=> done(q)
    BY <1>5, Zenon DEF done
  <2>2. \A q \in Replicas : \A j \in 1 .. Len(clients[q]) :
          own(clients[q][j], job[q].cmd, done(q)')
    BY <2>1, ZenonT(40) DEF Ours, own
  <2>3. QED
    BY <1>5, <2>2, OursNext, Zenon
<1>6. ASSUME NEW b \in Replicas, (\E d \in Commands : Deliver(b, d)) \/ MarkSeen(b)
             \/ MarkSeenFails(b) \/ Get(b) \/ (NotConnected(b) /\ job[b].pc # "wait")
      PROVE  Ours'
  <2>1. /\ UNCHANGED <<clients, executed>> /\ job[b].pc # "wait"
        /\ \A q \in Replicas \ {b} : job'[q] = job[q]
    BY <1>1, <1>6, Zenon DEF Deliver, MarkSeen, MarkSeenFails, Get, NotConnected, Ack, Nak
  <2>2. QED
    BY <1>4, <2>1, Zenon
<1>7. ASSUME NEW b \in Replicas,
             Receive(b) \/ TimesOut(b) \/ (NotConnected(b) /\ job[b].pc = "wait")
      PROVE  Ours'
  <2>1. job[b].client \in 1 .. Len(clients[b]) /\ Leaves(b, job[b].client)
    BY <1>7, Indices, Moves, Zenon DEF Receive, TimesOut
  <2>2. \A q \in Replicas \ {b} : job'[q] = job[q]
    BY <1>1, <1>7, Zenon DEF Receive, TimesOut, NotConnected, Ack, Nak
  <2>3. PICK i : i = job[b].client
    BY Zenon
  <2>4. QED
    BY <2>1, <2>2, <2>3, OursOnLeave, ZenonT(40)
<1>8. ASSUME NEW b \in Replicas,
             \/ Subscribed(b) \/ Probe(b) \/ Probed(b) \/ SupervisorTimesOut(b)
             \/ (SupervisorNotices(b) /\ clients[b][cur(b)].mutex = "supervisor")
      PROVE  Ours'
  <2>1. cur(b) \in 1 .. Len(clients[b])
    BY <1>8, Indices, Zenon
       DEF Subscribed, Probe, Probed, SupervisorTimesOut, SupervisorNotices, cur
  <2>2. job' = job
    BY <1>8, Zenon DEF Subscribed, Probe, Probed, SupervisorTimesOut, SupervisorNotices
  <2>3. Leaves(b, cur(b)) \/ Sends(b, cur(b), "supervisor", "sofia", Nil)
    BY <1>8, Moves, Zenon
  <2>4. PICK i : i = cur(b)
    BY Zenon
  <2>5. QED
    BY <2>1, <2>2, <2>3, <2>4, OursOnLeave
<1>9. ASSUME NEW b \in Replicas, SupervisorNotices(b), clients[b][cur(b)].mutex # "supervisor"
      PROVE  Ours'
  BY <1>5, <1>9, Moves, ZenonT(40) DEF SupervisorNotices
<1>10. ASSUME NEW b \in Replicas, Reconcile(b)
       PROVE  Ours'
  <2>1. job' = job
    BY <1>10, Zenon DEF Reconcile, ReconcilerSends, ReconcilerReceives, ReconcilerFails
  <2>2. \E i \in 1 .. Len(clients[b]) :
          Leaves(b, i) \/ Sends(b, i, "reconciler", "count", Nil)
    <3>1. /\ ReconcilerSends(b) => node[b] \in 1 .. Len(clients[b])
          /\ ReconcilerReceives(b) \/ ReconcilerFails(b) => rec[b] \in 1 .. Len(clients[b])
      BY Indices, Zenon DEF ReconcilerSends, ReconcilerReceives, ReconcilerFails
    <3>2. QED
      BY <1>10, <3>1, Moves, Zenon DEF Reconcile
  <2>3. QED
    BY <2>1, <2>2, OursOnLeave
<1>11. ASSUME NEW b \in Replicas, Send(b)
       PROVE  Ours'
  <2>1. PICK i : i = job[b].client
    BY Zenon
  <2>2. i \in 1 .. Len(clients[b]) /\ clients[b][i].mutex = Nil
    BY <1>11, <2>1, Indices, ZenonT(40) DEF Send, canWrite
  <2>3. PICK d : /\ Put(b, i, d) /\ Sent(clients[b][i], d, "handler", "bgapi", job[b].cmd)
                 /\ \/ allLate(clients[b][i].wire) /\ allLate(clients[b][i].replies) => onlyLast(d)
                    \/ onlyLast(d)
    BY <1>11, <2>1, Moves, Zenon DEF Sends
  <2>4. onlyLast(d)
    BY <2>2, <2>3, Zenon DEF Ours, own
  <2>5. /\ job'[b].cmd = job[b].cmd /\ \A q \in Replicas \ {b} : job'[q] = job[q]
    BY <1>1, <1>11, Zenon DEF Send, Job
  <2>6. own(d, job'[b].cmd, done(b)')
    <3>1. d.mutex = "handler" /\ Len(clients[b][i].wire) \in Nat /\ d \in Client
      BY <1>1, <2>2, <2>3, ClientOf, ClientFields, ZenonT(40) DEF Sent
    <3>2. \A k \in 1 .. Len(d.wire) : d.wire[k].late \/ d.wire[k].cmd = job[b].cmd
      <4> TAKE k \in 1 .. Len(d.wire)
      <4>1. Len(d.wire) = Len(clients[b][i].wire) + 1
            /\ d.wire[Len(clients[b][i].wire) + 1].cmd = job[b].cmd
        BY <2>3 DEF Sent
      <4>2. k \in 1 .. Len(d.wire) - 1 \/ k = Len(clients[b][i].wire) + 1
        BY <3>1, <4>1
      <4>3. QED
        BY <2>4, <4>1, <4>2, ZenonT(40) DEF onlyLast
    <3>3. \A k \in 1 .. Len(d.replies) : d.replies[k].late
      BY <2>4, <3>1, ClientFields, ZenonT(40) DEF onlyLast, allLate
    <3>4. QED
      BY <1>3, <2>5, <3>1, <3>2, <3>3, ZenonT(40) DEF own
  <2>7. QED
    BY <1>2, <2>2, <2>3, <2>5, <2>6, OursOnPut, ZenonT(40)
<1>12. ASSUME NEW b \in Replicas, CloseClient(b) \/ LinkLost(b)
       PROVE  Ours'
  <2>1. PICK i : i = cur(b)
    BY Zenon
  <2>2. i \in 1 .. Len(clients[b]) /\ Put(b, i, close(clients[b][i]))
    BY <1>12, <2>1, Moves, Zenon DEF Closes
  <2>3. job' = job
    BY <1>12, Zenon DEF CloseClient, LinkLost
  <2> DEFINE c == clients[b][i]
             d == close(clients[b][i])
  <2>4. /\ c \in Client /\ d.mutex = c.mutex /\ d.wire = << >>
        /\ d.replies = IF c.mutex = Nil THEN << >> ELSE c.replies
    BY <1>1, <2>2, ClientOf, CloseIs, ZenonT(40)
  <2>5. own(c, job[b].cmd, done(b))
    BY <2>2, Zenon DEF Ours
  <2> HIDE DEF c, d
  <2>6. own(d, job'[b].cmd, done(b)')
    <3>1. Len(<< >>) = 0 /\ allLate(<< >>)
      BY EmptySeq DEF allLate
    <3>2. c.mutex = "handler" => (done(b) => done(b)')
      <4>1. c.mutex = "handler" => job[b].cmd \in Commands
        BY <2>2, Zenon DEF Held, Types, Control, c
      <4>2. QED
        BY <1>2, <2>3, <4>1, ZenonT(40) DEF done
    <3>3. \A k : k \notin 1 .. Len(d.wire)
      BY <2>4, <3>1
    <3>4. ASSUME d.mutex = Nil
          PROVE  allLate(d.wire) /\ allLate(d.replies)
      BY <2>4, <3>1, <3>4, Zenon
    <3>5. ASSUME d.mutex = "handler"
          PROVE  \A k \in 1 .. Len(d.replies) : d.replies[k].late \/ ~ d.replies[k].ok \/ done(b)'
      <4>1. d.replies = c.replies /\ c.mutex = "handler"
        BY <1>3, <2>4, <3>5, ZenonT(40)
      <4>2. QED
        BY <2>5, <3>2, <4>1, ZenonT(40) DEF own
    <3>6. QED
      BY <3>3, <3>4, <3>5, Zenon DEF own
  <2>7. QED
    BY <1>2, <2>2, <2>3, <2>6, OursOnPut, ZenonT(40) DEF d
<1>13. ASSUME NEW b \in Replicas, Answer(b)
       PROVE  Ours'
  <2> DEFINE f(i) == clients[b][i].wire[1]
  <2>1. PICK i \in 1 .. Len(clients[b]), ok \in BOOLEAN :
          /\ Answers(b, i, ok)
          /\ executed' = IF f(i).kind = "bgapi" /\ ok
                         THEN [executed EXCEPT ![f(i).cmd] = @ + 1] ELSE executed
    BY <1>13, Moves, Zenon
  <2>2. job' = job
    BY <1>13, Zenon DEF Answer
  <2> DEFINE c == clients[b][i]
             d == answer(clients[b][i], ok)
             r == [ kind |-> f(i).kind, ok |-> ok, late |-> f(i).late ]
  <2>3. /\ c \in Client /\ f(i) \in Frame /\ d \in Client /\ d.mutex = c.mutex
        /\ Len(d.wire) = Len(c.wire) - 1 /\ \A k \in 1 .. Len(d.wire) : d.wire[k] = c.wire[k + 1]
        /\ d.replies \in {c.replies, Append(c.replies, r)}
        /\ Len(c.wire) \in Nat /\ Len(c.wire) > 0 /\ c.replies \in Seq(Reply) /\ r \in Reply
    BY <1>1, <2>1, ClientOf, ClientFields, AnswerIs, ZenonT(40) DEF Answers
  <2>4. own(c, job[b].cmd, done(b)) /\ Put(b, i, d)
    BY <2>1, Zenon DEF Ours, Answers
  <2>5. f(i) = c.wire[1] /\ r.late = f(i).late /\ r.ok = ok
    BY Zenon
  <2>6. c.mutex = "handler" => job[b].cmd \in Commands
    BY <2>1, Zenon DEF Held, Types, Control
  <2> HIDE DEF c, d, f, r
  <2>7. \A k \in 1 .. Len(d.wire) : k + 1 \in 1 .. Len(c.wire)
    BY <2>3
  <2>8. \A k \in 1 .. Len(d.replies) : (k \in 1 .. Len(c.replies) /\ d.replies[k] = c.replies[k])
                                       \/ d.replies[k] = r
    <3>1. CASE d.replies = c.replies
      BY <3>1, Zenon
    <3>2. CASE d.replies = Append(c.replies, r)
      <4>1. Len(c.replies) \in Nat /\ Len(d.replies) = Len(c.replies) + 1
        BY <2>3, <3>2
      <4>2. /\ d.replies[Len(c.replies) + 1] = r
            /\ \A k \in 1 .. Len(c.replies) : d.replies[k] = c.replies[k]
        BY <2>3, <3>2
      <4>3. QED
        BY <4>1, <4>2
    <3>3. QED
      BY <2>3, <3>1, <3>2, ZenonT(40)
  <2>9. /\ DOMAIN c.wire = 1 .. Len(c.wire) /\ DOMAIN d.wire = 1 .. Len(d.wire)
        /\ DOMAIN c.replies = 1 .. Len(c.replies) /\ DOMAIN d.replies = 1 .. Len(d.replies)
        /\ 1 \in 1 .. Len(c.wire)
    BY <2>3, ClientFields
  <2>10. own(d, job'[b].cmd, done(b)')
    <3>1. ASSUME d.mutex = Nil
          PROVE  allLate(d.wire) /\ allLate(d.replies)
      <4>1. allLate(c.wire) /\ allLate(c.replies)
        BY <2>3, <2>4, <3>1, ZenonT(40) DEF own
      <4>2. QED
        BY <2>3, <2>5, <2>7, <2>8, <2>9, <4>1, ZenonT(40) DEF allLate
    <3>2. ASSUME d.mutex = "handler"
          PROVE  /\ \A k \in 1 .. Len(d.wire) : d.wire[k].late \/ d.wire[k].cmd = job[b].cmd
                 /\ \A k \in 1 .. Len(d.replies) :
                      d.replies[k].late \/ ~ d.replies[k].ok \/ done(b)'
      <4>1. /\ \A k \in 1 .. Len(c.wire) : c.wire[k].late \/ c.wire[k].cmd = job[b].cmd
            /\ \A k \in 1 .. Len(c.replies) : c.replies[k].late \/ ~ c.replies[k].ok \/ done(b)
            /\ job[b].cmd \in Commands
        BY <2>3, <2>4, <2>6, <3>2, Zenon DEF own
      <4>2. done(b) => done(b)'
        BY <1>2, <2>2, <4>1, Zenon DEF done
      <4>3. ok /\ ~ r.late => done(b)'
        <5> SUFFICES ASSUME ok, ~ r.late
                     PROVE  executed'[job[b].cmd] > 0
          BY <2>2, Zenon DEF done
        <5>1. f(i).cmd = job[b].cmd
          BY <2>5, <2>9, <4>1, ZenonT(40)
        <5>2. f(i).kind = "bgapi"
          BY <2>3, <4>1, <5>1, BridgeAssumption, ZenonT(40) DEF Frame
        <5>3. executed'[job[b].cmd] = executed[job[b].cmd] + 1 /\ executed[job[b].cmd] \in Nat
          BY <1>1, <2>1, <4>1, <5>1, <5>2, ZenonT(40)
        <5>4. QED
          BY <5>3
      <4>4. QED
        BY <2>3, <2>5, <2>7, <2>8, <4>1, <4>2, <4>3, ZenonT(40)
    <3>3. QED
      BY <2>2, <3>1, <3>2, ZenonT(40) DEF own
  <2>11. QED
    BY <1>2, <2>1, <2>2, <2>4, <2>10, OursOnPut, ZenonT(40)
<1>14. ASSUME NEW b \in Replicas, Dial(b)
       PROVE  Ours'
  <2>1. PICK d \in Client :
           /\ Len(clients'[b]) = Len(clients[b]) + 1 /\ clients'[b][Len(clients[b]) + 1] = d
           /\ \A q \in Replicas \ {b} : clients'[q] = clients[q]
           /\ \A j \in 1 .. Len(clients[b]) : clients'[b][j] = clients[b][j]
           /\ d.mutex = "supervisor"
    BY <1>1, <1>14, OnDial, ZenonT(40)
  <2>2. UNCHANGED <<job, executed>>
    BY <1>14, ZenonT(40) DEF Dial
  <2>3. \A j \in 1 .. Len(clients[b]) + 1 : j \in 1 .. Len(clients[b]) \/ j = Len(clients[b]) + 1
    BY <1>1, ClientOf
  <2>4. own(d, job[b].cmd, done(b))
    BY <1>3, <2>1, ZenonT(40) DEF own
  <2>5. \A q \in Replicas : \A j \in 1 .. Len(clients'[q]) : own(clients'[q][j], job[q].cmd, done(q))
    BY <2>1, <2>3, <2>4, ZenonT(40) DEF Ours
  <2>6. \A q : done(q)' <=> done(q)
    BY <2>2, ZenonT(40) DEF done
  <2>7. \A q \in Replicas : \A j \in 1 .. Len(clients'[q]) :
          own(clients'[q][j], job'[q].cmd, done(q)')
    BY <2>2, <2>5, <2>6, ZenonT(40) DEF own
  <2>8. QED
    BY <2>7, OursNext, ZenonT(40)
<1>15. ASSUME NEW b \in Replicas, Crash(b)
       PROVE  Ours'
  <2>1. Len(clients'[b]) = 0 /\ \A q \in Replicas \ {b} : clients'[q] = clients[q]
    BY <1>1, <1>15, OnCrash, ZenonT(40)
  <2>2. \A q \in Replicas \ {b} : job'[q] = job[q]
    BY <1>1, <1>15, ZenonT(40) DEF Crash
  <2> SUFFICES ASSUME NEW q \in Replicas, NEW j \in 1 .. Len(clients'[q])
               PROVE  own(clients'[q][j], job'[q].cmd, done(q)')
    BY Zenon DEF Ours, own, allLate, done
  <2>3. q # b /\ j \in 1 .. Len(clients[q]) /\ clients'[q][j] = clients[q][j]
    BY <2>1
  <2>4. clients[q][j].mutex = "handler" => job[q].cmd \in Commands
    BY <2>3, ZenonT(40) DEF Held, Types, Control
  <2>5. own(clients[q][j], job[q].cmd, done(q))
    BY <2>3, Zenon DEF Ours
  <2>6. clients[q][j].mutex = "handler" => (done(q) => done(q)')
    BY <1>2, <2>2, <2>3, <2>4, Zenon DEF done
  <2>7. QED
    BY <2>2, <2>3, <2>5, <2>6, ZenonT(40) DEF own
<1>16. ASSUME NEW b \in Replicas, Unpublish(b)
       PROVE  Ours'
  BY <1>5, <1>16, ZenonT(40) DEF Unpublish
<1>17. ASSUME NEW b \in Replicas, NotConnected(b) \/ SupervisorNotices(b)
       PROVE  Ours'
  BY <1>6, <1>7, <1>8, <1>9, <1>17, ZenonT(40)
<1>18. QED
  BY <1>5, <1>6, <1>7, <1>8, <1>10, <1>11, <1>12, <1>13, <1>14, <1>15, <1>16, <1>17, ZenonT(40)
     DEF Next, vars, Publish, Handle, Supervise

-----------------------------------------------------------------------------
(* Where a command with a key has got to.                                  *)

busy(b, c) == job[b].pc \in {"get", "send", "wait"} /\ job[b].cmd = c

(* What may end a handler's work on a command.                             *)
settled(c) == executed[c] > 0 \/ c \in failed \/ "handler" \in crossed

Traced ==
  /\ \A c \in Commands : stream[c] = "acked" => c \in seen
  /\ \A b \in Replicas : job[b].pc \in {"get", "send", "wait"} => job[b].cmd \in seen
  /\ \A c \in seen \ Malformed : settled(c) \/ \E b \in Replicas : busy(b, c)

(* A handler that goes idle on an OK took the reply to its own command, or *)
(* somebody else's.                                                        *)
LEMMA ReceiveSettles ==
  ASSUME Types, Ours, NEW b \in Replicas, Receive(b)
  PROVE  \A x : x = job[b].cmd => settled(x)'
<1> DEFINE c == clients[b][job[b].client]
           r == Head(c.replies)
<1>1. /\ job[b].client \in 1 .. Len(clients[b]) /\ job[b].cmd \in Commands
      /\ c.mutex = "handler" /\ c.replies # << >>
  BY Indices, Zenon DEF Receive, canReceive, Types, Control
<1>2. c \in Client
  BY <1>1, ClientOf, ZenonT(40) DEF Types
<1>3. r = c.replies[1] /\ 1 \in 1 .. Len(c.replies)
  <2>1. c.replies \in Seq(Reply) /\ Len(c.replies) \in Nat /\ Len(c.replies) > 0
    BY <1>1, <1>2, ClientFields, ZenonT(40)
  <2>2. QED
    BY <2>1
<1>4. /\ r.late => crossed' = crossed \cup {"handler"}
      /\ ~ commandOK(r) => failed' = failed \cup {job[b].cmd}
      /\ executed' = executed
  BY Zenon DEF Receive, take, Nak
<1>5. own(c, job[b].cmd, done(b))
  BY <1>1, Zenon DEF Ours
<1>6. ~ r.late /\ r.ok => executed[job[b].cmd] > 0
  BY <1>1, <1>3, <1>5, Zenon DEF own, done
<1> HIDE DEF r
<1>7. QED
  BY <1>4, <1>6, ZenonT(40) DEF commandOK, settled

(* A settled command stays settled.                                        *)
LEMMA SettledGrows ==
  ASSUME Types, [Next]_vars, NEW c \in Commands, settled(c)
  PROVE  settled(c)'
<1>1. executed[c] > 0 => executed'[c] > 0
  BY ExecutedGrows, Zenon
<1>2. failed \subseteq failed' /\ crossed \subseteq crossed'
  <2>1. ASSUME NEW b \in Replicas, (\E d \in Commands : Deliver(b, d)) \/ MarkSeenFails(b)
               \/ Answer(b) \/ LinkLost(b) \/ Crash(b)
        PROVE  failed \subseteq failed' /\ crossed \subseteq crossed'
    BY <2>1, Zenon DEF Deliver, MarkSeenFails, Answer, LinkLost, Crash
  <2>2. ASSUME NEW b \in Replicas, Handle(b)
        PROVE  failed \subseteq failed' /\ crossed \subseteq crossed'
    BY <2>2, Zenon DEF Handle, MarkSeen, Get, Send, Receive, TimesOut, NotConnected, Ack, Nak, take
  <2>3. ASSUME NEW b \in Replicas, Supervise(b)
        PROVE  failed \subseteq failed' /\ crossed \subseteq crossed'
    BY <2>3, ZenonT(40) DEF Supervise, Dial, Subscribed, Probe, Probed, SupervisorTimesOut,
       SupervisorNotices, CloseClient, Unpublish, take
  <2>4. ASSUME NEW b \in Replicas, Reconcile(b)
        PROVE  failed \subseteq failed' /\ crossed \subseteq crossed'
    BY <2>4, Zenon DEF Reconcile, ReconcilerSends, ReconcilerReceives, ReconcilerFails
  <2>5. QED
    BY <2>1, <2>2, <2>3, <2>4, ZenonT(40) DEF Next, vars, Publish
<1>3. QED
  BY <1>1, <1>2, Zenon DEF settled

(* A handler keeps its command until it is settled.                        *)
LEMMA BusyStep ==
  ASSUME Types, Ours, [Next]_vars, NEW q \in Replicas, NEW c \in Commands, busy(q, c)
  PROVE  busy(q, c)' \/ settled(c)'
<1>1. job \in [Replicas -> Job] /\ c # Nil
  BY BridgeAssumption, Zenon DEF Types, Control
<1>2. CASE job'[q] = job[q]
  BY <1>2, Zenon DEF busy
<1>3. ASSUME NEW b \in Replicas, NEW x, job' = [job EXCEPT ![b] = x], b # q
      PROVE  job'[q] = job[q]
  BY <1>1, <1>3, Zenon
<1>4. ASSUME NEW b \in Replicas, NEW d \in Commands, Deliver(b, d)
      PROVE  busy(q, c)' \/ settled(c)'
  BY <1>1, <1>2, <1>4, Zenon DEF Deliver, busy
<1>5. ASSUME NEW b \in Replicas, MarkSeen(b) \/ MarkSeenFails(b)
      PROVE  busy(q, c)' \/ settled(c)'
  <2>1. b # q
    BY <1>5, Zenon DEF MarkSeen, MarkSeenFails, busy
  <2>2. job'[q] = job[q]
    BY <1>1, <1>5, <2>1, ZenonT(40) DEF MarkSeen, MarkSeenFails, Ack
  <2>3. QED
    BY <1>2, <2>2, Zenon
<1>6. ASSUME NEW b \in Replicas, Get(b) \/ TimesOut(b) \/ NotConnected(b) \/ Crash(b)
      PROVE  busy(q, c)' \/ settled(c)'
  <2>1. CASE b # q
    <3>1. job'[q] = job[q]
      BY <1>1, <1>6, <2>1, ZenonT(40) DEF Get, TimesOut, NotConnected, Crash, Nak
    <3>2. QED
      BY <1>2, <3>1, Zenon
  <2>2. CASE b = q /\ job[b].cmd \in failed'
    BY <2>2, Zenon DEF busy, settled
  <2>3. CASE b = q /\ job[b].cmd \notin failed'
    <3>1. job' = [job EXCEPT ![b].pc = "send", ![b].client = node[b]]
      BY <1>1, <1>6, <2>3, ZenonT(40) DEF Get, TimesOut, NotConnected, Crash, Nak, busy
    <3>2. job'[q].pc = "send" /\ job'[q].cmd = job[q].cmd
      BY <1>1, <2>3, <3>1, ZenonT(40) DEF Job
    <3>3. QED
      BY <3>2, Zenon DEF busy
  <2>4. QED
    BY <2>1, <2>2, <2>3, ZenonT(40)
<1>7. ASSUME NEW b \in Replicas, Send(b)
      PROVE  busy(q, c)' \/ settled(c)'
  BY <1>1, <1>7, Zenon DEF Send, busy, Job
<1>8. ASSUME NEW b \in Replicas, Receive(b)
      PROVE  busy(q, c)' \/ settled(c)'
  <2>1. CASE b = q
    BY <1>8, <2>1, ReceiveSettles, ZenonT(40) DEF busy
  <2>2. CASE b # q
    <3>1. job'[q] = job[q]
      BY <1>1, <1>8, <2>2, ZenonT(40) DEF Receive, Ack, Nak
    <3>2. QED
      BY <1>2, <3>1, Zenon
  <2>3. QED
    BY <2>1, <2>2, Zenon
<1>9. ASSUME NEW b \in Replicas, Supervise(b) \/ Reconcile(b) \/ Answer(b) \/ LinkLost(b)
      PROVE  job' = job
  BY <1>9, ZenonT(40)
     DEF Supervise, Dial, Subscribed, Probe, Probed, SupervisorTimesOut, SupervisorNotices,
     CloseClient, Unpublish, Reconcile, ReconcilerSends, ReconcilerReceives, ReconcilerFails,
     Answer, LinkLost
<1>10. QED
  BY <1>2, <1>4, <1>5, <1>6, <1>7, <1>8, <1>9, ZenonT(40) DEF Next, vars, Publish, Handle

(* Every step keeps each command with a key settled or attended to.        *)
LEMMA TracedStep ==
  ASSUME Types, Ours, Traced, [Next]_vars
  PROVE  Traced'
<1>1. /\ job \in [Replicas -> Job] /\ stream \in [Commands -> {"none", "pending", "acked"}]
      /\ seen \subseteq Commands
      /\ \A b \in Replicas : job[b].pc # "idle" => job[b].cmd \in Commands
  BY Zenon DEF Types, Control
<1>2. IdleJob.pc = "idle"
  BY Zenon DEF IdleJob
<1>3. \/ UNCHANGED <<job, stream, seen>>
      \/ \E c \in Commands : Publish(c)
      \/ \E b \in Replicas : \/ \E c \in Commands : Deliver(b, c)
                             \/ Handle(b) \/ MarkSeenFails(b) \/ Crash(b)
  <2>1. ASSUME NEW b \in Replicas, Supervise(b)
        PROVE  UNCHANGED <<job, stream, seen>>
    BY <2>1, Zenon DEF Supervise, Dial, Subscribed, Probe, Probed, SupervisorTimesOut,
       SupervisorNotices, CloseClient, Unpublish
  <2>2. ASSUME NEW b \in Replicas, Reconcile(b) \/ Answer(b) \/ LinkLost(b)
        PROVE  UNCHANGED <<job, stream, seen>>
    BY <2>2, ZenonT(40)
       DEF Reconcile, ReconcilerSends, ReconcilerReceives, ReconcilerFails, Answer, LinkLost
  <2>3. QED
    BY <2>1, <2>2, ZenonT(40) DEF Next, vars
<1>4. seen \subseteq seen'
  BY <1>3, Zenon DEF Publish, Deliver, Handle, MarkSeen, Get, Send, Receive, TimesOut, NotConnected,
     MarkSeenFails, Crash
<1>5. \A c \in Commands : stream'[c] = "acked" => c \in seen'
  <2>1. CASE stream' = stream
    BY <1>4, <2>1, Zenon DEF Traced
  <2>2. ASSUME NEW c \in Commands, Publish(c)
        PROVE  \A d \in Commands : stream'[d] = "acked" => d \in seen'
    BY <1>1, <1>4, <2>2, Zenon DEF Traced, Publish
  <2>3. ASSUME NEW b \in Replicas, stream' = [stream EXCEPT ![job[b].cmd] = "acked"],
               job[b].cmd \in seen'
        PROVE  \A d \in Commands : stream'[d] = "acked" => d \in seen'
    BY <1>1, <1>4, <2>3, ZenonT(40) DEF Traced
  <2>4. ASSUME NEW b \in Replicas, Handle(b)
        PROVE  \A d \in Commands : stream'[d] = "acked" => d \in seen'
    <3>1. CASE MarkSeen(b)
      BY <2>1, <2>3, <3>1, ZenonT(40) DEF MarkSeen, Ack
    <3>2. CASE Receive(b)
      <4>1. job[b].cmd \in seen'
        BY <1>4, <3>2, ZenonT(40) DEF Traced, Receive
      <4>2. QED
        BY <2>1, <2>3, <3>2, <4>1, ZenonT(40) DEF Receive, Ack, Nak
    <3>3. CASE Get(b) \/ Send(b) \/ TimesOut(b) \/ NotConnected(b)
      BY <2>1, <3>3, ZenonT(40) DEF Get, Send, TimesOut, NotConnected, Nak
    <3>4. QED
      BY <2>4, <3>1, <3>2, <3>3, ZenonT(40) DEF Handle
  <2>5. QED
    BY <1>3, <2>1, <2>2, <2>4, ZenonT(40) DEF Deliver, MarkSeenFails, Crash
<1>6. \A b \in Replicas : job'[b].pc \in {"get", "send", "wait"} => job'[b].cmd \in seen'
  <2>1. CASE job' = job
    BY <1>4, <2>1, Zenon DEF Traced
  <2>2. ASSUME NEW b \in Replicas, NEW x, job' = [job EXCEPT ![b] = x],
               x.pc \in {"get", "send", "wait"} => x.cmd \in seen'
        PROVE  \A q \in Replicas : job'[q].pc \in {"get", "send", "wait"} => job'[q].cmd \in seen'
    BY <1>1, <1>4, <2>2, ZenonT(40) DEF Traced
  <2>3. ASSUME NEW b \in Replicas, job' = [job EXCEPT ![b] = IdleJob]
        PROVE  \A q \in Replicas : job'[q].pc \in {"get", "send", "wait"} => job'[q].cmd \in seen'
    BY <1>2, <2>2, <2>3, ZenonT(40)
  <2>4. ASSUME NEW b \in Replicas, MarkSeen(b)
        PROVE  \A q \in Replicas : job'[q].pc \in {"get", "send", "wait"} => job'[q].cmd \in seen'
    <3>1. CASE job' = [job EXCEPT ![b].pc = "get"]
      <4>1. /\ \A q \in Replicas \ {b} : job'[q] = job[q]
            /\ job'[b].cmd = job[b].cmd /\ job[b].cmd \in seen'
        BY <1>1, <2>4, <3>1, ZenonT(40) DEF MarkSeen, Job
      <4>2. QED
        BY <1>4, <4>1, ZenonT(40) DEF Traced
    <3>2. QED
      BY <2>3, <2>4, <3>1, ZenonT(40) DEF MarkSeen, Ack
  <2>5. ASSUME NEW b \in Replicas, Get(b) \/ Send(b)
        PROVE  \A q \in Replicas : job'[q].pc \in {"get", "send", "wait"} => job'[q].cmd \in seen'
    <3>1. CASE job' = [job EXCEPT ![b] = IdleJob]
      BY <2>3, <3>1, ZenonT(40)
    <3>2. CASE job' # [job EXCEPT ![b] = IdleJob]
      <4>1. /\ \A q \in Replicas \ {b} : job'[q] = job[q]
            /\ job'[b].cmd = job[b].cmd /\ job[b].pc \in {"get", "send"}
        BY <1>1, <2>5, <3>2 DEF Get, Send, Nak, Job
      <4>2. QED
        BY <1>4, <4>1, ZenonT(40) DEF Traced
    <3>3. QED
      BY <3>1, <3>2, Zenon
  <2>6. ASSUME NEW b \in Replicas, NEW c \in Commands, Deliver(b, c)
        PROVE  \A q \in Replicas : job'[q].pc \in {"get", "send", "wait"} => job'[q].cmd \in seen'
    BY <2>2, <2>6, Zenon DEF Deliver
  <2>7. ASSUME NEW b \in Replicas,
               Receive(b) \/ TimesOut(b) \/ NotConnected(b) \/ MarkSeenFails(b) \/ Crash(b)
        PROVE  \A q \in Replicas : job'[q].pc \in {"get", "send", "wait"} => job'[q].cmd \in seen'
    <3>1. job' = [job EXCEPT ![b] = IdleJob]
      BY <2>7, ZenonT(40) DEF Receive, TimesOut, NotConnected, MarkSeenFails, Crash, Ack, Nak
    <3>2. QED
      BY <2>3, <3>1, ZenonT(40)
  <2>8. QED
    BY <1>3, <2>1, <2>4, <2>5, <2>6, <2>7, ZenonT(40) DEF Publish, Handle
<1>7. ASSUME NEW c \in seen' \ Malformed
      PROVE  settled(c)' \/ \E b \in Replicas : busy(b, c)'
  <2>1. CASE c \in seen
    <3>1. c \in Commands
      BY <1>1, <2>1, Zenon
    <3>2. settled(c) \/ \E b \in Replicas : busy(b, c)
      BY <1>7, <2>1, Zenon DEF Traced
    <3>3. QED
      BY <3>1, <3>2, SettledGrows, BusyStep, ZenonT(40)
  <2>2. CASE c \notin seen
    <3>1. PICK b \in Replicas : (MarkSeen(b) \/ MarkSeenFails(b)) /\ seen' # seen
      BY <1>3, <1>7, <2>2, ZenonT(40)
         DEF Publish, Deliver, Handle, Get, Send, Receive, TimesOut, NotConnected,
         Crash
    <3>2. c = job[b].cmd
      BY <1>7, <2>2, <3>1, Zenon DEF MarkSeen, MarkSeenFails
    <3>3. CASE MarkSeenFails(b)
      BY <3>2, <3>3, Zenon DEF MarkSeenFails, settled
    <3>4. CASE MarkSeen(b)
      <4>1. job' = [job EXCEPT ![b].pc = "get"]
        BY <1>7, <2>2, <3>2, <3>4, ZenonT(40) DEF MarkSeen
      <4>2. job'[b].pc = "get" /\ job'[b].cmd = job[b].cmd
        BY <1>1, <4>1, Zenon DEF Job
      <4>3. QED
        BY <3>2, <4>2, Zenon DEF busy
    <3>5. QED
      BY <3>1, <3>3, <3>4, ZenonT(40)
  <2>3. QED
    BY <2>1, <2>2, Zenon
<1>8. QED
  BY <1>5, <1>6, <1>7, ZenonT(40) DEF Traced

-----------------------------------------------------------------------------
IInv == Types /\ Match /\ Held /\ Tokens /\ Ours /\ Traced

(* The invariant holds at first.                                           *)
LEMMA InitIInv == Init => IInv
<1> SUFFICES ASSUME Init
             PROVE  IInv
  BY Zenon
<1>1. \A b \in Replicas : clients[b] = << >> /\ Len(clients[b]) = 0 /\ clients[b] \in Seq(Client)
  BY EmptySeq, Zenon DEF Init
<1>2. \A b \in Replicas : job[b] = IdleJob /\ IdleJob \in Job /\ IdleJob.pc = "idle"
                          /\ IdleJob.client = 0
  BY Zenon DEF Init, IdleJob, Job
<1>3. Types
  <2>1. Conns
    BY <1>1 DEF Init, Conns
  <2>2. Control
    BY <1>1, <1>2 DEF Init, Control, Sups
  <2>3. QED
    BY <2>1, <2>2, Zenon DEF Types
<1>4. Match /\ Held /\ Ours
  BY <1>1 DEF Match, Held, Ours
<1>5. Tokens
  <2>1. ASSUME NEW c \in Commands
        PROVE  /\ executed[c] = 0 /\ \A b : ~ holds(b, c)
               /\ \A b, i, k : ~ onWire(c, b, i, k)
    BY <1>1, <1>2 DEF Init, holds, onWire
  <2>2. QED
    BY <2>1 DEF Tokens, Token
<1>6. Traced
  BY <1>2, Zenon DEF Traced, Init
<1>7. QED
  BY <1>3, <1>4, <1>5, <1>6, ZenonT(40) DEF IInv

(* The invariant holds of every reachable state, for any constants.        *)
THEOREM BridgeInvariance == Spec => []IInv
<1>1. IInv /\ [Next]_vars => IInv'
  <2> SUFFICES ASSUME IInv, [Next]_vars
               PROVE  IInv'
    BY Zenon
  <2>1. Types /\ Match /\ Held /\ Tokens /\ Ours /\ Traced
    BY Zenon DEF IInv
  <2>2. Types' /\ Match'
    BY <2>1, ConnsStep, ControlStep, Zenon DEF Types
  <2>3. Held' /\ Tokens' /\ Ours' /\ Traced'
    BY <2>1, HeldStep, TokensStep, OursStep, TracedStep, ZenonT(40)
  <2>4. QED
    BY <2>2, <2>3, Zenon DEF IInv
<1>2. QED
  BY <1>1, InitIInv, PTL DEF Spec

(* A command is carried out at most once, over redeliveries, lost acks,    *)
(* crashes and replicas that handle it together (the SETNX of MarkSeen);   *)
(* replies match callers as long as no command has timed out, and cmdMu is *)
(* held by somebody who waits (esl/client.go sendCommand).                 *)
THEOREM CommandsAreKept == Spec => []CommandsAreSafe
<1>1. IInv => CommandsAreSafe
  <2> SUFFICES ASSUME IInv
               PROVE  CommandsAreSafe
    BY Zenon
  <2>1. Types /\ Match /\ Held /\ Tokens
    BY Zenon DEF IInv
  <2>2. TypeOK
    <3>1. ASSUME NEW b \in Replicas
          PROVE  /\ node[b] \in 0 .. Len(clients[b]) /\ rec[b] \in 0 .. Len(clients[b])
                 /\ job[b].pc \in {"idle", "mark", "get", "send", "wait"}
                 /\ job[b].client \in 0 .. Len(clients[b])
                 /\ \A i \in 1 .. Len(clients[b]) :
                      /\ clients[b][i].mutex \in Callers \cup {Nil}
                      /\ Len(clients[b][i].replies) <= ReplyBuffer
      <4>1. /\ node[b] \in Nat /\ rec[b] \in Nat /\ job[b] \in Job /\ job[b].client \in Nat
            /\ job[b].pc \in {"idle", "mark", "get", "send", "wait"}
            /\ node[b] <= Len(clients[b]) /\ rec[b] <= Len(clients[b])
            /\ job[b].client <= Len(clients[b])
        BY <2>1, Zenon DEF Types, Control, Job
      <4>2. Len(clients[b]) \in Nat
        BY <2>1, ClientOf, Zenon DEF Types
      <4>3. \A x, n \in Nat : x <= n => x \in 0 .. n
        OBVIOUS
      <4>4. \A i \in 1 .. Len(clients[b]) :
              /\ clients[b][i].mutex \in Callers \cup {Nil}
              /\ Len(clients[b][i].replies) <= ReplyBuffer
        BY <2>1, ClientOf, ClientFields, Zenon DEF Types, Conns
      <4>5. QED
        BY <4>1, <4>2, <4>3, <4>4, ZenonT(40)
    <3>2. QED
      BY <2>1, <3>1, Zenon DEF TypeOK, Types, Control, current
  <2>3. AtMostOnce
    BY <2>1, Zenon DEF AtMostOnce, Tokens, Token
  <2>4. RepliesMatch
    <3>1. ASSUME NEW b \in Replicas \ expired, clients[b] # << >>
          PROVE  matched(clients[b][Len(clients[b])])
      <4>1. clients[b] \in Seq(Client)
        BY <2>1, Zenon DEF Types, Conns
      <4>2. Len(clients[b]) # 0
        BY <3>1, <4>1, EmptySeq, ZenonT(40)
      <4>3. QED
        BY <2>1, <4>2, Zenon DEF Match, cur
    <3>2. QED
      BY <3>1, Zenon DEF RepliesMatch, matched, count, current
  <2>5. MutexIsHeldByWaiter
    <3>1. \A b \in Replicas : DOMAIN clients[b] = 1 .. Len(clients[b])
      BY <2>1, ClientOf, ZenonT(40) DEF Types
    <3>2. QED
      BY <2>1, <3>1 DEF MutexIsHeldByWaiter, Held, current
  <2>6. QED
    BY <2>2, <2>3, <2>4, <2>5, ZenonT(40) DEF CommandsAreSafe
<1>2. QED
  BY <1>1, BridgeInvariance, PTL

(* An acknowledged command of a known kind was carried out, is still with  *)
(* a handler, or has left a trace: its handler failed, or a handler took   *)
(* somebody else's reply (cmd_subscriber.go handle, esl/client.go).        *)
THEOREM NoCommandIsLost == Spec => []NoSilentLoss
<1>1. IInv => NoSilentLoss
  BY Zenon DEF IInv, Traced, NoSilentLoss, settled, busy, handled
<1>2. QED
  BY <1>1, BridgeInvariance, PTL
=============================================================================
