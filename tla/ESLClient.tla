----------------------------- MODULE ESLClient -----------------------------
(***************************************************************************)
(* One event-socket connection to a FreeSWITCH node, as operators on the   *)
(* state of an esl.Client: internal/telephony/esl/client.go.               *)
(*                                                                         *)
(* The protocol has no request identifiers: replies are matched to         *)
(* commands by order of arrival alone.  cmdMu admits one command at a      *)
(* time, and the reply channel is shared by everybody who ever sent one.   *)
(* Every frame carries a history flag, late, which says that its sender    *)
(* is no longer waiting; nothing but the properties looks at it.           *)
(*                                                                         *)
(* A command is one of four kinds, which is all that their replies tell    *)
(* apart: event (the subscription, +OK), sofia (a body with the word       *)
(* Profile), count (a body with a number) and bgapi (no body, and +OK or   *)
(* -ERR in the header).  Events are not replies and are left out here.     *)
(***************************************************************************)
EXTENDS Naturals, Sequences

CONSTANTS Nil,
          ReplyBuffer    \* defaultReplyBuffer, 16

ASSUME ReplyAssumption == ReplyBuffer \in Nat \ {0}

Kinds == {"event", "sofia", "count", "bgapi"}

(* Dial, once authenticated.                                               *)
NewClient == [ open |-> TRUE, mutex |-> Nil, wire |-> << >>, replies |-> << >> ]

late(frames) == [i \in DOMAIN frames |-> [frames[i] EXCEPT !.late = TRUE]]

(* The sender leaves: cmdMu is released, and what is still under way no    *)
(* longer has anybody waiting for it.  Nobody ever reads the replies of a  *)
(* closed connection again.                                                *)
leave(c) ==
  [ c EXCEPT !.mutex = Nil, !.wire = late(@),
             !.replies = IF c.open THEN late(@) ELSE << >> ]

(* Fault: cmdMu is not taken.                                              *)
FaultNoMutex(c) == c.open

(* sendCommand up to the flush, on a connection that is up.                *)
canWrite(c) == c.open /\ c.mutex = Nil

write(c, p, kind, cmd) ==
  [ c EXCEPT !.mutex = p,
             !.wire = Append(@, [ kind |-> kind, cmd |-> cmd, late |-> FALSE ]) ]

(* sendCommand returning a reply: the first there is.                      *)
canReceive(c, p) == c.mutex = p /\ c.replies # << >>

receive(c) == leave([ c EXCEPT !.replies = Tail(@) ])

(* sendCommand giving up: a reply that is there already is drained, one    *)
(* that is still to come is not.                                           *)
expire(c) == leave([ c EXCEPT !.replies = IF @ = << >> THEN @ ELSE Tail(@) ])

(* Fault: the channel has no limit.                                        *)
FaultUnbounded(c, ok) ==
  LET f == Head(c.wire) IN
  [ c EXCEPT !.wire = Tail(@),
             !.replies = Append(@, [ kind |-> f.kind, ok |-> ok, late |-> f.late ]) ]

(* dispatch of a reply frame: dropped when the channel is full.            *)
answer(c, ok) ==
  LET f == Head(c.wire) IN
  [ c EXCEPT !.wire = Tail(@),
             !.replies = IF Len(@) < ReplyBuffer
                         THEN Append(@, [ kind |-> f.kind, ok |-> ok, late |-> f.late ])
                         ELSE @ ]

(* Close, a disconnect notice, end of file or the read deadline: readLoop  *)
(* is gone, and a sender in sendCommand finds out through readLoopDone.    *)
close(c) ==
  [ c EXCEPT !.open = FALSE, !.wire = << >>,
             !.replies = IF c.mutex = Nil THEN << >> ELSE @ ]

-----------------------------------------------------------------------------
(* What the callers make of a reply.                                       *)

(* sendOKCommand and Originate: +OK in the header or, if there is one, in  *)
(* the body.                                                               *)
commandOK(reply) == reply.kind \in {"event", "bgapi"} /\ reply.ok

(* healthProbe: the body names a profile.                                  *)
probeOK(reply) == reply.kind = "sofia"

(* ChannelsCount: a number, or no body at all, which counts as zero.       *)
countOK(reply) == reply.kind # "sofia"

=============================================================================
