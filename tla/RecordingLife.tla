---------------------------- MODULE RecordingLife ----------------------------
(***************************************************************************)
(* What the recording module promises of a recording, whoever commits,     *)
(* replays, sweeps, crashes or loses a session on the way: it is kept from *)
(* one day on and under one retention plan, the one its commit asked for;  *)
(* it is moved to cold storage not before the cold day of that plan and    *)
(* erased not before its erase day; and nothing brings it back or changes  *)
(* the plan.  Nothing is promised of how far off the days of a plan are: a *)
(* commit may come late, or ask for a day long past.                       *)
(***************************************************************************)
EXTENDS Integers

CONSTANTS
  Recs,
  Days   \* the days a plan can name

VARIABLES
  life,   \* of each recording: "none", "stored", "cold" or "deleted"
  plan,   \* of a kept one: the day it was committed, the cold and the erase day
  today

lifeVars == <<life, plan, today>>

Kept == {"stored", "cold"}
PlansBy(d) == [born : 0..d, cold : Days, erase : Days]

LifeInit ==
  /\ today = 0
  /\ \A c \in Recs : life[c] = "none" \/ (life[c] = "stored" /\ plan[c] \in PlansBy(0))

(* A commit may have begun on an earlier day.                              *)
Keep(c) ==
  /\ life[c] = "none"
  /\ life' = [life EXCEPT ![c] = "stored"]
  /\ \E p \in PlansBy(today) : plan' = [plan EXCEPT ![c] = p]
  /\ UNCHANGED today

Cool(c) ==
  /\ life[c] = "stored" /\ plan[c].cold <= today
  /\ life' = [life EXCEPT ![c] = "cold"]
  /\ UNCHANGED <<plan, today>>

Erase(c) ==
  /\ life[c] \in Kept /\ plan[c].erase <= today
  /\ life' = [life EXCEPT ![c] = "deleted"]
  /\ UNCHANGED <<plan, today>>

Tomorrow == today' = today + 1 /\ UNCHANGED <<life, plan>>

LifeNext == Tomorrow \/ \E c \in Recs : Keep(c) \/ Cool(c) \/ Erase(c)

LifeSpec == LifeInit /\ [][LifeNext]_lifeVars
=============================================================================
