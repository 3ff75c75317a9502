--------------------------- MODULE MCHostServices ---------------------------
(***************************************************************************)
(* Three parts of the admin service that share no state: the steering of a *)
(* task, the memory of live validations and the sessions of the database.  *)
(* Each is explored while the others have not begun.                       *)
(***************************************************************************)
EXTENDS TaskSteering, LiveProbes, DbSessions

SteeringRests == SteeringInit /\ runtime = "hermes"
ProbesRest == ProbesInit /\ provider = "codex"

MCInit == SteeringInit /\ ProbesInit /\ SessionInit /\ (SteeringRests \/ ProbesRest)

\* A step of one part, the others having rested so far.
OfProbes(step) ==
  /\ SteeringRests /\ SessionInit
  /\ step /\ UNCHANGED <<steeringVars, sessionVars>>
OfSessions(step) ==
  /\ SteeringRests /\ ProbesRest
  /\ step /\ UNCHANGED <<steeringVars, probeVars>>

MCNext ==
  \/ ProbesRest /\ SessionInit /\ SteeringNext
     /\ UNCHANGED <<probeVars, sessionVars>>
  \/ OfProbes(ProbesNext)
  \/ OfSessions(SessionNext)

all == <<steeringVars, probeVars, sessionVars>>

\* ProbesFairness and SessionFairness, each owed only where its part is the one that
\* moves: the initial state of one part would otherwise owe steps to all.
MCFairness ==
  /\ WF_all(OfProbes(RefreshStep)) /\ WF_all(OfProbes(Expire))
  /\ \A t \in Threads : WF_all(OfSessions(SessionStep(t)))

MCSpec == MCInit /\ [][MCNext]_all /\ MCFairness
=============================================================================
