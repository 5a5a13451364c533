----------------------- MODULE SessionLifecycleProofs -----------------------
(***************************************************************************)
(* One command at a time: however slow, crashing or failing the daemons    *)
(* are, a session is reached by its path and is alone.                     *)
(***************************************************************************)
EXTENDS SessionLifecycle, TLAPS

\* The commands do not overlap: there is only one place where they run.
OneAtATime == \A p, q \in Procs : p = q

LEMMA InitHolds == Init => LifecycleInv
  BY LifecycleAssumption
  DEF Init, LifecycleInv, TypeOK, ReachableAndAlone, PathIsKnown,
      StarterIsKnown, StillDead, Holds, Daemons, NoSocket, DaemonState, Step

\* A command's own steps, one command at a time.
LEMMA CommandPreserves ==
  ASSUME NEW p \in Procs, OneAtATime, LifecycleInv, Command(p)
  PROVE  LifecycleInv'
<1> USE LifecycleAssumption
    DEF LifecycleInv, TypeOK, ReachableAndAlone, PathIsKnown, StarterIsKnown,
        StillDead, Holds, Daemons, NoSocket, DaemonState, Step, Goto, OneAtATime
<1>1. CASE Exists(p)
  BY <1>1 DEF Exists
<1>2. CASE Probe(p)
  BY <1>2 DEF Probe, PathAccepts, Accepts
<1>3. CASE Answer(p)
  BY <1>3 DEF Answer
<1>4. CASE NoAnswer(p)
  BY <1>4 DEF NoAnswer
<1>5. CASE Cleanup(p)
  BY <1>5 DEF Cleanup, IsDead, PathAccepts, Accepts
<1>6. CASE Remove(p)
  BY <1>6 DEF Remove
<1>7. CASE BindFails(p)
  BY <1>7 DEF BindFails
<1>8. ASSUME NEW d \in Daemons, Bind(p, d)
      PROVE  LifecycleInv'
  BY <1>8 DEF Bind
<1>9. CASE Listen(p)
  BY <1>9 DEF Listen
<1>10. CASE Fork(p)
  BY <1>10 DEF Fork
<1>11. CASE StartFails(p)
  BY <1>11 DEF StartFails
<1>12. CASE Connect(p)
  BY <1>12 DEF Connect
<1> QED
  BY <1>1, <1>2, <1>3, <1>4, <1>5, <1>6, <1>7, <1>8, <1>9, <1>10, <1>11, <1>12
  DEF Command

\* A command is entered.
LEMMA StartPreserves ==
  ASSUME NEW p \in Procs, NEW c \in {"attach", "probe"}, LifecycleInv,
         Start(p, c)
  PROVE  LifecycleInv'
  BY DEF Start, Goto, LifecycleInv, TypeOK, ReachableAndAlone, PathIsKnown,
         StarterIsKnown, StillDead, Holds, Daemons, NoSocket, DaemonState, Step

\* A daemon's own steps: it removes no path but the one it holds.
LEMMA DaemonPreserves ==
  ASSUME NEW d \in Daemons, LifecycleInv,
         Spawn(d) \/ SpawnFails(d) \/ EndLoop(d) \/ RemoveOwn(d) \/ Exit(d)
           \/ Crash(d)
  PROVE  LifecycleInv'
<1> USE DEF LifecycleInv, TypeOK, ReachableAndAlone, PathIsKnown,
            StarterIsKnown, StillDead, Holds, Daemons, NoSocket, DaemonState,
            Step, Becomes
<1>1. CASE Spawn(d)
  BY <1>1 DEF Spawn
<1>2. CASE SpawnFails(d)
  BY <1>2 DEF SpawnFails
<1>3. CASE EndLoop(d)
  BY <1>3 DEF EndLoop
<1>4. CASE RemoveOwn(d)
  BY <1>4 DEF RemoveOwn
<1>5. CASE Exit(d)
  BY <1>5 DEF Exit
<1>6. CASE Crash(d)
  BY <1>6 DEF Crash
<1> QED
  BY <1>1, <1>2, <1>3, <1>4, <1>5, <1>6

\* With one command at a time, for any number of daemons one after another:
\* a session that is starting, running or ending has the path, and no other
\* session has it (ensure_session, cleanup_stale_socket, daemon_main).
THEOREM OneCommandOneSession ==
  ASSUME OneAtATime
  PROVE  Spec => []ReachableAndAlone
<1>1. LifecycleInv /\ [Next]_vars => LifecycleInv'
  <2> SUFFICES ASSUME LifecycleInv, [Next]_vars
               PROVE  LifecycleInv'
    OBVIOUS
  <2>1. CASE UNCHANGED vars
    BY <2>1 DEF vars, LifecycleInv, TypeOK, ReachableAndAlone, PathIsKnown,
                StarterIsKnown, StillDead, Holds
  <2>2. CASE Next
    BY <2>2, CommandPreserves, StartPreserves, DaemonPreserves DEF Next
  <2> QED
    BY <2>1, <2>2
<1>2. LifecycleInv => ReachableAndAlone
  BY DEF LifecycleInv
<1> QED
  BY InitHolds, <1>1, <1>2, PTL DEF Spec
=============================================================================
