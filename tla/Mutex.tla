------------------------------- MODULE Mutex -------------------------------
(***************************************************************************)
(* What the package doc of internal/lock promises of one lock: one owner   *)
(* at a time; a lock is freed by its owner once the owner has stopped      *)
(* working under it, or by anybody once the owner is dead, and in no other *)
(* way.  `broken' is the exemption: it is raised when one of the ways out  *)
(* the code leaves open has been taken, and from then on nothing is        *)
(* promised.  RefLock implements this specification.                       *)
(***************************************************************************)
CONSTANTS Proc, Nobody

VARIABLES
  alive,     \* the processes that run
  owner,     \* whose lock file is at the path, Nobody when there is none
  working,   \* the processes that believe they hold the lock
  broken     \* a known way out of the promise has been taken

mvars == <<alive, owner, working, broken>>

Init ==
  /\ alive = {}
  /\ owner \notin Proc
  /\ working = {}
  /\ broken = FALSE

Spawn(p) ==
  /\ p \notin alive
  /\ alive' = alive \cup {p}
  /\ UNCHANGED <<owner, working>>

Take(p) ==
  /\ p \in alive /\ owner = Nobody
  /\ owner' = p
  /\ working' = working \cup {p}
  /\ UNCHANGED alive

Stop(p) ==
  /\ working' = working \ {p}
  /\ UNCHANGED <<alive, owner>>

Give(p) ==
  /\ owner = p /\ p \notin working
  /\ owner' = Nobody
  /\ UNCHANGED <<alive, working>>

Reap ==
  /\ owner \notin alive
  /\ owner' = Nobody
  /\ UNCHANGED <<alive, working>>

Die(p) ==
  /\ alive' = alive \ {p}
  /\ working' = working \ {p}
  /\ UNCHANGED owner

Kept ==
  \/ Reap
  \/ \E p \in Proc : Spawn(p) \/ Take(p) \/ Stop(p) \/ Give(p) \/ Die(p)

(* A step either keeps the promise or is taken once the promise is void.   *)
Next == (Kept /\ broken' = broken) \/ broken'

MutexSpec == Init /\ [][Next]_mvars
=============================================================================
