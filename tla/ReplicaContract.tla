--------------------------- MODULE ReplicaContract ---------------------------
(***************************************************************************)
(* What a user of the StorageLocations controller may rely on: users ask   *)
(* for pods, a process hears of it some time later, takes one object in    *)
(* hand at a time, makes pods for it, and removes some only as long as the *)
(* object keeps those it asks for.  There are no caches, loops or requests *)
(* here; module StorageLocations is shown to implement this one.           *)
(***************************************************************************)
EXTENDS Integers, FiniteSets

CONSTANTS
  Locs,    \* names of objects
  Pods,    \* pods that may ever be
  Uids,    \* identities of objects; 0 is none's
  Nobody,  \* owner of what is not made yet
  Memory   \* how many pods the process remembers to have removed

\* What a user wants of an object, and an object with its identity.
Wishes == [uid : Uids, replicas : Int, deleting : BOOLEAN]
Unheard == [uid |-> 0, replicas |-> 0, deleting |-> FALSE]
Home(l, u) == [loc |-> l, uid |-> u]
Idle == [home |-> Nobody, replicas |-> 0]

VARIABLES
  asked, \* asked[l]: what users want
  heard, \* heard[l]: what the process knows of it
  goal,  \* what it works on
  home,  \* home[p]: the object that a pod is made for
  alive, \* pods that serve
  lost   \* pods that others removed, or that the process forgot to have removed

vars == <<asked, heard, goal, home, alive, lost>>

\* The pods of an object, without those that the process removed on purpose.
Kept(h) == {p \in Pods : home[p] = h /\ p \in alive \cup lost}

Init ==
  /\ asked = [l \in Locs |-> Unheard] /\ heard = asked
  /\ goal = Idle
  /\ home = [p \in Pods |-> Nobody]
  /\ alive = {} /\ lost = {}

\* The world: users ask for something else, and pods go away.
World ==
  /\ asked' \in [Locs -> Wishes]
  /\ \E l \in Locs : \A m \in Locs \ {l} : asked'[m] = asked[m]
  /\ \E S \in SUBSET alive : alive' = alive \ S /\ lost' = lost \cup S
  /\ UNCHANGED <<heard, goal, home>>

\* The process hears of an object, or of all when it starts; it takes one in
\* hand, is done with it, or dies and forgets what it heard.
Hear ==
  /\ \/ \E l \in Locs : heard' = [heard EXCEPT ![l] = asked[l]]
     \/ goal = Idle /\ heard' = asked
  /\ UNCHANGED <<asked, goal, home, alive, lost>>

Take(l) ==
  /\ goal = Idle
  /\ heard[l].uid # 0 /\ ~heard[l].deleting
  /\ goal' = [home |-> Home(l, heard[l].uid), replicas |-> heard[l].replicas]
  /\ UNCHANGED <<asked, heard, home, alive, lost>>

Leave ==
  /\ goal' = Idle
  /\ heard' \in {heard, [l \in Locs |-> Unheard]}
  /\ UNCHANGED <<asked, home, alive, lost>>

\* A pod is made for the object in hand.
Grow(p) ==
  /\ goal # Idle
  /\ home[p] = Nobody
  /\ home' = [home EXCEPT ![p] = goal.home]
  /\ alive' = alive \cup {p}
  /\ UNCHANGED <<asked, heard, goal, lost>>

\* A pod of the object in hand is removed; then the object still has what was
\* asked for.  A process that has removed more pods than it can remember may
\* forget one of them.
Shrink(p) ==
  /\ goal # Idle
  /\ home[p] = goal.home
  /\ alive' = alive \ {p}
  /\ \/ UNCHANGED lost
     \/ /\ Cardinality({q \in Pods : home[q] # Nobody} \ alive') > Memory
        /\ \E q \in Pods : home[q] # Nobody /\ q \notin alive' /\ lost' = lost \cup {q}
  /\ Cardinality(Kept(goal.home)') >= goal.replicas
  /\ UNCHANGED <<asked, heard, goal, home>>

Next ==
  \/ World \/ Hear \/ Leave
  \/ \E l \in Locs : Take(l)
  \/ \E p \in Pods : Grow(p) \/ Shrink(p)

Spec == Init /\ [][Next]_vars
=============================================================================
