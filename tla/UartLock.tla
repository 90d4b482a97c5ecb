------------------------------ MODULE UartLock ------------------------------
(***************************************************************************)
(* lock_uart and unlock_uart of controller/main.cpp: a spin lock of two    *)
(* words in memory all controllers share, built from loads and stores      *)
(* alone. The controllers take it around everything they print, every      *)
(* doorbell included, so a lock that is lost stops all of them.            *)
(***************************************************************************)
EXTENDS Integers, FiniteSets

CONSTANTS
  Ids,      \* the controllers' mb_id
  MaxLocks, \* bound: times a controller takes the lock
  Booted    \* whether controller 0 is past the unlock_uart() of main

ASSUME LockAssumption ==
  /\ Ids \subseteq Nat /\ 0 \in Ids
  /\ MaxLocks \in Nat
  /\ Booted \in BOOLEAN

VARIABLES
  status,     \* ulb[0]
  lockee,     \* ulb[1]
  pc,
  stuck,      \* controller -> what it read back from ulb[0]
  locks,      \* controller -> times it has taken the lock
  overlapped  \* history: attempts, or an attempt and the boot, overlapped

vars == <<status, lockee, pc, stuck, locks, overlapped>>

\* Between seeing the lock free and knowing whether it has it.
Attempting(m) == pc[m] \in {"id", "status", "status?", "id?"}
\* From having the lock until its last store of unlock_uart.
Using(m) == pc[m] \in {"held", "unlock"}
Booting(m) == pc[m] \in {"boot", "bootUnlock"}

Overlap ==
  \E m, n \in Ids : m # n /\ Attempting(m) /\ (Attempting(n) \/ Booting(n))

\* What the memory held before the controllers start is anything.
Init ==
  /\ status \in IF Booted THEN {0} ELSE {0, 1}
  /\ lockee \in IF Booted THEN {0} ELSE Ids
  /\ pc = [m \in Ids |-> IF m = 0 /\ ~Booted THEN "boot" ELSE "idle"]
  /\ stuck = [m \in Ids |-> 0]
  /\ locks = [m \in Ids |-> 0]
  /\ overlapped = FALSE

Goto(m, label) ==
  /\ pc' = [pc EXCEPT ![m] = label]
  /\ overlapped' = (overlapped \/ Overlap')

-----------------------------------------------------------------------------
Lock(m) ==
  /\ pc[m] = "idle"
  /\ locks[m] < MaxLocks
  /\ Goto(m, "spin")
  /\ UNCHANGED <<status, lockee, stuck, locks>>

freeMutant == TRUE \* mutant: the status is not tested
free == status # 1

\* while (!is_locked) { uint32_t status = ulb[0]; if (status != 1)
Spin(m) ==
  /\ pc[m] = "spin"
  /\ free
  /\ Goto(m, "id")
  /\ UNCHANGED <<status, lockee, stuck, locks>>

WriteId(m) ==
  /\ pc[m] = "id"
  /\ lockee' = m
  /\ Goto(m, "status")
  /\ UNCHANGED <<status, stuck, locks>>

taken(m) == 1

WriteStatus(m) ==
  /\ pc[m] = "status"
  /\ status' = taken(m)
  /\ Goto(m, "status?")
  /\ UNCHANGED <<lockee, stuck, locks>>

\* "See if they stuck"
ReadStatus(m) ==
  /\ pc[m] = "status?"
  /\ stuck' = [stuck EXCEPT ![m] = status]
  /\ Goto(m, "id?")
  /\ UNCHANGED <<status, lockee, locks>>

ReadId(m) ==
  /\ pc[m] = "id?"
  /\ IF stuck[m] = 1 /\ lockee = m
     THEN Goto(m, "held") /\ locks' = [locks EXCEPT ![m] = @ + 1]
     ELSE Goto(m, "spin") /\ UNCHANGED locks
  /\ UNCHANGED <<status, lockee, stuck>>

\* unlock_uart: ulb[1] = 0 and then ulb[0] = 0
unlockedMutant == 1 \* mutant: the status is not cleared
unlocked == 0

ClearId(m) ==
  /\ pc[m] \in {"held", "boot"}
  /\ lockee' = 0
  /\ Goto(m, IF pc[m] = "held" THEN "unlock" ELSE "bootUnlock")
  /\ UNCHANGED <<status, stuck, locks>>

ClearStatus(m) ==
  /\ pc[m] \in {"unlock", "bootUnlock"}
  /\ status' = unlocked
  /\ Goto(m, "idle")
  /\ UNCHANGED <<lockee, stuck, locks>>

Controller(m) ==
  \/ Lock(m)
  \/ Spin(m)
  \/ WriteId(m)
  \/ WriteStatus(m)
  \/ ReadStatus(m)
  \/ ReadId(m)
  \/ ClearId(m)
  \/ ClearStatus(m)

Next == \E m \in Ids : Controller(m)

Spec == Init /\ [][Next]_vars

\* Each controller runs; waiting for the lock is a busy loop.
FairSpec == Spec /\ \A m \in Ids : WF_vars(Controller(m))

-----------------------------------------------------------------------------
(* Properties. *)

\* Types of the two words and of the controllers' locals.
TypeOK ==
  /\ status \in {0, 1}
  /\ lockee \in Ids
  /\ pc \in [Ids -> {"idle", "spin", "id", "status", "status?", "id?",
                     "held", "unlock", "boot", "bootUnlock"}]
  /\ stuck \in [Ids -> {0, 1}]
  /\ locks \in [Ids -> Nat]
  /\ overlapped \in BOOLEAN

\* The lock is taken only if some controller has it or is about to know.
NoOrphan == status = 1 => \E m \in Ids : Attempting(m) \/ Using(m) \/ Booting(m)

\* What the lock does give: while no two attempts overlap, it is exclusive ...
ExclusiveUnlessOverlapped ==
  ~overlapped => \A m, n \in Ids : m # n => ~(Using(m) /\ Using(n))

\* ... and never lost ...
NotLostUnlessOverlapped == ~overlapped => NoOrphan

\* ... so that everyone gets it.
EveryoneGetsIt ==
  <>overlapped \/ <>(\A m \in Ids : locks[m] = MaxLocks /\ pc[m] = "idle")
=============================================================================
