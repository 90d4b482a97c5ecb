--------------------------- MODULE UartLockProofs ---------------------------
(***************************************************************************)
(* Proofs about UartLock: for any controllers and any number of attempts,  *)
(* overlapping attempts are the only way to share the lock or to lose it.  *)
(***************************************************************************)
EXTENDS UartLock, TLAPS

\* The overlap of two controllers, and what one controller that has the lock
\* or is about to know means for the words.
Apart(m, n) == ~(Attempting(m) /\ (Attempting(n) \/ Booting(n)))

Alone(m, n) == Using(m) => ~Using(n) /\ ~Attempting(n) /\ ~Booting(n)

Owns(m) ==
  /\ Using(m) => status = 1
  /\ pc[m] \in {"status", "status?", "id?"} => lockee = m
  /\ pc[m] \in {"status?", "id?"} => status = 1
  /\ pc[m] = "id?" => stuck[m] = 1

\* What holds until attempts overlap.
Sound ==
  /\ \A m, n \in Ids : m # n => Apart(m, n) /\ Alone(m, n)
  /\ \A m \in Ids : Owns(m)
  /\ NoOrphan

IInv == TypeOK /\ (~overlapped => Sound)

LEMMA InitInv == Init => IInv
<1> SUFFICES ASSUME Init PROVE IInv
  OBVIOUS
<1>0. /\ 0 \in Ids
      /\ \A m \in Ids : pc[m] = IF m = 0 /\ ~Booted THEN "boot" ELSE "idle"
  BY LockAssumption DEF Init
<1>1. TypeOK
  <2>1. lockee \in Ids /\ status \in {0, 1}
    BY <1>0 DEF Init
  <2> QED BY <2>1 DEF Init, TypeOK
<1>2. NoOrphan
  <2>1. CASE Booted
    BY <2>1 DEF Init, NoOrphan
  <2>2. CASE ~Booted
    BY <1>0, <2>2 DEF NoOrphan, Booting
  <2> QED BY <2>1, <2>2
<1>3. \A m \in Ids : ~Attempting(m) /\ ~Using(m)
  BY <1>0 DEF Attempting, Using
<1>4. \A m \in Ids : Owns(m)
  BY <1>0 DEF Owns, Using
<1> QED BY <1>1, <1>2, <1>3, <1>4 DEF IInv, Sound, Apart, Alone

-----------------------------------------------------------------------------
(* One lemma per action. Each is about a step after which no attempts have *)
(* overlapped, so none had before.                                         *)

LEMMA TypeStep == TypeOK /\ [Next]_vars => TypeOK'
<1> SUFFICES ASSUME TypeOK, [Next]_vars PROVE TypeOK'
  OBVIOUS
<1>1. ASSUME NEW m \in Ids, Controller(m) PROVE TypeOK'
  <2> USE LockAssumption DEF TypeOK, Goto
  <2>0. overlapped' \in BOOLEAN
    BY <1>1 DEF Controller, Lock, Spin, WriteId, WriteStatus, ReadStatus,
                ReadId, ClearId, ClearStatus
  <2>1. CASE Lock(m)
    BY <2>0, <2>1 DEF Lock
  <2>2. CASE Spin(m)
    BY <2>0, <2>2 DEF Spin
  <2>3. CASE WriteId(m)
    BY <2>0, <2>3 DEF WriteId
  <2>4. CASE WriteStatus(m)
    BY <2>0, <2>4 DEF WriteStatus, taken
  <2>5. CASE ReadStatus(m)
    BY <2>0, <2>5 DEF ReadStatus
  <2>6. CASE ReadId(m)
    <3>1. CASE stuck[m] = 1 /\ lockee = m
      BY <2>0, <2>6, <3>1 DEF ReadId
    <3>2. CASE ~(stuck[m] = 1 /\ lockee = m)
      BY <2>0, <2>6, <3>2 DEF ReadId
    <3> QED BY <3>1, <3>2
  <2>7. CASE ClearId(m)
    BY <2>0, <2>7 DEF ClearId
  <2>8. CASE ClearStatus(m)
    BY <2>0, <2>8 DEF ClearStatus, unlocked
  <2> QED BY <1>1, <2>1, <2>2, <2>3, <2>4, <2>5, <2>6, <2>7, <2>8 DEF Controller
<1>2. CASE UNCHANGED vars
  BY <1>2 DEF vars, TypeOK
<1> QED BY <1>1, <1>2 DEF Next

\* A step that moves controller m from one label to another.
Moved(m, label) ==
  /\ \A n \in Ids : pc'[n] = IF n = m THEN label ELSE pc[n]
  /\ \A i, j \in Ids : i # j => Apart(i, j)'

LEMMA GotoMoves ==
  ASSUME TypeOK, NEW m \in Ids, NEW label, Goto(m, label), ~overlapped'
  PROVE  ~overlapped /\ Moved(m, label)
<1>1. ~overlapped /\ ~Overlap'
  BY DEF Goto
<1>2. \A n \in Ids : pc'[n] = IF n = m THEN label ELSE pc[n]
  BY DEF Goto, TypeOK
<1> QED BY <1>1, <1>2 DEF Moved, Overlap, Apart

\* Going to spin changes nothing.
LEMMA LockStep ==
  ASSUME Sound, NEW m \in Ids, pc[m] = "idle", Moved(m, "spin"),
         UNCHANGED <<status, lockee, stuck>>
  PROVE  Sound'
BY DEF Sound, Moved, Alone, Owns, NoOrphan, Attempting, Using, Booting

\* The lock is seen free: nobody has it.
LEMMA SpinStep ==
  ASSUME Sound, NEW m \in Ids, pc[m] = "spin", free, Moved(m, "id"),
         UNCHANGED <<status, lockee, stuck>>
  PROVE  Sound'
<1>1. \A n \in Ids : ~Using(n)
  BY DEF Sound, Owns, free
<1>2. \A n \in Ids : ~Using(n)'
  BY <1>1 DEF Moved, Using
<1>3. \A n \in Ids : Owns(n)'
  BY <1>2 DEF Sound, Moved, Owns
<1>4. NoOrphan'
  BY DEF Sound, NoOrphan, free
<1> QED BY <1>2, <1>3, <1>4 DEF Sound, Moved, Alone

\* An attempt writes the words: no other controller has them.
LEMMA AttemptStep ==
  ASSUME Sound, NEW m \in Ids, Attempting(m), NEW label, Moved(m, label),
         label \in {"status", "status?", "id?"}, Owns(m)',
         \A n \in Ids : n # m => stuck'[n] = stuck[n]
  PROVE  Sound'
<1>0. Attempting(m)' /\ ~Using(m)'
  BY DEF Moved, Attempting, Using
<1>1. \A n \in Ids : n # m => ~Using(n) /\ ~Attempting(n)
  BY DEF Sound, Apart, Alone
<1>2. \A n \in Ids : n # m => ~Using(n)' /\ ~Attempting(n)'
  BY <1>1 DEF Moved, Using, Attempting
<1>3. \A n \in Ids : n # m => Owns(n)'
  BY <1>2 DEF Owns, Attempting
<1>4. \A i, j \in Ids : i # j => Alone(i, j)'
  BY <1>0, <1>2 DEF Alone
<1>5. NoOrphan'
  BY <1>0 DEF NoOrphan
<1> QED BY <1>3, <1>4, <1>5 DEF Sound, Moved

\* An attempt nobody overlaps succeeds.
LEMMA ConfirmStep ==
  ASSUME Sound, NEW m \in Ids, pc[m] = "id?", Moved(m, "held"),
         UNCHANGED <<status, lockee, stuck>>
  PROVE  Sound'
<1>0. Attempting(m) /\ Using(m)'
  BY DEF Moved, Attempting, Using
<1>1. \A n \in Ids : n # m => ~Using(n) /\ ~Attempting(n) /\ ~Booting(n)
  BY <1>0 DEF Sound, Apart, Alone
<1>2. \A n \in Ids : n # m => ~Using(n)' /\ ~Attempting(n)' /\ ~Booting(n)'
  BY <1>1 DEF Moved, Using, Attempting, Booting
<1>3. \A n \in Ids : Owns(n)'
  BY <1>2 DEF Sound, Moved, Owns, Attempting, Using
<1>4. \A i, j \in Ids : i # j => Alone(i, j)'
  BY <1>2 DEF Alone
<1>5. NoOrphan'
  BY <1>0 DEF NoOrphan
<1> QED BY <1>3, <1>4, <1>5 DEF Sound, Moved

\* The holder, or controller 0 at boot, clears the id ...
LEMMA ClearIdStep ==
  ASSUME Sound, NEW m \in Ids, NEW label, Moved(m, label),
         \/ pc[m] = "held" /\ label = "unlock"
         \/ pc[m] = "boot" /\ label = "bootUnlock",
         UNCHANGED <<status, stuck>>
  PROVE  Sound'
<1>1. \A n \in Ids : n # m => ~Attempting(n)
  BY DEF Sound, Apart, Alone, Using, Booting
<1>2. \A n \in Ids : /\ Using(n)' <=> Using(n)
                     /\ Booting(n)' <=> Booting(n)
                     /\ ~Attempting(n)' /\ ~Attempting(n)
  BY <1>1 DEF Moved, Using, Booting, Attempting
<1>3. \A n \in Ids : Owns(n)'
  BY <1>2 DEF Sound, Owns, Attempting
<1>4. \A i, j \in Ids : i # j => Alone(i, j)'
  BY <1>2 DEF Sound, Alone
<1>5. NoOrphan'
  BY <1>2 DEF Sound, NoOrphan
<1> QED BY <1>3, <1>4, <1>5 DEF Sound, Moved

\* ... and then the status.
LEMMA ClearStatusStep ==
  ASSUME Sound, NEW m \in Ids, pc[m] \in {"unlock", "bootUnlock"},
         Moved(m, "idle"), status' = 0, UNCHANGED <<lockee, stuck>>
  PROVE  Sound'
<1>1. Using(m) \/ Booting(m)
  BY DEF Using, Booting
<1>2. \A n \in Ids : n # m => ~Attempting(n) /\ ~Using(n)
  BY <1>1 DEF Sound, Apart, Alone
<1>3. \A n \in Ids : ~Attempting(n)' /\ ~Using(n)'
  BY <1>2 DEF Moved, Attempting, Using
<1>4. \A n \in Ids : Owns(n)'
  BY <1>3 DEF Owns, Attempting
<1>5. NoOrphan'
  BY DEF NoOrphan
<1> QED BY <1>3, <1>4, <1>5 DEF Sound, Moved, Alone

LEMMA SoundStep ==
  ASSUME TypeOK, Sound, NEW m \in Ids, Controller(m), ~overlapped'
  PROVE  Sound'
<1>1. CASE Lock(m)
  BY <1>1, GotoMoves, LockStep DEF Lock
<1>2. CASE Spin(m)
  BY <1>2, GotoMoves, SpinStep DEF Spin
<1>3. CASE WriteId(m)
  <2>1. pc[m] = "id" /\ Moved(m, "status") /\ lockee' = m /\ stuck' = stuck
    BY <1>3, GotoMoves DEF WriteId
  <2>2. Owns(m)'
    BY <2>1 DEF Moved, Owns, Using
  <2> QED BY <2>1, <2>2, AttemptStep DEF Attempting
<1>4. CASE WriteStatus(m)
  <2>1. /\ pc[m] = "status" /\ Moved(m, "status?") /\ status' = 1
        /\ lockee' = lockee /\ stuck' = stuck
    BY <1>4, GotoMoves DEF WriteStatus, taken
  <2>2. Owns(m)'
    BY <2>1 DEF Sound, Moved, Owns, Using
  <2> QED BY <2>1, <2>2, AttemptStep DEF Attempting
<1>5. CASE ReadStatus(m)
  <2>1. /\ pc[m] = "status?" /\ Moved(m, "id?") /\ status' = status
        /\ lockee' = lockee /\ stuck' = [stuck EXCEPT ![m] = status]
    BY <1>5, GotoMoves DEF ReadStatus
  <2>2. stuck'[m] = status /\ \A n \in Ids : n # m => stuck'[n] = stuck[n]
    BY <2>1 DEF TypeOK
  <2>3. Owns(m)'
    BY <2>1, <2>2 DEF Sound, Moved, Owns, Using
  <2> QED BY <2>1, <2>2, <2>3, AttemptStep DEF Attempting
<1>6. CASE ReadId(m)
  <2>1. stuck[m] = 1 /\ lockee = m /\ pc[m] = "id?"
    BY <1>6 DEF ReadId, Sound, Owns
  <2>2. Goto(m, "held") /\ UNCHANGED <<status, lockee, stuck>>
    BY <1>6, <2>1 DEF ReadId
  <2> QED BY <2>1, <2>2, GotoMoves, ConfirmStep
<1>7. CASE ClearId(m)
  <2>1. CASE pc[m] = "held"
    <3>1. Goto(m, "unlock") /\ UNCHANGED <<status, stuck>>
      BY <1>7, <2>1 DEF ClearId
    <3> QED BY <2>1, <3>1, GotoMoves, ClearIdStep
  <2>2. CASE pc[m] = "boot"
    <3>1. Goto(m, "bootUnlock") /\ UNCHANGED <<status, stuck>>
      BY <1>7, <2>2 DEF ClearId
    <3> QED BY <2>2, <3>1, GotoMoves, ClearIdStep
  <2> QED BY <1>7, <2>1, <2>2 DEF ClearId
<1>8. CASE ClearStatus(m)
  <2>1. /\ pc[m] \in {"unlock", "bootUnlock"} /\ Goto(m, "idle")
        /\ status' = 0 /\ UNCHANGED <<lockee, stuck>>
    BY <1>8 DEF ClearStatus, unlocked
  <2> QED BY <2>1, GotoMoves, ClearStatusStep
<1> QED BY <1>1, <1>2, <1>3, <1>4, <1>5, <1>6, <1>7, <1>8 DEF Controller

-----------------------------------------------------------------------------
LEMMA NextInv == IInv /\ [Next]_vars => IInv'
<1> SUFFICES ASSUME IInv, [Next]_vars PROVE IInv'
  OBVIOUS
<1>1. TypeOK'
  BY TypeStep DEF IInv
<1>2. ASSUME NEW m \in Ids, Controller(m), ~overlapped' PROVE Sound'
  <2>1. ~overlapped
    BY <1>2 DEF Controller, Lock, Spin, WriteId, WriteStatus, ReadStatus,
                ReadId, ClearId, ClearStatus, Goto
  <2> QED BY <1>2, <2>1, SoundStep DEF IInv
<1>3. CASE UNCHANGED vars
  <2>1. Sound => Sound'
    BY <1>3 DEF vars, Sound, Apart, Alone, Owns, NoOrphan, Attempting, Using,
                Booting
  <2> QED BY <1>1, <1>3, <2>1 DEF IInv, vars
<1>4. CASE Next
  BY <1>1, <1>2, <1>4 DEF Next, IInv
<1> QED BY <1>3, <1>4

\* The invariant: types, and Sound until attempts overlap.
THEOREM Inductive == Spec => []IInv
BY InitInv, NextInv, PTL DEF Spec

\* The words and the controllers' locals keep their types.
THEOREM LockTypes == Spec => []TypeOK
<1>1. IInv => TypeOK
  BY DEF IInv
<1> QED BY <1>1, Inductive, PTL

\* Only attempts that overlap let two controllers have the lock.
THEOREM LockExclusive == Spec => []ExclusiveUnlessOverlapped
<1>1. IInv => ExclusiveUnlessOverlapped
  BY DEF IInv, Sound, Alone, ExclusiveUnlessOverlapped
<1> QED BY <1>1, Inductive, PTL

\* Only attempts that overlap leave the lock taken by nobody.
THEOREM LockNotLost == Spec => []NotLostUnlessOverlapped
<1>1. IInv => NotLostUnlessOverlapped
  BY DEF IInv, Sound, NotLostUnlessOverlapped
<1> QED BY <1>1, Inductive, PTL
=============================================================================
