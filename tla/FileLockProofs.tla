--------------------------- MODULE FileLockProofs ---------------------------
(***************************************************************************)
(* FileLock for any number of runs, any TTL and any touch interval that    *)
(* does not exceed it: mutual exclusion, and who a swap is given up to.    *)
(***************************************************************************)
EXTENDS FileLock, TLAPS

USE LockAssumption

\* The inductive invariant holds initially.
LEMMA LockInitial == LockIsAtomic /\ Init => LockInv
BY DEF Init, LockInv, TypeOK, MutualExclusion, HoldersAreFresh, TakersAreAlone, OneInside,
       MidLock, NoFile, NoStamp

\* Every step of a run keeps every variable well typed.
LEMMA TypeStep ==
    ASSUME TypeOK, [Next]_vars
    PROVE  TypeOK'
<1> USE DEF TypeOK, Goto, MidLock, NoFile, NoStamp
<1>1. ASSUME NEW p \in Procs, Open(p) \/ Acquire(p) \/ WakeUp(p)
      PROVE  TypeOK'
  BY <1>1 DEF Open, Acquire, WakeUp, touch
<1>2. ASSUME NEW p \in Procs, ReadTimestamp(p)
      PROVE  TypeOK'
  BY <1>2 DEF ReadTimestamp, NotLocked
<1>3. ASSUME NEW p \in Procs, TouchLoop(p) \/ Finish(p) \/ Die(p)
      PROVE  TypeOK'
  BY <1>3 DEF TouchLoop, Finish, Die, touch
<1>4. CASE Tick
  BY <1>4 DEF Tick
<1>5. CASE Terminating \/ UNCHANGED vars
  BY <1>5 DEF Terminating, vars
<1> QED
  BY <1>1, <1>2, <1>3, <1>4, <1>5 DEF Next

\* Every variable of the lock and of its runs is always well typed; in particular a run makes
\* one retry and no more.
THEOREM LockTypes == Spec => []TypeOK
<1>1. Init => TypeOK
  BY DEF Init, TypeOK, MidLock, NoFile, NoStamp
<1> QED
  BY <1>1, TypeStep, PTL DEF Spec

\* Nobody touches the stamp of a holder but the holder, and the touch loop keeps it fresh:
\* a run that finds the file never finds it outdated while another run holds the lock.
LEMMA LockStep == LockInv /\ [Next]_vars => LockInv'
<1> SUFFICES ASSUME LockInv, [Next]_vars PROVE LockInv'
  OBVIOUS
<1>0. TypeOK' /\ LockIsAtomic
  BY TypeStep DEF LockInv
<1> USE DEF LockInv, TypeOK, MutualExclusion, HoldersAreFresh, TakersAreAlone, OneInside, Goto,
            MidLock, NoFile, NoStamp
<1>1. ASSUME NEW p \in Procs, Open(p) PROVE LockInv'
  <2>1. \A q \in Procs : pc'[q] = IF q = p THEN pc'[p] ELSE pc[q]
    BY <1>1 DEF Open
  <2>2. /\ pc'[p] \in {"created", "exists"} /\ UNCHANGED <<now, lastTouch>>
        /\ \A q \in Procs \ {p} : pc[q] \notin MidLock
    BY <1>0, <1>1 DEF Open, NobodyBetween
  <2>3. pc'[p] = "created" => \A q \in Procs : pc[q] # "holds"
    BY <1>1 DEF Open
  <2>4. HoldersAreFresh'
    BY <1>1, <2>1, <2>2 DEF Open
  <2> QED
    BY <1>0, <2>1, <2>2, <2>3, <2>4
<1>2. ASSUME NEW p \in Procs, ReadTimestamp(p) PROVE LockInv'
  <2>1. \A q \in Procs : pc'[q] = IF q = p THEN pc'[p] ELSE pc[q]
    BY <1>2 DEF ReadTimestamp, NotLocked
  <2>2. /\ pc'[p] \in {"aborted", "stale", "sleeping"} /\ UNCHANGED <<now, file, lastTouch>>
        /\ \A q \in Procs \ {p} : pc[q] \notin MidLock
    BY <1>0, <1>2 DEF ReadTimestamp, NotLocked, NobodyBetween
  <2>3. pc'[p] = "stale" => is_outdated(file)
    BY <1>2 DEF ReadTimestamp, NotLocked
  <2>4. is_outdated(file) => \A q \in Procs : pc[q] # "holds"
    BY DEF is_outdated
  <2> QED
    BY <1>0, <2>1, <2>2, <2>3, <2>4
<1>3. ASSUME NEW p \in Procs, Acquire(p) PROVE LockInv'
  <2>1. /\ \A q \in Procs : pc'[q] = IF q = p THEN "holds" ELSE pc[q]
        /\ lastTouch'[p] = now /\ file' = now /\ now' = now
    BY <1>3 DEF Acquire, touch
  <2>2. \A q \in Procs : pc[q] # "holds" /\ (q # p => pc[q] \notin MidLock)
    BY <1>0, <1>3 DEF Acquire, NobodyBetween
  <2> QED
    BY <1>0, <2>1, <2>2
<1>4. ASSUME NEW p \in Procs, WakeUp(p) PROVE LockInv'
  BY <1>0, <1>4 DEF WakeUp
<1>5. ASSUME NEW p \in Procs, TouchLoop(p) PROVE LockInv'
  BY <1>0, <1>5 DEF TouchLoop, touch
<1>6. ASSUME NEW p \in Procs, Finish(p) PROVE LockInv'
  BY <1>0, <1>6 DEF Finish
<1>7. ASSUME NEW p \in Procs, Die(p) PROVE LockInv'
  BY <1>0, <1>7 DEF Die
<1>8. CASE Tick
  BY <1>0, <1>8 DEF Tick, touch_due
<1>9. CASE Terminating \/ UNCHANGED vars
  BY <1>9 DEF Terminating, vars
<1> QED
  BY <1>1, <1>2, <1>3, <1>4, <1>5, <1>6, <1>7, <1>8, <1>9 DEF Next

\* As long as nobody comes between the system calls of one lock(), at most one run of a swap
\* holds its lock, whichever runs die and whenever they retry.
THEOREM LockExcludes == LockIsAtomic /\ Spec => []MutualExclusion
<1>1. LockIsAtomic /\ Spec => []LockInv
  BY LockInitial, LockStep, PTL DEF Spec
<1>2. LockInv => MutualExclusion
  BY DEF LockInv
<1> QED
  BY <1>1, <1>2, PTL

-----------------------------------------------------------------------------
(* AbandonsOnlyToTheLiving.                                                *)

\* Whoever has not held the lock has not touched it; a retry comes after the delay; a holder
\* touches in time; and the stamp in the file, or its absence, is some other run's doing.
AbandonInv ==
    /\ \A p \in Procs : pc[p] \in {"lock", "sleeping"} \cup MidLock => lastTouch[p] = -1
    /\ \A p \in Procs : attempts[p] = 0 => sleptFrom[p] = 0
    /\ \A p \in Procs : pc[p] \in {"lock"} \cup MidLock /\ attempts[p] = 1
                            => now > sleptFrom[p] + RetryDelay
    /\ \A p \in Procs : pc[p] = "holds" => lastTouch[p] >= 0 /\ now - lastTouch[p] <= TouchInterval
    /\ \A p \in Procs : lastTouch[p] <= now
    /\ file >= 0 => \E q \in Procs : lastTouch[q] >= file
    /\ \A p \in Procs : pc[p] = "exists" /\ file = NoFile
                            => \E q \in Procs \ {p} : lastTouch[q] >= sleptFrom[p]

\* Every step keeps it, whoever comes between the system calls of lock().
LEMMA AbandonStep ==
    ASSUME Ttl <= RetryDelay, TypeOK, AbandonInv, [Next]_vars
    PROVE  AbandonInv'
<1>0. TypeOK'
  BY TypeStep
<1> USE DEF AbandonInv, TypeOK, Goto, MidLock, NoFile, NoStamp
<1>1. ASSUME NEW p \in Procs, Open(p) PROVE AbandonInv'
  <2>1. /\ \A q \in Procs : pc'[q] = IF q = p THEN pc'[p] ELSE pc[q]
        /\ pc[p] = "lock" /\ pc'[p] \in {"created", "exists"}
        /\ UNCHANGED <<now, attempts, sleptFrom, lastTouch>>
    BY <1>1 DEF Open
  <2>2. /\ file' # NoFile /\ (file' = file \/ file' = NoStamp)
    BY <1>1 DEF Open
  <2> QED
    BY <1>0, <2>1, <2>2
<1>2. ASSUME NEW p \in Procs, ReadTimestamp(p) PROVE AbandonInv'
  <2>1. /\ \A q \in Procs : pc'[q] = IF q = p THEN pc'[p] ELSE pc[q]
        /\ \A q \in Procs : q # p => attempts'[q] = attempts[q] /\ sleptFrom'[q] = sleptFrom[q]
        /\ pc[p] = "exists" /\ UNCHANGED <<now, file, lastTouch>>
    BY <1>2 DEF ReadTimestamp, NotLocked
  <2>2. \/ pc'[p] \in {"aborted", "stale"} /\ UNCHANGED <<attempts, sleptFrom>>
        \/ pc'[p] = "sleeping" /\ attempts'[p] = attempts[p] + 1
    BY <1>2 DEF ReadTimestamp, NotLocked
  <2> QED
    BY <1>0, <2>1, <2>2
<1>3. ASSUME NEW p \in Procs, Acquire(p) PROVE AbandonInv'
  <2>1. /\ \A q \in Procs : pc'[q] = IF q = p THEN "holds" ELSE pc[q]
        /\ \A q \in Procs : lastTouch'[q] = IF q = p THEN now ELSE lastTouch[q]
        /\ file' = now /\ UNCHANGED <<now, attempts, sleptFrom>>
    BY <1>3 DEF Acquire, touch
  <2> QED
    BY <1>0, <2>1
<1>4. ASSUME NEW p \in Procs, WakeUp(p) PROVE AbandonInv'
  BY <1>0, <1>4 DEF WakeUp
<1>5. ASSUME NEW p \in Procs, TouchLoop(p) PROVE AbandonInv'
  <2>1. /\ \A q \in Procs : lastTouch'[q] = IF q = p THEN now ELSE lastTouch[q]
        /\ pc[p] = "holds" /\ file' = now /\ UNCHANGED <<now, pc, attempts, sleptFrom>>
    BY <1>5 DEF TouchLoop, touch
  <2> QED
    BY <1>0, <2>1
<1>6. ASSUME NEW p \in Procs, Finish(p) PROVE AbandonInv'
  <2>1. /\ \A q \in Procs : pc'[q] = IF q = p THEN "finished" ELSE pc[q]
        /\ pc[p] = "holds" /\ file' = NoFile
        /\ UNCHANGED <<now, attempts, sleptFrom, lastTouch>>
    BY <1>6 DEF Finish
  <2>2. ASSUME NEW q \in Procs, pc[q] = "exists" PROVE lastTouch[p] >= sleptFrom[q]
    <3>1. attempts[q] = 0 => sleptFrom[q] = 0 /\ lastTouch[p] >= 0
      BY <2>1
    <3>2. attempts[q] = 1 => /\ now > sleptFrom[q] + RetryDelay
                             /\ now - lastTouch[p] <= TouchInterval
      BY <2>1, <2>2
    <3> QED
      BY <3>1, <3>2
  <2> QED
    BY <1>0, <2>1, <2>2
<1>7. ASSUME NEW p \in Procs, Die(p) PROVE AbandonInv'
  BY <1>0, <1>7 DEF Die
<1>8. CASE Tick
  BY <1>0, <1>8 DEF Tick, touch_due
<1>9. CASE Terminating \/ UNCHANGED vars
  BY <1>9 DEF Terminating, vars
<1> QED
  BY <1>1, <1>2, <1>3, <1>4, <1>5, <1>6, <1>7, <1>8, <1>9 DEF Next

\* The retry delay of run_maker_swap and run_taker_swap is not shorter than the TTL: therefore a
\* run gives its swap up only to one that has touched the lock since the first try.
THEOREM LockAbandonedToTheLiving == Ttl <= RetryDelay /\ Spec => AbandonsOnlyToTheLiving
<1> SUFFICES ASSUME Ttl <= RetryDelay PROVE Spec => AbandonsOnlyToTheLiving
  OBVIOUS
<1> DEFINE Gives(p) == pc[p] # "aborted" /\ pc'[p] = "aborted"
                          => \E q \in Procs \ {p} : lastTouch[q] >= sleptFrom[p]
<1>1. Init => AbandonInv
  BY DEF Init, AbandonInv, MidLock, NoFile
<1>2. TypeOK /\ AbandonInv /\ [Next]_vars => AbandonInv'
  BY AbandonStep
<1>3. TypeOK /\ AbandonInv /\ [Next]_vars => [\A p \in Procs : Gives(p)]_vars
  <2> SUFFICES ASSUME TypeOK, AbandonInv, Next, NEW p \in Procs,
                      pc[p] # "aborted", pc'[p] = "aborted"
               PROVE  \E q \in Procs \ {p} : lastTouch[q] >= sleptFrom[p]
    OBVIOUS
  <2>1. ReadTimestamp(p) /\ (file = NoFile \/ (~is_outdated(file) /\ attempts[p] >= 1))
    BY DEF Next, Open, ReadTimestamp, NotLocked, Acquire, WakeUp, TouchLoop, Finish, Die, Tick,
           Terminating, vars, Goto, TypeOK
  <2>2. pc[p] = "exists"
    BY <2>1 DEF ReadTimestamp
  <2>3. CASE file = NoFile
    BY <2>2, <2>3 DEF AbandonInv
  <2>4. CASE file # NoFile
    <3>1. /\ file # NoStamp /\ now - file <= Ttl /\ attempts[p] = 1 /\ file \in 0..MaxTime
          /\ now \in Nat /\ sleptFrom[p] \in Nat /\ file \in Nat
      BY <2>1, <2>4 DEF is_outdated, TypeOK
    <3>2. now > sleptFrom[p] + RetryDelay /\ lastTouch[p] = -1
      BY <2>2, <3>1 DEF AbandonInv, MidLock
    <3>3. PICK q \in Procs : lastTouch[q] >= file
      BY <3>1 DEF AbandonInv
    <3>4. lastTouch[q] \in Int /\ file > sleptFrom[p]
      BY <3>1, <3>2 DEF TypeOK
    <3> QED
      BY <3>1, <3>2, <3>3, <3>4
  <2> QED
    BY <2>3, <2>4
<1> QED
  BY <1>1, <1>2, <1>3, LockTypes, PTL DEF Spec, AbandonsOnlyToTheLiving

=============================================================================
