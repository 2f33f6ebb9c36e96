------------------------------ MODULE FileLock ------------------------------
(***************************************************************************)
(* The lock that keeps two processes from running the same swap:           *)
(* mm2_io::file_lock::FileLock, and its use by run_maker_swap and          *)
(* run_taker_swap.  A lock is a file that holds the time it was last       *)
(* touched.  Taking it is create_new, or, when the file exists, reading    *)
(* it, and then writing the time: separate system calls that other         *)
(* processes can come between.                                             *)
(***************************************************************************)
EXTENDS Integers, FiniteSets

CONSTANTS
    Procs,          \* runs of the same swap, in one or several processes
    Ttl,            \* ttl_sec: 40 seconds
    TouchInterval,  \* the touch loop sleeps for 30 seconds
    RetryDelay,     \* one retry, after 40 seconds
    MaxTime,        \* bound on the clock
    LockIsAtomic    \* TRUE: nobody comes between the system calls of one lock()

ASSUME LockAssumption ==
    /\ Ttl \in Nat /\ TouchInterval \in Nat \ {0} /\ RetryDelay \in Nat /\ MaxTime \in Nat
    /\ TouchInterval <= Ttl
    /\ LockIsAtomic \in BOOLEAN

VARIABLES
    now,
    file,       \* the time in the lock file, NoFile or NoStamp
    pc,         \* pc[p]: where run p is
    attempts,   \* attempts[p]
    sleptFrom,  \* sleptFrom[p]: when p went to sleep before its retry
    lastTouch   \* lastTouch[p]: when p last wrote the time

vars == <<now, file, pc, attempts, sleptFrom, lastTouch>>

NoFile  == -2
NoStamp == -1   \* the file is empty or does not hold a number

MidLock == {"created", "exists", "stale"}

TypeOK ==
    /\ now \in 0..MaxTime
    /\ file \in {NoFile, NoStamp} \cup 0..MaxTime
    /\ pc \in [Procs -> {"lock", "sleeping", "holds", "aborted", "finished", "dead"} \cup MidLock]
    /\ attempts \in [Procs -> 0..1]
    /\ sleptFrom \in [Procs -> 0..MaxTime]
    /\ lastTouch \in [Procs -> -1..MaxTime]

Init ==
    /\ now = 0 /\ file = NoFile
    /\ pc = [p \in Procs |-> "lock"]
    /\ attempts = [p \in Procs |-> 0]
    /\ sleptFrom = [p \in Procs |-> 0]
    /\ lastTouch = [p \in Procs |-> -1]

Goto(p, l) == pc' = [pc EXCEPT ![p] = l]

NobodyBetween(p) == LockIsAtomic => \A q \in Procs \ {p} : pc[q] \notin MidLock

-----------------------------------------------------------------------------
\* lock: create_new succeeds, or the file exists.
Open(p) ==
    /\ pc[p] = "lock" /\ NobodyBetween(p)
    /\ IF file = NoFile
       THEN file' = NoStamp /\ Goto(p, "created")
       ELSE Goto(p, "exists") /\ UNCHANGED file
    /\ UNCHANGED <<now, attempts, sleptFrom, lastTouch>>

is_outdated(stamp) == stamp = NoStamp \/ now - stamp > Ttl

\* Slip: one retry too many.
NotLockedTwice(p) ==
    IF attempts[p] > 1
    THEN Goto(p, "aborted") /\ UNCHANGED <<attempts, sleptFrom>>
    ELSE /\ Goto(p, "sleeping")
         /\ attempts' = [attempts EXCEPT ![p] = @ + 1]
         /\ sleptFrom' = [sleptFrom EXCEPT ![p] = now]

\* lock returned Ok(None): one retry after a sleep, then the swap is given up.
NotLocked(p) ==
    IF attempts[p] >= 1
    THEN Goto(p, "aborted") /\ UNCHANGED <<attempts, sleptFrom>>
    ELSE /\ Goto(p, "sleeping")
         /\ attempts' = [attempts EXCEPT ![p] = @ + 1]
         /\ sleptFrom' = [sleptFrom EXCEPT ![p] = now]

\* read_timestamp; it fails when the file has been removed, and then so does lock.
ReadTimestamp(p) ==
    /\ pc[p] = "exists" /\ NobodyBetween(p)
    /\ \/ file = NoFile /\ Goto(p, "aborted") /\ UNCHANGED <<attempts, sleptFrom>>
       \/ file # NoFile /\ is_outdated(file) /\ Goto(p, "stale") /\ UNCHANGED <<attempts, sleptFrom>>
       \/ file # NoFile /\ ~is_outdated(file) /\ NotLocked(p)
    /\ UNCHANGED <<now, file, lastTouch>>

touch(p) == file' = now /\ lastTouch' = [lastTouch EXCEPT ![p] = now]

Acquire(p) ==
    /\ pc[p] \in {"created", "stale"} /\ NobodyBetween(p)
    /\ touch(p) /\ Goto(p, "holds")
    /\ UNCHANGED <<now, attempts, sleptFrom>>

\* Slip: the retry does not wait.
WakeAtOnce(p) ==
    /\ pc[p] = "sleeping"
    /\ Goto(p, "lock")
    /\ UNCHANGED <<now, file, attempts, sleptFrom, lastTouch>>

\* Timer::sleep returns once more than the delay has passed.
WakeUp(p) ==
    /\ pc[p] = "sleeping" /\ now > sleptFrom[p] + RetryDelay
    /\ Goto(p, "lock")
    /\ UNCHANGED <<now, file, attempts, sleptFrom, lastTouch>>

-----------------------------------------------------------------------------
\* Slip: the touch loop does not run.
touch_never_due(p) == FALSE

touch_due(p) == now - lastTouch[p] >= TouchInterval

\* One round of the touch loop.
TouchLoop(p) ==
    /\ pc[p] = "holds" /\ touch_due(p)
    /\ touch(p)
    /\ UNCHANGED <<now, pc, attempts, sleptFrom>>

\* The swap is over: drop removes the file, whoever touched it last.
Finish(p) ==
    /\ pc[p] = "holds"
    /\ file' = NoFile /\ Goto(p, "finished")
    /\ UNCHANGED <<now, attempts, sleptFrom, lastTouch>>

\* The process is killed; the file stays.
Die(p) ==
    /\ pc[p] \in {"holds", "sleeping"} \cup MidLock
    /\ Goto(p, "dead")
    /\ UNCHANGED <<now, file, attempts, sleptFrom, lastTouch>>

\* System calls take no time, and the touch loop runs when it is due.
Tick ==
    /\ now < MaxTime
    /\ \A p \in Procs : pc[p] \notin MidLock /\ ~(pc[p] = "holds" /\ touch_due(p))
    /\ now' = now + 1
    /\ UNCHANGED <<file, pc, attempts, sleptFrom, lastTouch>>

Terminating == now = MaxTime /\ UNCHANGED vars

Next ==
    \/ \E p \in Procs : Open(p) \/ ReadTimestamp(p) \/ Acquire(p) \/ WakeUp(p)
                        \/ TouchLoop(p) \/ Finish(p) \/ Die(p)
    \/ Tick
    \/ Terminating

Spec == Init /\ [][Next]_vars

-----------------------------------------------------------------------------
\* At most one run of the swap holds its lock.
MutualExclusion == \A p, q \in Procs : pc[p] = "holds" /\ pc[q] = "holds" => p = q

\* A run gives its swap up only if another run has touched the lock since its first try:
\* the one retry is late enough for the lock of a dead process to be outdated.
AbandonsOnlyToTheLiving ==
    [][\A p \in Procs : pc[p] # "aborted" /\ pc'[p] = "aborted"
          => \E q \in Procs \ {p} : lastTouch[q] >= sleptFrom[p]]_vars

-----------------------------------------------------------------------------
(* The inductive invariant behind MutualExclusion.                         *)

\* The lock of a run that holds it is fresh, and the stamp in the file is its own.
HoldersAreFresh ==
    \A p \in Procs : pc[p] = "holds" =>
        /\ lastTouch[p] >= 0 /\ file = lastTouch[p]
        /\ now - lastTouch[p] <= TouchInterval

\* A run that is about to take the lock takes it from nobody.
TakersAreAlone ==
    \A p \in Procs : pc[p] \in {"created", "stale"} => \A q \in Procs : pc[q] # "holds"

OneInside == \A p, q \in Procs : pc[p] \in MidLock /\ pc[q] \in MidLock => p = q

LockInv ==
    TypeOK /\ LockIsAtomic /\ MutualExclusion /\ HoldersAreFresh /\ TakersAreAlone /\ OneInside

=============================================================================
