---------------------------- MODULE PublisherLock ----------------------------
(***************************************************************************)
(* The object-store lock v2/publisher.lock that keeps two publisher runs   *)
(* from writing artifacts together (publisher.ts, acquirePublisherLock and *)
(* releasePublisherLock).                                                  *)
(*                                                                         *)
(* A run is one execution of the one-shot publisher process.  It reads its *)
(* clock once, takes the lock with a conditional write, or takes over a    *)
(* lock that had expired when it started, works, and removes the lock with *)
(* a conditional delete.  A lock body holds the run's random id, so the    *)
(* body, its ETag and the run that wrote it identify one another: the lock *)
(* object is modelled by its owner.  The code also has branches for a      *)
(* store that answers without ETags; a store does or does not give them.   *)
(*                                                                         *)
(* Every request to the store is a separate step.  A request may fail      *)
(* without effect; it may time out and still take effect later, because    *)
(* withTimeout abandons a request and does not cancel it; and the client   *)
(* library may repeat a conditional write whose first answer was lost, in  *)
(* which case the write is in place and the caller is told that it failed. *)
(* The process may die between any two steps.                              *)
(***************************************************************************)
EXTENDS Naturals

CONSTANTS
    Run,        \* publisher runs; the run id is a fresh UUID
    NoRun,      \* the value of the lock when the object does not exist
    Ttl,        \* lockTtlMs, in ticks of the clock
    ETagAnswers,\* whether the store may answer with ETags, and without
    MaxClock,   \* bound: the clock stops here
    MaxFaults   \* bound: crashes, failed requests and repeated writes

ASSUME LockAssumption ==
    /\ NoRun \notin Run
    /\ Ttl \in Nat \ {0}
    /\ ETagAnswers \subseteq BOOLEAN
    /\ MaxClock \in Nat
    /\ MaxFaults \in Nat

VARIABLES
    clock,      \* wall clock
    etags,      \* the store answers a read with the object's ETag
    lock,       \* owner of v2/publisher.lock, or NoRun
    pc,         \* control state of each run
    started,    \* the run's `now`, read once when it starts
    seen,       \* owner of the expired lock whose ETag the run read
    faults      \* number of faults so far

lockVars == <<clock, etags, lock, pc, started, seen, faults>>

-----------------------------------------------------------------------------
(* Control states.                                                         *)

Acquiring == {"starting", "inspecting", "replacing", "verifying"}
Holding   == {"critical", "releasing", "deleting"}
Late      == {"lateAbsent", "lateMatch", "lateDelete"}
Ended     == {"done", "refused", "failed"}
Live      == Acquiring \cup Holding

Expiry(r) == started[r] + Ttl

(* Mutants: the TTL is ignored; the boundary is off by one.                *)
ExpiredAtOnce(h, r) == started[h] <= started[r]
ExpiredOneLate(h, r) == Expiry(h) < started[r]

(* The lock of h counts as expired for run r: the comparison uses the      *)
(* clock that r read when it started, not the time of the comparison.      *)
Expired(h, r) == Expiry(h) <= started[r]

Go(r, state) == pc' = [pc EXCEPT ![r] = state]

-----------------------------------------------------------------------------
LockInit ==
    /\ clock = 0
    /\ etags \in ETagAnswers
    /\ lock = NoRun
    /\ pc = [r \in Run |-> "idle"]
    /\ started = [r \in Run |-> 0]
    /\ seen = [r \in Run |-> NoRun]
    /\ faults = 0

Tick ==
    /\ clock < MaxClock
    /\ clock' = clock + 1
    /\ UNCHANGED <<etags, lock, pc, started, seen, faults>>

(* The process starts and reads its clock.                                 *)
Start(r) ==
    /\ pc[r] = "idle"
    /\ started' = [started EXCEPT ![r] = clock]
    /\ Go(r, "starting")
    /\ UNCHANGED <<clock, etags, lock, seen, faults>>

(* putJsonIfAbsent of the own lock: taken, or somebody else's is there.    *)
PutIfAbsent(r) ==
    /\ pc[r] = "starting"
    /\ \/ /\ lock = NoRun
          /\ lock' = r
          /\ Go(r, "critical")
       \/ /\ lock # NoRun
          /\ Go(r, "inspecting")
          /\ UNCHANGED lock
    /\ UNCHANGED <<clock, etags, started, seen, faults>>

(* Read the lock that is in the way.  Gone or still fresh: give up.        *)
ReadHolder(r) ==
    /\ pc[r] = "inspecting"
    /\ \/ /\ lock # NoRun => ~Expired(lock, r)
          /\ Go(r, "refused")
          /\ UNCHANGED seen
       \/ /\ lock # NoRun
          /\ Expired(lock, r)
          /\ seen' = [seen EXCEPT ![r] = IF etags THEN lock ELSE NoRun]
          /\ Go(r, "replacing")
    /\ UNCHANGED <<clock, etags, lock, started, faults>>

(* putJsonIfMatch against the ETag of the expired lock; without an ETag,   *)
(* putJsonIfAbsent, which needs the lock to be gone.                       *)
Replace(r) ==
    /\ pc[r] = "replacing"
    /\ \/ /\ lock = seen[r]
          /\ lock' = r
          /\ Go(r, "verifying")
       \/ /\ lock # seen[r]
          /\ Go(r, "refused")
          /\ UNCHANGED lock
    /\ UNCHANGED <<clock, etags, started, seen, faults>>

(* Mutant: a run that lost the take-over goes on to a state nobody handles. *)
VerifyAgain(r) ==
    /\ pc[r] = "verifying"
    /\ Go(r, IF lock = r THEN "critical" ELSE "retrying")
    /\ UNCHANGED <<clock, etags, lock, started, seen, faults>>

(* Read the lock back after a take-over.                                   *)
Verify(r) ==
    /\ pc[r] = "verifying"
    /\ Go(r, IF lock = r THEN "critical" ELSE "refused")
    /\ UNCHANGED <<clock, etags, lock, started, seen, faults>>

(* The work under the lock returns, or throws on its own account (a range  *)
(* that ends before it starts): the finally block runs.                    *)
Finish(r) ==
    /\ pc[r] = "critical"
    /\ Go(r, "releasing")
    /\ UNCHANGED <<clock, etags, lock, started, seen, faults>>

(* Mutant: the release waits for the lock to be its own.                   *)
ReleaseReadOwn(r) ==
    /\ pc[r] = "releasing"
    /\ lock = r
    /\ Go(r, "deleting")
    /\ UNCHANGED <<clock, etags, lock, started, seen, faults>>

(* releasePublisherLock reads the lock and goes on only if it is its own.  *)
ReleaseRead(r) ==
    /\ pc[r] = "releasing"
    /\ Go(r, IF lock = r THEN "deleting" ELSE "done")
    /\ UNCHANGED <<clock, etags, lock, started, seen, faults>>

(* Mutant: an unconditional delete.                                        *)
DeletedByAnyone(r) == NoRun

(* deleteJsonIfMatch against the ETag just read; without one, deleteJson.  *)
DeletedBy(r) == IF etags /\ lock # r THEN lock ELSE NoRun

ReleaseDelete(r) ==
    /\ pc[r] = "deleting"
    /\ lock' = DeletedBy(r)
    /\ Go(r, "done")
    /\ UNCHANGED <<clock, etags, started, seen, faults>>

-----------------------------------------------------------------------------
(* Faults.                                                                 *)

(* The conditional requests that may be in flight when their run ends.     *)
InFlight ==
    {<<"starting", "lateAbsent">>,
     <<"replacing", "lateMatch">>,
     <<"deleting", "lateDelete">>}

(* The process dies, or a request of the lock protocol throws.  None of    *)
(* these errors is caught: acquirePublisherLock runs before the try block. *)
(* A request in flight is left behind and may still reach the store.       *)
Abort(r) ==
    /\ faults < MaxFaults
    /\ pc[r] \in Live
    /\ \/ Go(r, "failed")
       \/ \E s \in Late : <<pc[r], s>> \in InFlight /\ Go(r, s)
    /\ faults' = faults + 1
    /\ UNCHANGED <<clock, etags, lock, started, seen>>

(* A request made inside the try block throws: the finally block runs.     *)
Throw(r) ==
    /\ faults < MaxFaults
    /\ pc[r] = "critical"
    /\ Go(r, "releasing")
    /\ faults' = faults + 1
    /\ UNCHANGED <<clock, etags, lock, started, seen>>

(* A conditional write lands, its answer is lost, and the repeated write   *)
(* is refused because of the first one.                                    *)
RepeatedWrite(r) ==
    /\ faults < MaxFaults
    /\ \/ /\ pc[r] = "starting"
          /\ lock = NoRun
          /\ Go(r, "inspecting")
       \/ /\ pc[r] = "replacing"
          /\ lock = seen[r]
          /\ Go(r, "refused")
    /\ lock' = r
    /\ faults' = faults + 1
    /\ UNCHANGED <<clock, etags, started, seen>>

(* A request that outlived its run takes effect...                         *)
Land(r) ==
    /\ \/ pc[r] = "lateAbsent" /\ lock = NoRun  /\ lock' = r
       \/ pc[r] = "lateMatch"  /\ lock = seen[r] /\ lock' = r
       \/ pc[r] = "lateDelete" /\ (etags => lock = r) /\ lock' = NoRun
    /\ Go(r, "failed")
    /\ UNCHANGED <<clock, etags, started, seen, faults>>

(* ... or is refused by its condition, or never arrives.                   *)
Lose(r) ==
    /\ pc[r] \in Late
    /\ Go(r, "failed")
    /\ UNCHANGED <<clock, etags, lock, started, seen, faults>>

-----------------------------------------------------------------------------
Acquire(r) == PutIfAbsent(r) \/ ReadHolder(r) \/ Replace(r) \/ Verify(r)
Release(r) == ReleaseRead(r) \/ ReleaseDelete(r)
Fault(r)   == Abort(r) \/ Throw(r) \/ RepeatedWrite(r) \/ Land(r) \/ Lose(r)

LockNext ==
    \/ Tick
    \/ \E r \in Run : \/ Start(r)
                      \/ Acquire(r)
                      \/ Finish(r)
                      \/ Release(r)
                      \/ Fault(r)

LockSpec == LockInit /\ [][LockNext]_lockVars

(* A process that has started keeps taking steps until it ends or dies.    *)
LockFairness ==
    \A r \in Run : /\ WF_lockVars(Acquire(r))
                   /\ WF_lockVars(Finish(r))
                   /\ WF_lockVars(Release(r))

FairLockSpec == LockSpec /\ LockFairness

-----------------------------------------------------------------------------
(* Properties.                                                             *)

(* The clock, the owner, the control states and the fault count stay in    *)
(* their ranges: every request and every fault leaves a legal state.       *)
LockTypeOK ==
    /\ clock \in Nat
    /\ etags \in BOOLEAN
    /\ lock \in Run \cup {NoRun}
    /\ pc \in [Run -> {"idle"} \cup Live \cup Late \cup Ended]
    /\ started \in [Run -> Nat]
    /\ seen \in [Run -> Run \cup {NoRun}]
    /\ faults \in Nat

Unexpired(r) == clock < Expiry(r)

(* While its lock has not expired, a run inside the try block of           *)
(* publishMetricsArtifacts owns the lock object: nobody replaced it,       *)
(* removed it or overwrote it, whatever was lost, repeated or delayed.     *)
HolderOwnsLock ==
    \A r \in Run : (pc[r] \in Holding /\ Unexpired(r)) => lock = r

(* HolderOwnsLock together with what makes it inductive: clocks are read   *)
(* in the past, the lock belongs to a run that has started, and the lock a *)
(* run is about to replace, now or by a late request, is an expired one.   *)
(* Without ETags no lock is replaced, so that the lock a run is about to   *)
(* delete unconditionally is still its own.                                *)
LockInv ==
    /\ HolderOwnsLock
    /\ \A r \in Run : pc[r] # "idle" => started[r] <= clock
    /\ lock # NoRun => pc[lock] # "idle"
    /\ \A r \in Run : pc[r] \in {"replacing", "lateMatch"} =>
            /\ (seen[r] # NoRun) = etags
            /\ etags => pc[seen[r]] # "idle" /\ Expired(seen[r], r)
    /\ \A r \in Run : (pc[r] \in {"deleting", "lateDelete"} /\ ~etags) => lock = r

(* Two runs are inside the try block together only after the lock of one   *)
(* of them expired: the TTL is the whole of the overlap protection.        *)
OverlapNeedsExpiry ==
    \A q, r \in Run :
        (q # r /\ pc[q] = "critical" /\ pc[r] = "critical") =>
            ~Unexpired(q) \/ ~Unexpired(r)

(* A lock disappears or changes hands only by its owner's own delete or    *)
(* after it expired: the release of one run never removes the lock another *)
(* run has taken over in the meantime, and no take-over hits a fresh lock. *)
LockLostLegally ==
    (lock # NoRun /\ lock' # lock) =>
        \/ ~Unexpired(lock)
        \/ lock' = NoRun /\ pc[lock] \in {"deleting", "lateDelete"}

LockKeptUntilExpiry == [][LockLostLegally]_lockVars

(* docs/railway-metrics-api.md: "If a publish crashes, a later run can     *)
(* take over after the lock expires."  A run that starts after the expiry  *)
(* of a lock left by a dead run gets rid of that lock, unless it dies too  *)
(* or the store answers without ETags: such a lock is never replaced.      *)
Dead(r) == pc[r] \in Ended

StaleLockTakenOver ==
    \A h, r \in Run :
        (etags /\ pc[r] = "starting" /\ lock = h /\ Dead(h) /\ Expiry(h) <= started[r])
            ~> (lock # h \/ pc[r] \in Late \cup {"failed"})

(* No run waits for another: a started run ends, whatever the others do.   *)
RunsEnd == \A r \in Run : pc[r] \in Live ~> pc[r] \in Late \cup Ended
=============================================================================
