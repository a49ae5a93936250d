--------------------------- MODULE DistributedLock ---------------------------
(***************************************************************************)
(* The Redis lock of cmx-buffer: SET NX EX, release and renewal by a Lua   *)
(* comparison of the lock value, and a watchdog that renews the lock of a  *)
(* guard without a lease.  One key; the keys do not meet.                  *)
(*                                                                         *)
(* A guard stands for one call of lock() or try_lock(), and its name for   *)
(* the UUID it stores.  Time goes in seconds, the unit Redis is given.     *)
(* What a guard asks of Redis is one step; an answer may fail, before or   *)
(* after the command has been executed.                                    *)
(***************************************************************************)
EXTENDS Naturals, TLAPS

CONSTANTS
  Guards, NoGuard,
  Expire,      \* LockConfig.expire_seconds
  Threshold,   \* expire_seconds * renew_threshold, rounded down
  Leases,      \* lease_time of some callers, in whole seconds
  NoLease,     \* lease_time = None
  Extensions,  \* durations given to extend(), in whole seconds
  MaxWait,     \* bound: the longest wait_time
  MaxErrors    \* bound: answers of Redis that fail

ASSUME LockAssumption ==
  /\ NoGuard \notin Guards
  /\ Expire \in Nat \ {0, 1}
  /\ Threshold \in Nat
  /\ Leases \subseteq Nat
  /\ NoLease \notin Nat
  /\ Extensions \subseteq Nat
  /\ MaxWait \in Nat
  /\ MaxErrors \in Nat

Forever == MaxWait + 1

Interval == Expire \div 2

VARIABLES
  holder,  \* the value under the lock key
  ttl,     \* its remaining seconds
  call,    \* what the caller of a guard is doing
  lease,   \* its lease_time
  wait,    \* seconds it still waits, or Forever
  dog,     \* its watchdog
  timer,   \* seconds the watchdog still sleeps
  errors

redis    == <<holder, ttl>>
caller   == <<call, lease, wait>>
watchdog == <<dog, timer>>
vars == <<redis, caller, watchdog, errors>>

Call == {"idle", "trying", "held", "unlocking", "over"}

TypeOK ==
  /\ holder \in Guards \cup {NoGuard}
  /\ ttl \in Nat
  /\ holder = NoGuard <=> ttl = 0
  /\ call \in [Guards -> Call]
  /\ lease \in [Guards -> Leases \cup {NoLease}]
  /\ wait \in [Guards -> 0..Forever]
  /\ dog \in [Guards -> {"off", "asleep", "check", "renew"}]
  /\ timer \in [Guards -> 0..Interval]
  /\ errors \in 0..MaxErrors

-----------------------------------------------------------------------------
(* Helpers.                                                                *)

Fails == errors < MaxErrors /\ errors' = errors + 1

Becomes(g, s) == call' = [call EXCEPT ![g] = s]

\* The key lives for d seconds; EXPIRE with 0 deletes it.
Keep(g, d) ==
  /\ ttl' = d
  /\ holder' = IF d = 0 THEN NoGuard ELSE g

Delete == holder' = NoGuard /\ ttl' = 0

Sleep(g) ==
  /\ dog' = [dog EXCEPT ![g] = "asleep"]
  /\ timer' = [timer EXCEPT ![g] = Interval]

Rest(g) == dog' = [dog EXCEPT ![g] = "off"] /\ UNCHANGED timer

\* Mutant: without a lease the key gets no lifetime of its own.
NoLifetime(g) == IF lease[g] = NoLease THEN 0 ELSE lease[g]

Lifetime(g) == IF lease[g] = NoLease THEN Expire ELSE lease[g]

-----------------------------------------------------------------------------
(* lock, try_lock and their variants with options.                         *)

\* lock() waits forever, try_lock() not at all.
Ask(g) ==
  /\ call[g] = "idle"
  /\ \E l \in Leases \cup {NoLease}, w \in 0..Forever :
       lease' = [lease EXCEPT ![g] = l] /\ wait' = [wait EXCEPT ![g] = w]
  /\ Becomes(g, "trying")
  /\ UNCHANGED <<redis, watchdog, errors>>

\* SET NX EX succeeds and a guard without a lease gets its watchdog.
Acquire(g) ==
  /\ call[g] = "trying" /\ holder = NoGuard
  /\ lease[g] # 0
  /\ holder' = g /\ ttl' = Lifetime(g)
  /\ Becomes(g, "held")
  /\ IF lease[g] = NoLease THEN Sleep(g) ELSE UNCHANGED watchdog
  /\ UNCHANGED <<lease, wait, errors>>

\* Redis refuses EX 0, which a lease below a second becomes.
Refused(g) ==
  /\ call[g] = "trying" /\ lease[g] = 0
  /\ Becomes(g, "over")
  /\ UNCHANGED <<redis, lease, wait, watchdog, errors>>

\* The lock is taken and the time is up; before that the loop tries again.
GiveUp(g) ==
  /\ call[g] = "trying" /\ holder # NoGuard /\ wait[g] = 0
  /\ Becomes(g, "over")
  /\ UNCHANGED <<redis, lease, wait, watchdog, errors>>

\* The answer to SET fails: the caller has no guard, Redis perhaps a key.
AskFails(g) ==
  /\ call[g] = "trying" /\ Fails
  /\ Becomes(g, "over")
  /\ \/ UNCHANGED redis
     \/ holder = NoGuard /\ lease[g] # 0 /\ holder' = g /\ ttl' = Lifetime(g)
  /\ UNCHANGED <<lease, wait, watchdog>>

-----------------------------------------------------------------------------
(* The guard: extend, unlock and drop.                                     *)

\* Answers an error, which changes nothing, when the value is another one.
Extend(g) ==
  /\ call[g] = "held" /\ holder = g
  /\ \E d \in Extensions : Keep(g, d)
  /\ UNCHANGED <<caller, watchdog, errors>>

\* unlock() and drop set the flag; the script follows, after a drop in a
\* task of its own.
Release(g) ==
  /\ call[g] = "held"
  /\ Becomes(g, "unlocking")
  /\ UNCHANGED <<redis, lease, wait, watchdog, errors>>

\* Mutant: DEL without a look at the value.
UnlockBlind(g) ==
  /\ call[g] = "unlocking"
  /\ Becomes(g, "over")
  /\ Delete
  /\ UNCHANGED <<lease, wait, watchdog, errors>>

Unlock(g) ==
  /\ call[g] = "unlocking"
  /\ Becomes(g, "over")
  /\ IF holder = g THEN Delete ELSE UNCHANGED redis
  /\ UNCHANGED <<lease, wait, watchdog, errors>>

UnlockFails(g) ==
  /\ call[g] = "unlocking" /\ Fails
  /\ Becomes(g, "over")
  /\ IF holder = g THEN Delete \/ UNCHANGED redis ELSE UNCHANGED redis
  /\ UNCHANGED <<lease, wait, watchdog>>

\* The process of the guard ends.
Crash(g) ==
  /\ call[g] \in {"trying", "held", "unlocking"}
  /\ Becomes(g, "over")
  /\ Rest(g)
  /\ UNCHANGED <<redis, lease, wait, errors>>

-----------------------------------------------------------------------------
(* start_auto_renew_task.                                                  *)

\* Mutant: the flag is not looked at again after the sleep.
DogWakeUnchecked(g) ==
  /\ dog[g] = "asleep" /\ timer[g] = 0
  /\ dog' = [dog EXCEPT ![g] = "check"]
  /\ UNCHANGED <<timer, redis, caller, errors>>

DogWake(g) ==
  /\ dog[g] = "asleep" /\ timer[g] = 0
  /\ dog' = [dog EXCEPT ![g] = IF call[g] = "held" THEN "check" ELSE "off"]
  /\ UNCHANGED <<timer, redis, caller, errors>>

\* TTL of the key, whoever holds it.
DogCheck(g) ==
  /\ dog[g] = "check"
  /\ \/ holder = NoGuard /\ Rest(g)
     \/ /\ holder # NoGuard /\ ttl < Threshold
        /\ dog' = [dog EXCEPT ![g] = "renew"] /\ UNCHANGED timer
     \/ holder # NoGuard /\ ttl >= Threshold /\ Sleep(g)
  /\ UNCHANGED <<redis, caller, errors>>

\* Mutant: the renewal stores the value again (SET ... EX).
DogRenewBySet(g) ==
  /\ dog[g] = "renew"
  /\ Keep(g, Expire)
  /\ Sleep(g)
  /\ UNCHANGED <<caller, errors>>

DogRenew(g) ==
  /\ dog[g] = "renew"
  /\ IF holder = g THEN Keep(g, Expire) ELSE UNCHANGED redis
  /\ Sleep(g)
  /\ UNCHANGED <<caller, errors>>

\* One failed answer ends the watchdog for good, also that to a renewal that
\* has been executed.
DogFails(g) ==
  /\ dog[g] \in {"check", "renew"} /\ Fails
  /\ Rest(g)
  /\ \/ UNCHANGED redis
     \/ dog[g] = "renew" /\ holder = g /\ Keep(g, Expire)
  /\ UNCHANGED caller

\* A second passes.  A watchdog whose sleep is over is run before the next
\* one does, so whoever is late it is not the machine.
Due(g) == dog[g] \in {"check", "renew"} \/ (dog[g] = "asleep" /\ timer[g] = 0)

Tick ==
  /\ \A g \in Guards : ~Due(g)
  /\ IF ttl > 1 THEN Keep(holder, ttl - 1) ELSE Delete
  /\ timer' = [g \in Guards |-> IF dog[g] = "asleep" THEN timer[g] - 1 ELSE timer[g]]
  /\ wait' = [g \in Guards |->
               IF call[g] = "trying" /\ wait[g] \in 1..MaxWait
               THEN wait[g] - 1 ELSE wait[g]]
  /\ UNCHANGED <<call, lease, dog, errors>>

-----------------------------------------------------------------------------
Init ==
  /\ holder = NoGuard
  /\ ttl = 0
  /\ call = [g \in Guards |-> "idle"]
  /\ lease = [g \in Guards |-> NoLease]
  /\ wait = [g \in Guards |-> 0]
  /\ dog = [g \in Guards |-> "off"]
  /\ timer = [g \in Guards |-> 0]
  /\ errors = 0

AskNext(g) == Ask(g) \/ Acquire(g) \/ Refused(g) \/ GiveUp(g) \/ AskFails(g)

GuardNext(g) == Extend(g) \/ Release(g) \/ Unlock(g) \/ UnlockFails(g) \/ Crash(g)

DogNext(g) == DogWake(g) \/ DogCheck(g) \/ DogRenew(g) \/ DogFails(g)

Next ==
  \/ \E g \in Guards : AskNext(g) \/ GuardNext(g) \/ DogNext(g)
  \/ Tick

Spec == Init /\ [][Next]_vars

\* Time passes and a watchdog that is due runs.  Nothing is asked of the
\* callers, and not even that an unlock reaches Redis.
Fairness ==
  /\ WF_vars(Tick)
  /\ \A g \in Guards : WF_vars(DogNext(g))

FairSpec == Spec /\ Fairness

-----------------------------------------------------------------------------
(* Properties.                                                             *)

\* A guard that has lost its lock never gets it back, whoever holds the key
\* when its watchdog wakes up or its owner extends: what a caller has found
\* out about the loss stays true.
LostStaysLost ==
  [][\A g \in Guards :
       call[g] \notin {"idle", "trying"} /\ holder # g => holder' # g]_vars

\* A lock that is not about to expire goes only by an unlock of its own
\* guard: neither a late unlock nor a watchdog of another guard touches it.
OnlyOwnRelease ==
  [][\A g \in Guards :
       holder = g /\ ttl > 1 /\ holder' # g => call[g] = "unlocking"]_vars

\* A lock whose guard is gone (crashed, unlock failed, answer to SET lost)
\* does not stay: no watchdog keeps it alive.
LeftLockExpires ==
  \A g \in Guards : holder = g /\ call[g] = "over" ~> holder # g

\* What manager.rs:14 says and the shipped configuration does not meet: "with
\* lease_time = None the lock does not expire until it is released".  The
\* watchdog wakes when half of the lifetime is left and again when nothing is,
\* and 30% as the threshold lies between the two.
LockLasts ==
  errors = 0 => \A g \in Guards : call[g] = "held" /\ lease[g] = NoLease => holder = g

-----------------------------------------------------------------------------
(* Theorems, for every set of guards, configuration and number of failed   *)
(* answers.                                                                *)

\* The watchdog sleeps for a time between zero and the lifetime of the key.
LEMMA IntervalBound == Interval \in Nat /\ Interval > 0 /\ Interval < Expire
BY LockAssumption DEF Interval

\* Every step keeps the types, the key's value and its lifetime together.
LEMMA TypeStep == TypeOK /\ [Next]_vars => TypeOK'
<1> SUFFICES ASSUME TypeOK, [Next]_vars PROVE TypeOK'
  OBVIOUS
<1> USE LockAssumption, IntervalBound DEF TypeOK, Call, Forever, redis, caller, watchdog,
        Becomes, Keep, Delete, Sleep, Rest, Fails, Lifetime
<1>1. ASSUME NEW g \in Guards, AskNext(g) PROVE TypeOK'
  <2>1. CASE Ask(g) \/ Refused(g) \/ GiveUp(g)
    BY <2>1 DEF Ask, Refused, GiveUp
  <2>2. CASE Acquire(g) BY <2>2 DEF Acquire
  <2>3. CASE AskFails(g)
    <3>1. /\ holder' \in Guards \cup {NoGuard} /\ ttl' \in Nat
          /\ holder' = NoGuard <=> ttl' = 0
      BY <2>3 DEF AskFails
    <3>2. errors' \in 0..MaxErrors
      BY <2>3 DEF AskFails
    <3> QED BY <2>3, <3>1, <3>2 DEF AskFails
  <2> QED BY <1>1, <2>1, <2>2, <2>3 DEF AskNext
<1>2. ASSUME NEW g \in Guards, GuardNext(g) PROVE TypeOK'
  <2>1. CASE Extend(g) BY <2>1 DEF Extend
  <2>2. CASE Release(g) \/ Crash(g) BY <2>2 DEF Release, Crash
  <2>3. CASE Unlock(g) \/ UnlockFails(g) BY <2>3 DEF Unlock, UnlockFails
  <2> QED BY <1>2, <2>1, <2>2, <2>3 DEF GuardNext
<1>3. ASSUME NEW g \in Guards, DogNext(g) PROVE TypeOK'
  <2>1. CASE DogWake(g) BY <2>1 DEF DogWake
  <2>2. CASE DogCheck(g) BY <2>2 DEF DogCheck
  <2>3. CASE DogRenew(g) BY <2>3 DEF DogRenew
  <2>4. CASE DogFails(g) BY <2>4 DEF DogFails
  <2> QED BY <1>3, <2>1, <2>2, <2>3, <2>4 DEF DogNext
<1>4. CASE Tick
  <2>1. timer' \in [Guards -> 0..Interval]
    BY <1>4 DEF Tick, Due
  <2>2. wait' \in [Guards -> 0..Forever]
    BY <1>4 DEF Tick
  <2> QED BY <1>4, <2>1, <2>2 DEF Tick
<1>5. CASE UNCHANGED vars BY <1>5 DEF vars
<1> QED BY <1>1, <1>2, <1>3, <1>4, <1>5 DEF Next

\* The types of the lock, and that a key in Redis always has a lifetime.
THEOREM TypeCorrectness == Spec => []TypeOK
<1>1. Init => TypeOK
  BY LockAssumption, IntervalBound DEF Init, TypeOK, Call, Forever
<1> QED BY <1>1, TypeStep, PTL DEF Spec

\* What the caller of a guard has lost, neither its watchdog nor an extension
\* brings back, for any configuration and any failed answers.
THEOREM LostForGood == Spec => LostStaysLost
<1>1. ASSUME [Next]_vars, NEW g \in Guards, call[g] \notin {"idle", "trying"}, holder # g,
             TypeOK
      PROVE  holder' # g
  <2> USE <1>1, LockAssumption DEF TypeOK, redis, caller, watchdog, Keep, Delete
  <2>1. CASE \E h \in Guards : AskNext(h)
    BY <2>1 DEF AskNext, Ask, Acquire, Refused, GiveUp, AskFails
  <2>2. CASE \E h \in Guards : GuardNext(h)
    BY <2>2 DEF GuardNext, Extend, Release, Unlock, UnlockFails, Crash
  <2>3. CASE \E h \in Guards : DogNext(h)
    BY <2>3 DEF DogNext, DogWake, DogCheck, DogRenew, DogFails
  <2>4. CASE Tick BY <2>4 DEF Tick
  <2>5. CASE UNCHANGED vars BY <2>5 DEF vars
  <2> QED BY <2>1, <2>2, <2>3, <2>4, <2>5 DEF Next
<1>2. TypeOK /\ [Next]_vars =>
        [\A g \in Guards :
           call[g] \notin {"idle", "trying"} /\ holder # g => holder' # g]_vars
  BY <1>1
<1> QED BY <1>2, TypeCorrectness, PTL DEF Spec, LostStaysLost

\* The comparison of the value protects the lock of another guard, failed
\* answers and crashes included, whatever the threshold.  Only an extension
\* of less than a second takes a lock away from a guard that holds it.
THEOREM OwnReleaseOnly ==
  ASSUME 0 \notin Extensions
  PROVE  Spec => OnlyOwnRelease
<1>1. ASSUME TypeOK, [Next]_vars, NEW g \in Guards, holder = g, ttl > 1, holder' # g
      PROVE  call[g] = "unlocking"
  <2> USE <1>1, LockAssumption, IntervalBound DEF TypeOK, redis, caller, watchdog,
          Keep, Delete
  <2>1. CASE \E h \in Guards : AskNext(h)
    BY <2>1 DEF AskNext, Ask, Acquire, Refused, GiveUp, AskFails
  <2>2. CASE \E h \in Guards : GuardNext(h)
    BY <2>2 DEF GuardNext, Extend, Release, Unlock, UnlockFails, Crash
  <2>3. CASE \E h \in Guards : DogNext(h)
    BY <2>3 DEF DogNext, DogWake, DogCheck, DogRenew, DogFails
  <2>4. CASE Tick BY <2>4 DEF Tick
  <2>5. CASE UNCHANGED vars BY <2>5 DEF vars
  <2> QED BY <2>1, <2>2, <2>3, <2>4, <2>5 DEF Next
<1>2. TypeOK /\ [Next]_vars =>
        [\A g \in Guards :
           holder = g /\ ttl > 1 /\ holder' # g => call[g] = "unlocking"]_vars
  BY <1>1
<1> QED BY <1>2, TypeCorrectness, PTL DEF Spec, OnlyOwnRelease
=============================================================================
