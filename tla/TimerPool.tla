----------------------------- MODULE TimerPool -----------------------------
(***************************************************************************)
(* Timers and their pool (src/common/time).  The pool holds one entry per  *)
(* started timer; a timer remembers the index of its entry.  Stopping a    *)
(* timer only sets the "dead" bit of its entry, which the next cycle       *)
(* removes by moving the last entry into its place.  Callbacks, and the    *)
(* Lua scripts they run, may create, stop, restart, delay, trigger and     *)
(* destroy any timer.                                                      *)
(***************************************************************************)
EXTENDS Integers, Sequences

CONSTANTS
    Timers,         \* the Timer objects that may be allocated
    Period,         \* periodMilliseconds of each timer
    MaxTime,        \* bound on the clock
    MaxDue,         \* bound on a trigger time that timer_delay sets
    MaxEntries      \* bound on the entries of the pool

ASSUME TimerAssumption ==
    /\ Period \in Nat \ {0}
    /\ MaxTime \in Nat
    /\ MaxDue \in Nat
    /\ MaxEntries \in Nat

INVALID_INDEX == 0

VARIABLES
    now,            \* clock_milliseconds
    pool,           \* triggerTimes and timerObjects: entries [timer, due, dead]
    poolIndex,      \* Timer.poolIndex
    exists,         \* the timers that are allocated
    freed,          \* the timers whose memory was freed
    phase, at,          \* where timer_pool_execute_callbacks is, and its index
    curTime,        \* its local: the time at which the cycle began
    triggered,      \* the indices of the entries that are due in this cycle
    stale,          \* history: a dead entry was moved, and with it poolIndex
    forced          \* history: the timers forced to trigger and not stopped since

timerVars == <<poolIndex, exists, freed>>
cycleVars == <<phase, at, curTime, triggered>>
poolVars == <<now, pool, timerVars, cycleVars, stale, forced>>

Entry == [timer : Timers, due : Nat, dead : BOOLEAN]

PoolInit ==
    /\ now = 0 /\ pool = <<>>
    /\ poolIndex = [t \in Timers |-> INVALID_INDEX]
    /\ exists = {} /\ freed = {}
    /\ phase = "idle" /\ at = 1 /\ curTime = 0 /\ triggered = <<>>
    /\ stale = FALSE /\ forced = {}

Tick ==
    /\ now < MaxTime
    /\ now' = now + 1
    /\ UNCHANGED <<pool, timerVars, cycleVars, stale, forced>>

-----------------------------------------------------------------------------
(* Operations on a timer, from the main loop or from a callback *)

MayCall == phase \in {"idle", "callback"}

\* timer_pool_internal_start_timer
StartEntry(t, due) ==
    /\ Len(pool) < MaxEntries
    /\ pool' = Append(pool, [timer |-> t, due |-> due, dead |-> FALSE])
    /\ poolIndex' = [poolIndex EXCEPT ![t] = Len(pool) + 1]

\* A write to triggerTimes[k].  An index beyond the count still lies in the
\* allocated arrays, and nothing reads what is written there.
SetDue(k, due) ==
    pool' = IF k \in DOMAIN pool THEN [pool EXCEPT ![k].due = due, ![k].dead = FALSE] ELSE pool

\* timer_pool_internal_mark_timer_as_dead
MarkDead(k) == pool' = IF k \in DOMAIN pool THEN [pool EXCEPT ![k].dead = TRUE] ELSE pool

\* timer_init, eqp_timer_create, zc_lua_timer_create
Create(t, start) ==
    /\ MayCall
    /\ t \notin exists \cup freed
    /\ exists' = exists \cup {t}
    /\ IF start THEN StartEntry(t, now + Period) ELSE UNCHANGED <<pool, poolIndex>>
    /\ UNCHANGED <<now, freed, cycleVars, stale, forced>>

\* timer_stop without its guard and effects on the memory of the timer
StopEntry(t) ==
    /\ poolIndex' = [poolIndex EXCEPT ![t] = INVALID_INDEX]
    /\ IF poolIndex[t] = INVALID_INDEX THEN UNCHANGED pool ELSE MarkDead(poolIndex[t])
    /\ forced' = forced \ {t}

Stop(t) ==
    /\ MayCall
    /\ t \in exists
    /\ StopEntry(t)
    /\ UNCHANGED <<now, exists, freed, cycleVars, stale>>

\* timer_destroy, zc_lua_timer_destroy
Destroy(t) ==
    /\ MayCall
    /\ t \in exists
    /\ StopEntry(t)
    /\ exists' = exists \ {t}
    /\ freed' = freed \cup {t}
    /\ UNCHANGED <<now, cycleVars, stale>>

\* timer_restart
Restart(t) ==
    /\ MayCall
    /\ t \in exists
    /\ \/ poolIndex[t] = INVALID_INDEX /\ StartEntry(t, now + Period)
       \/ poolIndex[t] # INVALID_INDEX /\ SetDue(poolIndex[t], now + Period) /\ UNCHANGED poolIndex
    /\ UNCHANGED <<now, exists, freed, cycleVars, stale, forced>>

\* timer_delay: the dead bit, if it is set, stays
Delay(t) ==
    /\ MayCall
    /\ t \in exists
    /\ poolIndex[t] \in DOMAIN pool
    /\ pool[poolIndex[t]].due < MaxDue
    /\ pool' = [pool EXCEPT ![poolIndex[t]].due = @ + 1]
    /\ UNCHANGED <<now, timerVars, cycleVars, stale, forced>>

\* timer_force_trigger_on_next_cycle
ForceTrigger(t) ==
    /\ MayCall
    /\ t \in exists
    /\ \/ poolIndex[t] = INVALID_INDEX /\ StartEntry(t, now)
       \/ poolIndex[t] # INVALID_INDEX /\ SetDue(poolIndex[t], now) /\ UNCHANGED poolIndex
    /\ forced' = forced \cup {t}
    /\ UNCHANGED <<now, exists, freed, cycleVars, stale>>

-----------------------------------------------------------------------------
(* timer_pool_execute_callbacks *)

BeginCycle ==
    /\ phase = "idle"
    /\ curTime' = now
    /\ phase' = "sweep"
    /\ UNCHANGED <<now, pool, timerVars, at, triggered, stale, forced>>

\* Mutant: the entry that was moved into its place is not looked at.
SweepDead_Skip ==
    /\ phase = "sweep"
    /\ at \in DOMAIN pool /\ pool[at].dead
    /\ LET n == Len(pool)
           moved == pool[n].timer IN
         /\ pool' = SubSeq([pool EXCEPT ![at] = pool[n]], 1, n - 1)
         /\ poolIndex' = IF at # n /\ moved \notin freed THEN [poolIndex EXCEPT ![moved] = at] ELSE poolIndex
         /\ stale' = (stale \/ (at # n /\ pool[n].dead))
         /\ phase' = IF at # n /\ moved \in freed THEN "undefined" ELSE phase
    /\ at' = at + 1
    /\ UNCHANGED <<now, exists, freed, curTime, triggered, forced>>

\* Mutant: swap_and_pop does not tell the moved timer its new index.
SweepDead_NoIndex ==
    /\ phase = "sweep"
    /\ at \in DOMAIN pool /\ pool[at].dead
    /\ LET n == Len(pool)
           moved == pool[n].timer IN
         /\ pool' = SubSeq([pool EXCEPT ![at] = pool[n]], 1, n - 1)
         /\ stale' = (stale \/ (at # n /\ pool[n].dead))
         /\ phase' = IF at # n /\ moved \in freed THEN "undefined" ELSE phase
    /\ UNCHANGED <<now, timerVars, at, curTime, triggered, forced>>

\* timer_pool_swap_and_pop writes poolIndex of the timer whose entry it moves,
\* whether that entry is dead or not and whether the timer still exists or not.
SweepDead ==
    /\ phase = "sweep"
    /\ at \in DOMAIN pool /\ pool[at].dead
    /\ LET n == Len(pool)
           moved == pool[n].timer IN
         /\ pool' = SubSeq([pool EXCEPT ![at] = pool[n]], 1, n - 1)
         /\ poolIndex' = IF at # n /\ moved \notin freed THEN [poolIndex EXCEPT ![moved] = at] ELSE poolIndex
         /\ stale' = (stale \/ (at # n /\ pool[n].dead))
         /\ phase' = IF at # n /\ moved \in freed THEN "undefined" ELSE phase
    /\ UNCHANGED <<now, exists, freed, at, curTime, triggered, forced>>

SweepLive ==
    /\ phase = "sweep"
    /\ at \in DOMAIN pool /\ ~pool[at].dead
    /\ triggered' = IF curTime >= pool[at].due THEN Append(triggered, at) ELSE triggered
    /\ at' = at + 1
    /\ UNCHANGED <<now, pool, timerVars, phase, curTime, stale, forced>>

EndSweep ==
    /\ phase = "sweep"
    /\ at \notin DOMAIN pool
    /\ at' = 1
    /\ phase' = "trigger"
    /\ UNCHANGED <<now, pool, timerVars, curTime, triggered, stale, forced>>

\* timer_pool_trigger.  An earlier callback of the cycle may have stopped the
\* timer, which is called all the same, or destroyed it.
TriggerTimer ==
    /\ phase = "trigger"
    /\ at <= Len(triggered)
    /\ LET e == pool[triggered[at]] IN
         IF e.timer \in freed
           THEN phase' = "undefined" /\ UNCHANGED <<pool, forced>>
           ELSE /\ phase' = "callback"
                /\ pool' = [pool EXCEPT ![triggered[at]].due = @ + Period]
                /\ forced' = forced \ {e.timer}
    /\ UNCHANGED <<now, timerVars, at, curTime, triggered, stale>>

CallbackReturns ==
    /\ phase = "callback"
    /\ at' = at + 1
    /\ phase' = "trigger"
    /\ UNCHANGED <<now, pool, timerVars, curTime, triggered, stale, forced>>

EndCycle ==
    /\ phase = "trigger"
    /\ at > Len(triggered)
    /\ triggered' = <<>>
    /\ at' = 1 /\ curTime' = 0
    /\ phase' = "idle"
    /\ UNCHANGED <<now, pool, timerVars, stale, forced>>

-----------------------------------------------------------------------------

Cycle ==
    \/ BeginCycle \/ SweepDead \/ SweepLive \/ EndSweep
    \/ TriggerTimer \/ CallbackReturns \/ EndCycle

Operation(t) ==
    \/ \E start \in BOOLEAN : Create(t, start)
    \/ Stop(t) \/ Destroy(t) \/ Restart(t) \/ Delay(t) \/ ForceTrigger(t)

PoolNext == Tick \/ Cycle \/ \E t \in Timers : Operation(t)

PoolSpec == PoolInit /\ [][PoolNext]_poolVars

\* The main loops call timer_pool_execute_callbacks on every turn, and callbacks return.
PoolFairSpec == PoolSpec /\ WF_poolVars(Cycle)

-----------------------------------------------------------------------------
(* Properties *)

Live(k, t) == pool[k].timer = t /\ ~pool[k].dead

\* As long as no dead entry has been moved, a timer's poolIndex and the pool
\* agree: a started timer has one live entry, at its index, and a stopped or
\* destroyed one has none.  Otherwise stopping or restarting a timer would
\* change the entry of another one.  A timer that was forced, and neither
\* stopped nor called since, is started, as the comment on
\* timer_force_trigger_on_next_cycle promises.
IndexInv ==
    /\ pool \in Seq(Entry)
    /\ ~stale /\ phase # "undefined" => \A t \in Timers :
           /\ \A k \in DOMAIN pool : Live(k, t) <=> (poolIndex[t] = k /\ t \in exists)
           /\ t \in forced => \E k \in DOMAIN pool : Live(k, t)

LiveDue(t) == \E k \in DOMAIN pool : Live(k, t) /\ pool[k].due <= now

Running(t) == phase = "callback" /\ pool[triggered[at]].timer = t

\* A timer that is due is called, unless it is stopped or put off first,
\* whatever the callbacks before it do to the other timers.
DueRuns == \A t \in Timers : LiveDue(t) ~> (Running(t) \/ ~LiveDue(t) \/ phase = "undefined")
=============================================================================
