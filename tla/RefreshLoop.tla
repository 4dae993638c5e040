---------------------------- MODULE RefreshLoop ----------------------------
(***************************************************************************)
(* When the refresh thread ticks (core/idle.rs, and last_served of         *)
(* core/stats.rs).  The loop sleeps, reads the wall clock, asks            *)
(* should_tick, and ticks at full speed while requests come and once per   *)
(* IdleTick seconds while none do.  Decisions are made on wall-clock       *)
(* seconds, sleeping is on the monotonic clock.                            *)
(*                                                                         *)
(* Time is counted in half seconds, so that truncation to whole seconds    *)
(* and sub-second refresh times show.  What a tick does is in StatsHub.    *)
(***************************************************************************)
EXTENDS Integers

CONSTANTS
    Refresh,   \* refresh_secs, in half seconds
    IdleAfter, \* IDLE_AFTER_SECS
    IdleTick,  \* IDLE_TICK_SECS
    MaxTick,   \* bound: half seconds a tick takes, waiting for the lock included
    Late,      \* bound: half seconds a wake-up or a decision is late
    Epoch,     \* half seconds on the wall clock when the server starts
    Jumps,     \* bound: by how much the wall clock may be set at once
    MaxShift,  \* bound: how far from where it started it may be set altogether
    Horizon    \* bound: half seconds a run lasts

ASSUME RefreshAssumption ==
    /\ Refresh \in Nat \ {0}
    /\ {IdleAfter, IdleTick, MaxTick, Late, Epoch, MaxShift, Horizon} \subseteq Nat
    /\ Jumps \subseteq Int

VARIABLES
    now,          \* the monotonic clock
    offset,       \* wall clock minus monotonic clock
    pc,           \* the refresh thread: wake, decide, tick, sleep
    entered,      \* when it got there
    seen,         \* the seconds it read before deciding
    lastTick,     \* last_tick, wall-clock seconds
    lastServed,   \* stats.last_served, wall-clock seconds
    dataAt,       \* history: when the tick that made the current data began
    servedAt,     \* history: when the last request came
    watchedSince  \* history: when requests began to come without a long gap

vars == <<now, offset, pc, entered, seen, lastTick, lastServed, dataAt,
          servedAt, watchedSince>>

-----------------------------------------------------------------------------
(* The decision.                                                           *)

AtLeast(a, b) == IF a >= b THEN a ELSE b

\* u64::saturating_sub.
SatSub(a, b) == AtLeast(a - b, 0)

\* unix_now(): whole seconds, and 0 before the epoch.
UnixNow == AtLeast((now + offset) \div 2, 0)

\* Fault form: the cast rounds up.
WatchedTickRoundsUp == (AtLeast(Refresh, 2) + 1) \div 2

\* refresh_secs.max(1.0) as u64.
WatchedTick == AtLeast(Refresh, 2) \div 2

ShouldTick(n, served, last) ==
    IF SatSub(n, served) <= IdleAfter
    THEN SatSub(n, last) >= WatchedTick
    ELSE SatSub(n, last) >= IdleTick

-----------------------------------------------------------------------------

\* GlancesStats::new stamps last_served; the loop starts as if the last tick
\* were a full heartbeat ago.
Init ==
    /\ now = 0
    /\ offset = Epoch
    /\ pc = "wake"
    /\ entered = 0
    /\ seen = 0
    /\ lastTick = SatSub(UnixNow, IdleTick)
    /\ lastServed = UnixNow
    /\ dataAt = 0
    /\ servedAt = 0
    /\ watchedSince = 0

\* How long the thread may stay where it is.
Patience ==
    CASE pc = "sleep" -> Refresh + Late
      [] pc = "tick" -> MaxTick
      [] OTHER -> Late

\* Half a second passes.
Advance ==
    /\ now < Horizon
    /\ now - entered < Patience
    /\ now' = now + 1
    /\ UNCHANGED <<offset, pc, entered, seen, lastTick, lastServed, dataAt,
                   servedAt, watchedSince>>

\* The wall clock is set.
SetClock ==
    /\ \E j \in Jumps :
           /\ offset + j \in Epoch - MaxShift..Epoch + MaxShift
           /\ offset' = offset + j
    /\ UNCHANGED <<now, pc, entered, seen, lastTick, lastServed, dataAt,
                   servedAt, watchedSince>>

\* let now = unix_now()
ReadClock ==
    /\ pc = "wake"
    /\ seen' = UnixNow
    /\ pc' = "decide"
    /\ UNCHANGED <<now, offset, entered, lastTick, lastServed, dataAt,
                   servedAt, watchedSince>>

\* last_served is loaded after the clock was read.
Decide ==
    /\ pc = "decide"
    /\ pc' = IF ShouldTick(seen, lastServed, lastTick) THEN "tick" ELSE "sleep"
    /\ entered' = now
    /\ UNCHANGED <<now, offset, seen, lastTick, lastServed, dataAt, servedAt,
                   watchedSince>>

\* stats.update() returns; last_tick is the time after it.
FinishTick ==
    /\ pc = "tick"
    /\ lastTick' = UnixNow
    /\ dataAt' = entered
    /\ pc' = "sleep"
    /\ entered' = now
    /\ UNCHANGED <<now, offset, seen, lastServed, servedAt, watchedSince>>

\* thread::sleep returns, no sooner than asked.
WakeUp ==
    /\ pc = "sleep"
    /\ now - entered >= Refresh
    /\ pc' = "wake"
    /\ entered' = now
    /\ UNCHANGED <<now, offset, seen, lastTick, lastServed, dataAt, servedAt,
                   watchedSince>>

\* A connection thread has parsed a request: mark_served.
MarkServed ==
    /\ lastServed' = UnixNow
    /\ servedAt' = now
    /\ watchedSince' = IF now - servedAt <= 2 * IdleAfter THEN watchedSince ELSE now
    /\ UNCHANGED <<now, offset, pc, entered, seen, lastTick, dataAt>>

Next ==
    \/ Advance \/ SetClock
    \/ ReadClock \/ Decide \/ FinishTick \/ WakeUp
    \/ MarkServed

Spec == Init /\ [][Next]_vars

-----------------------------------------------------------------------------
(* Properties.                                                             *)

\* The types of the variables.
TypeOK ==
    /\ {now, entered, seen, lastTick, lastServed, dataAt, servedAt,
        watchedSince} \subseteq Nat
    /\ offset \in Int
    /\ pc \in {"wake", "decide", "tick", "sleep"}

\* The longest should_tick can put a tick off, in seconds.
Heartbeat == AtLeast(IdleTick, WatchedTick)

\* Data is never older than a heartbeat, a sleep and the ticks and delays
\* around them, whether anybody asks for it or not: the truncation of both
\* clocks to seconds, the sleep that starts anew after each tick, a wall clock
\* set forward, and requests that come and stop at any moment never make the
\* loop skip a heartbeat.
DataAge ==
    now - dataAt <= 2 * Heartbeat - 1 + Refresh + 2 * MaxTick + 3 * Late

\* The longest the data gets at full speed: a sleep with its delays, or two
\* when the refresh time is below should_tick's second, between two ticks.
Turn ==
    (IF Refresh < 2 THEN 2 ELSE 1) * (Refresh + 2 * Late) + 2 * MaxTick

\* Requests have come without a gap of more than IdleAfter for a turn.
Watched == now - watchedSince >= Turn /\ now - servedAt <= 2 * IdleAfter

\* While requests come without a gap of more than IdleAfter, data is at most
\* one turn old from one turn after the first request on, as long as nobody
\* sets the wall clock ("the loop notices the traffic and is back to full
\* speed within one refresh interval", core/idle.rs:12-14).
WatchedFresh == offset = Epoch /\ Watched => now - dataAt <= Turn

\* core/idle.rs:25-26: "callers use saturating math so time jumps are safe":
\* whatever the wall clock is set to, watched data stays fresh.
TimeJumpsSafe == Watched => now - dataAt <= Turn
=============================================================================
