------------------------- MODULE RefreshLoopProofs -------------------------
(***************************************************************************)
(* How old the data may be, for every refresh time, heartbeat, tick        *)
(* duration and delay, on a wall clock that is only set forward.           *)
(*                                                                         *)
(* DataAge says nothing of the decision, so it is not inductive.  AgeInv   *)
(* bounds, at each point of the loop, how long before that point the tick  *)
(* of the current data began; the decision keeps it because what it reads  *)
(* is tied to real time twice: last_tick is not after the end of that tick *)
(* (LastTickInv), and the seconds between last_tick and the clock it read  *)
(* are at most one short of the time between them (SeenInv).               *)
(*                                                                         *)
(* WatchedFresh is about requests as well.  While they come, either the    *)
(* data is as recent as where the thread is allows, or the thread is still *)
(* catching up with the first request of the watch (FreshInv): a decision  *)
(* that sees the requests leaves the data alone only when it is not due.   *)
(***************************************************************************)
EXTENDS RefreshLoop, TLAPS

\* The thread is where it is for no longer than it may.
PaceInv == entered <= now /\ now - entered <= Patience

\* On the wall clock, last_tick is not later than the tick's end.
LastTickInv == 2 * lastTick <= dataAt + MaxTick + offset

\* The seconds the decision sees miss at most the truncation.
SeenInv ==
    pc = "decide" => entered - dataAt - MaxTick <= 2 * (seen - lastTick) + 1

\* How old the data may be when the thread gets where it is.
AgeBound ==
    CASE pc = "sleep" -> 2 * Heartbeat - 1 + MaxTick + Late
      [] pc = "tick" -> 2 * Heartbeat - 1 + MaxTick + Refresh + 3 * Late
      [] OTHER -> 2 * Heartbeat - 1 + MaxTick + Refresh + 2 * Late

AgeInv ==
    /\ TypeOK
    /\ offset \in Nat
    /\ PaceInv
    /\ LastTickInv
    /\ SeenInv
    /\ entered - dataAt <= AgeBound

-----------------------------------------------------------------------------

\* Reading the clock never gives a time before the epoch.
LEMMA UnixNowType == ASSUME TypeOK PROVE UnixNow \in Nat
  BY DEF TypeOK, UnixNow, AtLeast

LEMMA SatSubType == ASSUME NEW a \in Nat, NEW b \in Nat PROVE SatSub(a, b) \in Nat
  BY DEF SatSub, AtLeast

LEMMA HeartbeatType ==
    /\ WatchedTick \in Nat /\ WatchedTick >= 1
    /\ Heartbeat \in Nat /\ Heartbeat >= IdleTick /\ Heartbeat >= WatchedTick
<1>1. WatchedTick \in Nat /\ WatchedTick >= 1
  BY RefreshAssumption DEF WatchedTick, AtLeast
<1> QED
  BY <1>1, RefreshAssumption DEF Heartbeat, AtLeast

\* should_tick never puts a tick off for longer than a heartbeat.
LEMMA HeartbeatBound ==
    ASSUME NEW n \in Nat, NEW served \in Nat, NEW last \in Nat,
           ~ShouldTick(n, served, last)
    PROVE  n - last <= Heartbeat - 1
<1>1. SatSub(n, last) \in Nat /\ SatSub(n, last) >= n - last
  BY DEF SatSub, AtLeast
<1>2. SatSub(n, last) < WatchedTick \/ SatSub(n, last) < IdleTick
  BY <1>1, HeartbeatType, RefreshAssumption DEF ShouldTick
<1> QED
  BY <1>1, <1>2, HeartbeatType, RefreshAssumption

\* The types hold whatever the wall clock is set to.
LEMMA LoopTypeInit == Init => TypeOK
<1> SUFFICES ASSUME Init PROVE TypeOK
  OBVIOUS
<1>1. UnixNow \in Nat /\ offset \in Int
  BY RefreshAssumption DEF Init, UnixNow, AtLeast
<1>2. lastTick \in Nat
  BY <1>1, SatSubType, RefreshAssumption DEF Init
<1> QED
  BY <1>1, <1>2 DEF Init, TypeOK

LEMMA LoopTypeStep == TypeOK /\ [Next]_vars => TypeOK'
<1> SUFFICES ASSUME TypeOK, [Next]_vars PROVE TypeOK'
  OBVIOUS
<1> USE DEF TypeOK
<1>1. CASE Advance
  BY <1>1 DEF Advance
<1>2. CASE SetClock
  BY <1>2, RefreshAssumption DEF SetClock
<1>3. CASE ReadClock
  BY <1>3, UnixNowType DEF ReadClock
<1>4. CASE Decide
  BY <1>4 DEF Decide
<1>5. CASE FinishTick
  BY <1>5, UnixNowType DEF FinishTick
<1>6. CASE WakeUp
  BY <1>6 DEF WakeUp
<1>7. CASE MarkServed
  BY <1>7, UnixNowType DEF MarkServed
<1>8. CASE UNCHANGED vars
  BY <1>8 DEF vars
<1> QED
  BY <1>1, <1>2, <1>3, <1>4, <1>5, <1>6, <1>7, <1>8 DEF Next

\* Every reachable state is well typed.
THEOREM LoopTypeCorrect == Spec => []TypeOK
  BY LoopTypeInit, LoopTypeStep, PTL DEF Spec

-----------------------------------------------------------------------------

LEMMA AgeInit == Init => AgeInv
<1> SUFFICES ASSUME Init PROVE AgeInv
  OBVIOUS
<1>1. TypeOK /\ offset \in Nat
  BY LoopTypeInit, RefreshAssumption DEF Init
<1>2. PaceInv
  BY RefreshAssumption DEF Init, PaceInv, Patience
<1>3. LastTickInv
  BY <1>1, RefreshAssumption DEF Init, LastTickInv, SatSub, AtLeast, UnixNow
<1>4. SeenInv
  BY DEF Init, SeenInv
<1>5. entered - dataAt <= AgeBound
  BY HeartbeatType, RefreshAssumption DEF Init, AgeBound
<1> QED
  BY <1>1, <1>2, <1>3, <1>4, <1>5 DEF AgeInv

\* Every step keeps the invariant, as long as the clock is not set back.
LEMMA AgeStep ==
    ASSUME Jumps \subseteq Nat
    PROVE  AgeInv /\ [Next]_vars => AgeInv'
<1> SUFFICES ASSUME AgeInv, [Next]_vars PROVE AgeInv'
  OBVIOUS
<1>0. TypeOK'
  BY LoopTypeStep DEF AgeInv
<1> USE RefreshAssumption, HeartbeatType
    DEF AgeInv, TypeOK, PaceInv, Patience, LastTickInv, SeenInv, AgeBound
<1>1. CASE Advance
  BY <1>0, <1>1 DEF Advance
<1>2. CASE SetClock
  <2>1. PICK j \in Jumps : offset' = offset + j
    BY <1>2 DEF SetClock
  <2>2. offset' \in Nat /\ offset' >= offset
    BY <2>1
  <2> QED
    BY <1>0, <1>2, <2>2 DEF SetClock
<1>3. CASE ReadClock
  <2>1. 2 * seen' + 1 >= now + offset
    BY <1>3 DEF ReadClock, UnixNow, AtLeast
  <2> QED
    BY <1>0, <1>3, <2>1 DEF ReadClock
<1>4. CASE Decide
  <2>1. CASE ShouldTick(seen, lastServed, lastTick)
    BY <1>0, <1>4, <2>1 DEF Decide
  <2>2. CASE ~ShouldTick(seen, lastServed, lastTick)
    <3>1. seen - lastTick <= Heartbeat - 1
      BY <2>2, HeartbeatBound
    <3>2. entered - dataAt - MaxTick <= 2 * Heartbeat - 1
      BY <1>4, <3>1 DEF Decide
    <3> QED
      BY <1>0, <1>4, <2>2, <3>2 DEF Decide
  <2> QED
    BY <2>1, <2>2
<1>5. CASE FinishTick
  <2>1. 2 * lastTick' <= now + offset
    BY <1>5 DEF FinishTick, UnixNow, AtLeast
  <2> QED
    BY <1>0, <1>5, <2>1 DEF FinishTick
<1>6. CASE WakeUp
  BY <1>0, <1>6 DEF WakeUp
<1>7. CASE MarkServed
  BY <1>0, <1>7 DEF MarkServed
<1>8. CASE UNCHANGED vars
  BY <1>0, <1>8 DEF vars
<1> QED
  BY <1>1, <1>2, <1>3, <1>4, <1>5, <1>6, <1>7, <1>8 DEF Next

\* The age of the data is bounded at every moment, whatever the requests do.
THEOREM DataAgeBounded ==
    ASSUME Jumps \subseteq Nat
    PROVE  Spec => []DataAge
<1>1. AgeInv => DataAge
  BY RefreshAssumption, HeartbeatType
  DEF AgeInv, TypeOK, PaceInv, Patience, AgeBound, DataAge
<1>2. AgeInv /\ [Next]_vars => AgeInv'
  BY AgeStep
<1> QED
  BY AgeInit, <1>1, <1>2, PTL DEF Spec

-----------------------------------------------------------------------------
(* Freshness.  A thread that finished a tick less than a second ago may     *)
(* have to sleep once more when the refresh time is below should_tick's     *)
(* second: `Due` says that the next decision on requests is to tick.  Data  *)
(* is then either of a recent tick (`Recent`), or the place the thread is   *)
(* in was reached early in the watch (`Catching`).                          *)

\* What the clocks that were read say of real time, on a wall clock nobody set.
ClocksTrue ==
    /\ 2 * lastServed <= servedAt + Epoch /\ servedAt + Epoch <= 2 * lastServed + 1
    /\ servedAt <= now /\ watchedSince <= servedAt
    /\ pc = "decide" => 2 * seen <= now + Epoch /\ entered + Epoch <= 2 * seen + 1

\* The seconds there are, at least, between last_tick and where the thread is.
Passed ==
    /\ pc = "sleep" => 2 * lastTick <= entered + Epoch
    /\ pc \in {"wake", "decide"} => 2 * lastTick + Refresh <= entered + Epoch

\* With a refresh below a second, the next decision is in a later second than
\* last_tick, so that it ticks if requests came.
Due ==
    Refresh < 2 =>
        /\ pc = "sleep" => 2 * lastTick + 1 <= entered + Epoch
        /\ pc \in {"wake", "decide"} => 2 * lastTick + 1 + Refresh <= entered + Epoch

\* After a tick, the first time round.
First ==
    /\ pc = "sleep" => entered - dataAt <= MaxTick
    /\ pc \in {"wake", "decide"} => entered - dataAt <= MaxTick + Refresh + Late
    /\ pc = "tick" => entered - dataAt <= Turn - MaxTick

\* And the second, which only a refresh time below a second needs.
Second ==
    /\ Refresh < 2
    /\ Due
    /\ pc = "sleep" => entered - dataAt <= MaxTick + Refresh + 2 * Late
    /\ pc \in {"wake", "decide"} => entered - dataAt <= MaxTick + 2 * Refresh + 3 * Late
    /\ pc = "tick" => entered - dataAt <= Turn - MaxTick

\* The data is as recent as the place of the loop allows.
Recent == First \/ Second

\* The next decision ticks, and the thread got where it is early in the watch.
Catching ==
    /\ Due
    /\ pc = "sleep" => entered <= watchedSince
    /\ pc \in {"wake", "decide"} => entered <= watchedSince + Refresh + Late
    /\ pc = "tick" => entered <= watchedSince + Refresh + 2 * Late

\* What makes WatchedFresh inductive.
FreshInv ==
    /\ TypeOK
    /\ PaceInv
    /\ offset >= Epoch
    /\ offset = Epoch =>
        /\ ClocksTrue
        /\ Passed
        /\ First \/ Due
        /\ now - servedAt <= 2 * IdleAfter => Recent \/ Catching

\* The refresh time is at most a heartbeat, the wall clock has gone for one
\* when the server starts, and ticks take time.
Started == Refresh <= 2 * IdleTick /\ 2 * IdleTick <= Epoch /\ MaxTick > 0

\* A turn: two rounds when the refresh time is below a second, or else one.
LEMMA TurnIs ==
    /\ Refresh < 2 => Turn = 2 * Refresh + 4 * Late + 2 * MaxTick
    /\ Refresh >= 2 => Turn = Refresh + 2 * Late + 2 * MaxTick
    /\ Turn \in Nat /\ Turn >= Refresh + 2 * Late + 2 * MaxTick
<1>1. CASE Refresh < 2
  BY <1>1, RefreshAssumption DEF Turn
<1>2. CASE Refresh >= 2
  BY <1>2, RefreshAssumption DEF Turn
<1> QED
  BY <1>1, <1>2, RefreshAssumption

\* Truncation takes at most half a second off.
LEMMA UnixNowTrue ==
    ASSUME TypeOK, offset = Epoch
    PROVE  UnixNow \in Nat /\ 2 * UnixNow <= now + Epoch /\ now + Epoch <= 2 * UnixNow + 1
  BY RefreshAssumption DEF TypeOK, UnixNow, AtLeast

\* From a second on, the gap that is asked for is no longer than the refresh time.
LEMMA WatchedTickIs == Refresh >= 2 => 2 * WatchedTick <= Refresh
  BY RefreshAssumption DEF WatchedTick, AtLeast

\* Below a second it is one second.
LEMMA OneSecond == Refresh < 2 => WatchedTick = 1
  BY RefreshAssumption DEF WatchedTick, AtLeast

\* With a request not long ago, a decision that is due is to tick, and one that
\* is not falls in the second of last_tick.
LEMMA DecideTicks ==
    ASSUME TypeOK, ClocksTrue, Passed, pc = "decide", now - servedAt <= 2 * IdleAfter,
           ~ShouldTick(seen, lastServed, lastTick)
    PROVE  Refresh < 2 /\ ~Due
<1> USE RefreshAssumption, HeartbeatType DEF TypeOK
<1>1. SatSub(seen, lastServed) <= IdleAfter
  BY DEF ClocksTrue, SatSub, AtLeast
<1>2. SatSub(seen, lastTick) < WatchedTick
  BY <1>1 DEF ShouldTick, SatSub, AtLeast
<1>3. seen - lastTick < WatchedTick
  BY <1>2 DEF SatSub, AtLeast
<1>4. entered + Epoch <= 2 * seen + 1 /\ 2 * lastTick + Refresh <= entered + Epoch
  BY DEF ClocksTrue, Passed
<1>5. Refresh < 2
  BY <1>3, <1>4, WatchedTickIs
<1>6. ~Due
  BY <1>3, <1>4, <1>5, OneSecond DEF Due
<1> QED
  BY <1>5, <1>6

LEMMA FreshInit == ASSUME Started PROVE Init => FreshInv
<1> SUFFICES ASSUME Init PROVE FreshInv
  OBVIOUS
<1> USE RefreshAssumption, HeartbeatType
<1>1. TypeOK
  BY LoopTypeInit
<1>2. PaceInv /\ offset >= Epoch
  BY DEF Init, PaceInv, Patience
<1>3. UnixNow \in Nat /\ 2 * UnixNow <= Epoch /\ Epoch <= 2 * UnixNow + 1
  BY <1>1, UnixNowTrue DEF Init
<1>4. ClocksTrue
  BY <1>3 DEF Init, ClocksTrue
<1>5. lastTick = UnixNow - IdleTick
  BY <1>3 DEF Init, Started, SatSub, AtLeast
<1>6. Passed
  BY <1>3, <1>5 DEF Init, Started, Passed
<1>7. First
  BY DEF Init, First
<1> QED
  BY <1>1, <1>2, <1>4, <1>6, <1>7 DEF FreshInv, Recent

LEMMA FreshStep ==
    ASSUME Started, Jumps \subseteq Nat
    PROVE  FreshInv /\ [Next]_vars => FreshInv'
<1> SUFFICES ASSUME FreshInv, [Next]_vars PROVE FreshInv'
  OBVIOUS
<1>0. TypeOK /\ TypeOK'
  BY LoopTypeStep DEF FreshInv
<1> USE RefreshAssumption, HeartbeatType, TurnIs DEF FreshInv, TypeOK
<1>1. CASE Advance
  <2>1. PaceInv'
    BY <1>0, <1>1 DEF Advance, PaceInv, Patience
  <2>2. ASSUME offset' = Epoch
        PROVE ClocksTrue' /\ Passed' /\ (First \/ Due)' /\ (now - servedAt <= 2 * IdleAfter => Recent \/ Catching)'
    <3>1. offset = Epoch
      BY <1>1, <2>2 DEF Advance
    <3>2. ClocksTrue'
      BY <1>0, <1>1, <3>1 DEF Advance, ClocksTrue
    <3>3. Passed' /\ (First \/ Due)'
      BY <1>0, <1>1, <3>1 DEF Advance, Passed, First, Due, Turn
    <3>4. (now - servedAt <= 2 * IdleAfter => Recent \/ Catching)'
      BY <1>0, <1>1, <3>1 DEF Advance, Recent, First, Second, Catching, Due, Turn
    <3> QED
      BY <3>2, <3>3, <3>4
  <2> QED
    BY <1>0, <1>1, <2>1, <2>2 DEF Advance
<1>2. CASE SetClock
  <2>1. PICK j \in Jumps : offset' = offset + j
    BY <1>2 DEF SetClock
  <2>2. offset' >= Epoch /\ (offset' = Epoch => offset = Epoch)
    BY <1>0, <2>1
  <2> QED
    BY <1>0, <1>2, <2>2 DEF SetClock, PaceInv, Patience, ClocksTrue, Passed, Recent, First,
       Second, Catching, Due, Turn
<1>3. CASE ReadClock
  <2>1. PaceInv'
    BY <1>0, <1>3 DEF ReadClock, PaceInv, Patience
  <2>2. ASSUME offset' = Epoch
        PROVE ClocksTrue' /\ Passed' /\ (First \/ Due)' /\ (now - servedAt <= 2 * IdleAfter => Recent \/ Catching)'
    <3>1. offset = Epoch /\ pc = "wake" /\ pc' = "decide"
      BY <1>3, <2>2 DEF ReadClock
    <3>2. 2 * seen' <= now + Epoch /\ now + Epoch <= 2 * seen' + 1
      BY <1>0, <1>3, <3>1, UnixNowTrue DEF ReadClock
    <3>3. ClocksTrue'
      BY <1>0, <1>3, <3>1, <3>2 DEF ReadClock, ClocksTrue, PaceInv
    <3>4. Passed' /\ (First \/ Due)'
      BY <1>0, <1>3, <3>1 DEF ReadClock, Passed, First, Due
    <3>5. (now - servedAt <= 2 * IdleAfter => Recent \/ Catching)'
      BY <1>0, <1>3, <3>1 DEF ReadClock, Recent, First, Second, Catching, Due
    <3> QED
      BY <3>3, <3>4, <3>5
  <2> QED
    BY <1>0, <1>3, <2>1, <2>2 DEF ReadClock
<1>4. CASE Decide
  <2>1. PaceInv'
    BY <1>0, <1>4 DEF Decide, PaceInv, Patience
  <2>2. ASSUME offset' = Epoch
        PROVE ClocksTrue' /\ Passed' /\ (First \/ Due)' /\ (now - servedAt <= 2 * IdleAfter => Recent \/ Catching)'
    <3>1. offset = Epoch /\ pc = "decide"
      BY <1>4, <2>2 DEF Decide
    <3>2. ClocksTrue'
      BY <1>0, <1>4, <3>1 DEF Decide, ClocksTrue
    <3>3. entered <= now /\ now <= entered + Late
      BY <1>0, <3>1 DEF PaceInv, Patience
    <3>4. Passed' /\ Due'
      <4>1. entered' = now /\ pc' \in {"tick", "sleep"} /\ lastTick' = lastTick
        BY <1>4 DEF Decide
      <4>2. 2 * lastTick + Refresh <= entered + Epoch
        BY <3>1 DEF Passed
      <4> QED
        BY <1>0, <3>3, <4>1, <4>2 DEF Passed, Due
    <3>5. CASE ShouldTick(seen, lastServed, lastTick)
      <4>1. pc' = "tick" /\ entered' = now /\ UNCHANGED <<dataAt, watchedSince, servedAt, now>>
        BY <1>4, <3>5 DEF Decide
      <4>2. (First => First') /\ (Second => First') /\ (Catching => Catching')
        BY <1>0, <3>1, <3>3, <3>4, <4>1 DEF First, Second, Catching, Turn
      <4> QED
        BY <3>1, <3>2, <3>4, <4>1, <4>2 DEF Recent
    <3>6. CASE ~ShouldTick(seen, lastServed, lastTick)
      <4>1. pc' = "sleep" /\ entered' = now /\ UNCHANGED <<dataAt, watchedSince, servedAt, now>>
        BY <1>4, <3>6 DEF Decide
      <4>2. ASSUME now - servedAt <= 2 * IdleAfter PROVE Recent'
        <5>1. Refresh < 2 /\ ~Due
          BY <1>0, <3>1, <3>6, <4>2, DecideTicks
        <5>2. First
          BY <3>1, <5>1
        <5>3. Second'
          BY <1>0, <3>1, <3>3, <3>4, <4>1, <5>1, <5>2 DEF First, Second
        <5> QED
          BY <5>3 DEF Recent
      <4> QED
        BY <3>2, <3>4, <4>1, <4>2
    <3> QED
      BY <3>5, <3>6
  <2> QED
    BY <1>0, <1>4, <2>1, <2>2 DEF Decide
<1>5. CASE FinishTick
  <2>1. PaceInv'
    BY <1>0, <1>5 DEF FinishTick, PaceInv, Patience
  <2>2. ASSUME offset' = Epoch
        PROVE ClocksTrue' /\ Passed' /\ First'
    <3>1. offset = Epoch /\ pc = "tick" /\ pc' = "sleep"
      BY <1>5, <2>2 DEF FinishTick
    <3>2. 2 * lastTick' <= now + Epoch
      BY <1>0, <1>5, <3>1, UnixNowTrue DEF FinishTick
    <3>3. ClocksTrue'
      BY <1>0, <1>5, <3>1 DEF FinishTick, ClocksTrue
    <3>4. Passed'
      BY <1>0, <1>5, <3>1, <3>2 DEF FinishTick, Passed
    <3>5. First'
      BY <1>0, <1>5, <3>1 DEF FinishTick, First, PaceInv, Patience
    <3> QED
      BY <3>3, <3>4, <3>5
  <2> QED
    BY <1>0, <1>5, <2>1, <2>2 DEF FinishTick, Recent
<1>6. CASE WakeUp
  <2>1. PaceInv'
    BY <1>0, <1>6 DEF WakeUp, PaceInv, Patience
  <2>2. ASSUME offset' = Epoch
        PROVE ClocksTrue' /\ Passed' /\ (First \/ Due)' /\ (now - servedAt <= 2 * IdleAfter => Recent \/ Catching)'
    <3>1. /\ offset = Epoch /\ pc = "sleep" /\ pc' = "wake" /\ entered' = now
          /\ now - entered >= Refresh /\ now - entered <= Refresh + Late
          /\ UNCHANGED <<dataAt, watchedSince, servedAt, now, lastTick>>
      BY <1>6, <2>2 DEF WakeUp, PaceInv, Patience
    <3>2. ClocksTrue'
      BY <1>0, <1>6, <3>1 DEF WakeUp, ClocksTrue
    <3>3. Passed' /\ (Due => Due')
      BY <1>0, <3>1 DEF Passed, Due
    <3>4. (First => First') /\ (Second => Second') /\ (Catching => Catching')
      BY <1>0, <3>1, <3>3 DEF First, Second, Catching
    <3> QED
      BY <3>1, <3>2, <3>3, <3>4 DEF Recent
  <2> QED
    BY <1>0, <1>6, <2>1, <2>2 DEF WakeUp
<1>7. CASE MarkServed
  <2>1. PaceInv'
    BY <1>0, <1>7 DEF MarkServed, PaceInv, Patience
  <2>2. ASSUME offset' = Epoch
        PROVE ClocksTrue' /\ Passed' /\ (First \/ Due)' /\ (now - servedAt <= 2 * IdleAfter => Recent \/ Catching)'
    <3>1. offset = Epoch
      BY <1>7, <2>2 DEF MarkServed
    <3>2. 2 * lastServed' <= now + Epoch /\ now + Epoch <= 2 * lastServed' + 1
      BY <1>0, <1>7, <3>1, UnixNowTrue DEF MarkServed
    <3>3. ClocksTrue'
      BY <1>0, <1>7, <3>1, <3>2 DEF MarkServed, ClocksTrue
    <3>4. Passed' /\ (Due => Due') /\ (First => First') /\ (Second => Second')
      BY <1>7, <3>1 DEF MarkServed, Passed, First, Second, Due, Turn
    <3>5. CASE now - servedAt <= 2 * IdleAfter
      BY <1>0, <1>7, <3>1, <3>3, <3>4, <3>5 DEF MarkServed, Recent, Catching
    <3>6. CASE ~(now - servedAt <= 2 * IdleAfter)
      <4>1. watchedSince' = now /\ UNCHANGED <<pc, entered, now>>
        BY <1>7, <3>6 DEF MarkServed
      <4>2. Due' => Catching'
        BY <1>0, <4>1 DEF Catching, PaceInv
      <4> QED
        BY <3>1, <3>3, <3>4, <4>2 DEF Recent
    <3> QED
      BY <3>5, <3>6
  <2> QED
    BY <1>0, <1>7, <2>1, <2>2 DEF MarkServed
<1>8. CASE UNCHANGED vars
  BY <1>0, <1>8 DEF vars, PaceInv, Patience, ClocksTrue, Passed, Recent, First, Second, Catching, Due, Turn
<1> QED
  BY <1>1, <1>2, <1>3, <1>4, <1>5, <1>6, <1>7, <1>8 DEF Next

\* While requests come, data is at most one turn old from one turn after the
\* first on, whatever the refresh time, the heartbeat and the delays are.
THEOREM WatchedFreshAlways ==
    ASSUME Started, Jumps \subseteq Nat
    PROVE  Spec => []WatchedFresh
<1>1. FreshInv => WatchedFresh
  <2> SUFFICES ASSUME FreshInv, offset = Epoch, Watched PROVE now - dataAt <= Turn
    BY DEF WatchedFresh
  <2> USE RefreshAssumption, TurnIs DEF FreshInv, TypeOK, PaceInv, Patience
  <2>1. CASE Recent
    BY <2>1 DEF Recent, First, Second
  <2>2. CASE Catching
    BY <2>2 DEF Catching, Watched, Started
  <2> QED
    BY <2>1, <2>2 DEF Watched
<1>2. FreshInv /\ [Next]_vars => FreshInv'
  BY FreshStep
<1>3. Init => FreshInv
  BY FreshInit
<1> QED
  BY <1>1, <1>2, <1>3, PTL DEF Spec
=============================================================================
