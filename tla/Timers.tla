------------------------------- MODULE Timers -------------------------------
(***************************************************************************)
(* The timers of the server (os/WaitFor.c): a list sorted by expiry time,  *)
(* the sleep of WaitForSomething until the first of them, and the passes   *)
(* that call them.  A callback may set, cancel and free timers, its own    *)
(* included, and asks to be called again by returning a delay.             *)
(*                                                                         *)
(* Times are CARD32 milliseconds of the wall clock: they wrap around, and  *)
(* the clock may be set back or forward at any moment.  The flags of       *)
(* TimerSet are 0, as in every call the server makes.                      *)
(***************************************************************************)
EXTENDS Integers, Sequences, SequencesExt

CONSTANTS
    Timer,     \* the timer records that memory has room for
    Modulus,   \* 2^32
    Slack,     \* by how much a timer may exceed its delay before the clock
               \* is taken to have been set back (250)
    Delays,    \* the delays that timers are given
    Steps,     \* the steps by which the clock may be set, mod Modulus
    MaxSteps,  \* bound on their number
    Lag,       \* how long other work, or a callback, may keep the server
               \* from a due timer
    MaxCalls,  \* bound on the calls of TimerSet, TimerCancel, TimerFree and
               \* TimerForce by the rest of the server and the callbacks
    None       \* no timer

Time == 0..Modulus-1
Half == Modulus \div 2
Entry == [timer : Timer, expires : Time, delta : Time, owed : Time]

ASSUME TimersAssumption ==
    /\ Modulus \in Nat \ {0} /\ Modulus = 2 * Half
    /\ Slack \in Nat /\ Lag \in Nat /\ MaxSteps \in Nat /\ MaxCalls \in Nat
    /\ Delays \subseteq Time \ {0} /\ Steps \subseteq Time
    /\ None \notin Entry

Forever == -1 \* select without a timeout

VARIABLES
    timers,    \* the list: each entry is a timer, the time it expires, the
               \* delay it was set to, and how much of that has not passed yet
    allocated, \* the timers in memory
    clock,     \* GetTimeInMillis
    pc,        \* "dispatch": the rest of the server; "select": asleep;
               \* "run": between two calls of a pass; "rewind": in
               \* CheckAllTimers; "callback"
    cur,       \* the entry whose callback is running
    caller,    \* who called it: "DoTimer" or "TimerSet"
    back,      \* where control goes after it
    now,       \* the local variable of WaitForSomething, while it is needed
    left,      \* of the sleep, or of the time a callback may take
    steps, calls \* what the bounds count

controlVars == <<pc, cur, caller, back, now, left>>
timerVars == <<timers, allocated, clock, controlVars, steps, calls>>

Minus(x, y) == (x - y) % Modulus

\* (int) (x - y) <= 0
NotAfterUnsigned(x, y) == x <= y \* broken: does not allow for a wrap
NotAfter(x, y) == Minus(x, y) = 0 \/ Minus(x, y) >= Half

TimersInit ==
    /\ timers = <<>> /\ allocated = {}
    /\ clock \in Time /\ now = 0 /\ left = 0
    /\ pc = "dispatch" /\ cur = None /\ caller = "DoTimer" /\ back = "dispatch"
    /\ steps = 0 /\ calls = 0

-----------------------------------------------------------------------------
(***************************************************************************)
(* The list.                                                               *)
(***************************************************************************)
First(places) == CHOOSE i \in places : \A j \in places : i <= j

\* An entry is looked for from the front, and unlinked.
Places(t) == {i \in 1..Len(timers) : timers[i].timer = t}
Listed(t) == Places(t) # {}
Without(t) == IF Listed(t) THEN RemoveAt(timers, First(Places(t))) ELSE timers

\* Broken: does not look for the place.
LinkFirst(list, entry, time) == <<entry>> \o list

\* The search for the place of an entry is given the time to compare with.
Link(list, entry, time) ==
    LET later == {i \in 1..Len(list) : ~NotAfter(list[i].expires, time)}
    IN InsertAt(list, IF later = {} THEN Len(list) + 1 ELSE First(later), entry)

Call(entry, by, next) ==
    /\ pc' = "callback" /\ cur' = entry /\ caller' = by /\ back' = next
    /\ left' = Lag

\* On with the callback that has set a timer, or back to where it was called.
Resume(next) ==
    /\ pc' = next
    /\ IF next = "callback"
         THEN UNCHANGED <<cur, caller, back, left>>
         ELSE cur' = None /\ caller' = "DoTimer" /\ back' = "dispatch" /\ left' = 0

\* TimerSet.  A delay of half the range or more is taken for one that is over.
TimerSet(t, d, next) ==
    LET entry == [timer |-> t, expires |-> (clock + d) % Modulus, delta |-> d, owed |-> d] IN
    IF d = 0
      THEN timers' = Without(t) /\ Resume(next)
    ELSE IF NotAfter(entry.expires, clock)
      THEN timers' = Without(t) /\ Call(entry, "TimerSet", next)
    ELSE timers' = Link(Without(t), entry, entry.expires) /\ Resume(next)

DoTimer(entry, next) ==
    /\ timers' = Without(entry.timer)
    /\ Call(entry, "DoTimer", next)

(***************************************************************************)
(* The calls of the rest of the server and of callbacks.  No callback of   *)
(* the server sets a timer to a delay of half the range, nor sets its own  *)
(* when TimerSet has called it.                                            *)
(***************************************************************************)
Calling ==
    /\ pc \in {"dispatch", "callback"}
    /\ calls < MaxCalls /\ calls' = calls + 1
    /\ UNCHANGED <<clock, steps>>

Set(t, d) ==
    /\ Calling
    /\ pc = "callback" => d < Half /\ ~(caller = "TimerSet" /\ t = cur.timer)
    /\ allocated' = allocated \union {t}
    /\ TimerSet(t, d, pc)
    /\ UNCHANGED now

Cancel(t) ==
    /\ Calling
    /\ t \in allocated
    /\ timers' = Without(t)
    /\ UNCHANGED <<allocated, controlVars>>

\* Broken: the list keeps the record.
FreeLinked(t) ==
    /\ Calling
    /\ t \in allocated
    /\ allocated' = allocated \ {t}
    /\ UNCHANGED <<timers, controlVars>>

Free(t) ==
    /\ Calling
    /\ t \in allocated
    /\ timers' = Without(t)
    /\ allocated' = allocated \ {t}
    /\ UNCHANGED controlVars

\* TimerForce, outside of a callback.
TimerForce(t) ==
    /\ Calling
    /\ pc = "dispatch"
    /\ Listed(t) /\ DoTimer(timers[First(Places(t))], pc)
    /\ UNCHANGED <<allocated, now>>

(***************************************************************************)
(* The end of a callback.  One that has freed its timer does not ask for   *)
(* another call.  DoTimer sets the timer anew; TimerSet, which had not     *)
(* linked it yet, goes on with the delay in the place of the time to       *)
(* compare with.                                                           *)
(***************************************************************************)
Return ==
    /\ pc = "callback"
    /\ Resume(back)
    /\ UNCHANGED <<timers, allocated, clock, now, steps, calls>>

ReturnDelay(d) ==
    /\ pc = "callback" /\ cur.timer \in allocated
    /\ IF caller = "DoTimer"
         THEN TimerSet(cur.timer, d, back)
         ELSE timers' = Link(timers, cur, d) /\ Resume(back)
    /\ UNCHANGED <<allocated, clock, now, steps, calls>>

-----------------------------------------------------------------------------
(***************************************************************************)
(* WaitForSomething.                                                       *)
(***************************************************************************)
Rewound(entry) == Minus(entry.expires, clock) > (entry.delta + Slack) % Modulus

\* How long to sleep.
Until(list, time) ==
    IF list = <<>> THEN Forever
    ELSE IF NotAfter(Head(list).expires, time) THEN 0
    ELSE Minus(Head(list).expires, time)

\* Nothing to do: sleep until the first timer, unless the clock was set back.
Wait ==
    /\ pc = "dispatch"
    /\ IF timers # <<>> /\ ~NotAfter(Head(timers).expires, clock) /\ Rewound(Head(timers))
         THEN pc' = "rewind" /\ now' = clock /\ UNCHANGED left
         ELSE pc' = "select" /\ left' = Until(timers, clock) /\ UNCHANGED now
    /\ UNCHANGED <<timers, allocated, clock, cur, caller, back, steps, calls>>

\* CheckAllTimers looks for the first affected timer, again after each call;
\* the sleep is then computed from the time read before.
CheckAllTimers ==
    /\ pc = "rewind"
    /\ LET affected == {i \in 1..Len(timers) : Rewound(timers[i])} IN
         IF affected # {}
           THEN DoTimer(timers[First(affected)], "rewind") /\ UNCHANGED now
           ELSE /\ pc' = "select" /\ left' = Until(timers, now) /\ now' = 0
                /\ UNCHANGED <<timers, cur, caller, back>>
    /\ UNCHANGED <<allocated, clock, steps, calls>>

\* The sleep is over, or something has arrived.
WakeUp ==
    /\ pc = "select"
    /\ now' = clock
    /\ left' = 0
    /\ pc' = "run"
    /\ UNCHANGED <<timers, allocated, clock, cur, caller, back, steps, calls>>

\* Events in the input queue, or the buffered requests of a client, come
\* before the timers.
WakeBusy ==
    /\ pc = "select"
    /\ left' = 0
    /\ pc' = "dispatch"
    /\ UNCHANGED <<timers, allocated, clock, cur, caller, back, now, steps, calls>>

\* The pass over the timers that are due at the time it began.
Pass(time) ==
    /\ pc = "run"
    /\ IF timers # <<>> /\ NotAfter(Head(timers).expires, time)
         THEN DoTimer(Head(timers), "run") /\ UNCHANGED now
         ELSE /\ pc' = "dispatch" /\ now' = 0
              /\ UNCHANGED <<timers, cur, caller, back, left>>
    /\ UNCHANGED <<allocated, clock, steps, calls>>

Run == Pass(now)

(***************************************************************************)
(* Time.  The kernel ends the sleep in time, a callback takes Lag at most, *)
(* and so long may other work keep the server from a due timer.            *)
(***************************************************************************)
OnTime ==
    IF pc = "dispatch"
      THEN \A e \in ToSet(timers) :
             NotAfter(e.expires, clock) => Minus(clock, e.expires) < Lag
      ELSE left # 0

Tick ==
    /\ OnTime
    /\ clock' = (clock + 1) % Modulus
    /\ left' = IF left > 0 THEN left - 1 ELSE left
    /\ timers' = [i \in 1..Len(timers) |->
         [timers[i] EXCEPT !.owed = IF @ > 0 THEN @ - 1 ELSE 0]]
    /\ UNCHANGED <<allocated, pc, cur, caller, back, now, steps, calls>>

\* The clock is set.
Step(s) ==
    /\ steps < MaxSteps
    /\ steps' = steps + 1
    /\ clock' = (clock + s) % Modulus
    /\ UNCHANGED <<timers, allocated, controlVars, calls>>

TimerCall ==
    \E t \in Timer : Cancel(t) \/ Free(t) \/ TimerForce(t) \/ \E d \in Delays \union {0} : Set(t, d)

ServerStep == Return \/ Wait \/ CheckAllTimers \/ Run \/ \E d \in Delays : ReturnDelay(d)

TimersNext ==
    \/ TimerCall \/ ServerStep \/ WakeUp \/ WakeBusy \/ Tick
    \/ \E s \in Steps : Step(s)

TimersSpec == TimersInit /\ [][TimersNext]_timerVars

\* The server process goes on, time passes, callbacks return, and neither
\* devices nor clients keep the server busy for ever.
FairTimersSpec == TimersSpec /\ WF_timerVars(ServerStep) /\ SF_timerVars(Tick) /\ SF_timerVars(WakeUp)

-----------------------------------------------------------------------------
(***************************************************************************)
(* Properties.                                                             *)
(***************************************************************************)
TimersTypeOK ==
    /\ timers \in Seq(Entry) /\ allocated \subseteq Timer
    /\ clock \in Time /\ now \in Time /\ left \in Nat \union {Forever}
    /\ pc \in {"dispatch", "select", "run", "rewind", "callback"}
    /\ cur \in Entry \union {None} /\ (cur # None <=> pc = "callback")
    /\ caller \in {"DoTimer", "TimerSet"} /\ back \in {"dispatch", "run", "rewind"}
    /\ steps \in 0..MaxSteps /\ calls \in 0..MaxCalls

\* The hypothesis under which the comparison of expiry times is an order, for
\* which the code relies on the clock having a range of 50 days: those in the list
\* lie within half of it.
CloseTogether ==
    \E first \in Time : \A i \in 1..Len(timers) : Minus(timers[i].expires, first) < Half

\* Whatever callbacks do to the list while a pass or CheckAllTimers walks it,
\* and whatever is done to the clock, no record is in the list twice, none is
\* there that has been freed, and the list is sorted, also across a wrap of
\* the clock: looking at the head is enough.
Linked ==
    /\ \A i \in 1..Len(timers) : timers[i].timer \in allocated
    /\ \A i, j \in 1..Len(timers) : i # j => timers[i].timer # timers[j].timer

Sorted ==
    \A i, j \in 1..Len(timers) : i < j => NotAfter(timers[i].expires, timers[j].expires)

ListSound == TimersTypeOK /\ Linked /\ Sorted

\* As long as nobody sets the clock, no timer is called before its delay has
\* passed, neither by a pass nor when it is set (os/WaitFor.c,
\* Xext/security.c:298), also across a wrap.
NotEarly ==
    [][steps = 0 /\ pc # "callback" /\ pc' = "callback" /\ (back' = "run" \/ caller' = "TimerSet")
         => cur'.owed = 0]_timerVars

\* A timer in the list is called sooner or later, unless it is taken out,
\* although the clock is set back and others are called again and again.
Running(t) == cur # None /\ cur.timer = t
TimerRuns == \A t \in Timer : Listed(t) ~> (~Listed(t) \/ Running(t))

\* os/WaitFor.c:439: "If time has rewound, re-run every affected timer."
EveryAffectedRerun ==
    [][pc # "select" /\ pc' = "select" =>
         \A i \in 1..Len(timers) :
           Rewound(timers[i]) => NotAfter(timers[i].expires, clock)]_timerVars
=============================================================================
