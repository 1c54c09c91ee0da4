---------------------------- MODULE DbConnector ----------------------------
(***************************************************************************)
(* How the api looks for its database: the attempts at start-up, the check  *)
(* that runs every Period once one has succeeded, the loop of attempts that *)
(* every failed check starts, and the health timer of main.ts.              *)
(*                                                                           *)
(* Time passes in ticks.  An attempt is a call of db.authenticate, which     *)
(* takes any time up to AskTicks.  Whatever is under way is a process: the   *)
(* start-up, or the callback of one check, with attempt 0 for the check      *)
(* itself and 1..MaxRetries for the loop after it.                           *)
(***************************************************************************)
EXTENDS Integers, Sequences, SequencesExt, FiniteSetsExt

CONSTANTS
  MaxRetries,            \* DB_MAX_RETRIES
  BaseDelay, MaxDelay,   \* DB_RETRY_DELAY and DB_MAX_RETRY_DELAY, in ticks
  GrowNum, GrowDen,      \* DB_BACKOFF_MULTIPLIER as a fraction
  Period,                \* the 30 s of both timers
  AskTicks,              \* the longest an attempt takes, its own retries included
  MaxFlips               \* bound: how often the database goes away or comes back

ASSUME ConfigAssumption ==
  /\ {MaxRetries, BaseDelay, MaxDelay, AskTicks, MaxFlips} \subseteq Nat
  /\ {GrowNum, GrowDen, Period} \subseteq Nat \ {0}

VARIABLES
  up, flips,   \* the database
  procs,       \* processes, the oldest first
  checks,      \* time left on each timer of setupReconnectionHandlers
  health,      \* time left on each timer of startHealthCheck
  stage        \* "running", or "closing" after a signal, or "exited"
vars == <<up, flips, procs, checks, health, stage>>

Process == [kind : {"start", "check"}, attempt : 0..MaxRetries,
            doing : {"asking", "waiting"}, left : Nat]
--------------------------------------------------------------------------------
\* The delay after an attempt, before jitter, in hundredths of a tick.
Grown[n \in Nat] == IF n <= 1 THEN 100 * BaseDelay ELSE (Grown[n - 1] * GrowNum) \div GrowDen
Delay(n) == Min({Grown[n], 100 * MaxDelay})

\* Jitter moves it by up to a tenth; a timer fires in the tick that follows.
WaitTicks(n) == ((9 * Delay(n) + 999) \div 1000) .. ((11 * Delay(n) + 999) \div 1000)

Asking(kind, n) == [kind |-> kind, attempt |-> n, doing |-> "asking", left |-> AskTicks]
Waiting(kind, n, t) == [kind |-> kind, attempt |-> n, doing |-> "waiting", left |-> t]

\* testConnection, unless it is to make no attempt at all.
StartUp == IF MaxRetries = 0 THEN <<>> ELSE <<Asking("start", 1)>>

\* isConnected only looks at the Sequelize instance, which is always there.
IsConnected == TRUE

\* mutant of NextAttempt: the counter is not advanced.
NextAttemptForgotten(p) == p.attempt

NextAttempt(p) == p.attempt + 1

\* mutant of IsLast: one attempt too many.
IsLastButOne(p) == p.attempt > MaxRetries

\* No attempt follows this one.
IsLast(p) == p.attempt >= MaxRetries

\* mutant of Armed: the check is armed once, as by setTimeout.
ArmedOnce == <<>>

\* setInterval
Armed == <<Period>>

Init ==
  /\ up \in BOOLEAN /\ flips = 0
  /\ procs = StartUp
  /\ checks = <<>>
  /\ health = IF MaxRetries = 0 THEN <<Period>> ELSE <<>>
  /\ stage = "running"
--------------------------------------------------------------------------------
\* The database is asked or cannot be. Closing the pool refuses new connections, while an
\* attempt that has one may still end well: after a signal, either may happen.
Answered(i, ok) ==
  /\ procs[i].doing = "asking"
  /\ IF ok THEN up ELSE ~up \/ stage # "running"
  /\ UNCHANGED <<up, flips, stage>>

\* A timer per success of testConnection, then main.ts starts its own.
StartSucceeds(i) ==
  /\ procs[i].kind = "start"
  /\ Answered(i, TRUE)
  /\ checks' = Append(checks, Period)
  /\ health' = Append(health, Period)
  /\ procs' = RemoveAt(procs, i)

CheckSucceeds(i) ==
  /\ procs[i].kind = "check"
  /\ Answered(i, TRUE)
  /\ procs' = RemoveAt(procs, i)
  /\ UNCHANGED <<checks, health>>

\* A failed check starts its loop at once; a failed attempt waits for the next one.
AttemptFails(i) ==
  LET p == procs[i] IN
  /\ Answered(i, FALSE)
  /\ ~IsLast(p)
  /\ IF p.attempt = 0
     THEN procs' = [procs EXCEPT ![i] = Asking(p.kind, 1)]
     ELSE \E t \in WaitTicks(p.attempt) : procs' = [procs EXCEPT ![i] = Waiting(p.kind, p.attempt, t)]
  /\ UNCHANGED <<checks, health>>

\* After its last attempt a process is over; main.ts starts its timer all the same.
GivesUp(i) ==
  /\ Answered(i, FALSE)
  /\ IsLast(procs[i])
  /\ procs' = RemoveAt(procs, i)
  /\ health' = IF procs[i].kind = "start" THEN Append(health, Period) ELSE health
  /\ UNCHANGED checks

TriesAgain(i) ==
  LET p == procs[i] IN
  /\ p.doing = "waiting" /\ p.left = 0
  /\ procs' = [procs EXCEPT ![i] = Asking(p.kind, NextAttempt(p))]
  /\ UNCHANGED <<up, flips, checks, health, stage>>

CheckFires(k) ==
  /\ checks[k] = 0
  /\ checks' = RemoveAt(checks, k) \o Armed
  /\ procs' = Append(procs, Asking("check", 0))
  /\ UNCHANGED <<up, flips, health, stage>>

HealthFires(k) ==
  /\ health[k] = 0
  /\ health' = Append(RemoveAt(health, k), Period)
  /\ procs' = IF IsConnected THEN procs ELSE procs \o StartUp
  /\ UNCHANGED <<up, flips, checks, stage>>

\* A tick: nothing is due, and no attempt has used up its time.
Tick ==
  /\ \A i \in DOMAIN procs : procs[i].left > 0
  /\ \A k \in DOMAIN checks : checks[k] > 0
  /\ \A k \in DOMAIN health : health[k] > 0
  /\ procs' = [i \in DOMAIN procs |-> [procs[i] EXCEPT !.left = @ - 1]]
  /\ checks' = [k \in DOMAIN checks |-> checks[k] - 1]
  /\ health' = [k \in DOMAIN health |-> health[k] - 1]
  /\ UNCHANGED <<up, flips, stage>>

DatabaseFlips ==
  /\ stage # "exited" /\ flips < MaxFlips /\ flips' = flips + 1
  /\ up' = ~up
  /\ UNCHANGED <<procs, checks, health, stage>>

\* SIGINT or SIGTERM: the connection is being closed.
Signal ==
  /\ stage = "running" /\ stage' = "closing"
  /\ UNCHANGED <<up, flips, procs, checks, health>>

Exit ==
  /\ stage = "closing" /\ stage' = "exited"
  /\ procs' = <<>> /\ checks' = <<>> /\ health' = <<>>
  /\ UNCHANGED <<up, flips>>

Due == \/ \E i \in DOMAIN procs : \/ StartSucceeds(i) \/ CheckSucceeds(i) \/ AttemptFails(i)
                                  \/ GivesUp(i) \/ TriesAgain(i)
       \/ \E k \in DOMAIN checks : CheckFires(k)
       \/ \E k \in DOMAIN health : HealthFires(k)

\* The process is gone.
Gone == stage = "exited" /\ UNCHANGED vars

Next == (stage # "exited" /\ (Due \/ Tick)) \/ DatabaseFlips \/ Signal \/ Exit \/ Gone

Spec == Init /\ [][Next]_vars

\* Time passes, and the event loop gets to whatever is due.
FairSpec == Spec /\ WF_vars(stage # "exited" /\ Tick) /\ WF_vars(Due) /\ WF_vars(Exit)
--------------------------------------------------------------------------------
\* The state is well typed; no process goes beyond its last attempt.
TypeOK ==
  /\ up \in BOOLEAN /\ flips \in 0..MaxFlips
  /\ procs \in Seq(Process)
  /\ \A i \in DOMAIN procs : procs[i].kind = "start" => procs[i].attempt # 0
  /\ checks \in Seq(0..Period) /\ health \in Seq(0..Period)
  /\ stage \in {"running", "closing", "exited"}

\* The latest attempt n of a callback starts, counted from its check, which is attempt 0.
LatestStart[n \in Nat] ==
  IF n <= 1 THEN n * AskTicks ELSE LatestStart[n - 1] + AskTicks + Max(WaitTicks(n - 1))

\* The longest a check's callback lives.
LongestLoop == LatestStart[MaxRetries] + AskTicks

\* Loops overlap when the database stays away, but never more of them than one loop's
\* length has periods; and the timers that start them do not multiply.
AttemptsBounded ==
  /\ Len(procs) <= LongestLoop \div Period + 1
  /\ Len(checks) + Len(health) <= 2

\* What main.ts says when start-up has failed: 'retries will continue'. From a state in
\* which no attempt, loop or check is left, another attempt is made, unless the process
\* exits first; its health timer (main.ts:45-53) goes on all the while.
Abandoned == procs = <<>> /\ checks = <<>> /\ health # <<>>
RetriesContinue == Abandoned ~> (procs # <<>> \/ stage = "exited")

\* Once start-up has found the database, it is checked for ever after, however often
\* it goes away and comes back.
CheckedForEver ==
  <>(checks # <<>>)
    => []<>(stage = "exited" \/ \E i \in DOMAIN procs : procs[i].attempt = 0)
=============================================================================
