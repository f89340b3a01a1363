----------------------------- MODULE Scheduler ------------------------------
(***************************************************************************)
(* The daemon's loop (cmd/daemon.go) under its systemd unit                *)
(* (embedded/fb-agent.service.tmpl): three tickers whose channels hold one *)
(* tick each, one handler at a time, the SIGTERM channel, and the service  *)
(* manager, which kills a daemon it has not heard from for WatchdogSec and *)
(* starts it again RestartSec later.  Time is discrete, and passes only    *)
(* when the daemon has nothing to do or is inside a handler.               *)
(***************************************************************************)
EXTENDS Integers

CONSTANTS
  CheckEvery, RegisterEvery, CertEvery,  \* the periods of the tickers
  MaxCheck, MaxRegister, MaxCert,        \* the longest runs of the handlers
  WatchdogSec,  \* the unit's; 0 for a daemon no service manager watches
  Slack,        \* how late the service manager may notice the deadline
  RestartSec,   \* the unit's
  Crashes       \* whether the daemon may die of itself

Periods == {CheckEvery, RegisterEvery, CertEvery}
ASSUME PeriodAssumption == Periods \subseteq Nat \ {0}
ASSUME LongestAssumption == {MaxCheck, MaxRegister, MaxCert} \subseteq Nat
ASSUME UnitAssumption ==
  /\ WatchdogSec \in Nat /\ Slack \in Nat /\ RestartSec \in Nat \ {0}
  /\ Crashes \in BOOLEAN

VARIABLES
  state,  \* of the service: see TypeOK
  job,    \* the handler that runs, "first" for the check before the loop
  spent,  \* for how long it has
  timer,  \* timer[j]: time to the next tick of j
  chan,   \* chan[j]: a tick of j waits in its channel
  sig,    \* a SIGTERM waits in sigCh
  quiet,  \* time since READY=1 or the last WATCHDOG=1
  wait,   \* time to the restart of a daemon that died
  since,  \* time since a check last began
  asked   \* time since the daemon was told to stop

loop == <<job, spent, timer, chan, sig>>
vars == <<state, job, spent, timer, chan, sig, quiet, wait, since, asked>>

Jobs == {"check", "register", "cert"}
Every == [check |-> CheckEvery, register |-> RegisterEvery, cert |-> CertEvery]
Longest == [check |-> MaxCheck, register |-> MaxRegister, cert |-> MaxCert,
            first |-> MaxCheck]
AllJobs == MaxCheck + MaxRegister + MaxCert

\* Minutes against less than one: the handlers' requests time out.
ASSUME PaceAssumption == \A j \in Jobs : AllJobs < Every[j]

TypeOK ==
  /\ state \in {"off", "dead", "starting", "select", "busy"}
  /\ job \in Jobs \cup {"first"}
  /\ spent \in 0..Longest[job]
  /\ timer \in [Jobs -> Nat] /\ \A j \in Jobs : timer[j] \in 1..Every[j]
  /\ chan \in [Jobs -> BOOLEAN]
  /\ sig \in BOOLEAN
  /\ quiet \in Nat /\ (WatchdogSec > 0 => quiet <= WatchdogSec + Slack)
  /\ wait \in 0..RestartSec
  /\ since \in Nat /\ asked \in Nat

Fresh ==
  /\ job' = "first" /\ spent' = 0
  /\ timer' = Every /\ chan' = [j \in Jobs |-> FALSE] /\ sig' = FALSE

Init ==
  /\ state = "starting"
  /\ job = "first" /\ spent = 0
  /\ timer = Every /\ chan = [j \in Jobs |-> FALSE] /\ sig = FALSE
  /\ quiet = 0 /\ wait = 0 /\ since = 0 /\ asked = 0

Up == state \in {"select", "busy"}

-----------------------------------------------------------------------------
(* The daemon.                                                             *)

\* Slip: the loop is entered without the first check.
BeginIdle ==
  /\ state = "starting"
  /\ state' = "select" /\ quiet' = 0
  /\ Fresh
  /\ UNCHANGED <<wait, since, asked>>

\* READY=1, the signal channel, the tickers, and the first check.
Begin ==
  /\ state = "starting"
  /\ state' = "busy" /\ quiet' = 0 /\ since' = 0
  /\ Fresh
  /\ UNCHANGED <<wait, asked>>

\* Slip: the tick is looked at and not received.
ServePeeking(j) ==
  /\ state = "select" /\ chan[j]
  /\ state' = "busy" /\ job' = j /\ spent' = 0
  /\ since' = IF j = "check" THEN 0 ELSE since
  /\ UNCHANGED <<timer, chan, sig, quiet, wait, asked>>

\* A case of the select: of several that are ready any one may be taken.
Serve(j) ==
  /\ state = "select" /\ chan[j]
  /\ state' = "busy" /\ job' = j /\ spent' = 0
  /\ chan' = [chan EXCEPT ![j] = FALSE]
  /\ since' = IF j = "check" THEN 0 ELSE since
  /\ UNCHANGED <<timer, sig, quiet, wait, asked>>

\* The handler returns.  A check of the loop, and nothing else, is followed
\* by WATCHDOG=1.
Finish ==
  /\ state = "busy"
  /\ state' = "select"
  /\ quiet' = IF job = "check" THEN 0 ELSE quiet
  /\ UNCHANGED <<loop, wait, since, asked>>

Exit ==
  /\ state = "select" /\ sig
  /\ state' = "off"
  /\ Fresh /\ quiet' = 0 /\ wait' = 0 /\ since' = 0 /\ asked' = 0

-----------------------------------------------------------------------------
(* The service manager and time.                                           *)

Dies ==
  /\ state' = "dead" /\ wait' = RestartSec
  /\ Fresh /\ quiet' = 0
  /\ UNCHANGED <<since, asked>>

\* SIGABRT to a daemon silent for WatchdogSec that has not been told to stop.
WatchdogKill ==
  WatchdogSec > 0 /\ Up /\ ~sig /\ quiet >= WatchdogSec /\ Dies

Crash == Crashes /\ Up /\ ~sig /\ Dies

\* Slip: an off-by-one in the delay.
RestartAfter ==
  /\ state = "dead" /\ wait < 0
  /\ state' = "starting"
  /\ UNCHANGED <<loop, quiet, wait, since, asked>>

\* Restart=always
Restart ==
  /\ state = "dead" /\ wait = 0
  /\ state' = "starting"
  /\ UNCHANGED <<loop, quiet, wait, since, asked>>

\* systemctl stop: SIGTERM to a daemon that runs.
Stop ==
  /\ ~sig
  /\ IF Up
     THEN /\ sig' = TRUE /\ asked' = 0
          /\ UNCHANGED <<state, job, spent, timer, chan, quiet, wait, since>>
     ELSE /\ state \in {"dead", "starting"} /\ state' = "off"
          /\ Fresh /\ quiet' = 0 /\ wait' = 0 /\ since' = 0 /\ asked' = 0

Start == state = "off" /\ state' = "starting"
         /\ UNCHANGED <<loop, quiet, wait, since, asked>>

\* Slip: a timer that fires once in place of a ticker.
TicksOnce ==
  /\ timer' = [j \in Jobs |-> IF timer[j] = 0 THEN 0 ELSE timer[j] - 1]
  /\ chan' = [j \in Jobs |-> chan[j] \/ timer[j] = 1]

\* time.Ticker drops a tick when its channel still holds one.
Ticks ==
  /\ timer' = [j \in Jobs |-> IF timer[j] = 1 THEN Every[j] ELSE timer[j] - 1]
  /\ chan' = [j \in Jobs |-> chan[j] \/ timer[j] = 1]

Elapse ==
  /\ \/ /\ state = "dead" /\ wait > 0
        /\ wait' = wait - 1
        /\ UNCHANGED <<loop, quiet, asked>>
     \/ /\ Up
        /\ state = "busy" => spent < Longest[job]
        /\ state = "select" => ~sig /\ \A j \in Jobs : ~chan[j]
        /\ WatchdogSec > 0 /\ ~sig => quiet < WatchdogSec + Slack
        /\ Ticks
        /\ spent' = IF state = "busy" THEN spent + 1 ELSE spent
        /\ quiet' = IF WatchdogSec > 0 /\ ~sig THEN quiet + 1 ELSE quiet
        /\ asked' = IF sig THEN asked + 1 ELSE asked
        /\ UNCHANGED <<job, sig, wait>>
  /\ since' = since + 1
  /\ UNCHANGED state

Daemon == Begin \/ Finish \/ Exit \/ \E j \in Jobs : Serve(j)
System == WatchdogKill \/ Restart \/ Elapse

Next == Daemon \/ System \/ Crash \/ Stop \/ Start

Spec == Init /\ [][Next]_vars

\* The daemon goes on, and so does time: an operator's stop or start, and a
\* crash, need not happen.
FairSpec == Spec /\ WF_vars(Daemon \/ System)

-----------------------------------------------------------------------------
(* Properties.                                                             *)

\* Every five minutes (README.md:103): from one check to the next passes at
\* most a period, the other handlers, and a restart.
CheckGap ==
  state /= "off" =>
    since <= CheckEvery + MaxRegister + MaxCert + RestartSec

\* A tick that waits is served before the handlers have had time to run
\* twice, whichever case the select prefers; so none is ever dropped.
ServedInTime ==
  \A j \in Jobs : chan[j] => Every[j] - timer[j] <= AllJobs

\* "Graceful shutdown on SIGTERM" (daemon.go:24): the daemon is gone within
\* one run of each handler, whichever case the select prefers.
StopsInTime == sig => asked <= AllJobs

\* Every 24 h, registration, and every week the certificates (README.md:104):
\* a daemon that is left to run comes to each job again and again, however
\* busy the others keep it.  Under this unit it may not be left to run: the
\* deadline is the period of the ping (fb-agent.service.tmpl:11).
LeftToRun == <>[]Up
EachJobAgain ==
  LeftToRun => \A j \in Jobs : []<>(state = "busy" /\ job = j)

\* Whatever kills the daemon, it runs again (Restart=always).
ComesBack == []<>(state = "off" \/ Up)

-----------------------------------------------------------------------------
(* What the loop keeps, which SchedulerProofs proves and uses.             *)

Age(j) == Every[j] - timer[j]

\* The most that the handlers of a set of jobs take.
Work(D) == (IF "check" \in D THEN MaxCheck ELSE 0)
           + (IF "register" \in D THEN MaxRegister ELSE 0)
           + (IF "cert" \in D THEN MaxCert ELSE 0)

\* The job that runs; the check before the loop counts as one of its ticks.
Current == IF state # "busy" THEN {}
           ELSE IF job = "first" THEN {"check"} ELSE {job}

\* The loop has not been idle for b, and has done D since: what it has done
\* and what waits ticked in that time, so no job is there twice.
BusyFor(D, b) ==
  /\ D \cap Current = {}
  /\ b <= Work(D) + (IF state = "busy" THEN spent ELSE 0)
  /\ \A j \in D \cup Current : ~chan[j] /\ Age(j) <= b
  /\ \A j \in Jobs : chan[j] => Age(j) <= b
  /\ sig => asked <= b

\* A check began no longer ago than its last tick, or than the one before
\* if the last one waits.
GapInv ==
  /\ Up => since <= Age("check") + IF chan["check"] THEN CheckEvery ELSE 0
  /\ state = "dead" =>
       since <= CheckEvery + MaxRegister + MaxCert + RestartSec - wait
  /\ state = "starting" =>
       since <= CheckEvery + MaxRegister + MaxCert + RestartSec
  /\ state = "off" => since = 0

LoopInv ==
  /\ Up => \E D \in SUBSET Jobs : \E b \in Nat : BusyFor(D, b)
  /\ ~Up => ~sig /\ \A j \in Jobs : ~chan[j]
  /\ GapInv

=============================================================================
