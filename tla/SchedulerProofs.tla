--------------------------- MODULE SchedulerProofs ---------------------------
(***************************************************************************)
(* Theorems about Scheduler, for all periods, run times and delays of the  *)
(* unit, as long as a period is longer than a run of every handler.        *)
(***************************************************************************)
EXTENDS Scheduler, TLAPS

USE PeriodAssumption, LongestAssumption, UnitAssumption
    DEF Periods

LEMMA Durations ==
  /\ CheckEvery \in Nat \ {0} /\ RegisterEvery \in Nat \ {0}
  /\ CertEvery \in Nat \ {0}
  /\ MaxCheck \in Nat /\ MaxRegister \in Nat /\ MaxCert \in Nat
  /\ AllJobs \in Nat
BY DEF AllJobs

LEMMA JobTimes ==
  /\ Every \in [Jobs -> Nat \ {0}]
  /\ \A j \in Jobs \cup {"first"} : Longest[j] \in Nat
  /\ Longest["first"] = MaxCheck /\ Longest["check"] = MaxCheck
  /\ Longest["register"] = MaxRegister /\ Longest["cert"] = MaxCert
  /\ Every["check"] = CheckEvery
BY Durations DEF Every, Longest, Jobs

\* The types of what a new process has.
FreshTypes ==
  /\ job \in Jobs \cup {"first"} /\ spent \in 0..Longest[job]
  /\ timer \in [Jobs -> Nat] /\ \A j \in Jobs : timer[j] \in 1..Every[j]
  /\ chan \in [Jobs -> BOOLEAN] /\ sig \in BOOLEAN

\* Every variable of the loop and its unit keeps its type, and no deadline of
\* the watchdog is passed unnoticed.
THEOREM TypeCorrect == Spec => []TypeOK
<1>1. Init => TypeOK
  <2> SUFFICES ASSUME Init PROVE TypeOK
    OBVIOUS
  <2>1. timer \in [Jobs -> Nat] /\ \A j \in Jobs : timer[j] \in 1..Every[j]
    BY JobTimes DEF Init
  <2>2. spent \in 0..Longest[job]
    BY JobTimes DEF Init
  <2>3. /\ chan \in [Jobs -> BOOLEAN] /\ sig \in BOOLEAN
        /\ state \in {"off", "dead", "starting", "select", "busy"}
        /\ job \in Jobs \cup {"first"}
    BY DEF Init
  <2>4. /\ quiet \in Nat /\ (WatchdogSec > 0 => quiet <= WatchdogSec + Slack)
        /\ wait \in 0..RestartSec /\ since \in Nat /\ asked \in Nat
    BY DEF Init
  <2> QED
    BY <2>1, <2>2, <2>3, <2>4 DEF TypeOK
<1>2. TypeOK /\ [Next]_vars => TypeOK'
  <2> SUFFICES ASSUME TypeOK, [Next]_vars PROVE TypeOK'
    OBVIOUS
  <2> USE Durations, JobTimes DEF TypeOK, loop, Up
  <2>0. Fresh => FreshTypes'
    <3> SUFFICES ASSUME Fresh PROVE FreshTypes'
      OBVIOUS
    <3>1. job' = "first" /\ spent' = 0 /\ 0 \in 0..Longest["first"]
      BY DEF Fresh
    <3>2. timer' = Every /\ \A j \in Jobs : Every[j] \in 1..Every[j]
      BY DEF Fresh
    <3>3. chan' \in [Jobs -> BOOLEAN] /\ sig' \in BOOLEAN
      BY DEF Fresh
    <3> QED
      BY <3>1, <3>2, <3>3 DEF FreshTypes
  <2>1. CASE Begin
    BY <2>1, <2>0 DEF Begin, FreshTypes
  <2>2. ASSUME NEW j \in Jobs, Serve(j) PROVE TypeOK'
    BY <2>2 DEF Serve
  <2>3. CASE Finish
    BY <2>3 DEF Finish
  <2>4. CASE Exit
    BY <2>4, <2>0 DEF Exit, FreshTypes
  <2>5. CASE WatchdogKill \/ Crash
    BY <2>5, <2>0 DEF WatchdogKill, Crash, Dies, FreshTypes
  <2>6. CASE Restart
    BY <2>6 DEF Restart
  <2>7. CASE Stop
    <3>1. CASE Up
      BY <2>7, <3>1 DEF Stop
    <3>2. CASE ~Up
      <4>1. /\ quiet' \in Nat /\ (WatchdogSec > 0 => quiet' <= WatchdogSec + Slack)
            /\ wait' \in 0..RestartSec /\ since' \in Nat /\ asked' \in Nat
        BY <2>7, <3>2 DEF Stop
      <4> QED
        BY <2>7, <3>2, <4>1, <2>0 DEF Stop, FreshTypes
    <3> QED
      BY <3>1, <3>2
  <2>8. CASE Start
    BY <2>8 DEF Start
  <2>9. CASE Elapse
    <3>1. CASE state = "dead"
      BY <2>9, <3>1 DEF Elapse
    <3>2. CASE Up /\ Ticks
      <4>1. /\ timer' \in [Jobs -> Nat]
            /\ \A j \in Jobs : timer'[j] \in 1..Every[j]
            /\ chan' \in [Jobs -> BOOLEAN]
        BY <3>2 DEF Ticks
      <4>2. job' = job /\ spent' \in 0..Longest[job]
        BY <2>9, <3>2 DEF Elapse
      <4>3. quiet' \in Nat /\ (WatchdogSec > 0 => quiet' <= WatchdogSec + Slack)
        BY <2>9, <3>2 DEF Elapse
      <4> QED
        BY <2>9, <3>2, <4>1, <4>2, <4>3 DEF Elapse
    <3> QED
      BY <2>9, <3>1, <3>2 DEF Elapse
  <2>10. CASE UNCHANGED vars
    BY <2>10 DEF vars
  <2> QED
    BY <2>1, <2>2, <2>3, <2>4, <2>5, <2>6, <2>7, <2>8, <2>9, <2>10
       DEF Next, Daemon, System
<1> QED
  BY <1>1, <1>2, PTL DEF Spec

-----------------------------------------------------------------------------
(* The busy loop.                                                          *)

LEMMA WorkOf ==
  ASSUME NEW D \in SUBSET Jobs
  PROVE  /\ Work(D) \in Nat /\ Work(D) <= AllJobs
         /\ Work({}) = 0
         /\ \A j \in Jobs \ D : Work(D \cup {j}) = Work(D) + Longest[j]
         /\ "check" \notin D => Work(D) <= MaxRegister + MaxCert
<1>1. Work(D) \in Nat /\ Work(D) <= AllJobs /\ Work({}) = 0
  BY Durations DEF Work, AllJobs
<1>2. "check" \notin D => Work(D) <= MaxRegister + MaxCert
  BY Durations DEF Work
<1>3. ASSUME NEW j \in Jobs \ D PROVE Work(D \cup {j}) = Work(D) + Longest[j]
  <2>1. CASE j = "check"
    BY <1>3, <2>1, Durations, JobTimes DEF Work, Jobs
  <2>2. CASE j = "register"
    BY <1>3, <2>2, Durations, JobTimes DEF Work, Jobs
  <2>3. CASE j = "cert"
    BY <1>3, <2>3, Durations, JobTimes DEF Work, Jobs
  <2> QED
    BY <2>1, <2>2, <2>3 DEF Jobs
<1> QED
  BY <1>1, <1>2, <1>3

\* A job is under way and has its time.
LEMMA CurrentJob ==
  ASSUME TypeOK, state = "busy"
  PROVE  \E c \in Jobs : Current = {c} /\ Longest[job] = Longest[c]
                        /\ Longest[c] \in Nat /\ spent \in 0..Longest[c]
<1>1. CASE job = "first"
  BY <1>1, JobTimes DEF TypeOK, Current, Jobs
<1>2. CASE job \in Jobs
  <2>1. job # "first"
    BY <1>2 DEF Jobs
  <2> QED
    BY <1>2, <2>1, JobTimes DEF TypeOK, Current
<1> QED
  BY <1>1, <1>2 DEF TypeOK

\* The loop is never busy for longer than one run of every handler, and a
\* tick of the check waits for the two others at most.
LEMMA BusyBound ==
  ASSUME TypeOK, NEW D \in SUBSET Jobs, NEW b \in Nat, BusyFor(D, b)
  PROVE  /\ b <= AllJobs
         /\ state = "busy" /\ spent < Longest[job] => b < AllJobs
         /\ chan["check"] => b <= MaxRegister + MaxCert
<1>1. CASE state = "busy"
  <2>1. PICK c \in Jobs : /\ Current = {c} /\ Longest[job] = Longest[c]
                          /\ Longest[c] \in Nat /\ spent \in 0..Longest[c]
    BY <1>1, CurrentJob
  <2>2. c \notin D /\ D \cup {c} \in SUBSET Jobs
    BY <2>1 DEF BusyFor
  <2>3. Work(D \cup {c}) = Work(D) + Longest[c] /\ Work(D) \in Nat
    BY <2>1, <2>2, WorkOf
  <2>4. Work(D \cup {c}) <= AllJobs
    BY <2>2, WorkOf
  <2>5. b <= Work(D) + spent
    BY <1>1 DEF BusyFor
  <2>6. chan["check"] => Work(D \cup {c}) <= MaxRegister + MaxCert
    <3> SUFFICES ASSUME chan["check"] PROVE "check" \notin D \cup {c}
      BY <2>2, WorkOf
    <3> QED
      BY <2>1 DEF BusyFor
  <2> QED
    BY <2>1, <2>3, <2>4, <2>5, <2>6, Durations
<1>2. CASE state # "busy"
  <2>1. b <= Work(D) /\ Work(D) \in Nat /\ Work(D) <= AllJobs
    BY <1>2, WorkOf DEF BusyFor
  <2>2. chan["check"] => "check" \notin D
    BY DEF BusyFor
  <2> QED
    BY <1>2, <2>1, <2>2, WorkOf, Durations
<1> QED
  BY <1>1, <1>2

LEMMA AgeType ==
  ASSUME TypeOK, NEW j \in Jobs
  PROVE  Age(j) \in Nat /\ Age(j) < Every[j]
BY JobTimes DEF TypeOK, Age

\* While the loop is up, no check began longer ago than this.
LEMMA GapWhileUp ==
  ASSUME TypeOK, LoopInv, Up
  PROVE  since <= CheckEvery + MaxRegister + MaxCert
<1>1. PICK D \in SUBSET Jobs, b \in Nat : BusyFor(D, b)
  BY DEF LoopInv
<1>2. /\ since \in Nat /\ "check" \in Jobs
      /\ since <= Age("check") + IF chan["check"] THEN CheckEvery ELSE 0
  BY DEF LoopInv, GapInv, TypeOK, Jobs
<1>3. Age("check") \in Nat /\ Age("check") < CheckEvery
  BY <1>2, AgeType, JobTimes
<1>4. CASE chan["check"]
  <2>1. Age("check") <= b /\ b <= MaxRegister + MaxCert
    BY <1>1, <1>2, <1>4, BusyBound DEF BusyFor
  <2> QED
    BY <1>2, <1>3, <1>4, <2>1, Durations
<1>5. CASE ~chan["check"]
  BY <1>2, <1>3, <1>5, Durations
<1> QED
  BY <1>4, <1>5

LEMMA InitLoop == Init => LoopInv
BY DEF Init, LoopInv, GapInv, Up

\* Where a process is gone nothing waits in its channels.
LEMMA GoneLoop ==
  ASSUME Fresh, ~Up', GapInv'
  PROVE  LoopInv'
BY DEF Fresh, LoopInv

LEMMA BeginLoop ==
  ASSUME TypeOK, LoopInv, Begin
  PROVE  LoopInv'
<1> USE Durations, JobTimes DEF Begin, Fresh
<1>1. Current' = {"check"} /\ {"check"} \subseteq Jobs
  BY DEF Current, Jobs
<1>2. \A j \in Jobs : Age(j)' = 0
  BY DEF Age
<1>3. Work({}) = 0
  BY WorkOf
<1>4. BusyFor({}, 0)'
  BY <1>1, <1>2, <1>3 DEF BusyFor
<1>5. GapInv'
  BY <1>1, <1>2 DEF GapInv
<1> QED
  BY <1>4, <1>5 DEF LoopInv, Up

LEMMA ServeLoop ==
  ASSUME TypeOK, LoopInv, NEW j \in Jobs, Serve(j)
  PROVE  LoopInv'
<1> USE DEF Serve
<1>1. PICK D \in SUBSET Jobs, b \in Nat : BusyFor(D, b)
  BY DEF LoopInv, Up
<1>2. Current = {} /\ Current' = {j}
  BY DEF Current, Jobs
<1>3. j \notin D /\ Age(j) <= b
  BY <1>1 DEF BusyFor
<1>4. \A i \in Jobs : Age(i)' = Age(i) /\ (i # j => chan'[i] = chan[i])
  BY DEF Age, TypeOK
<1>5. ~chan'[j] /\ b <= Work(D) + 0 /\ Work(D) \in Nat
  BY <1>1, WorkOf DEF BusyFor, TypeOK
<1>6. BusyFor(D, b)'
  BY <1>1, <1>2, <1>3, <1>4, <1>5 DEF BusyFor
<1>7. GapInv'
  <2>1. Age("check") \in Nat /\ "check" \in Jobs
    BY AgeType DEF Jobs
  <2>2. CASE j = "check"
    <3>1. since' = 0 /\ ~chan'["check"] /\ Age("check")' \in Nat
      BY <2>1, <2>2, <1>4, <1>5
    <3> QED
      BY <3>1 DEF GapInv, Up
  <2>3. CASE j # "check"
    BY <2>1, <2>3, <1>4 DEF LoopInv, GapInv, Up
  <2> QED
    BY <2>2, <2>3
<1> QED
  BY <1>6, <1>7 DEF LoopInv, Up

LEMMA FinishLoop ==
  ASSUME TypeOK, LoopInv, Finish
  PROVE  LoopInv'
<1> USE DEF Finish, loop
<1>1. PICK D \in SUBSET Jobs, b \in Nat : BusyFor(D, b)
  BY DEF LoopInv, Up
<1>2. PICK c \in Jobs : /\ Current = {c} /\ Longest[c] \in Nat
                        /\ spent \in 0..Longest[c]
  BY CurrentJob
<1>3. Current' = {} /\ c \notin D /\ D \cup {c} \in SUBSET Jobs
  BY <1>1, <1>2 DEF Current, BusyFor
<1>4. Work(D \cup {c}) = Work(D) + Longest[c] /\ Work(D) \in Nat
  BY <1>2, <1>3, WorkOf
<1>5. b <= Work(D \cup {c})
  BY <1>1, <1>2, <1>4 DEF BusyFor
<1>6. \A i \in Jobs : Age(i)' = Age(i) /\ chan'[i] = chan[i]
  BY DEF Age
<1>7. BusyFor(D \cup {c}, b)'
  <2>1. b <= Work(D \cup {c}) + 0
    BY <1>2, <1>4, <1>5
  <2>2. \A j \in (D \cup {c}) \cup {} : ~chan'[j] /\ Age(j)' <= b
    BY <1>1, <1>2, <1>3, <1>6 DEF BusyFor
  <2>3. \A j \in Jobs : chan'[j] => Age(j)' <= b
    BY <1>1, <1>6 DEF BusyFor
  <2>4. sig' => asked' <= b
    BY <1>1 DEF BusyFor
  <2> QED
    BY <1>3, <2>1, <2>2, <2>3, <2>4 DEF BusyFor
<1>8. GapInv'
  BY <1>6 DEF LoopInv, GapInv, Up, Jobs
<1> QED
  BY <1>3, <1>7, <1>8 DEF LoopInv, Up

\* What time does to a ticker.
LEMMA TicksAge ==
  ASSUME TypeOK, Ticks, NEW j \in Jobs
  PROVE  /\ Age(j) \in Nat /\ Age(j)' \in Nat /\ Age(j) < Every[j]
         /\ Age(j) + 1 = Every[j] => Age(j)' = 0 /\ chan'[j]
         /\ Age(j) + 1 # Every[j] =>
              Age(j)' = Age(j) + 1 /\ chan'[j] = chan[j]
<1>1. /\ timer[j] \in 1..Every[j] /\ Every[j] \in Nat
      /\ timer'[j] = IF timer[j] = 1 THEN Every[j] ELSE timer[j] - 1
      /\ chan'[j] = (chan[j] \/ timer[j] = 1)
  BY JobTimes DEF TypeOK, Ticks
<1>2. Age(j) = Every[j] - timer[j] /\ Age(j)' = Every[j] - timer'[j]
  BY DEF Age
<1>3. chan[j] \in BOOLEAN
  BY DEF TypeOK
<1>4. CASE timer[j] = 1
  <2>1. chan'[j] /\ timer'[j] = Every[j]
    BY <1>1, <1>3, <1>4
  <2> QED
    BY <1>1, <1>2, <1>4, <2>1
<1>5. CASE timer[j] # 1
  <2>1. chan'[j] = chan[j]
    BY <1>1, <1>3, <1>5
  <2> QED
    BY <1>1, <1>2, <1>5, <2>1
<1> QED
  BY <1>4, <1>5

\* A check that waits has ticked before the ticker comes round again.
LEMMA GapTicks ==
  ASSUME TypeOK, LoopInv, Up, Ticks, since' = since + 1, UNCHANGED state,
         chan["check"] => Age("check") + 1 # CheckEvery
  PROVE  GapInv'
<1>1. "check" \in Jobs /\ Every["check"] = CheckEvery /\ CheckEvery \in Nat
  BY JobTimes, Durations DEF Jobs
<1>2. /\ since \in Nat
      /\ since <= Age("check") + IF chan["check"] THEN CheckEvery ELSE 0
  BY DEF LoopInv, GapInv, TypeOK
<1>3. CASE Age("check") + 1 = CheckEvery
  <2>1. ~chan["check"] /\ Age("check")' = 0 /\ chan'["check"]
    BY <1>1, <1>3, TicksAge
  <2>2. since <= Age("check") /\ Age("check") \in Nat
    BY <1>1, <1>2, <2>1, TicksAge
  <2>3. since' <= CheckEvery
    BY <1>1, <1>2, <1>3, <2>2
  <2> QED
    BY <1>1, <2>1, <2>3 DEF GapInv, Up
<1>4. CASE Age("check") + 1 # CheckEvery
  <2>1. /\ Age("check")' = Age("check") + 1 /\ chan'["check"] = chan["check"]
        /\ Age("check") \in Nat
    BY <1>1, <1>4, TicksAge
  <2>2. since' <= Age("check")' + IF chan'["check"] THEN CheckEvery ELSE 0
    BY <1>1, <1>2, <2>1
  <2> QED
    BY <2>2 DEF GapInv, Up
<1> QED
  BY <1>3, <1>4

LEMMA ElapseLoop ==
  ASSUME TypeOK, LoopInv, Elapse
  PROVE  LoopInv'
<1>1. CASE state = "dead"
  <2>1. ~Up /\ ~Up' /\ UNCHANGED <<sig, chan, state>>
    BY <1>1 DEF Elapse, Up, loop
  <2>2. GapInv'
    <3>1. /\ wait > 0 /\ wait' = wait - 1 /\ since' = since + 1
          /\ wait \in Nat /\ since \in Nat
      BY <1>1 DEF Elapse, Up, TypeOK
    <3>2. since <= CheckEvery + MaxRegister + MaxCert + RestartSec - wait
      BY <1>1 DEF LoopInv, GapInv
    <3> QED
      BY <1>1, <2>1, <3>1, <3>2, Durations DEF GapInv
  <2> QED
    BY <2>1, <2>2 DEF LoopInv
<1>2. CASE state = "select"
  <2>1. /\ Ticks /\ ~sig /\ ~sig' /\ since' = since + 1 /\ UNCHANGED state
        /\ \A j \in Jobs : ~chan[j]
    BY <1>2 DEF Elapse
  <2>2. \A j \in Jobs : chan'[j] => Age(j)' <= 0
    BY <2>1, TicksAge
  <2>3. Current' = {} /\ Work({}) = 0
    BY <1>2, <2>1, WorkOf DEF Current
  <2>4. BusyFor({}, 0)'
    BY <1>2, <2>1, <2>2, <2>3 DEF BusyFor
  <2>5. GapInv'
    BY <1>2, <2>1, GapTicks DEF Up, Jobs
  <2> QED
    BY <1>2, <2>1, <2>4, <2>5 DEF LoopInv, Up
<1>3. CASE state = "busy"
  <2>1. /\ Ticks /\ since' = since + 1 /\ UNCHANGED <<state, job, sig>>
        /\ spent < Longest[job] /\ spent' = spent + 1 /\ spent \in Nat
        /\ asked \in Nat /\ asked' = IF sig THEN asked + 1 ELSE asked
    BY <1>3, JobTimes DEF Elapse, TypeOK
  <2>2. PICK D \in SUBSET Jobs, b \in Nat : BusyFor(D, b)
    BY <1>3 DEF LoopInv, Up
  <2>3. b < AllJobs /\ AllJobs \in Nat /\ \A j \in Jobs : b + 1 < Every[j]
    BY <1>3, <2>1, <2>2, BusyBound, Durations, PaceAssumption, JobTimes
  <2>4. Current' = Current /\ Current \subseteq Jobs
    BY <1>3, <2>1, CurrentJob DEF Current
  <2>5. ASSUME NEW j \in Jobs, Age(j) <= b
        PROVE  Age(j)' = Age(j) + 1 /\ chan'[j] = chan[j]
    BY <2>1, <2>3, <2>5, TicksAge
  <2>6. \A j \in D \cup Current : ~chan'[j] /\ Age(j)' <= b + 1
    BY <2>2, <2>4, <2>5, <2>1, TicksAge DEF BusyFor
  <2>7. ASSUME NEW j \in Jobs, chan'[j] PROVE Age(j)' <= b + 1
    <3>1. CASE chan[j]
      <4>1. Age(j) <= b /\ Age(j) \in Nat
        BY <3>1, <2>1, <2>2, TicksAge DEF BusyFor
      <4> QED
        BY <2>5, <4>1
    <3>2. CASE ~chan[j]
      BY <2>1, <2>7, <3>2, TicksAge
    <3> QED
      BY <3>1, <3>2
  <2>8. sig' => asked' <= b + 1
    BY <1>3, <2>1, <2>2, WorkOf DEF BusyFor
  <2>9. b + 1 <= Work(D) + (spent + 1) /\ b + 1 \in Nat
    BY <1>3, <2>1, <2>2, WorkOf DEF BusyFor
  <2>10. BusyFor(D, b + 1)'
    BY <1>3, <2>1, <2>2, <2>4, <2>6, <2>7, <2>8, <2>9 DEF BusyFor
  <2>11. GapInv'
    <3>1. "check" \in Jobs /\ Every["check"] = CheckEvery
      BY JobTimes DEF Jobs
    <3>2. chan["check"] => Age("check") + 1 # CheckEvery
      BY <2>1, <2>2, <2>3, <3>1, TicksAge DEF BusyFor
    <3> QED
      BY <1>3, <2>1, <3>2, GapTicks DEF Up
  <2> QED
    BY <1>3, <2>1, <2>9, <2>10, <2>11 DEF LoopInv, Up
<1> QED
  BY <1>1, <1>2, <1>3 DEF Elapse, Up

\* The loop is never busy for longer than one run of every handler.
THEOREM LoopKept == Spec => []LoopInv
<1>1. TypeOK /\ LoopInv /\ [Next]_vars => LoopInv'
  <2> SUFFICES ASSUME TypeOK, LoopInv, [Next]_vars PROVE LoopInv'
    OBVIOUS
  <2>1. CASE Begin
    BY <2>1, BeginLoop
  <2>2. ASSUME NEW j \in Jobs, Serve(j) PROVE LoopInv'
    BY <2>2, ServeLoop
  <2>3. CASE Finish
    BY <2>3, FinishLoop
  <2>4. CASE Exit
    <3>1. Fresh /\ ~Up' /\ GapInv'
      BY <2>4, Durations DEF Exit, Up, GapInv
    <3> QED
      BY <3>1, GoneLoop
  <2>5. CASE WatchdogKill \/ Crash
    <3>1. Fresh /\ Up /\ state' = "dead" /\ wait' = RestartSec /\ since' = since
      BY <2>5 DEF WatchdogKill, Crash, Dies
    <3>2. GapInv'
      BY <3>1, GapWhileUp, Durations DEF GapInv, Up, TypeOK
    <3> QED
      BY <3>1, <3>2, GoneLoop DEF Up
  <2>6. CASE Restart
    <3>1. ~Up /\ ~Up' /\ UNCHANGED <<sig, chan, since>> /\ wait = 0
      BY <2>6 DEF Restart, Up, loop
    <3>2. GapInv'
      BY <2>6, <3>1, Durations DEF Restart, LoopInv, GapInv, Up
    <3> QED
      BY <3>1, <3>2 DEF LoopInv
  <2>7. CASE Stop /\ Up
    <3>1. PICK D \in SUBSET Jobs, b \in Nat : BusyFor(D, b)
      BY <2>7 DEF LoopInv
    <3>2. /\ UNCHANGED <<state, job, spent, timer, chan, since, wait>>
          /\ asked' = 0
      BY <2>7 DEF Stop
    <3>3. BusyFor(D, b)'
      BY <3>1, <3>2 DEF BusyFor, Current, Age
    <3>4. GapInv' /\ Up'
      BY <2>7, <3>2 DEF LoopInv, GapInv, Up, Age
    <3> QED
      BY <3>3, <3>4 DEF LoopInv
  <2>8. CASE Stop /\ ~Up
    <3>1. Fresh /\ ~Up' /\ GapInv'
      BY <2>8 DEF Stop, Up, GapInv
    <3> QED
      BY <3>1, GoneLoop
  <2>9. CASE Start
    <3>1. ~Up /\ ~Up' /\ UNCHANGED <<sig, chan, since>>
      BY <2>9 DEF Start, Up, loop
    <3>2. GapInv'
      BY <2>9, <3>1, Durations DEF Start, LoopInv, GapInv, Up
    <3> QED
      BY <3>1, <3>2 DEF LoopInv
  <2>10. CASE Elapse
    BY <2>10, ElapseLoop
  <2>11. CASE UNCHANGED vars
    BY <2>11 DEF vars, LoopInv, GapInv, BusyFor, Current, Age, Up
  <2> QED
    BY <2>1, <2>2, <2>3, <2>4, <2>5, <2>6, <2>7, <2>8, <2>9, <2>10, <2>11
       DEF Next, Daemon, System
<1> QED
  BY <1>1, InitLoop, TypeCorrect, PTL DEF Spec

\* No tick waits longer than one run of every handler, so none is dropped.
THEOREM NoTickWaits == Spec => []ServedInTime
<1>1. TypeOK /\ LoopInv => ServedInTime
  <2> SUFFICES ASSUME TypeOK, LoopInv, NEW j \in Jobs, chan[j]
               PROVE  Every[j] - timer[j] <= AllJobs
    BY DEF ServedInTime
  <2>1. PICK D \in SUBSET Jobs, b \in Nat : BusyFor(D, b)
    BY DEF LoopInv
  <2>2. Age(j) <= b /\ b <= AllJobs /\ Age(j) \in Nat
    BY <2>1, BusyBound, AgeType DEF BusyFor
  <2> QED
    BY <2>2, Durations DEF Age
<1> QED
  BY <1>1, TypeCorrect, LoopKept, PTL

\* A daemon told to stop is gone within one run of every handler.
THEOREM StopIsObeyed == Spec => []StopsInTime
<1>1. TypeOK /\ LoopInv => StopsInTime
  <2> SUFFICES ASSUME TypeOK, LoopInv, sig PROVE asked <= AllJobs
    BY DEF StopsInTime
  <2>1. PICK D \in SUBSET Jobs, b \in Nat : BusyFor(D, b)
    BY DEF LoopInv
  <2>2. asked <= b /\ b <= AllJobs /\ asked \in Nat
    BY <2>1, BusyBound DEF BusyFor, TypeOK
  <2> QED
    BY <2>2, Durations
<1> QED
  BY <1>1, TypeCorrect, LoopKept, PTL

\* Through any crashes and kills a check begins within a period, the other
\* handlers and a restart after the one before.
THEOREM PaceKept == Spec => []CheckGap
<1>1. TypeOK /\ LoopInv => CheckGap
  <2> SUFFICES ASSUME TypeOK, LoopInv, state # "off"
               PROVE  since <= CheckEvery + MaxRegister + MaxCert + RestartSec
    BY DEF CheckGap
  <2>1. CASE Up
    BY <2>1, GapWhileUp, Durations DEF TypeOK
  <2>2. CASE state = "dead"
    BY <2>2, Durations DEF LoopInv, GapInv, TypeOK
  <2>3. CASE state = "starting"
    BY <2>3 DEF LoopInv, GapInv
  <2> QED
    BY <2>1, <2>2, <2>3 DEF TypeOK, Up
<1> QED
  BY <1>1, TypeCorrect, LoopKept, PTL

=============================================================================
