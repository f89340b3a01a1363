------------------------------ MODULE Watchdog ------------------------------
(***************************************************************************)
(* The connectivity check: health/watchdog.go (RunWatchdog) and            *)
(* health/state.go (LoadState, SaveState).  The daemon runs it every five  *)
(* minutes and `fb-agent watchdog` runs it on demand, so several processes *)
(* may be inside it at once.  All they share is the file system: the state *)
(* file, the one temporary file it is written through, the alert file.     *)
(* Every system call is a step, and a process may die between two of them. *)
(***************************************************************************)
EXTENDS Integers

CONSTANTS
  Procs,       \* the processes that run the check
  Daemon,      \* the one that runs it for ever, restarted by systemd
  Limit,       \* six hours, in ticks of the clock
  MaxTime,     \* bound: the last tick
  MaxFail,     \* bound: fail_count is not counted further
  MaxRetries,  \* bound: the retries counter is not counted further
  Faults       \* what may go wrong in this environment

AllFaults == {"crash",      \* a process dies in the middle of a check
              "save",       \* a system call of SaveState fails
              "alertfile",  \* writing or removing the alert file fails
              "clock",      \* the wall clock is stepped back
              "answer"}     \* Fluent Bit is up and does not answer in 5 s

ASSUME ProcsAssumption == Daemon \in Procs
ASSUME TimeAssumption == Limit \in Nat \ {0} /\ MaxTime \in Nat \ {0}
ASSUME BoundAssumption == MaxFail \in 1..9 /\ MaxRetries \in Nat \ {0}
ASSUME FaultAssumption == Faults \subseteq AllFaults

VARIABLES
  clock,    \* the wall clock
  fb,       \* Fluent Bit is up
  link,     \* its output reaches the log server
  retries,  \* fluentbit_output_retries_total, which only a restart resets
  file,     \* connectivity.state
  tmp,      \* connectivity.state.tmp
  alert,    \* ALERT_NO_CONNECTION exists
  pc,       \* pc[p]: the next step of p
  run,      \* run[p]: the local variables of RunWatchdog in p
  fd        \* fd[p]: the name, if any, of the file p has open for writing

env == <<clock, fb, link, retries>>
disk == <<file, tmp, alert>>
vars == <<clock, fb, link, retries, file, tmp, alert, pc, run, fd>>

-----------------------------------------------------------------------------
(* The state, and what a file holds of it.                                 *)

State == [lastOK : 0..MaxTime, failCount : 0..MaxFail, alertSent : BOOLEAN]
ZeroState == [lastOK |-> 0, failCount |-> 0, alertSent |-> FALSE]

\* The length of the JSON text, less what is common to all: a Unix time has
\* ten digits, the count one (MaxFail), and false is longer than true.
Size(s) ==
  (IF s.lastOK = 0 THEN 1 ELSE 10) + (IF s.alertSent THEN 4 ELSE 5)

\* form: what is on the disk.  state: what LoadState makes of it.
Content == [form : {"absent", "empty", "whole", "garbled"}, bytes : 0..15,
            state : State]
NoFile == [form |-> "absent", bytes |-> 0, state |-> ZeroState]
EmptyFile == [form |-> "empty", bytes |-> 0, state |-> ZeroState]
Whole(s) == [form |-> "whole", bytes |-> Size(s), state |-> s]

\* s written from offset 0 over content c: the tail of a longer text stays
\* and the whole does not parse.
Overlay(c, s) ==
  IF Size(s) >= c.bytes THEN Whole(s)
  ELSE [form |-> "garbled", bytes |-> c.bytes, state |-> ZeroState]

\* Slip: a failed check starts from a fresh state.
BumpedAnew(s) == [ZeroState EXCEPT !.failCount = s.failCount]

Bumped(s) ==
  [s EXCEPT !.failCount = IF @ < MaxFail THEN @ + 1 ELSE @]

TypeOK ==
  /\ clock \in 1..MaxTime
  /\ fb \in BOOLEAN /\ link \in BOOLEAN
  /\ retries \in 0..MaxRetries
  /\ file \in Content /\ tmp \in Content
  /\ alert \in BOOLEAN
  /\ pc \in [Procs -> {"idle", "health", "retries", "judge",
                       "open", "write", "rename"}]
  /\ run \in [Procs -> [st : State, now : 0..MaxTime, ok : BOOLEAN]]
  /\ fd \in [Procs -> {"none", "tmp", "file", "gone"}]

Init ==
  /\ clock = 1
  /\ fb \in BOOLEAN /\ link \in BOOLEAN /\ retries = 0
  /\ file = NoFile /\ tmp = NoFile /\ alert = FALSE
  /\ pc = [p \in Procs |-> "idle"]
  /\ run = [p \in Procs |-> [st |-> ZeroState, now |-> 0, ok |-> FALSE]]
  /\ fd = [p \in Procs |-> "none"]

-----------------------------------------------------------------------------
(* RunWatchdog.                                                            *)

Goto(p, l) == pc' = [pc EXCEPT ![p] = l]

\* state := LoadState(); now := time.Now().Unix()
Load(p) ==
  /\ pc[p] = "idle"
  /\ run' = [run EXCEPT ![p] =
               [st |-> file.state, now |-> clock, ok |-> FALSE]]
  /\ Goto(p, "health")
  /\ UNCHANGED <<env, disk, fd>>

\* The retries are asked for only when the health endpoint answered 200.
CheckHealth(p) ==
  /\ pc[p] = "health"
  /\ \/ fb /\ Goto(p, "retries")
     \/ (~fb \/ "answer" \in Faults) /\ Goto(p, "judge")
  /\ UNCHANGED <<env, disk, run, fd>>

\* A metrics request that fails counts as no retries.
GetRetries(p) ==
  /\ pc[p] = "retries"
  /\ \/ fb /\ run' = [run EXCEPT ![p].ok = (retries = 0)]
     \/ (~fb \/ "answer" \in Faults) /\ run' = [run EXCEPT ![p].ok = TRUE]
  /\ Goto(p, "judge")
  /\ UNCHANGED <<env, disk, fd>>

\* Slips: last_ok is a duration, is set by every check, or alert_sent is not
\* reset.
JudgedAgo(r) ==
  IF r.ok THEN [ZeroState EXCEPT !.lastOK = r.now - Limit] ELSE Bumped(r.st)
JudgedAlways(r) ==
  [Bumped(r.st) EXCEPT !.lastOK = r.now]
JudgedKeepsSent(r) ==
  IF r.ok THEN [r.st EXCEPT !.lastOK = r.now, !.failCount = 0]
  ELSE Bumped(r.st)

Judged(r) ==
  IF r.ok THEN [lastOK |-> r.now, failCount |-> 0, alertSent |-> FALSE]
  ELSE Bumped(r.st)

\* Slips: the hours are rounded up, or the sixth hour has to be over.
OverdueEarly(s, now) == s.lastOK > 0 /\ now - s.lastOK >= Limit - 1
OverdueLate(s, now) == s.lastOK > 0 /\ now - s.lastOK > Limit

\* offlineHours >= 6
Overdue(s, now) == s.lastOK > 0 /\ now - s.lastOK >= Limit

RemoveAlert == alert' = FALSE \/ ("alertfile" \in Faults /\ UNCHANGED alert)

\* The verdict, the state it leads to, and the alert file.  A write of the
\* alert that fails may have created the file before it failed.
Judge(p) ==
  LET s == Judged(run[p])
      Keep(st) == run' = [run EXCEPT ![p].st = st]
  IN
  /\ pc[p] = "judge"
  /\ IF ~Overdue(s, run[p].now) THEN RemoveAlert /\ Keep(s)
     ELSE IF s.alertSent THEN UNCHANGED alert /\ Keep(s)
     ELSE \/ alert' = TRUE /\ Keep([s EXCEPT !.alertSent = TRUE])
          \/ "alertfile" \in Faults /\ alert' \in {alert, TRUE} /\ Keep(s)
  /\ Goto(p, "open")
  /\ UNCHANGED <<env, file, tmp, fd>>

-----------------------------------------------------------------------------
(* SaveState: os.WriteFile is an open and a write, then os.Rename.  A file *)
(* keeps its writers through a rename, so fd follows it.                   *)

\* Slips: the state file is written in place, or the temporary one is opened
\* with O_EXCL.
OpenInPlace(p) ==
  /\ pc[p] = "open"
  /\ file' = EmptyFile
  /\ fd' = [fd EXCEPT ![p] = "file"]
  /\ Goto(p, "write")
  /\ UNCHANGED <<env, tmp, alert, run>>
OpenExclusive(p) ==
  /\ pc[p] = "open"
  /\ IF tmp = NoFile
     THEN tmp' = EmptyFile /\ fd' = [fd EXCEPT ![p] = "tmp"] /\ Goto(p, "write")
     ELSE UNCHANGED <<tmp, fd>> /\ Goto(p, "idle")
  /\ UNCHANGED <<env, file, alert, run>>

Open(p) ==
  /\ pc[p] = "open"
  /\ tmp' = EmptyFile
  /\ fd' = [fd EXCEPT ![p] = "tmp"]
  /\ Goto(p, "write")
  /\ UNCHANGED <<env, file, alert, run>>

Write(p) ==
  /\ pc[p] = "write"
  /\ tmp' = IF fd[p] = "tmp" THEN Overlay(tmp, run[p].st) ELSE tmp
  /\ file' = IF fd[p] = "file" THEN Overlay(file, run[p].st) ELSE file
  /\ fd' = [fd EXCEPT ![p] = "none"]
  /\ Goto(p, "rename")
  /\ UNCHANGED <<env, alert, run>>

\* The file a process has open once tmp has become connectivity.state.
Renamed(f) == CASE f = "tmp" -> "file" [] f = "file" -> "gone" [] OTHER -> f

\* Without a tmp (another process has renamed it) the call fails.
Rename(p) ==
  /\ pc[p] = "rename"
  /\ IF tmp = NoFile THEN UNCHANGED <<file, tmp, fd>>
     ELSE /\ file' = tmp
          /\ tmp' = NoFile
          /\ fd' = [q \in Procs |-> Renamed(fd[q])]
  /\ Goto(p, "idle")
  /\ UNCHANGED <<env, alert, run>>

Leave(p) ==
  /\ Goto(p, "idle")
  /\ fd' = [fd EXCEPT ![p] = "none"]
  /\ UNCHANGED <<env, disk, run>>

\* Slip: the cleanup removes the state file and not the temporary one.
SaveFailsCleaning(p) ==
  /\ "save" \in Faults /\ pc[p] \in {"open", "write", "rename"}
  /\ Goto(p, "idle")
  /\ file' = NoFile
  /\ fd' = [fd EXCEPT ![p] = "none"]
  /\ UNCHANGED <<env, tmp, alert, run>>

\* SaveState returns the error of one of its calls.
SaveFails(p) ==
  "save" \in Faults /\ pc[p] \in {"open", "write", "rename"} /\ Leave(p)

\* The process is killed; its local variables are lost.
Crash(p) == "crash" \in Faults /\ pc[p] /= "idle" /\ Leave(p)

-----------------------------------------------------------------------------
(* The host: time, Fluent Bit, its link to the log server.                 *)

proc == <<disk, pc, run, fd>>

Tick ==
  clock < MaxTime /\ clock' = clock + 1 /\ UNCHANGED <<fb, link, retries, proc>>

StepBack ==
  /\ "clock" \in Faults /\ clock > 1
  /\ clock' = clock - 1
  /\ UNCHANGED <<fb, link, retries, proc>>

\* Bound: an outage begins early enough to last six hours by MaxTime.
FBDown ==
  /\ fb /\ clock + Limit <= MaxTime
  /\ fb' = FALSE
  /\ UNCHANGED <<clock, link, retries, proc>>

FBStart ==
  ~fb /\ fb' = TRUE /\ retries' = 0 /\ UNCHANGED <<clock, link, proc>>

LinkChange == link' = ~link /\ UNCHANGED <<clock, fb, retries, proc>>

\* A chunk that cannot be delivered is retried.
Retry ==
  /\ fb /\ ~link /\ retries < MaxRetries
  /\ retries' = retries + 1
  /\ UNCHANGED <<clock, fb, link, proc>>

Env == Tick \/ StepBack \/ FBDown \/ FBStart \/ LinkChange \/ Retry

-----------------------------------------------------------------------------
(* The specification.                                                      *)

Step(p) ==
  \/ Load(p) \/ CheckHealth(p) \/ GetRetries(p) \/ Judge(p)
  \/ Open(p) \/ Write(p) \/ Rename(p)

\* Every process, the daemon or one started by `fb-agent watchdog`, takes the
\* same steps.
Next == Env \/ \E p \in Procs : Step(p) \/ SaveFails(p) \/ Crash(p)

Spec == Init /\ [][Next]_vars

\* Time passes, and the daemon, whose ticker fires every five minutes and
\* whose HTTP calls time out, always takes its next step.
FairSpec == Spec /\ WF_vars(Tick) /\ WF_vars(Step(Daemon))

-----------------------------------------------------------------------------
(* Properties.                                                             *)

\* The state file is absent or one whole JSON text: nobody finds it torn,
\* whatever step of a save the machine stops at (SaveState, state.go:32).
StateFileWhole == file.form \in {"absent", "whole"}

\* SaveState keeps the promise of StateStore: one atomic replacement or none.
Saving == {"open", "write", "rename"}
Store == INSTANCE StateStore WITH
  States <- State, Zero <- ZeroState, stored <- file.state,
  saving <- [p \in Procs |-> IF pc[p] \in Saving THEN {run[p].st} ELSE {}]
StoreSpec == Store!Spec

\* last_ok is the time of the LAST successful check, also across crashes,
\* failed saves and further checks: it never decreases (state.go:15).
LastOKNeverGoesBack == [][file'.state.lastOK >= file.state.lastOK]_vars

\* A reader of the alert file is not misled: whenever it exists there is a
\* last successful check on record, and it is at least six hours old
\* (watchdog.go:20).
AlertMeansStale ==
  alert => file.state.lastOK > 0 /\ clock - file.state.lastOK >= Limit

\* Between two checks alert_sent tells whether the alert has been written
\* (state.go:17), which is what `fb-agent status` shows.
AlertAgrees ==
  (\A p \in Procs : pc[p] = "idle") => (file.state.alertSent = alert)

\* A check that finds Fluent Bit offline for six hours does not go on to
\* save its state while there is no alert file (watchdog.go:48-57).
NoSilentOutage ==
  \A p \in Procs :
    LET lastOK == run[p].st.lastOK IN
    pc[p] \in Saving /\ lastOK > 0 /\ run[p].now - lastOK >= Limit => alert

\* Once Fluent Bit is down for good an alert appears and stays, if any
\* check had ever passed (watchdog.go:20).
OutageAlerted == <>[]~fb => <>[](alert \/ file.state.lastOK = 0)

\* Once Fluent Bit is up for good and has nothing to retry, the alert goes
\* and the state file is whole and up to date again and again, even after
\* other processes have torn it.
RecoveryHeals ==
  <>[](fb /\ retries = 0) =>
    <>[](~alert) /\ []<>(file = Whole([ZeroState EXCEPT !.lastOK = MaxTime]))

-----------------------------------------------------------------------------
(* With one process: the inductive invariants WatchdogProofs proves, which *)
(* say what each step of a check knows.                                    *)

Checking == {"health", "retries", "judge"}

\* Until the verdict the check holds the stored state; between open and
\* rename the temporary file holds nothing, then exactly what is saved.
SaveInv ==
  /\ file = NoFile \/ file = Whole(file.state)
  /\ \A p \in Procs :
       /\ pc[p] \in Checking => run[p].st = file.state
       /\ pc[p] = "write" => fd[p] = "tmp" /\ tmp = EmptyFile
       /\ pc[p] = "rename" => tmp = Whole(run[p].st)

\* Times are ordered stored <= check <= clock, and what is about to be saved
\* is one of the two (with no step back of the clock).
TimeInv ==
  /\ file.state.lastOK <= clock
  /\ \A p \in Procs :
       pc[p] /= "idle" =>
         /\ file.state.lastOK <= run[p].now /\ run[p].now <= clock
         /\ pc[p] \in Saving =>
              run[p].st.lastOK \in {file.state.lastOK, run[p].now}

\* A check that is about to store a new time has removed the alert.
AlertInv ==
  /\ AlertMeansStale
  /\ \A p \in Procs :
       pc[p] \in Saving /\ alert => run[p].st.lastOK = file.state.lastOK

\* The flag tells of the alert, the one on disk before the verdict and the
\* one about to be saved after it; an alert that is found was due before.
FlagInv ==
  \A p \in Procs :
    /\ pc[p] \notin Saving => file.state.alertSent = alert
    /\ pc[p] \in Checking /\ alert => Overdue(file.state, run[p].now)
    /\ pc[p] \in Saving =>
         /\ run[p].st.alertSent = alert
         /\ Overdue(run[p].st, run[p].now) => alert

=============================================================================
