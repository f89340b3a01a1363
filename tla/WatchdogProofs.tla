--------------------------- MODULE WatchdogProofs ---------------------------
(***************************************************************************)
(* Theorems about Watchdog, for every value of its constants.  With one    *)
(* process (Procs = {Daemon}) the temporary file has one writer, which is  *)
(* what makes the write-and-rename of SaveState atomic; a second process   *)
(* could truncate it between the write and the rename of the first.        *)
(***************************************************************************)
EXTENDS Watchdog, TLAPS

USE ProcsAssumption, TimeAssumption, BoundAssumption, FaultAssumption
    DEF AllFaults

(* What the operators on states and contents return.                       *)

LEMMA ZeroTypes ==
  ZeroState \in State /\ NoFile \in Content /\ EmptyFile \in Content
BY DEF ZeroState, State, NoFile, EmptyFile, Content

LEMMA WholeType == ASSUME NEW s \in State PROVE Whole(s) \in Content
BY DEF State, Whole, Content, Size

LEMMA OverlayType ==
  ASSUME NEW c \in Content, NEW s \in State
  PROVE  Overlay(c, s) \in Content
BY ZeroTypes, WholeType DEF Overlay, Content

LEMMA BumpedType ==
  ASSUME NEW s \in State
  PROVE  Bumped(s) \in State /\ Bumped(s).lastOK = s.lastOK
BY DEF State, Bumped

\* A write into an empty file leaves exactly what was written.
LEMMA OverlayEmpty ==
  ASSUME NEW s \in State PROVE Overlay(EmptyFile, s) = Whole(s)
BY DEF Overlay, EmptyFile, Size, State

RunType == [st : State, now : 0..MaxTime, ok : BOOLEAN]

LEMMA JudgedType ==
  ASSUME NEW r \in RunType PROVE Judged(r) \in State
BY BumpedType DEF Judged, RunType, State

-----------------------------------------------------------------------------
(* Type correctness, for any number of processes and any faults.           *)

\* Every variable keeps its type in every behaviour of the check and the host.
THEOREM TypeCorrect == Spec => []TypeOK
<1>1. Init => TypeOK
  <2> SUFFICES ASSUME Init PROVE TypeOK
    OBVIOUS
  <2>1. run \in [Procs -> [st : State, now : 0..MaxTime, ok : BOOLEAN]]
    BY ZeroTypes DEF Init
  <2>2. fb \in BOOLEAN /\ link \in BOOLEAN /\ alert \in BOOLEAN
    BY DEF Init
  <2>3. /\ pc \in [Procs -> {"idle", "health", "retries", "judge",
                              "open", "write", "rename"}]
        /\ fd \in [Procs -> {"none", "tmp", "file", "gone"}]
    BY DEF Init
  <2>4. clock \in 1..MaxTime /\ retries \in 0..MaxRetries
    BY DEF Init
  <2> QED
    BY <2>1, <2>2, <2>3, <2>4, ZeroTypes DEF Init, TypeOK
<1>2. TypeOK /\ [Next]_vars => TypeOK'
  <2> SUFFICES ASSUME TypeOK, [Next]_vars PROVE TypeOK'
    OBVIOUS
  <2> USE DEF TypeOK
  <2>1. CASE Env
    <3>1. UNCHANGED proc
      BY <2>1 DEF Env, Tick, StepBack, FBDown, FBStart, LinkChange, Retry
    <3>2. clock' \in 1..MaxTime /\ retries' \in 0..MaxRetries
      BY <2>1 DEF Env, Tick, StepBack, FBDown, FBStart, LinkChange, Retry
    <3>3. fb' \in BOOLEAN /\ link' \in BOOLEAN
      BY <2>1 DEF Env, Tick, StepBack, FBDown, FBStart, LinkChange, Retry
    <3> QED
      BY <3>1, <3>2, <3>3 DEF proc, disk
  <2>2. ASSUME NEW p \in Procs, Load(p) PROVE TypeOK'
    <3>1. [st |-> file.state, now |-> clock, ok |-> FALSE] \in RunType
      BY DEF Content, RunType
    <3> QED
      BY <2>2, <3>1 DEF Load, Goto, env, disk, RunType
  <2>3. ASSUME NEW p \in Procs, CheckHealth(p) PROVE TypeOK'
    BY <2>3 DEF CheckHealth, Goto, env, disk
  <2>4. ASSUME NEW p \in Procs, GetRetries(p) PROVE TypeOK'
    <3>1. \E b \in BOOLEAN : run' = [run EXCEPT ![p].ok = b]
      BY <2>4 DEF GetRetries
    <3>2. run' \in [Procs -> [st : State, now : 0..MaxTime, ok : BOOLEAN]]
      BY <3>1
    <3> QED
      BY <2>4, <3>2 DEF GetRetries, Goto, env, disk
  <2>5. ASSUME NEW p \in Procs, Judge(p) PROVE TypeOK'
    <3>1. Judged(run[p]) \in State
      BY JudgedType DEF RunType
    <3>2. [Judged(run[p]) EXCEPT !.alertSent = TRUE] \in State
      BY <3>1 DEF State
    <3>3. alert' \in BOOLEAN
      BY <2>5 DEF Judge, RemoveAlert
    <3>4. \E s \in State : run' = [run EXCEPT ![p].st = s]
      BY <2>5, <3>1, <3>2 DEF Judge
    <3>5. run' \in [Procs -> [st : State, now : 0..MaxTime, ok : BOOLEAN]]
      BY <3>4
    <3> QED
      BY <2>5, <3>3, <3>5 DEF Judge, Goto, env
  <2>6. ASSUME NEW p \in Procs, Open(p) PROVE TypeOK'
    BY <2>6, ZeroTypes DEF Open, Goto, env
  <2>7. ASSUME NEW p \in Procs, Write(p) PROVE TypeOK'
    <3>1. run[p].st \in State
      OBVIOUS
    <3>2. file' \in Content /\ tmp' \in Content
      BY <2>7, <3>1, OverlayType DEF Write
    <3> QED
      BY <2>7, <3>2 DEF Write, Goto, env
  <2>8. ASSUME NEW p \in Procs, Rename(p) PROVE TypeOK'
    <3>1. fd' \in [Procs -> {"none", "tmp", "file", "gone"}]
      BY <2>8 DEF Rename, Renamed
    <3> QED
      BY <2>8, <3>1, ZeroTypes DEF Rename, Goto, env
  <2>9. ASSUME NEW p \in Procs, SaveFails(p) \/ Crash(p) PROVE TypeOK'
    BY <2>9 DEF SaveFails, Crash, Leave, Goto, env, disk
  <2>10. CASE UNCHANGED vars
    BY <2>10 DEF vars
  <2> QED
    BY <2>1, <2>2, <2>3, <2>4, <2>5, <2>6, <2>7, <2>8, <2>9, <2>10
       DEF Next, Step
<1> QED
  BY <1>1, <1>2, PTL DEF Spec

-----------------------------------------------------------------------------
(* One process.                                                            *)

LEMMA SaveInvInit == Init => SaveInv
BY DEF Init, SaveInv, Checking

LEMMA SaveInvStep ==
  ASSUME Procs = {Daemon}, TypeOK, SaveInv, [Next]_vars
  PROVE  SaveInv'
<1> USE DEF TypeOK, SaveInv, Checking
<1>1. CASE Env
  <2>1. UNCHANGED proc
    BY <1>1 DEF Env, Tick, StepBack, FBDown, FBStart, LinkChange, Retry
  <2> QED
    BY <2>1 DEF proc, disk
<1>2. ASSUME NEW p \in Procs, Load(p) PROVE SaveInv'
  BY <1>2 DEF Load, Goto, disk
<1>3. ASSUME NEW p \in Procs, CheckHealth(p) PROVE SaveInv'
  BY <1>3 DEF CheckHealth, Goto, disk
<1>4. ASSUME NEW p \in Procs, GetRetries(p) PROVE SaveInv'
  <2>1. run'[p].st = run[p].st
    BY <1>4 DEF GetRetries
  <2> QED
    BY <1>4, <2>1 DEF GetRetries, Goto, disk
<1>5. ASSUME NEW p \in Procs, Judge(p) PROVE SaveInv'
  BY <1>5 DEF Judge, Goto
<1>6. ASSUME NEW p \in Procs, Open(p) PROVE SaveInv'
  BY <1>6 DEF Open, Goto
<1>7. ASSUME NEW p \in Procs, Write(p) PROVE SaveInv'
  BY <1>7, OverlayEmpty DEF Write, Goto
<1>8. ASSUME NEW p \in Procs, Rename(p) PROVE SaveInv'
  <2>1. tmp = Whole(run[p].st)
    BY <1>8 DEF Rename
  <2>2. tmp /= NoFile /\ tmp = Whole(tmp.state)
    BY <2>1 DEF Whole, NoFile
  <2> QED
    BY <1>8, <2>2 DEF Rename, Goto
<1>9. ASSUME NEW p \in Procs, SaveFails(p) \/ Crash(p) PROVE SaveInv'
  BY <1>9 DEF SaveFails, Crash, Leave, Goto, disk
<1>10. CASE UNCHANGED vars
  BY <1>10 DEF vars
<1> QED
  BY <1>1, <1>2, <1>3, <1>4, <1>5, <1>6, <1>7, <1>8, <1>9, <1>10
     DEF Next, Step

\* With one process the state file is never torn, at whatever step a crash
\* or a failing system call ends a save.
THEOREM Atomic ==
  ASSUME Procs = {Daemon} PROVE Spec => [](SaveInv /\ StateFileWhole)
<1>1. TypeOK /\ SaveInv /\ [Next]_vars => SaveInv'
  BY SaveInvStep
<1>2. SaveInv => StateFileWhole
  BY DEF SaveInv, StateFileWhole, NoFile, Whole
<1> QED
  BY <1>1, <1>2, SaveInvInit, TypeCorrect, PTL DEF Spec

\* With one process SaveState implements StateStore: every save replaces the
\* stored state with the saved one in one step, or not at all.
THEOREM ImplementsStore == ASSUME Procs = {Daemon} PROVE Spec => StoreSpec
<1> DEFINE saving ==
      [p \in Procs |-> IF pc[p] \in Saving THEN {run[p].st} ELSE {}]
<1>1. Init => Store!Init
  BY DEF Init, Store!Init, NoFile, Saving
<1>2. TypeOK /\ SaveInv /\ [Next]_vars => [Store!Next]_Store!storeVars
  <2> SUFFICES ASSUME TypeOK, SaveInv, [Next]_vars
               PROVE  [Store!Next]_Store!storeVars
    OBVIOUS
  <2> USE DEF TypeOK, Saving, Store!storeVars
  <2>1. CASE Env
    <3>1. UNCHANGED proc
      BY <2>1 DEF Env, Tick, StepBack, FBDown, FBStart, LinkChange, Retry
    <3> QED
      BY <3>1 DEF proc, disk
  <2>2. ASSUME NEW p \in Procs, Load(p) PROVE UNCHANGED Store!storeVars
    BY <2>2 DEF Load, Goto, disk
  <2>3. ASSUME NEW p \in Procs, CheckHealth(p)
        PROVE  UNCHANGED Store!storeVars
    BY <2>3 DEF CheckHealth, Goto, disk
  <2>4. ASSUME NEW p \in Procs, GetRetries(p)
        PROVE  UNCHANGED Store!storeVars
    BY <2>4 DEF GetRetries, Goto, disk
  <2>5. ASSUME NEW p \in Procs, Judge(p)
        PROVE  \E s \in State : Store!Begin(p, s)
    <3>1. \E s \in State : run' = [run EXCEPT ![p].st = s]
      <4>1. Judged(run[p]) \in State
        BY JudgedType DEF RunType
      <4>2. [Judged(run[p]) EXCEPT !.alertSent = TRUE] \in State
        BY <4>1 DEF State
      <4> QED
        BY <2>5, <4>1, <4>2 DEF Judge
    <3>2. PICK s \in State : run' = [run EXCEPT ![p].st = s]
      BY <3>1
    <3>3. saving[p] = {} /\ saving' = [saving EXCEPT ![p] = {s}]
      <4>1. pc[p] = "judge" /\ pc' = [pc EXCEPT ![p] = "open"]
        BY <2>5 DEF Judge, Goto
      <4>2. run'[p].st = s /\ \A q \in Procs \ {p} : run'[q] = run[q]
        BY <3>2
      <4> QED
        BY <4>1, <4>2
    <3> QED
      BY <2>5, <3>3 DEF Judge, Store!Begin
  <2>6. ASSUME NEW p \in Procs, Open(p) PROVE UNCHANGED Store!storeVars
    BY <2>6 DEF Open, Goto
  <2>7. ASSUME NEW p \in Procs, Write(p) PROVE UNCHANGED Store!storeVars
    BY <2>7 DEF Write, Goto, SaveInv
  <2>8. ASSUME NEW p \in Procs, Rename(p) PROVE Store!Commit(p)
    <3>1. tmp = Whole(run[p].st) /\ tmp /= NoFile
      BY <2>8 DEF Rename, SaveInv, Whole, NoFile
    <3>2. file'.state = run[p].st
      BY <2>8, <3>1 DEF Rename, Whole
    <3>3. saving[p] = {run[p].st} /\ saving' = [saving EXCEPT ![p] = {}]
      BY <2>8 DEF Rename, Goto
    <3> QED
      BY <3>2, <3>3 DEF Store!Commit
  <2>9. ASSUME NEW p \in Procs, SaveFails(p) \/ Crash(p)
        PROVE  Store!Abandon(p) \/ UNCHANGED Store!storeVars
    <3>1. UNCHANGED file /\ saving' = [saving EXCEPT ![p] = {}]
      BY <2>9 DEF SaveFails, Crash, Leave, Goto, disk
    <3> QED
      BY <3>1 DEF Store!Abandon
  <2>10. CASE UNCHANGED vars
    BY <2>10 DEF vars
  <2> QED
    BY <2>1, <2>2, <2>3, <2>4, <2>5, <2>6, <2>7, <2>8, <2>9, <2>10
       DEF Next, Step, Store!Next
<1> QED
  BY <1>1, <1>2, Atomic, TypeCorrect, PTL DEF Spec, StoreSpec, Store!Spec

-----------------------------------------------------------------------------
(* One process, and a clock that is not stepped back.                      *)

\* What a verdict makes of the stored time.
LEMMA JudgedTime ==
  ASSUME NEW r \in RunType
  PROVE  Judged(r).lastOK = IF r.ok THEN r.now ELSE r.st.lastOK
BY BumpedType DEF Judged, RunType

LEMMA JudgeTime ==
  ASSUME TypeOK, SaveInv, NEW p \in Procs, Judge(p)
  PROVE  /\ run'[p].now = run[p].now
         /\ run'[p].st.lastOK =
              IF run[p].ok THEN run[p].now ELSE file.state.lastOK
<1>1. run[p] \in RunType /\ run[p].st = file.state
  BY DEF TypeOK, RunType, SaveInv, Checking, Judge
<1>2. Judged(run[p]) \in State
  BY <1>1, JudgedType
<1>3. Judged(run[p]).lastOK = IF run[p].ok THEN run[p].now ELSE file.state.lastOK
  BY <1>1, JudgedTime
<1>4. \E s \in State : /\ run' = [run EXCEPT ![p].st = s]
                       /\ s.lastOK = Judged(run[p]).lastOK
  <2>1. LET s == [Judged(run[p]) EXCEPT !.alertSent = TRUE]
        IN  s \in State /\ s.lastOK = Judged(run[p]).lastOK
    BY <1>2 DEF State
  <2> QED
    BY <1>2, <2>1 DEF Judge
<1> QED
  BY <1>3, <1>4 DEF TypeOK

LEMMA TimeInvStep ==
  ASSUME Procs = {Daemon}, "clock" \notin Faults,
         TypeOK, SaveInv, TimeInv, [Next]_vars
  PROVE  TimeInv' /\ file'.state.lastOK >= file.state.lastOK
<1> DEFINE Goal == TimeInv' /\ file'.state.lastOK >= file.state.lastOK
<1>0. file.state.lastOK \in Nat /\ clock \in Nat
  BY DEF TypeOK, Content, State
<1>1. CASE Env
  <2>1. UNCHANGED proc /\ clock' >= clock /\ clock' \in Nat
    BY <1>1 DEF Env, Tick, StepBack, FBDown, FBStart, LinkChange, Retry, TypeOK
  <2>2. \A p \in Procs : run[p].now \in Nat
    BY DEF TypeOK
  <2> QED
    BY <1>0, <2>1, <2>2 DEF proc, disk, TimeInv
<1>2. ASSUME NEW p \in Procs, Load(p) PROVE Goal
  BY <1>0, <1>2 DEF Load, Goto, env, disk, TimeInv, TypeOK, Saving
<1>3. ASSUME NEW p \in Procs, CheckHealth(p) PROVE Goal
  BY <1>0, <1>3 DEF CheckHealth, Goto, env, disk, TimeInv, TypeOK, Saving
<1>4. ASSUME NEW p \in Procs, GetRetries(p) PROVE Goal
  <2>1. run'[p].now = run[p].now
    BY <1>4 DEF GetRetries, TypeOK
  <2> QED
    BY <1>0, <1>4, <2>1 DEF GetRetries, Goto, env, disk, TimeInv, TypeOK, Saving
<1>5. ASSUME NEW p \in Procs, Judge(p) PROVE Goal
  <2>1. /\ run'[p].now = run[p].now
        /\ run'[p].st.lastOK =
             IF run[p].ok THEN run[p].now ELSE file.state.lastOK
    BY <1>5, JudgeTime
  <2>2. pc[p] = "judge" /\ UNCHANGED <<file, clock>> /\ p = Daemon
    BY <1>5 DEF Judge, env
  <2> QED
    BY <1>0, <2>1, <2>2 DEF TimeInv, TypeOK
<1>6. ASSUME NEW p \in Procs, Open(p) PROVE Goal
  BY <1>0, <1>6 DEF Open, Goto, env, TimeInv, TypeOK, Saving
<1>7. ASSUME NEW p \in Procs, Write(p) PROVE Goal
  BY <1>0, <1>7 DEF Write, Goto, env, TimeInv, TypeOK, Saving, SaveInv
<1>8. ASSUME NEW p \in Procs, Rename(p) PROVE Goal
  <2>1. tmp = Whole(run[p].st) /\ pc[p] = "rename"
    BY <1>8 DEF Rename, SaveInv
  <2>2. tmp.state.lastOK \in {file.state.lastOK, run[p].now}
    BY <2>1 DEF Whole, TimeInv, Saving
  <2>3. file.state.lastOK <= tmp.state.lastOK /\ tmp.state.lastOK <= clock
    BY <1>0, <2>1, <2>2 DEF TimeInv, TypeOK
  <2>4. tmp.state.lastOK \in Nat /\ file' = tmp
    BY <1>8, <2>1 DEF Rename, TypeOK, Content, State, Whole, NoFile
  <2> QED
    BY <1>0, <1>8, <2>3, <2>4 DEF Rename, Goto, env, TimeInv, TypeOK
<1>9. ASSUME NEW p \in Procs, SaveFails(p) \/ Crash(p) PROVE Goal
  BY <1>0, <1>9 DEF SaveFails, Crash, Leave, Goto, env, disk, TimeInv, TypeOK
<1>10. CASE UNCHANGED vars
  BY <1>0, <1>10 DEF vars, TimeInv, Saving
<1> QED
  BY <1>1, <1>2, <1>3, <1>4, <1>5, <1>6, <1>7, <1>8, <1>9, <1>10
     DEF Next, Step

\* With one process and a clock that is not stepped back, last_ok never goes
\* back, through any crash, failed save or unanswered request.
THEOREM LastOKMonotone ==
  ASSUME Procs = {Daemon}, "clock" \notin Faults
  PROVE  Spec => []TimeInv /\ LastOKNeverGoesBack
<1>1. Init => TimeInv
  BY DEF Init, TimeInv, NoFile, ZeroState
<1>2. TypeOK /\ SaveInv /\ TimeInv /\ [Next]_vars =>
        TimeInv' /\ [file'.state.lastOK >= file.state.lastOK]_vars
  BY TimeInvStep
<1> QED
  BY <1>1, <1>2, Atomic, TypeCorrect, PTL DEF Spec, LastOKNeverGoesBack

LEMMA AlertInvStep ==
  ASSUME Procs = {Daemon}, Faults \subseteq {"crash", "save", "answer"},
         TypeOK, SaveInv, TimeInv, AlertInv, [Next]_vars
  PROVE  AlertInv'
<1> USE DEF AlertInv, AlertMeansStale, Overdue
<1>0. file.state.lastOK \in Nat /\ clock \in Nat
  BY DEF TypeOK, Content, State
<1>1. CASE Env
  <2>1. UNCHANGED proc /\ clock' >= clock /\ clock' \in Nat
    BY <1>1 DEF Env, Tick, StepBack, FBDown, FBStart, LinkChange, Retry, TypeOK
  <2> QED
    BY <1>0, <2>1 DEF proc, disk
<1>2. ASSUME NEW p \in Procs, Load(p) PROVE AlertInv'
  BY <1>2 DEF Load, Goto, env, disk, TypeOK, Saving
<1>3. ASSUME NEW p \in Procs, CheckHealth(p) PROVE AlertInv'
  BY <1>3 DEF CheckHealth, Goto, env, disk, TypeOK, Saving
<1>4. ASSUME NEW p \in Procs, GetRetries(p) PROVE AlertInv'
  BY <1>4 DEF GetRetries, Goto, env, disk, TypeOK, Saving
<1>5. ASSUME NEW p \in Procs, Judge(p) PROVE AlertInv'
  <2>1. /\ run'[p].st.lastOK =
             IF run[p].ok THEN run[p].now ELSE file.state.lastOK
        /\ run[p].now <= clock /\ run[p].now \in Nat
    <3>1. run'[p].st.lastOK =
            IF run[p].ok THEN run[p].now ELSE file.state.lastOK
      BY <1>5, JudgeTime
    <3> QED
      BY <1>5, <3>1 DEF TimeInv, TypeOK, Judge
  <2>2. Judged(run[p]).lastOK =
          IF run[p].ok THEN run[p].now ELSE file.state.lastOK
    <3>1. run[p] \in RunType /\ run[p].st = file.state
      BY <1>5 DEF TypeOK, RunType, SaveInv, Checking, Judge
    <3> QED
      BY <3>1, JudgedTime
  <2>3. CASE ~Overdue(Judged(run[p]), run[p].now)
    BY <1>5, <2>3 DEF Judge, RemoveAlert, Goto
  <2>4. CASE Overdue(Judged(run[p]), run[p].now)
    <3>1. ~run[p].ok
      BY <2>1, <2>2, <2>4
    <3>2. Overdue(file.state, clock)
      BY <1>0, <2>1, <2>2, <2>4, <3>1
    <3> QED
      BY <1>5, <2>1, <3>1, <3>2 DEF Judge, Goto, env
  <2> QED
    BY <2>3, <2>4
<1>6. ASSUME NEW p \in Procs, Open(p) PROVE AlertInv'
  BY <1>6 DEF Open, Goto, env, TypeOK, Saving
<1>7. ASSUME NEW p \in Procs, Write(p) PROVE AlertInv'
  BY <1>7 DEF Write, Goto, env, TypeOK, Saving, SaveInv
<1>8. ASSUME NEW p \in Procs, Rename(p) PROVE AlertInv'
  <2>1. tmp = Whole(run[p].st) /\ pc[p] = "rename" /\ file' = tmp
    BY <1>8 DEF Rename, SaveInv, Whole, NoFile
  <2>2. alert => file'.state.lastOK = file.state.lastOK
    BY <2>1 DEF Whole, Saving
  <2> QED
    BY <1>8, <2>2 DEF Rename, Goto, env, TypeOK, Saving
<1>9. ASSUME NEW p \in Procs, SaveFails(p) \/ Crash(p) PROVE AlertInv'
  BY <1>9 DEF SaveFails, Crash, Leave, Goto, env, disk, TypeOK, Saving
<1>10. CASE UNCHANGED vars
  BY <1>10 DEF vars, Saving
<1> QED
  BY <1>1, <1>2, <1>3, <1>4, <1>5, <1>6, <1>7, <1>8, <1>9, <1>10
     DEF Next, Step

\* With one process, a clock that is not stepped back and an alert file that
\* can be written and removed, the alert never exists unless the last
\* successful check on record is at least six hours old.
THEOREM AlertIsTrue ==
  ASSUME Procs = {Daemon}, Faults \subseteq {"crash", "save", "answer"}
  PROVE  Spec => []AlertMeansStale
<1>1. Init => AlertInv
  BY DEF Init, AlertInv, AlertMeansStale
<1>2. TypeOK /\ SaveInv /\ TimeInv /\ AlertInv /\ [Next]_vars => AlertInv'
  BY AlertInvStep
<1>3. AlertInv => AlertMeansStale
  BY DEF AlertInv
<1>4. "clock" \notin Faults
  OBVIOUS
<1> QED
  BY <1>1, <1>2, <1>3, <1>4, LastOKMonotone, Atomic, TypeCorrect, PTL DEF Spec

-----------------------------------------------------------------------------
(* One process that is not interrupted.                                    *)

\* A verdict that is overdue is one of a failed check.
LEMMA JudgeFlag ==
  ASSUME Procs = {Daemon}, Faults \subseteq {"answer"},
         TypeOK, SaveInv, FlagInv, NEW p \in Procs, Judge(p)
  PROVE  /\ run'[p].st.alertSent = alert'
         /\ Overdue(run'[p].st, run'[p].now) => alert'
<1> DEFINE s == Judged(run[p])
<1>1. /\ run[p] \in RunType /\ run[p].st = file.state /\ pc[p] = "judge"
      /\ file.state.alertSent = alert /\ alert \in BOOLEAN
      /\ alert => Overdue(file.state, run[p].now)
  BY DEF TypeOK, RunType, SaveInv, FlagInv, Checking, Saving, Judge
<1>2. s \in State /\ s.alertSent \in BOOLEAN
  BY <1>1, JudgedType DEF State
<1>3. s.lastOK = IF run[p].ok THEN run[p].now ELSE file.state.lastOK
  BY <1>1, JudgedTime
<1>4. run[p].ok => s.alertSent = FALSE
  BY DEF Judged
<1>5. ~run[p].ok => s.alertSent = alert
  BY <1>1 DEF Judged, Bumped, State, RunType
<1>6. run[p].now \in Nat /\ Limit > 0 /\ Limit \in Nat
  BY <1>1 DEF RunType
<1>7. CASE ~Overdue(s, run[p].now)
  <2>1. alert' = FALSE /\ run' = [run EXCEPT ![p].st = s]
    BY <1>7 DEF Judge, RemoveAlert
  <2>2. ~run[p].ok => ~alert
    BY <1>1, <1>3, <1>7 DEF Overdue
  <2>3. s.alertSent = FALSE
    BY <1>1, <1>4, <1>5, <2>2
  <2>4. run'[p].st = s /\ run'[p].now = run[p].now
    BY <2>1 DEF TypeOK
  <2> QED
    BY <1>7, <2>1, <2>3, <2>4
<1>8. CASE Overdue(s, run[p].now)
  <2>1. ~run[p].ok
    BY <1>3, <1>6, <1>8 DEF Overdue
  <2>2. CASE s.alertSent
    <3>1. alert' = alert /\ run' = [run EXCEPT ![p].st = s]
      BY <1>8, <2>2 DEF Judge
    <3>2. run'[p].st = s
      BY <3>1 DEF TypeOK
    <3> QED
      BY <1>1, <1>5, <2>1, <2>2, <3>1, <3>2
  <2>3. CASE ~s.alertSent
    <3>1. /\ alert' = TRUE
          /\ run' = [run EXCEPT ![p].st = [s EXCEPT !.alertSent = TRUE]]
      BY <1>8, <2>3 DEF Judge
    <3>2. run'[p].st = [s EXCEPT !.alertSent = TRUE]
      BY <3>1 DEF TypeOK
    <3>3. run'[p].st.alertSent = TRUE
      BY <1>2, <3>2 DEF State
    <3> QED
      BY <3>1, <3>3
  <2> QED
    BY <1>2, <2>2, <2>3
<1> QED
  BY <1>7, <1>8

LEMMA FlagInvStep ==
  ASSUME Procs = {Daemon}, Faults \subseteq {"answer"},
         TypeOK, SaveInv, AlertInv, FlagInv, [Next]_vars
  PROVE  FlagInv'
<1> USE DEF FlagInv
<1>1. CASE Env
  <2>1. UNCHANGED proc
    BY <1>1 DEF Env, Tick, StepBack, FBDown, FBStart, LinkChange, Retry
  <2> QED
    BY <2>1 DEF proc, disk, Saving, Checking, Overdue
<1>2. ASSUME NEW p \in Procs, Load(p) PROVE FlagInv'
  <2>1. /\ file.state.alertSent = alert /\ UNCHANGED <<file, alert>>
        /\ pc'[p] = "health" /\ run'[p].now = clock
    BY <1>2 DEF Load, Goto, env, disk, TypeOK, Saving
  <2>2. alert => Overdue(file.state, clock)
    BY DEF AlertInv, AlertMeansStale, Overdue
  <2> QED
    BY <2>1, <2>2 DEF Saving, Checking, Overdue
<1>3. ASSUME NEW p \in Procs, CheckHealth(p) PROVE FlagInv'
  BY <1>3 DEF CheckHealth, Goto, env, disk, TypeOK, Saving, Checking, Overdue
<1>4. ASSUME NEW p \in Procs, GetRetries(p) PROVE FlagInv'
  <2>1. /\ run'[p].now = run[p].now /\ UNCHANGED <<file, alert>>
        /\ pc'[p] = "judge" /\ pc[p] = "retries"
    BY <1>4 DEF GetRetries, Goto, env, disk, TypeOK
  <2> QED
    BY <2>1 DEF Saving, Checking, Overdue
<1>5. ASSUME NEW p \in Procs, Judge(p) PROVE FlagInv'
  <2>1. pc'[p] = "open"
    BY <1>5 DEF Judge, Goto, TypeOK
  <2> QED
    BY <1>5, <2>1, JudgeFlag DEF Saving, Checking, Overdue
<1>6. ASSUME NEW p \in Procs, Open(p) \/ Write(p) PROVE FlagInv'
  <2>1. /\ pc[p] \in Saving /\ pc'[p] \in Saving
        /\ UNCHANGED <<run, alert>>
    BY <1>6 DEF Open, Write, Goto, TypeOK, Saving
  <2> QED
    BY <2>1 DEF Saving, Checking, Overdue
<1>7. ASSUME NEW p \in Procs, Rename(p) PROVE FlagInv'
  <2>1. /\ tmp = Whole(run[p].st) /\ pc[p] = "rename" /\ file' = tmp
        /\ pc'[p] = "idle" /\ UNCHANGED alert
    BY <1>7 DEF Rename, Goto, SaveInv, Whole, NoFile, TypeOK
  <2>2. file'.state.alertSent = alert
    BY <2>1 DEF Whole, Saving
  <2> QED
    BY <2>1, <2>2 DEF Saving, Checking
<1>8. ASSUME NEW p \in Procs, SaveFails(p) \/ Crash(p) PROVE FlagInv'
  BY <1>8 DEF SaveFails, Crash
<1>9. CASE UNCHANGED vars
  BY <1>9 DEF vars, Saving, Checking, Overdue
<1> QED
  BY <1>1, <1>2, <1>3, <1>4, <1>5, <1>6, <1>7, <1>8, <1>9 DEF Next, Step

LEMMA FlagKept ==
  ASSUME Procs = {Daemon}, Faults \subseteq {"answer"}
  PROVE  Spec => []FlagInv
<1>1. Init => AlertInv /\ FlagInv
  <2> SUFFICES ASSUME Init PROVE AlertInv /\ FlagInv
    OBVIOUS
  <2>1. /\ alert = FALSE /\ file.state.alertSent = FALSE
        /\ \A p \in Procs : pc[p] = "idle"
    BY DEF Init, NoFile, ZeroState
  <2> QED
    BY <2>1 DEF AlertInv, AlertMeansStale, FlagInv, Saving, Checking
<1>2. TypeOK /\ SaveInv /\ TimeInv /\ AlertInv /\ [Next]_vars => AlertInv'
  BY AlertInvStep
<1>3. TypeOK /\ SaveInv /\ AlertInv /\ FlagInv /\ [Next]_vars => FlagInv'
  BY FlagInvStep
<1>4. "clock" \notin Faults
  OBVIOUS
<1> QED
  BY <1>1, <1>2, <1>3, <1>4, LastOKMonotone, Atomic, TypeCorrect, PTL
     DEF Spec

\* With one process that is not interrupted, whose saves succeed, alert_sent
\* and the alert file agree between checks.
THEOREM FlagAgrees ==
  ASSUME Procs = {Daemon}, Faults \subseteq {"answer"}
  PROVE  Spec => []AlertAgrees
<1>1. FlagInv => AlertAgrees
  BY ProcsAssumption DEF FlagInv, AlertAgrees, Saving
<1> QED
  BY <1>1, FlagKept, PTL

\* And it saves no outage of six hours without an alert, however often
\* Fluent Bit does not answer in time.
THEOREM OutageIsTold ==
  ASSUME Procs = {Daemon}, Faults \subseteq {"answer"}
  PROVE  Spec => []NoSilentOutage
<1>1. FlagInv => NoSilentOutage
  BY DEF FlagInv, NoSilentOutage, Overdue
<1> QED
  BY <1>1, FlagKept, PTL

-----------------------------------------------------------------------------
(* Any number of processes.                                                *)

\* Every success that a file or a process knows of has been.
PastInv ==
  /\ file.state.lastOK <= clock /\ tmp.state.lastOK <= clock
  /\ \A p \in Procs : run[p].now <= clock /\ run[p].st.lastOK <= clock

\* However many processes check at once, and whatever fails or dies, the state
\* file never names a success later than the clock, so that no one is offline
\* for less than no time: as long as the clock is not stepped back.
THEOREM SuccessHasBeen ==
  ASSUME "clock" \notin Faults
  PROVE  Spec => [](file.state.lastOK <= clock)
<1>1. Init => PastInv
  BY DEF Init, PastInv, NoFile, ZeroState
<1>2. TypeOK /\ PastInv /\ [Next]_vars => PastInv'
  <2> SUFFICES ASSUME TypeOK, PastInv, [Next]_vars PROVE PastInv'
    OBVIOUS
  <2>0. clock \in Nat /\ run \in [Procs -> RunType]
        /\ file \in Content /\ tmp \in Content
    BY DEF TypeOK, RunType
  <2> USE DEF PastInv, Goto, env, disk
  <2>1. CASE Env
    <3>1. UNCHANGED proc
      BY <2>1 DEF Env, Tick, StepBack, FBDown, FBStart, LinkChange, Retry
    <3>2. clock' \in Nat /\ clock <= clock'
      BY <2>0, <2>1 DEF Env, Tick, StepBack, FBDown, FBStart, LinkChange, Retry
    <3>3. file.state.lastOK \in Nat /\ tmp.state.lastOK \in Nat
          /\ \A p \in Procs : run[p].now \in Nat /\ run[p].st.lastOK \in Nat
      BY <2>0 DEF Content, RunType, State
    <3> QED
      BY <2>0, <3>1, <3>2, <3>3 DEF proc
  <2>2. ASSUME NEW p \in Procs, Load(p) PROVE PastInv'
    BY <2>0, <2>2 DEF Load
  <2>3. ASSUME NEW p \in Procs, CheckHealth(p) PROVE PastInv'
    BY <2>3 DEF CheckHealth
  <2>4. ASSUME NEW p \in Procs, GetRetries(p) PROVE PastInv'
    <3>1. /\ UNCHANGED <<env, disk>>
          /\ \E b : run' = [run EXCEPT ![p].ok = b]
      BY <2>4 DEF GetRetries
    <3>2. \A q \in Procs : run'[q].now = run[q].now /\ run'[q].st = run[q].st
      BY <2>0, <3>1 DEF RunType
    <3> QED
      BY <3>1, <3>2
  <2>5. ASSUME NEW p \in Procs, Judge(p) PROVE PastInv'
    <3> DEFINE s == Judged(run[p])
    <3>1. s \in State /\ (s.lastOK = run[p].now \/ s.lastOK = run[p].st.lastOK)
      BY <2>0, JudgedType, JudgedTime DEF RunType
    <3> HIDE DEF s
    <3>2. \E st : /\ st = s \/ st = [s EXCEPT !.alertSent = TRUE]
                 /\ run' = [run EXCEPT ![p].st = st]
      BY <2>5 DEF Judge, s
    <3>3. UNCHANGED <<clock, file, tmp>>
      BY <2>5 DEF Judge
    <3>4. \A q \in Procs : /\ run'[q].now = run[q].now
                           /\ run'[q].st.lastOK \in {run[q].st.lastOK, s.lastOK}
      BY <2>0, <3>1, <3>2 DEF RunType, State
    <3> QED
      BY <3>1, <3>3, <3>4
  <2>6. ASSUME NEW p \in Procs, Open(p) PROVE PastInv'
    BY <2>0, <2>6 DEF Open, EmptyFile, ZeroState
  <2>7. ASSUME NEW p \in Procs, Write(p) PROVE PastInv'
    <3>1. \A c \in Content : Overlay(c, run[p].st).state.lastOK <= clock
      BY <2>0 DEF Overlay, Whole, ZeroState
    <3>2. UNCHANGED <<clock, run>>
      BY <2>7 DEF Write
    <3>3. /\ tmp' = tmp \/ tmp' = Overlay(tmp, run[p].st)
          /\ file' = file \/ file' = Overlay(file, run[p].st)
      BY <2>7 DEF Write
    <3> QED
      BY <2>0, <3>1, <3>2, <3>3
  <2>8. ASSUME NEW p \in Procs, Rename(p) PROVE PastInv'
    BY <2>0, <2>8 DEF Rename, NoFile, ZeroState
  <2>9. ASSUME NEW p \in Procs, SaveFails(p) \/ Crash(p) PROVE PastInv'
    BY <2>9 DEF SaveFails, Crash, Leave
  <2>10. CASE UNCHANGED vars
    BY <2>10 DEF vars
  <2> QED
    BY <2>1, <2>2, <2>3, <2>4, <2>5, <2>6, <2>7, <2>8, <2>9, <2>10
       DEF Next, Step
<1>3. PastInv => file.state.lastOK <= clock
  BY DEF PastInv
<1> QED
  BY <1>1, <1>2, <1>3, TypeCorrect, PTL DEF Spec

=============================================================================
