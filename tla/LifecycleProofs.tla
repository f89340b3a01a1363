-------------------------- MODULE LifecycleProofs ---------------------------
(***************************************************************************)
(* Theorems about Lifecycle, for any number of installations: its type     *)
(* invariant, that an uninstallation leaves nothing behind, and that a     *)
(* finished installation runs what it wrote.  Both follow from invariants  *)
(* that say what a command has done before its next step.                  *)
(***************************************************************************)
EXTENDS Lifecycle, TLAPS

USE RunsAssumption, EnvAssumption DEF AllFaults

-----------------------------------------------------------------------------
(* The steps, one by one.                                                  *)

\* An installation takes 15 steps: the list of InstallSteps.
LEMMA InstallIs ==
  LET s == Steps["install"] IN
  /\ Len(s) = 15
  /\ s[1] = <<"fetch", "repo">> /\ s[2] = <<"fetch", "keyring">>
  /\ s[3] = <<"fetch", "package">> /\ s[4] = <<"write", "enrich">>
  /\ s[5] = <<"write", "parsers">> /\ s[6] = <<"write", "conf">>
  /\ s[7] = <<"write", "override">> /\ s[8] = <<"write", "unit">>
  /\ s[9] = <<"reload", "unit">> /\ s[10] = <<"enable", "fluent-bit">>
  /\ s[11] = <<"start", "fluent-bit">> /\ s[12] = <<"verify", "fluent-bit">>
  /\ s[13] = <<"enable", "fb-agent">> /\ s[14] = <<"start", "fb-agent">>
  /\ s[15] = <<"write", "state">>
  BY DEF Steps, InstallSteps

\* Both forms of an uninstallation begin with the same 11 steps, the list of
\* UninstallSteps; with --purge there is one more.
Uninstalls(s) ==
  /\ s[1] = <<"stop", "fb-agent">> /\ s[2] = <<"disable", "fb-agent">>
  /\ s[3] = <<"stop", "fluent-bit">> /\ s[4] = <<"disable", "fluent-bit">>
  /\ s[5] = <<"remove", "unit">> /\ s[6] = <<"remove", "override">>
  /\ s[7] = <<"reload", "unit">> /\ s[8] = <<"remove", "conf">>
  /\ s[9] = <<"remove", "enrich">> /\ s[10] = <<"remove", "parsers">>
  /\ s[11] = <<"remove", "state">>

LEMMA UninstallIs ==
  /\ Len(Steps["uninstall"]) = 11 /\ Uninstalls(Steps["uninstall"])
  /\ Len(Steps["purge"]) = 12 /\ Uninstalls(Steps["purge"])
  /\ Steps["purge"][12] = <<"remove", "package">>
<1>1. \A x : LET s == Append(UninstallSteps, x)
             IN  Len(s) = 12 /\ s[12] = x /\ Uninstalls(s)
  BY DEF UninstallSteps, Uninstalls
<1>2. Steps["purge"] = Append(UninstallSteps, <<"remove", "package">>)
  BY DEF Steps
<1>3. Len(Steps["uninstall"]) = 11 /\ Uninstalls(Steps["uninstall"])
  BY DEF Steps, UninstallSteps, Uninstalls
<1> QED
  BY <1>1, <1>2, <1>3

LEMMA LengthIs ==
  ASSUME NEW o \in {"install", "uninstall", "purge"}
  PROVE  Len(Steps[o]) \in 11..15 /\ 1 \in 1..Len(Steps[o])
<1>1. Len(Steps[o]) \in {11, 12, 15}
  BY InstallIs, UninstallIs
<1>2. \A l \in {11, 12, 15} : l \in 11..15 /\ 1 \in 1..l
  OBVIOUS
<1> QED
  BY <1>1, <1>2

-----------------------------------------------------------------------------
(* A step of a command is done, or it fails.                               *)

A == Steps[op][at][1]
X == Steps[op][at][2]

DoIt == op /= "none" /\ Effect(A, X) /\ Advance /\ UNCHANGED runs

Fails ==
  /\ op /= "none"
  /\ End("failed") \/ (Fault(A) \in Faults /\ ~Fatal(A, X) /\ Advance)
  /\ UNCHANGED <<disk, known, running, enabled, runs>>

LEMMA DoIs == Do => DoIt \/ Fails
  BY DEF Do, DoIt, Fails, A, X

\* The operations, and that a command moves on in its list.
LEMMA AtMoves ==
  ASSUME TypeOK, op /= "none", Advance \/ End("failed")
  PROVE  /\ op' \in {"none", op} /\ last' \in {last, op, "failed"}
         /\ at' \in IF op' = "none" THEN {0} ELSE 1..Len(Steps[op])
  BY LengthIs DEF TypeOK, Advance, End

\* What a step writes and starts is of an installation.
LEMMA EffectTyped ==
  ASSUME TypeOK, NEW a, NEW x, Effect(a, x)
  PROVE  /\ disk' \in [Files -> 0..MaxRuns] /\ known' \in 0..MaxRuns
         /\ running' \in [Units -> 0..MaxRuns]
<1>1. disk["conf"] \in 0..MaxRuns /\ disk["unit"] \in 0..MaxRuns
  BY DEF TypeOK, Files
<1>2. Config(x) \in 0..MaxRuns /\ known' \in 0..MaxRuns
  BY <1>1 DEF TypeOK, Effect, Config
<1>3. \E v \in 0..MaxRuns : disk' \in {disk, [disk EXCEPT ![x] = v]}
  <2>1. 0 \in 0..MaxRuns /\ runs \in 0..MaxRuns
    BY DEF TypeOK
  <2>2. disk' \in {disk, [disk EXCEPT ![x] = runs], [disk EXCEPT ![x] = 0]}
    BY DEF Effect
  <2> QED
    BY <2>1, <2>2
<1>4. \E v \in 0..MaxRuns : running' \in {running, [running EXCEPT ![x] = v]}
  <2>1. 0 \in 0..MaxRuns
    OBVIOUS
  <2>2. running' \in {running, [running EXCEPT ![x] = Config(x)],
                     [running EXCEPT ![x] = 0]}
    BY DEF Effect
  <2> QED
    BY <1>2, <2>1, <2>2
<1> QED
  BY <1>2, <1>3, <1>4 DEF TypeOK

\* Only units are enabled.
LEMMA EnablesUnits ==
  ASSUME TypeOK, op /= "none", A = "enable"
  PROVE  X \in Units
<1>1. CASE op = "install"
  <2>1. at \in 1..15
    BY <1>1, InstallIs DEF TypeOK
  <2>2. at \in {10, 13}
    BY <1>1, <2>1, InstallIs DEF A
  <2> QED
    BY <1>1, <2>2, InstallIs DEF X, Units
<1>2. CASE op \in {"uninstall", "purge"}
  <2>1. Uninstalls(Steps[op]) /\ (at \in 1..11 \/ A = "remove")
    <3>1. CASE op = "uninstall"
      BY <3>1, UninstallIs DEF TypeOK
    <3>2. CASE op = "purge"
      <4>1. at \in 1..11 \/ at = 12
        BY <3>2, UninstallIs DEF TypeOK
      <4> QED
        BY <3>2, <4>1, UninstallIs DEF A
    <3> QED
      BY <1>2, <3>1, <3>2
  <2>2. A /= "enable"
    BY <2>1 DEF A, Uninstalls
  <2> QED
    BY <2>2
<1> QED
  BY <1>1, <1>2 DEF TypeOK

-----------------------------------------------------------------------------
(* Type correctness.                                                       *)

LEMMA TypeStep == TypeOK /\ [Next]_vars => TypeOK'
<1> SUFFICES ASSUME TypeOK, [Next]_vars PROVE TypeOK'
  OBVIOUS
<1>1. ASSUME NEW o \in {"install", "uninstall", "purge"}, Begin(o)
      PROVE  TypeOK'
  <2>1. runs' \in 0..MaxRuns
    <3>1. CASE o = "install"
      BY <1>1, <3>1 DEF TypeOK, Begin
    <3> QED
      BY <1>1, <3>1 DEF TypeOK, Begin
  <2>2. at' \in 1..Len(Steps[o])
    BY <1>1, LengthIs DEF Begin
  <2> QED
    BY <1>1, <2>1, <2>2 DEF TypeOK, Begin
<1>2. CASE DoIt
  <2>1. /\ disk' \in [Files -> 0..MaxRuns] /\ known' \in 0..MaxRuns
        /\ running' \in [Units -> 0..MaxRuns]
    BY <1>2, EffectTyped DEF DoIt
  <2>2. enabled' \in SUBSET Units
    BY <1>2, EnablesUnits DEF TypeOK, DoIt, Effect
  <2>3. /\ op' \in {"none", op} /\ last' \in {last, op, "failed"}
        /\ at' \in IF op' = "none" THEN {0} ELSE 1..Len(Steps[op])
    BY <1>2, AtMoves DEF DoIt
  <2> QED
    BY <1>2, <2>1, <2>2, <2>3 DEF TypeOK, DoIt
<1>3. CASE Fails
  <2>1. /\ op' \in {"none", op} /\ last' \in {last, op, "failed"}
        /\ at' \in IF op' = "none" THEN {0} ELSE 1..Len(Steps[op])
    BY <1>3, AtMoves DEF Fails
  <2> QED
    BY <1>3, <2>1 DEF TypeOK, Fails
<1>4. CASE Interrupted
  BY <1>4 DEF TypeOK, Interrupted, End
<1>5. CASE AgentSaves
  BY <1>5 DEF TypeOK, AgentSaves
<1>6. ASSUME NEW u \in Units, Restarts(u) PROVE TypeOK'
  BY <1>6 DEF TypeOK, Restarts, Config, Files
<1>7. CASE Reboot
  BY <1>7 DEF TypeOK, Reboot, Files
<1>8. CASE UNCHANGED vars
  BY <1>8 DEF TypeOK, vars
<1> QED
  BY <1>1, <1>2, <1>3, <1>4, <1>5, <1>6, <1>7, <1>8, DoIs DEF Next

\* Type correctness of the commands and what they leave on the host
\* (cmd/install.go:21, cmd/uninstall.go:14).
THEOREM TypeCorrect == Spec => []TypeOK
<1>1. Init => TypeOK
  BY DEF Init, TypeOK
<1> QED
  BY <1>1, TypeStep, PTL DEF Spec

-----------------------------------------------------------------------------
(* Uninstallation.                                                         *)

\* What an uninstallation has done before step n.
UninstalledTo(n) ==
  /\ n > 1 => running["fb-agent"] = 0
  /\ n > 2 => "fb-agent" \notin enabled
  /\ n > 3 => running["fluent-bit"] = 0
  /\ n > 4 => "fluent-bit" \notin enabled
  /\ n > 5 => disk["unit"] = 0
  /\ n > 6 => disk["override"] = 0
  /\ n > 7 => known = 0
  /\ n > 8 => disk["conf"] = 0
  /\ n > 9 => disk["enrich"] = 0
  /\ n > 10 => disk["parsers"] = 0
  /\ n > 11 => disk["state"] = 0

Uninstalling(o) == o \in {"uninstall", "purge"}

UInv ==
  /\ TypeOK
  /\ Uninstalling(op) => UninstalledTo(at)
  /\ op = "none" /\ Uninstalling(last) => UninstalledTo(12)

\* The step that an uninstallation is about to take.
LEMMA UninstallAt ==
  ASSUME TypeOK, Uninstalling(op)
  PROVE  /\ \/ A = "stop" /\ at = 1 /\ X = "fb-agent"
            \/ A = "stop" /\ at = 3 /\ X = "fluent-bit"
            \/ A = "disable" /\ at = 2 /\ X = "fb-agent"
            \/ A = "disable" /\ at = 4 /\ X = "fluent-bit"
            \/ A = "reload" /\ at = 7
            \/ A = "remove" /\ at = 5 /\ X = "unit"
            \/ A = "remove" /\ at = 6 /\ X = "override"
            \/ A = "remove" /\ at = 8 /\ X = "conf"
            \/ A = "remove" /\ at = 9 /\ X = "enrich"
            \/ A = "remove" /\ at = 10 /\ X = "parsers"
            \/ A = "remove" /\ at = 11 /\ X = "state"
            \/ A = "remove" /\ at = 12
         /\ at < Len(Steps[op]) \/ at = 11 \/ at = 12
<1>1. /\ Uninstalls(Steps[op]) /\ at \in 1..12
      /\ at = 12 => Steps[op][at] = <<"remove", "package">>
      /\ at < Len(Steps[op]) \/ at = 11 \/ at = 12
  <2>1. CASE op = "uninstall"
    BY <2>1, UninstallIs DEF TypeOK
  <2>2. CASE op = "purge"
    BY <2>2, UninstallIs DEF TypeOK
  <2> QED
    BY <2>1, <2>2 DEF Uninstalling
<1>2. A = Steps[op][at][1] /\ X = Steps[op][at][2]
  BY DEF A, X
<1>3. \/ A = "stop" /\ at = 1 /\ X = "fb-agent"
      \/ A = "stop" /\ at = 3 /\ X = "fluent-bit"
      \/ A = "disable" /\ at = 2 /\ X = "fb-agent"
      \/ A = "disable" /\ at = 4 /\ X = "fluent-bit"
      \/ A = "reload" /\ at = 7
      \/ A = "remove" /\ at = 5 /\ X = "unit"
      \/ A = "remove" /\ at = 6 /\ X = "override"
      \/ A = "remove" /\ at = 8 /\ X = "conf"
      \/ A = "remove" /\ at = 9 /\ X = "enrich"
      \/ A = "remove" /\ at = 10 /\ X = "parsers"
      \/ A = "remove" /\ at = 11 /\ X = "state"
      \/ A = "remove" /\ at = 12
  <2>1. Uninstalls(Steps[op]) /\ at \in 1..12
        /\ (at = 12 => Steps[op][at] = <<"remove", "package">>)
    BY <1>1
  <2> QED
    BY <1>2, <2>1 DEF Uninstalls
<1> QED
  BY <1>1, <1>3

\* A step that is done takes the list from one place to the next.
LEMMA UninstallStep ==
  ASSUME TypeOK, Uninstalling(op), NEW n, at = n, UninstalledTo(n), Effect(A, X)
  PROVE  UninstalledTo(n + 1)'
<1>1. CASE A = "stop"
  <2>1. running' = [running EXCEPT ![X] = 0] /\ UNCHANGED <<disk, known, enabled>>
    BY <1>1 DEF Effect
  <2> QED
    BY <1>1, <2>1, UninstallAt DEF TypeOK, UninstalledTo, Units
<1>2. CASE A = "disable"
  <2>1. enabled' = enabled \ {X} /\ UNCHANGED <<disk, known, running>>
    BY <1>2 DEF Effect
  <2> QED
    BY <1>2, <2>1, UninstallAt DEF UninstalledTo
<1>3. CASE A = "reload"
  <2>1. known' = disk["unit"] /\ UNCHANGED <<disk, running, enabled>>
    BY <1>3 DEF Effect
  <2> QED
    BY <1>3, <2>1, UninstallAt DEF UninstalledTo
<1>4. CASE A = "remove"
  <2>1. disk' = [disk EXCEPT ![X] = 0] /\ UNCHANGED <<known, running, enabled>>
    BY <1>4 DEF Effect
  <2>2. \A f \in Files : disk'[f] = IF f = X THEN 0 ELSE disk[f]
    BY <2>1 DEF TypeOK
  <2> QED
    BY <1>4, <2>1, <2>2, UninstallAt DEF UninstalledTo, Files
<1> QED
  BY <1>1, <1>2, <1>3, <1>4, UninstallAt

\* The services disturb none of it: one that does not run neither writes its
\* state nor restarts.
LEMMA UninstalledKept ==
  ASSUME TypeOK, NEW n \in Nat, UninstalledTo(n),
         AgentSaves \/ \E u \in Units : Restarts(u)
  PROVE  UninstalledTo(n)'
<1>1. CASE AgentSaves
  <2>1. n < 2
    BY <1>1 DEF UninstalledTo, AgentSaves
  <2> QED
    BY <2>1 DEF UninstalledTo
<1>2. ASSUME NEW u \in Units, Restarts(u) PROVE UninstalledTo(n)'
  <2>1. \A v \in Units : running[v] = 0 => running'[v] = 0
    BY <1>2 DEF TypeOK, Restarts
  <2> QED
    BY <1>2, <2>1 DEF UninstalledTo, Restarts, Units
<1> QED
  BY <1>1, <1>2

LEMMA UInvStep ==
  ASSUME "disk" \notin Faults, "systemctl" \notin Faults, UInv, [Next]_vars
  PROVE  UInv'
<1>1. TypeOK /\ TypeOK'
  BY TypeStep DEF UInv
<1>2. ASSUME NEW o \in {"install", "uninstall", "purge"}, Begin(o)
      PROVE  UInv'
  <2>1. op' /= "none" /\ at' = 1
    BY <1>2 DEF Begin
  <2> QED
    BY <1>1, <2>1 DEF UInv, UninstalledTo
<1>3. CASE DoIt
  <2>1. CASE Uninstalling(op)
    <3>1. at \in 1..12
      BY <1>1, <2>1, UninstallAt
    <3>2. UninstalledTo(at)
      BY <2>1 DEF UInv
    <3>3. \A n : n = at => UninstalledTo(n + 1)'
      BY <1>1, <1>3, <2>1, <3>2, UninstallStep DEF DoIt
    <3>4. CASE at < Len(Steps[op])
      <4>1. op' = op /\ \A n : n = at => at' = n + 1
        BY <1>3, <3>4 DEF DoIt, Advance
      <4>2. UninstalledTo(at)'
        BY <3>3, <4>1 DEF UninstalledTo
      <4> QED
        BY <1>1, <2>1, <4>1, <4>2 DEF UInv, Uninstalling
    <3>5. CASE ~(at < Len(Steps[op]))
      <4>1. op' = "none"
        BY <1>3, <3>5 DEF DoIt, Advance, End
      <4>2. UninstalledTo(12)'
        BY <1>1, <2>1, <3>3, <3>5, UninstallAt DEF UninstalledTo
      <4> QED
        BY <1>1, <4>1, <4>2 DEF UInv, Uninstalling
    <3> QED
      BY <3>4, <3>5
  <2>2. CASE op = "install"
    BY <1>1, <1>3, <2>2 DEF UInv, DoIt, Advance, End, Uninstalling
  <2> QED
    BY <1>1, <1>3, <2>1, <2>2 DEF DoIt, TypeOK, Uninstalling
<1>4. CASE Fails
  <2>1. CASE Uninstalling(op)
    <3>1. Fault(A) \notin Faults
      BY <1>1, <2>1, UninstallAt DEF Fault
    <3> QED
      BY <1>1, <1>4, <3>1 DEF UInv, Fails, End, Uninstalling
  <2>2. CASE op = "install"
    BY <1>1, <1>4, <2>2 DEF UInv, Fails, Advance, End, Uninstalling
  <2> QED
    BY <1>1, <1>4, <2>1, <2>2 DEF Fails, TypeOK, Uninstalling
<1>5. CASE Interrupted
  BY <1>1, <1>5 DEF UInv, Interrupted, End, Uninstalling
<1>6. CASE AgentSaves \/ \E u \in Units : Restarts(u)
  <2>1. UNCHANGED <<op, at, last>>
    BY <1>6 DEF AgentSaves, Restarts
  <2>2. at \in Nat
    BY <1>1, LengthIs DEF TypeOK
  <2>3. \A n \in Nat : UninstalledTo(n) => UninstalledTo(n)'
    BY <1>1, <1>6, UninstalledKept
  <2>4. UninstalledTo(at) => UninstalledTo(at)'
    BY <2>1, <2>2, <2>3 DEF UninstalledTo
  <2> QED
    BY <1>1, <2>1, <2>3, <2>4 DEF UInv, Uninstalling
<1>7. CASE Reboot
  BY <1>1, <1>7 DEF UInv, Reboot, Uninstalling, UninstalledTo, Units
<1>8. CASE UNCHANGED vars
  BY <1>1, <1>8 DEF UInv, vars, Uninstalling, UninstalledTo
<1> QED
  BY <1>2, <1>3, <1>4, <1>5, <1>6, <1>7, <1>8, DoIs DEF Next

\* After `fb-agent uninstall`, or with --purge, nothing runs, nothing starts at
\* boot and no file of the installation is left or made again, where the calls
\* of systemctl and the removals succeed (cmd/uninstall.go:14): whatever was
\* interrupted before, and however services crash and the host reboots.
THEOREM Uninstalled ==
  ASSUME "disk" \notin Faults, "systemctl" \notin Faults
  PROVE  Spec => []UninstallClean
<1>1. Init => UInv
  BY DEF Init, UInv, TypeOK, Uninstalling
<1>2. UInv /\ [Next]_vars => UInv'
  BY UInvStep
<1>3. UInv => UninstallClean
  BY DEF UInv, UninstallClean, Done, Uninstalling, UninstalledTo, TypeOK,
         Units, Files
<1> QED
  BY <1>1, <1>2, <1>3, PTL DEF Spec

-----------------------------------------------------------------------------
(* Installation.                                                           *)

\* What an installation has done before step n.  Until it starts a service
\* that service does not run; the files of a host it installs are its own.
InstalledTo(n) ==
  /\ runs > 0
  /\ n <= 11 => running["fluent-bit"] = 0
  /\ n <= 14 => running["fb-agent"] = 0
  /\ n > 6 => disk["conf"] = runs
  /\ n > 8 => disk["unit"] = runs
  /\ n > 9 => known = disk["unit"]
  /\ n > 10 => "fluent-bit" \in enabled
  /\ n > 11 => running["fluent-bit"] = disk["conf"]
  /\ n > 13 => "fb-agent" \in enabled
  /\ n > 14 => running["fb-agent"] = disk["unit"]

\* What is left of it when later commands may have been begun.
Installed ==
  /\ disk["conf"] > 0 /\ disk["unit"] > 0 /\ known = disk["unit"]
  /\ enabled = Units
  /\ running["fluent-bit"] = disk["conf"] /\ running["fb-agent"] = disk["unit"]

IInv ==
  /\ TypeOK
  /\ op = "install" => InstalledTo(at)
  /\ Done("install") => Installed

\* The step that an installation is about to take.
LEMMA InstallAt ==
  ASSUME TypeOK, op = "install"
  PROVE  /\ \/ A = "fetch" /\ at \in {1, 2, 3} /\ X \in {"repo", "keyring", "package"}
            \/ A = "write" /\ at = 4 /\ X = "enrich"
            \/ A = "write" /\ at = 5 /\ X = "parsers"
            \/ A = "write" /\ at = 6 /\ X = "conf"
            \/ A = "write" /\ at = 7 /\ X = "override"
            \/ A = "write" /\ at = 8 /\ X = "unit"
            \/ A = "reload" /\ at = 9
            \/ A = "enable" /\ at = 10 /\ X = "fluent-bit"
            \/ A = "start" /\ at = 11 /\ X = "fluent-bit"
            \/ A = "verify" /\ at = 12 /\ X = "fluent-bit"
            \/ A = "enable" /\ at = 13 /\ X = "fb-agent"
            \/ A = "start" /\ at = 14 /\ X = "fb-agent"
            \/ A = "write" /\ at = 15 /\ X = "state"
         /\ Len(Steps[op]) = 15
<1>1. Len(Steps[op]) = 15 /\ at \in 1..15
  BY InstallIs DEF TypeOK
<1>2. A = Steps["install"][at][1] /\ X = Steps["install"][at][2]
  BY DEF A, X
<1> QED
  BY <1>1, <1>2, InstallIs

\* An installation that has come to its end, before and after the last step.
LEMMA InstalledIs ==
  /\ TypeOK /\ InstalledTo(15) => Installed
  /\ (TypeOK /\ InstalledTo(16) => Installed)'
<1>1. \A n \in {15, 16} : TypeOK /\ InstalledTo(n) => Installed
  <2> SUFFICES ASSUME NEW n \in {15, 16}, TypeOK, InstalledTo(n)
               PROVE  Installed
    OBVIOUS
  <2>1. runs \in Nat /\ runs > 0 /\ enabled \subseteq Units
    BY DEF TypeOK, InstalledTo
  <2>2. "fluent-bit" \in enabled /\ "fb-agent" \in enabled
    BY DEF InstalledTo
  <2>3. enabled = Units
    BY <2>1, <2>2 DEF Units
  <2> QED
    BY <2>1, <2>3 DEF Installed, InstalledTo
<1>2. TypeOK /\ InstalledTo(15) => Installed
  BY <1>1
<1>3. TypeOK /\ InstalledTo(16) => Installed
  BY <1>1
<1> QED
  BY <1>2, <1>3, PTL

\* A step that is done takes the list from one place to the next.
LEMMA InstallStep ==
  ASSUME TypeOK, op = "install", NEW n, at = n, InstalledTo(n), Effect(A, X),
         UNCHANGED runs
  PROVE  InstalledTo(n + 1)'
<1>1. runs \in Nat /\ runs > 0 /\ runs' = runs /\ runs' > 0
  BY DEF TypeOK, InstalledTo
<1>2. CASE A = "fetch"
  <2>1. UNCHANGED <<known, running, enabled>>
    BY <1>2 DEF Effect
  <2>2. n \in {1, 2, 3}
    BY <1>2, InstallAt
  <2> QED
    BY <1>1, <2>1, <2>2 DEF InstalledTo
<1>3. CASE A = "write"
  <2>1. disk' = [disk EXCEPT ![X] = runs] /\ UNCHANGED <<known, running, enabled>>
    BY <1>3 DEF Effect
  <2>2. \A f \in Files : disk'[f] = IF f = X THEN runs ELSE disk[f]
    BY <2>1 DEF TypeOK
  <2> QED
    BY <1>1, <1>3, <2>1, <2>2, InstallAt DEF InstalledTo, Files
<1>4. CASE A = "reload"
  <2>1. known' = disk["unit"] /\ UNCHANGED <<disk, running, enabled>>
    BY <1>4 DEF Effect
  <2> QED
    BY <1>1, <1>4, <2>1, InstallAt DEF InstalledTo
<1>5. CASE A = "enable"
  <2>1. enabled' = enabled \cup {X} /\ UNCHANGED <<disk, known, running>>
    BY <1>5 DEF Effect
  <2> QED
    BY <1>1, <1>5, <2>1, InstallAt DEF InstalledTo
<1>6. CASE A = "start"
  <2>1. UNCHANGED <<disk, known, enabled>>
    BY <1>6 DEF Effect
  <2>2. running[X] = 0
    BY <1>6, InstallAt DEF InstalledTo
  <2>3. running' = [running EXCEPT ![X] = Config(X)]
    BY <1>6, <2>2 DEF Effect
  <2>4. \A u \in Units : running'[u] = IF u = X THEN Config(X) ELSE running[u]
    BY <2>3 DEF TypeOK
  <2> QED
    BY <1>1, <1>6, <2>1, <2>4, InstallAt DEF InstalledTo, Units, Config
<1>7. CASE A = "verify"
  <2>1. UNCHANGED <<disk, known, running, enabled>>
    BY <1>7 DEF Effect
  <2> QED
    BY <1>1, <1>7, <2>1, InstallAt DEF InstalledTo
<1> QED
  BY <1>2, <1>3, <1>4, <1>5, <1>6, <1>7, InstallAt

\* The daemon writes its state and nothing else, and a service that restarts
\* runs what it ran.
LEMMA InstalledKept ==
  ASSUME TypeOK, AgentSaves \/ \E u \in Units : Restarts(u)
  PROVE  /\ \A n \in Nat : InstalledTo(n) => InstalledTo(n)'
         /\ Installed => Installed'
<1>1. CASE AgentSaves
  <2>1. /\ disk' = [disk EXCEPT !["state"] = runs]
        /\ UNCHANGED <<known, running, enabled, runs>>
    BY <1>1 DEF AgentSaves
  <2>2. disk'["conf"] = disk["conf"] /\ disk'["unit"] = disk["unit"]
    BY <2>1 DEF TypeOK, Files
  <2> QED
    BY <2>1, <2>2 DEF InstalledTo, Installed
<1>2. ASSUME NEW u \in Units, Restarts(u)
      PROVE  /\ \A n \in Nat : InstalledTo(n) => InstalledTo(n)'
             /\ Installed => Installed'
  <2>1. /\ running[u] > 0 /\ UNCHANGED <<disk, known, enabled, runs>>
        /\ \A v \in Units : running'[v] = IF v = u THEN Config(u) ELSE running[v]
    BY <1>2 DEF Restarts, TypeOK
  <2>2. \A n \in Nat : InstalledTo(n) => InstalledTo(n)'
    BY <2>1 DEF InstalledTo, Config, Units
  <2>3. Installed => Installed'
    BY <2>1 DEF Installed, Config, Units
  <2> QED
    BY <2>2, <2>3
<1> QED
  BY <1>1, <1>2

LEMMA IInvStep ==
  ASSUME ~Reinstall, "systemctl" \notin Faults, IInv, [Next]_vars
  PROVE  IInv'
<1>1. TypeOK /\ TypeOK'
  BY TypeStep DEF IInv
<1>2. ASSUME NEW o \in {"install", "uninstall", "purge"}, Begin(o)
      PROVE  IInv'
  <2>1. op' = o /\ at' = 1
    BY <1>2 DEF Begin
  <2>2. CASE o = "install"
    <3>1. runs' > 0 /\ \A u \in Units : running'[u] = 0
      BY <1>1, <1>2, <2>2 DEF Begin, TypeOK
    <3> QED
      BY <1>1, <2>1, <2>2, <3>1 DEF IInv, InstalledTo, Done, Units
  <2> QED
    BY <1>1, <2>1, <2>2 DEF IInv, Done
<1>3. CASE DoIt
  <2>1. CASE op = "install"
    <3>1. at \in 1..15 /\ InstalledTo(at) /\ Len(Steps[op]) = 15
      BY <1>1, <2>1, InstallAt DEF IInv
    <3>2. \A n : n = at => InstalledTo(n + 1)'
      BY <1>1, <1>3, <2>1, <3>1, InstallStep DEF DoIt
    <3>3. CASE at < 15
      <4>1. op' = op /\ \A n : n = at => at' = n + 1
        BY <1>3, <3>1, <3>3 DEF DoIt, Advance
      <4>2. InstalledTo(at)'
        BY <3>2, <4>1 DEF InstalledTo
      <4> QED
        BY <1>1, <2>1, <4>1, <4>2 DEF IInv, Done
    <3>4. CASE at = 15
      <4>1. op' = "none"
        BY <1>3, <3>1, <3>4 DEF DoIt, Advance, End
      <4>2. InstalledTo(16)'
        BY <3>2, <3>4
      <4>3. Installed'
        BY <1>1, <4>2, InstalledIs
      <4> QED
        BY <1>1, <4>1, <4>3 DEF IInv
    <3> QED
      BY <3>1, <3>3, <3>4
  <2>2. CASE op \in {"uninstall", "purge"}
    BY <1>1, <1>3, <2>2 DEF IInv, DoIt, Advance, End, Done
  <2> QED
    BY <1>1, <1>3, <2>1, <2>2 DEF DoIt, TypeOK
<1>4. CASE Fails
  <2>1. CASE End("failed")
    BY <1>1, <2>1 DEF IInv, End, Done
  <2>2. CASE Fault(A) \in Faults /\ ~Fatal(A, X) /\ Advance
    <3>1. CASE op = "install"
      <4>1. at = 15 /\ Len(Steps[op]) = 15
        BY <1>1, <2>2, <3>1, InstallAt DEF Fault, Fatal
      <4>2. op' = "none" /\ InstalledTo(15)
        BY <2>2, <3>1, <4>1 DEF IInv, Advance, End
      <4>3. Installed
        BY <1>1, <4>2, InstalledIs
      <4>4. Installed'
        BY <1>4, <4>3 DEF Fails, Installed
      <4> QED
        BY <1>1, <4>2, <4>4 DEF IInv
    <3>2. CASE op \in {"uninstall", "purge"}
      BY <1>1, <2>2, <3>2 DEF IInv, Advance, End, Done
    <3> QED
      BY <1>1, <1>4, <3>1, <3>2 DEF Fails, TypeOK
  <2> QED
    BY <1>4, <2>1, <2>2 DEF Fails
<1>5. CASE Interrupted
  BY <1>1, <1>5 DEF IInv, Interrupted, End, Done
<1>6. CASE AgentSaves \/ \E u \in Units : Restarts(u)
  <2>1. UNCHANGED <<op, at, last>>
    BY <1>6 DEF AgentSaves, Restarts
  <2>2. at \in Nat
    BY <1>1, LengthIs DEF TypeOK
  <2>3. /\ \A n \in Nat : InstalledTo(n) => InstalledTo(n)'
        /\ Installed => Installed'
    BY <1>1, <1>6, InstalledKept
  <2>4. InstalledTo(at) => InstalledTo(at)'
    BY <2>1, <2>2, <2>3 DEF InstalledTo
  <2> QED
    BY <1>1, <2>1, <2>3, <2>4 DEF IInv, Done
<1>7. CASE Reboot
  BY <1>1, <1>7 DEF IInv, Reboot, Installed, Done, Units
<1>8. CASE UNCHANGED vars
  BY <1>1, <1>8 DEF IInv, vars, Installed, InstalledTo, Done
<1> QED
  BY <1>2, <1>3, <1>4, <1>5, <1>6, <1>7, <1>8, DoIs DEF Next

LEMMA IInvHolds ==
  ASSUME ~Reinstall, "systemctl" \notin Faults
  PROVE  Spec => []IInv
<1>1. Init => IInv
  BY DEF Init, IInv, TypeOK, Done
<1>2. IInv /\ [Next]_vars => IInv'
  BY IInvStep
<1> QED
  BY <1>1, <1>2, PTL DEF Spec

\* After an installation of a host where nothing ran both services run and
\* start at boot, through crashes and reboots, where the calls of systemctl
\* succeed (cmd/install.go:304-330).
THEOREM BothRun ==
  ASSUME ~Reinstall, "systemctl" \notin Faults
  PROVE  Spec => []InstalledRuns
<1>1. IInv => InstalledRuns
  BY DEF IInv, InstalledRuns, Installed, TypeOK, Units
<1> QED
  BY <1>1, IInvHolds, PTL

\* And they run what it wrote: none of the earlier installations, finished or
\* not, shows through (cmd/install.go:208-302).
THEOREM NothingOldRuns ==
  ASSUME ~Reinstall, "systemctl" \notin Faults
  PROVE  Spec => []RunsWhatItWrote
<1>1. IInv => RunsWhatItWrote
  BY DEF IInv, RunsWhatItWrote, Installed, TypeOK, Units
<1> QED
  BY <1>1, IInvHolds, PTL

=============================================================================
