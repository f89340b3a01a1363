----------------------------- MODULE Lifecycle ------------------------------
(***************************************************************************)
(* `fb-agent install` and `fb-agent uninstall` (cmd/install.go,            *)
(* cmd/uninstall.go) with the package installer (pkg/installer.go) and     *)
(* systemd (pkg/systemd.go), beside the two services they manage: Fluent   *)
(* Bit and the agent's daemon, which crash, restart, write their state and *)
(* come back after a reboot whenever they like.  Each command is a list of *)
(* steps, any of which may fail or be the last before it is interrupted.   *)
(***************************************************************************)
EXTENDS Integers, Sequences

CONSTANTS
  MaxRuns,   \* bound: installations that are started
  Reinstall, \* whether one is started while a service still runs
  Faults     \* what may go wrong in this environment

AllFaults == {"net",       \* the package or its repository is not had
              "disk",      \* a file cannot be written or removed, or there
                          \* is no input to write a configuration for
              "systemctl", \* a call of systemctl fails
              "death",     \* the command is interrupted
              "crash"}     \* a service dies

ASSUME RunsAssumption == MaxRuns \in Nat \ {0}
ASSUME EnvAssumption == Reinstall \in BOOLEAN /\ Faults \subseteq AllFaults

Units == {"fluent-bit", "fb-agent"}

\* state: what the daemon and the registration keep in /var/lib/fluent-bit.
Files == {"repo", "keyring", "package", "enrich", "parsers", "conf",
          "override", "unit", "state"}

VARIABLES
  disk,     \* disk[f]: the installation that wrote file f, 0 without one
  known,    \* the one whose fb-agent.service systemd has read
  running,  \* running[u]: the one whose configuration service u runs
  enabled,  \* the units started at boot
  op, at,   \* the command under way, and its next step
  runs,     \* installations started
  last      \* how the last command ended

vars == <<disk, known, running, enabled, op, at, runs, last>>

-----------------------------------------------------------------------------
(* The steps of the commands.                                              *)

\* Slips: the units are read again before they are written, or not enabled.
InstallReloadEarly ==
  << <<"fetch", "repo">>, <<"fetch", "keyring">>, <<"fetch", "package">>,
     <<"write", "enrich">>, <<"write", "parsers">>, <<"write", "conf">>,
     <<"reload", "unit">>, <<"write", "override">>, <<"write", "unit">>,
     <<"enable", "fluent-bit">>, <<"start", "fluent-bit">>,
     <<"verify", "fluent-bit">>, <<"enable", "fb-agent">>,
     <<"start", "fb-agent">>, <<"write", "state">> >>
InstallNotEnabled ==
  << <<"fetch", "repo">>, <<"fetch", "keyring">>, <<"fetch", "package">>,
     <<"write", "enrich">>, <<"write", "parsers">>, <<"write", "conf">>,
     <<"write", "override">>, <<"write", "unit">>, <<"reload", "unit">>,
     <<"start", "fluent-bit">>, <<"verify", "fluent-bit">>,
     <<"start", "fb-agent">>, <<"write", "state">> >>

\* The initial registration, which leaves its record in state, comes last.
InstallSteps ==
  << <<"fetch", "repo">>, <<"fetch", "keyring">>, <<"fetch", "package">>,
     <<"write", "enrich">>, <<"write", "parsers">>, <<"write", "conf">>,
     <<"write", "override">>, <<"write", "unit">>, <<"reload", "unit">>,
     <<"enable", "fluent-bit">>, <<"start", "fluent-bit">>,
     <<"verify", "fluent-bit">>, <<"enable", "fb-agent">>,
     <<"start", "fb-agent">>, <<"write", "state">> >>

\* Slip: the data goes before the daemon that writes it.
UninstallFilesFirst ==
  << <<"remove", "conf">>, <<"remove", "enrich">>, <<"remove", "parsers">>,
     <<"remove", "state">>,
     <<"stop", "fb-agent">>, <<"disable", "fb-agent">>,
     <<"stop", "fluent-bit">>, <<"disable", "fluent-bit">>,
     <<"remove", "unit">>, <<"remove", "override">>, <<"reload", "unit">> >>

UninstallSteps ==
  << <<"stop", "fb-agent">>, <<"disable", "fb-agent">>,
     <<"stop", "fluent-bit">>, <<"disable", "fluent-bit">>,
     <<"remove", "unit">>, <<"remove", "override">>, <<"reload", "unit">>,
     <<"remove", "conf">>, <<"remove", "enrich">>, <<"remove", "parsers">>,
     <<"remove", "state">> >>

Steps == [install |-> InstallSteps, uninstall |-> UninstallSteps,
          purge |-> Append(UninstallSteps, <<"remove", "package">>)]

TypeOK ==
  /\ disk \in [Files -> 0..MaxRuns]
  /\ known \in 0..MaxRuns
  /\ running \in [Units -> 0..MaxRuns]
  /\ enabled \in SUBSET Units
  /\ op \in {"none", "install", "uninstall", "purge"}
  /\ at \in IF op = "none" THEN {0} ELSE 1..Len(Steps[op])
  /\ runs \in 0..MaxRuns
  /\ last \in {"none", "install", "uninstall", "purge", "failed"}

Init ==
  /\ disk = [f \in Files |-> 0] /\ known = 0
  /\ running = [u \in Units |-> 0] /\ enabled = {}
  /\ op = "none" /\ at = 0 /\ runs = 0 /\ last = "none"

\* What a service that starts now will run; 0 if it cannot.
Config(u) == IF u = "fluent-bit" THEN disk["conf"] ELSE known

\* The package steps are for a host without the package, and keep a keyring.
Effect(a, x) ==
  /\ disk' = CASE a = "write" -> [disk EXCEPT ![x] = runs]
               [] a = "fetch" ->
                    IF disk["package"] > 0 \/ (x = "keyring" /\ disk[x] > 0)
                    THEN disk ELSE [disk EXCEPT ![x] = runs]
               [] a = "remove" -> [disk EXCEPT ![x] = 0]
               [] OTHER -> disk
  /\ known' = IF a = "reload" THEN disk["unit"] ELSE known
  /\ enabled' = CASE a = "enable" -> enabled \cup {x}
                  [] a = "disable" -> enabled \ {x}
                  [] OTHER -> enabled
  \* systemctl start leaves a service that is active as it is
  /\ running' =
       CASE a = "start" /\ running[x] = 0 -> [running EXCEPT ![x] = Config(x)]
         [] a = "stop" -> [running EXCEPT ![x] = 0]
         [] OTHER -> running

Begin(o) ==
  /\ op = "none"
  /\ o = "install" => /\ runs < MaxRuns
                      /\ Reinstall \/ \A u \in Units : running[u] = 0
  /\ op' = o /\ at' = 1
  /\ runs' = IF o = "install" THEN runs + 1 ELSE runs
  /\ UNCHANGED <<disk, known, running, enabled, last>>

End(result) == op' = "none" /\ at' = 0 /\ last' = result

\* Slip: a step too many.
AdvanceTooFar ==
  IF at <= Len(Steps[op]) THEN at' = at + 1 /\ UNCHANGED <<op, last>>
  ELSE End(op)

Advance ==
  IF at < Len(Steps[op]) THEN at' = at + 1 /\ UNCHANGED <<op, last>>
  ELSE End(op)

Fault(a) == CASE a = "fetch" -> "net"
              [] a \in {"write", "remove"} -> "disk"
              [] OTHER -> "systemctl"

\* What makes the installer exit; anything else is a warning.
Fatal(a, x) == op = "install" /\ a \in {"fetch", "write", "reload"} /\ x /= "state"

Do ==
  /\ op /= "none"
  /\ LET a == Steps[op][at][1]
         x == Steps[op][at][2]
         broken == a = "verify" /\ running[x] = 0
     IN
     \/ ~broken /\ Effect(a, x) /\ Advance
     \/ /\ broken \/ Fault(a) \in Faults
        /\ IF broken \/ Fatal(a, x) THEN End("failed") ELSE Advance
        /\ UNCHANGED <<disk, known, running, enabled>>
  /\ UNCHANGED runs

\* Ctrl-C, a lost ssh session, the OOM killer.
Interrupted ==
  /\ "death" \in Faults /\ op /= "none"
  /\ End("failed")
  /\ UNCHANGED <<disk, known, running, enabled, runs>>

-----------------------------------------------------------------------------
(* The services.                                                           *)

\* Every check and registration writes below /var/lib/fluent-bit, which it
\* makes if it is not there.
AgentSaves ==
  /\ running["fb-agent"] > 0
  /\ disk' = [disk EXCEPT !["state"] = runs]
  /\ UNCHANGED <<known, running, enabled, op, at, runs, last>>

\* Restart=always
Restarts(u) ==
  /\ "crash" \in Faults /\ running[u] > 0
  /\ running' = [running EXCEPT ![u] = Config(u)]
  /\ UNCHANGED <<disk, known, enabled, op, at, runs, last>>

Reboot ==
  /\ op = "none"
  /\ known' = disk["unit"]
  /\ running' = [u \in Units |->
                   IF u \notin enabled THEN 0
                   ELSE IF u = "fluent-bit" THEN disk["conf"] ELSE disk["unit"]]
  /\ UNCHANGED <<disk, enabled, op, at, runs, last>>

Next ==
  \/ \E o \in {"install", "uninstall", "purge"} : Begin(o)
  \/ Do \/ Interrupted
  \/ AgentSaves \/ Reboot \/ \E u \in Units : Restarts(u)

Spec == Init /\ [][Next]_vars

-----------------------------------------------------------------------------
(* Properties.                                                             *)

Done(o) == op = "none" /\ last = o

\* A finished installation means what install.go:316 and README.md:97 say,
\* also after crashes of the services and reboots: both run, and will.
InstalledRuns ==
  Done("install") => enabled = Units /\ \A u \in Units : running[u] > 0

\* What runs is what the last installation has written, not the
\* configuration of an earlier one (README.md:56).
RunsWhatItWrote ==
  Done("install") =>
    running = [u \in Units |-> IF u = "fluent-bit" THEN disk["conf"]
                               ELSE disk["unit"]]

\* After uninstall nothing runs or starts at boot, and nothing that was
\* installed is left or made again, except the package.
UninstallClean ==
  Done("uninstall") \/ Done("purge") =>
    /\ enabled = {} /\ known = 0 /\ \A u \in Units : running[u] = 0
    /\ \A f \in Files \ {"package", "keyring", "repo"} : disk[f] = 0

=============================================================================
