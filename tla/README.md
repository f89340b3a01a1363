# Verification of fb-agent

TLA+ models of `fb-agent`, the host agent that installs Fluent Bit, configures
it for VictoriaLogs, watches it, and keeps its client certificate alive; TLC
runs that check them on small instances; and TLAPS proofs of what is safe about
every one of these parts, for every value of the constants.

    tlc -workers 2 -config watchdog_live.cfg Watchdog    # a run: config, module
    tlapm WatchdogProofs.tla                             # all proofs of a module

`PROJECT.json` lists the components, the runs with their properties, for each
property the mutant of the model that violates it, the source lines of every
definition, the hazards and the theorems.

## 1. The system

| Component | State it keeps | Operations | Module |
|---|---|---|---|
| Connectivity check (`health/`) | `connectivity.state` (last_ok, fail_count, alert_sent), its `.tmp`, `ALERT_NO_CONNECTION` | `RunWatchdog`, `LoadState`, `SaveState` | `Watchdog`, `StateStore` |
| Certificates (`network/mtls.go`) | `client.crt`, `client.key`, `ca.crt`; what Fluent Bit has loaded of them | `EnrollCert`, `RenewCertIfExpiring` | `Enrollment`, `Agent` |
| Daemon loop (`cmd/daemon.go`, `fb-agent.service.tmpl`) | three tickers, the signal channel, systemd's watchdog and restart timers | the select loop, `sd_notify`, stop, kill, restart | `Scheduler` |
| Install, uninstall (`cmd/install.go`, `cmd/uninstall.go`, `pkg/`) | the files they write, systemd's units, what runs and is enabled | the steps of the two commands | `Lifecycle` (TLS decision in `Enrollment`, inputs in `Pipeline`) |
| Registration (`cmd/register.go`, `network/fingerprint.go`) | `host-registration.json`, the record the server shows | collect, stamp, save, POST once | `Registration` |
| Service detection (`detect/services.go`) | none, a function of the host | `DetectServices` | `Discovery` |
| Configuration (`config/`, `fluent-bit.conf.tmpl`) | the inputs of `fluent-bit.conf` | `Generate` | `Pipeline` (inputs), `Agent` (files of the output) |
| Record pipeline (`enrich.lua`, `parsers-custom.conf`) | none, a function of the record | parse, drop, message, level, app | `Enrich`, `Pipeline` |
| OS and environment detection, status, version, command line, `verify.py` | none | read-only | not modelled |

How they meet: the daemon calls the check every 5 minutes, registration every
24 h and the renewal every 7 days, one at a time in one goroutine. The command
line calls the same functions in processes of their own: `fb-agent watchdog`,
`register`, `install`, and, as README.md:49 has it, a daemon by hand. There is
no lock, so all sharing between processes is through files, at the grain of
system calls. `install` and `uninstall` act on the two services while these
run, and systemd starts, kills and restarts both.

What is hard here, and what would make each part correct:

- *Several processes in the check.* `SaveState` writes through one fixed
  temporary name and the check holds the state it has read across two HTTP
  requests. Correct: nobody ever finds a torn state file, `last_ok` never goes
  back, a run recovers from what another has left.
- *Two files for one fact.* The alert file and `alert_sent` change at different
  steps. Correct: the alert is there only with a cause, a lasting outage leads
  to one, a recovery removes it.
- *Certificate and key are two files, written in place.* Correct: at whatever
  step a run ends, the certificate on disk is for the key on disk; a good pair
  is left alone; a pair that ends is replaced in time.
- *Two horizons and a weekly ticker.* Renewal looks at 30 days, enrollment at 7,
  and a check happens every 7. Correct: one of the checks comes before the end.
- *A watchdog deadline as long as the interval of its ping.* Correct: checks keep
  their pace, a stop is obeyed, the daemon comes back, long periods are served.
- *Commands that are interrupted and run again.* Correct: a success means that
  what was written runs and will run after a reboot; after `uninstall` nothing
  comes back.
- *Files that another program has read.* Fluent Bit loads the certificate when it
  starts and never again. Correct: whenever it stops it comes back, and a
  restart is all that is needed to use what was renewed.
- *A record collected for half a minute, posted once, by several processes.*
  Correct: what the server shows is right in the end, whatever was lost, late or
  answered with an error, and goes back only where two runs overlap.
- *Two sources of inputs and four of a level.* Correct: no file is read by two
  services, no path is in two inputs, nothing is lost but noise, an error is never called anything milder.

## 2. The modules

**`StateStore`** is the abstract specification of `SaveState`: a stored value,
and callers whose save replaces it whole in one step, or not at all
(state.go:32).

**`Watchdog`** is `RunWatchdog` of any number of processes. The program counter
`pc[p]` goes through *idle* (`Load`: LoadState and time.Now), *health*
(`CheckHealth`), *retries* (`GetRetries`), *judge* (`Judge`: the verdict,
Overdue, the alert file), and the three system calls of SaveState: *open*
(O_CREAT and O_TRUNC), *write*, *rename*. `run[p]` are the locals. `fd[p]`
follows the inode a process has open, so a write that comes after another
process's rename goes into the state file itself, as it does on Unix. Content
is abstracted to absent, empty, whole or garbled with the length that decides
whether an overwritten text leaves a tail; LoadState takes an unreadable file
for the zero state. The host is clock, Fluent Bit, its link, and the cumulative
retries counter, which only a start resets. Faults: `crash`, `save` (one of the
three calls fails), `alertfile`, `clock` (a step back), `answer` (no answer within
5 s). It is shown to implement `StateStore` (`StoreSpec`, by
`stored <- file.state`, `saving[p] <- {run[p].st}` from open to rename).

**`Enrollment`** is `EnrollCert`, `RenewCertIfExpiring` and the TLS decision of
`install`, again call by call: each `os.WriteFile` is an open that truncates
and a write. Time is in days to notAfter. Faults: `crash`, `disk` (the directory
cannot be made or a file not be written), `remove` (the old key cannot be removed,
which the code ignores), `noca` (an answer without a CA), `badca` and `nocert` (the
answer has some other text for the CA or for the certificate: postCSR asks only that
the latter is not empty, and EnrollCert writes what it got and reports a success),
`api`. `missed` counts the requests in a row that brought no certificate, whether
they failed or the answer had another text; there may be `MaxMissed` of them in
any case, and any number with `api`.

**`Agent`** EXTENDS `Enrollment` with the Fluent Bit that uses the pair: it starts
only with a certificate, its key and a CA on disk, keeps what it has loaded, and
stops whenever it likes (a crash, a restart by hand, a reboot); systemd starts it
again within the day. The daemon restarts nothing. The steps are those of
`Enrollment` or leave the files alone, so `AgentSpec => Spec` (proved), and what
is proved of the files holds in it.

**`Scheduler`** is the daemon's select loop in discrete time: one-place ticker
channels that drop a tick when full, any ready case taken, handlers of bounded
length, `READY=1` before the tickers exist and `WATCHDOG=1` after the check of a
tick (not the first one), SIGABRT at the deadline, `Restart=always` after
`RestartSec`, stop and start.

**`Lifecycle`** is `install` and `uninstall [--purge]` as sequences of steps on
files and units, each of which may fail (fatally or with a warning, as the code
has it) or be the last before the command is interrupted, next to the services:
they save into the state directory, crash and restart with what is then on
disk, and start after a reboot if enabled. A number says which installation
wrote a file or is running, so old and new configuration are told apart.

**`Registration`** is `Register` of any number of processes: *idle*, *services*
(the fingerprint is taken, the rest is being collected), *open* and *write* of
the local copy (truncated and written in place), *post*. The host changes
`MaxFacts` times; a record holds the version of the host its fingerprint saw
(`net`) and the one the rest saw (`svc`). Stamps are not numbers: `flight` is the
records stamped after the one the server shows, in the order of their stamps,
which is all that the server's order by `_time` needs; that assumes a wall clock
that is not stepped back and no two stamps of one host within the second in which
a stamp is counted (register.go:120). What is collected after the fingerprint
(register.go:100-117) is seen at once, just before the stamp. A record leaves `flight`
when it arrives, is lost, or can no longer matter. A request that is given up or
whose process died may still arrive (`MaxLate`). Server and disk come and go.
The port decides scheme and header as in the code; what the server admits on
each port is external, from README.md:71.

**`Discovery`** is `DetectServices`, one operator per service, and the treatment
of `FB_LOG_PATHS` and `FB_EXTRA_TAGS`, as operators on a host (units, programs,
files, journal) and on the list of inputs. A path is a directory and a name in it
or a pattern of names (`Matched`); PostgreSQL's input is the pattern `*.log` of a
directory that is there. install compares paths as texts, and so does `AddManual`.

**`Enrich`** is the parsers and the Lua filter as operators on one line. A text is
the set of words it has that the filter tells apart; a JSON text is a value per
key, including the empty string, which `json_str` does not read as such.

**`Pipeline`** composes both: `install` detects, takes the manual paths one at a
time, and writes the configuration or ends for want of an input; then Fluent Bit
reads lines of each input and entries of the journal, parses and filters them.
**`MCPipeline`** has the small sets of hosts, settings, lines and entries.

**`WatchdogProofs`**, **`EnrollmentProofs`**, **`AgentProofs`**,
**`SchedulerProofs`**, **`LifecycleProofs`**, **`RegistrationProofs`**,
**`DiscoveryProofs`**, **`PipelineProofs`**: the theorems of section 5.

The definitions called *Slips* (`OpenInPlace`, `RenewAlways`, ...) are variants of
the definition that follows them, with a plausible mistake; nothing uses them
but the mutants of `PROJECT.json`.

## 3. The runs

| Run | Checks | Shows |
|---|---|---|
| `watchdog_allfaults` | TypeOK, StateFileWhole, StoreSpec | one process, every fault: the file is never torn, SaveState is atomic |
| `watchdog_faults` | AlertMeansStale, LastOKNeverGoesBack | crashes, failed saves, no answer: no alert without six hours since the success on record; last_ok never decreases |
| `watchdog_live` | AlertAgrees, NoSilentOutage, OutageAlerted | without crashes: flag and file agree between checks; a lasting outage is alerted |
| `watchdog_two` | RecoveryHeals | a fair daemon beside a process that may stop anywhere: the alert goes and the file is whole and current again and again |
| `enroll_install` (module `Agent`) | TypeOK, KeyMatches | installations, interrupted and failing anywhere: a certificate on disk is for the key on disk |
| `enroll_renew` (module `Agent`) | AgentTypeOK, NoLapse, DownInWindowOnly, FreshCertKept, ReplacedWhenItEnds, Recovers, BackUp, RestartsRefresh | the daemon and Fluent Bit: a certificate past its end, or a text in its place, means that the last request brought none; one with more than 30 days left is untouched; the host comes back to a fresh pair; a Fluent Bit that stops comes back, one that stops now and then uses what was renewed |
| `enroll_window` | PairBetweenRuns (violated) | see below |
| `sched_unit` | TypeOK, ServedInTime, StopsInTime, CheckGap, ComesBack, EachJobAgain | no tick dropped, SIGTERM obeyed within one run of each handler, checks at their pace through kills and crashes, every job again and again if the daemon is left to run |
| `life_clean` | TypeOK, InstalledRuns, RunsWhatItWrote, UninstallClean | installations begun with both services stopped, and uninstallations, interrupted and retried |
| `registration` | TypeOK, NotBackAlone, Converges, FileHeals | two processes, a changing host, a server and a disk that come and go: what the server shows goes back only where two runs overlap, and it and the local copy are right in the end |
| `pipeline` | TypeOK, EachFileOnce, OffsetsApart, NothingElseLost, MarkedIsError, PriorityKept | all of the small sets, from detection to the record sent: no file read by two services and no path in two inputs, but in /var/log/httpd, nothing lost but noise and access logs, no error sent as less, no level of the journal changed |
| `pipeline_access` | OnlyNoiseLost (violated) | see below |

### Disagreements of code and text that the runs exhibit

- `enroll_window`: with 30 days or less left the daemon removes the key, and
  EnrollCert returns early as more than 7 days are left. The run ends there, with
  the certificate on disk and no key, and so it stays until the check of the last
  week (mtls.go:95: "Remove old key so EnrollCert generates a fresh one").
  PairBetweenRuns asks for the pair only when no run is under way, so removing the
  key and then getting a new pair would satisfy it.
- `pipeline_access`: the parser nginx_access, which the inputs of the access logs
  of nginx and Apache have, names ten fields of a line and none of them is a
  message. The filter finds an empty message and drops the record
  (enrich.lua:105), so of these files only what the parser does not match is
  sent. enrich.lua:7 names two tables as what is filtered out, and the filter
  maps the tags of these inputs to apps (enrich.lua:47, 49).

### Disagreements seen while modelling, without a run

They are limits of the passing properties, each named where the property is.

The check:

- Two processes in SaveState use one temporary name: p has written it, q opens
  (truncates) it, p renames an empty file into place, and the next reader starts
  from a zero state. state.go:32 says "atomically" (StateFileWhole is of one
  process; with two, RecoveryHeals).
- A check passes only with a retries counter of zero (watchdog.go:32), and the
  counter never goes down while Fluent Bit runs. After one retry the host counts
  as offline until Fluent Bit is restarted, and after six hours there is an alert
  (README.md:106: "if offline >6 hours"; hence `retries = 0` in RecoveryHeals).
- Two processes lose updates: a slow failing check saves the last_ok it had read
  over a newer one (LastOKNeverGoesBack is a property of one process).
- A crash between the removal of the alert and the save leaves alert_sent set
  without an alert, and no later outage then writes one until a check passes
  (AlertAgrees, NoSilentOutage and OutageAlerted are checked without crashes).
- The health endpoint is asked (watchdog.go:79), but fluent-bit.conf.tmpl:8-23 does
  not set `Health_Check`. What Fluent Bit answers then is not in this repository;
  the model takes a Fluent Bit that runs for one that can answer 200.
- A host whose checks have never passed gets no alert, watchdog.go:43 (the
  exception in OutageAlerted).

The daemon and the certificates:

- `WatchdogSec=300` (fb-agent.service.tmpl:11) equals the period of the ping, and
  the ticker starts after READY=1 and pings after the check (daemon.go:46, 68).
  The deadline is always there first; a service manager that acts on it at once
  each time keeps the daemon from living 24 h (README.md:104; hence `LeftToRun`
  in EachJobAgain).
- Nothing restarts Fluent Bit after a renewal, so it goes on with a certificate
  that ends (ReplacedWhenItEnds and RestartsRefresh say what a restart does).
- Of the checks in the last thirty days only that with seven days or less left
  asks for a certificate, so one request without one is enough for a lapse (NoLapse
  says nothing after a missed request; README.md:105 says re-enroll below 30).
- A new daemon checks nothing before its ticker has run for a week
  (daemon.go:48), so one restart in the last week is enough for a lapse as well
  (no `crash` where NoLapse is checked or proved).
- Any text that is not empty is taken for a certificate (mtls.go:238), written over
  the one that is there and reported as a success (mtls.go:71). That is why `missed`
  counts such answers: counting errors only, NoLapse and ReplacedWhenItEnds are
  false. A text in place of the CA is written just so, and Fluent Bit has none
  until the next request (no `badca` in `enroll_renew` nor in the theorems about it).
- A key that cannot be removed is used again for the new certificate (mtls.go:96).
  The theorems allow for that. It is not in `enroll_renew`, since RestartsRefresh is
  false with it: a Fluent Bit that comes back only while the ended certificate and
  the key that fits it are both still there takes them.
- A run interrupted between client.crt and ca.crt makes the next one report
  success without a CA, mtls.go:41 (KeyMatches is about the pair only).

Installation:

- An installation over running services leaves them on their old configuration
  (`Reinstall = FALSE` in `life_clean`), failing systemctl calls mostly warn
  (no `systemctl` fault there), and `--purge` leaves repository and keyring
  (the exception in UninstallClean).

Registration:

- The stamp is taken after up to half a minute of collecting, so of two runs at
  once the later stamp may be on older facts (NotBackAlone excepts them).
- An HTTP error, or none, is a success of the run (register.go:209-221), so the
  retry install.go:334 announces is that of the next day.
- A local copy that cannot be written keeps the record from being sent.
- The request has no client certificate for port 9429, and on 443 it has no
  service token unless CF_CLIENT_ID is set: such a host is never registered
  (`Admits` in `Calm`).

The way of a line:

- An empty JSON string is read as `",` if another key follows (json_str), so an
  empty `level` hides the `severity` behind it; both are in `Enrich`.
- `critical`, `alert` and `err` in a text are not words of detect_level_text,
  though the tables know them (ErrorWords has those that are).
- The number before an RFC 3164 line is facility * 8 + severity, but is taken for
  a severity: from 7 up, which is every line but the kernel's, it makes the line
  debug, and then words in it no longer raise it, nor do they from 4, a warning
  (`TakenAsMild` in MarkedIsError).
- `_COMM` never arrives, as the journal's input strips underscores.
- Inputs with one tag share one database of offsets: nginx in two directories,
  manual paths with one tag (OffsetsApart is about two inputs with one path).
- A pattern and a file that it matches are two paths to install (install.go:83), so
  a log in PostgreSQL's directory that is also named by hand is read twice, and so
  is any file beside a pattern named by hand (`ByPattern` in EachFileOnce).
- A manual path below Kerio's own directory gets the parser kerio_mail whatever
  the file, as `kerio/mail` is in `/opt/kerio/mailserver` (install.go:97).
- Nginx and Apache both read /var/log/httpd (the exception in EachFileOnce).

## 4. Bounds and fairness

`Watchdog`: six hours are `Limit` ticks (2; 1 in `watchdog_two`), so an outage is
seen before, at and after the limit; the clock ends at `MaxTime`, and an outage
begins early enough to last to the limit (guard of `FBDown`), otherwise the end
of time would hide the alert. After `MaxTime` checks go on, so the liveness
properties are about infinitely many checks at the last instant. fail_count and
the retries counter saturate; both are only compared with zero, or not at all.
`MaxFail` is at most 9 as the count then has one digit, which `Size` assumes.
Two processes suffice for the interference: the hazard is pairwise.

`Enrollment`: the code's constants 30, 7 and 7; `Life = 38` is the shortest life
with a fresh week before the window (a longer one only adds days on which
nothing happens). Three keys: the one on disk, the one the certificate is for,
a new one. A day passes only between runs, as their requests time out in
seconds. An enrolled host has at least 30 days left when its daemon starts:
with less, the first weekly check may come too late by itself. A whole certificate
in an answer is taken to be for the key of the request and to last `Life` days:
that is the signing API's part. A file that is there can be read. `enroll_install`
has every fault but `remove`, which only the daemon meets; `enroll_renew` has `noca`
and `nocert`, as the other faults break one of its properties (section 3).

`Agent` as `Enrollment`; the days Fluent Bit's certificate has left stop at -1.

`Scheduler`: periods 10, 13 and 17, pairwise coprime, so every alignment of ticks,
handlers and kills occurs, where the code's are multiples of each other.
Handlers take up to 1, 2 and 1; `PaceAssumption` has one run of each shorter than
a period, as their requests time out in seconds. `WatchdogSec` equals the period
of the check as in the unit; `Slack` is how late the service manager may be,
which includes the runs where it never kills.

`Lifecycle`: two installations, enough for an old and a new one.

`Registration`: the daemon and one other process, as the interference is
pairwise; one change of the host, so a record is old or new in each of its two
parts; one request under way without a process; the three ports of README.md:71.

`Pipeline`: hosts in three groups, as services do not look at each other's files:
the web servers that share /var/log/httpd with the system's logs, the mail server
in either of its directories, and the databases. Manual paths that a service has,
may have, or does not, each twice around an empty one; a file that PostgreSQL's
pattern matches and one beside it, that pattern itself, and one of all names.
Lines of every form
with every kind of mark; entries of every priority; JSON with every kind of value
under the keys that set text and level. One line at a time, as the filter keeps
nothing between records. `*.log` and `*` are the only patterns: of others EachFileOnce
would say no more.

Fairness. `Watchdog`: time passes and the daemon takes its next step, since its
ticker fires every five minutes, its HTTP calls have time limits and systemd
restarts it; other processes, the host and all faults have none.
`Enrollment` and `Agent`: days pass, a run goes on to its end; `MaxMissed` bounds
how often in a row the API gives no certificate, which is a statement about the environment and
not the code. A day needs strong fairness in `Agent`, since it waits for a Fluent
Bit that can start, and one may stop at any moment; the start is weakly fair, as
systemd tries again every ten seconds (install.go:252). `Scheduler`: the daemon
goes on or time passes; kills, crashes and the operator are not forced to
happen, nor which ready case select takes. `Registration`: the daemon's run goes
on to its end and the next one begins; other processes have no fairness, and the
calm under which Converges and FileHeals speak (a server that answers, a disk
that takes writes, a daemon that is not killed, a port that admits) is a
hypothesis. `Lifecycle` and `Pipeline` have none: they are checked for safety.

Deadlock is checked in every run.

## 5. The proofs

For every value of the constants, under the named ASSUMEs of the modules: types
of the constants; EnrollDays < RenewDays < Life; one run of every handler is
shorter than a period (`PaceAssumption`); a word that marks a severity is no
noise (`LinesAssumption`); journal entries have a priority from 0 to 7 or none
(`EntriesAssumption`).

| Theorem | States |
|---|---|
| `WatchdogProofs!TypeCorrect` | TypeOK, any processes, any faults |
| `WatchdogProofs!Atomic` | StateFileWhole, if Procs = {Daemon} |
| `WatchdogProofs!ImplementsStore` | StoreSpec, if Procs = {Daemon} |
| `WatchdogProofs!LastOKMonotone` | LastOKNeverGoesBack, one process, no step back of the clock |
| `WatchdogProofs!AlertIsTrue` | AlertMeansStale, one process, no step back, no failing alert file |
| `WatchdogProofs!FlagAgrees` | AlertAgrees, one process, no fault but unanswered requests |
| `WatchdogProofs!OutageIsTold` | NoSilentOutage, likewise |
| `WatchdogProofs!SuccessHasBeen` | last_ok is never later than the clock, any processes, no step back of the clock |
| `EnrollmentProofs!TypeCorrect` | TypeOK, whoever runs, any faults |
| `EnrollmentProofs!InstallKeepsPair` | KeyMatches, the installer alone, any faults |
| `EnrollmentProofs!RenewKeepsFresh` | FreshCertKept, the daemon alone, any faults |
| `EnrollmentProofs!FreshPairMatches` | a certificate with more than RenewDays left is for the key on disk, the daemon alone, any faults |
| `EnrollmentProofs!WeeklyIsEnough` | NoLapse, the daemon alone, no crash or failing disk, Week <= EnrollDays, MaxMissed > 0 |
| `AgentProofs!ImplementsEnrollment` | AgentSpec => Spec of Enrollment |
| `AgentProofs!AgentTypeCorrect` | AgentTypeOK, whoever runs, any faults |
| `AgentProofs!DownOnlyInWindow` | DownInWindowOnly, the daemon alone, no crash, failing disk or other text for a CA |
| `AgentProofs!ReplacedInTime` | ReplacedWhenItEnds, likewise, Week <= EnrollDays, MaxMissed > 0, EnrollDays + RenewDays < Life |
| `SchedulerProofs!TypeCorrect` | TypeOK |
| `SchedulerProofs!LoopKept` | LoopInv, the inductive invariant of the three below |
| `SchedulerProofs!NoTickWaits` | ServedInTime |
| `SchedulerProofs!StopIsObeyed` | StopsInTime |
| `SchedulerProofs!PaceKept` | CheckGap |
| `LifecycleProofs!TypeCorrect` | TypeOK, any faults, with reinstallations |
| `LifecycleProofs!Uninstalled` | UninstallClean, removals and systemctl succeed, with reinstallations |
| `LifecycleProofs!BothRun` | InstalledRuns, systemctl succeeds, hosts where nothing runs |
| `LifecycleProofs!NothingOldRuns` | RunsWhatItWrote, likewise |
| `RegistrationProofs!TypeCorrect` | TypeOK, any processes, any faults |
| `RegistrationProofs!BackOnlyIfOvertaken` | NotBackAlone, any processes, any faults |
| `DiscoveryProofs!ServicesReadApart` | what DetectServices gives, any host: no file is read by two of its inputs, but with different tags in /var/log/httpd |
| `PipelineProofs!TypeCorrect` | TypeOK |
| `PipelineProofs!PriorityIsKept` | PriorityKept |
| `PipelineProofs!MarkIsKept` | MarkedIsError |
| `PipelineProofs!OnlyThatIsLost` | NothingElseLost |
| `PipelineProofs!NoFileTwice` | EachFileOnce: no file by two services but in /var/log/httpd, no path in two inputs |
| `PipelineProofs!OffsetsOfTheirOwn` | OffsetsApart |
| `PipelineProofs!ParsersExist` | every input's parser is one of parsers-custom.conf, or none |

The hypotheses are not technical: each is where the code's guarantee ends, and
without it the property is false (section 3).

*The check.* `SaveInv` is what makes SaveState atomic: between open and rename the
temporary file is empty and then exactly `Whole(run[p].st)`, and until the verdict
the check holds what is stored. StateFileWhole alone is not inductive, as Rename
moves whatever the temporary file is. The refinement follows: Judge is Begin,
Rename is Commit, a failed or interrupted save is Abandon, and everything else
stutters. `TimeInv` orders the times (stored, that of the check, the clock) and
limits what is about to be saved to the stored success or the check's own.
`AlertInv` adds that a check about to store a new success has removed the alert,
without which Rename would break AlertMeansStale. `FlagInv` says of which state
the flag tells the truth: the stored one up to the verdict, the one about to be
saved after it; and that an alert found by a check was due, so that a check which
is overdue and finds the flag set needs to write nothing. Of several processes
little is left, as their writes mix; `PastInv` is: every time that a file or a
process holds has been read from the clock before, and a torn text is read as no
time.

*The certificates.* For the installer the invariant says what each step knows of
the key: it makes one only when the key on disk is unusable, in which case there
is no whole certificate, and from then on the key on disk is the one it holds.
For the daemon it says that no run is under way while the certificate has more
than RenewDays left, except to finish writing the CA. `LapseInv`: between two
runs at least as many days are left as there are to the next check, unless the
last request brought no certificate, which a run that writes another text has
counted; a run that asks for nothing has found more than EnrollDays left, which is
a week. `WindowInv`: a renewal that has removed the key began with
RenewDays or less; outside of one the pair of a longer certificate is whole. It is
proved of `Enrollment` and carried to `Agent` by the implementation.
`FreshPair` adds to the first of these that a run holds the key on disk from its
request on; so the daemon, which does leave a certificate without its key (the
finding of `enroll_window`), does so in the window only, even if it is killed.
`LoadedInv` follows what Fluent Bit has loaded: it is what is on disk, or has been
replaced there, by a new certificate or a text that is none, when the loaded one had
EnrollDays or less, so a new one has Life - EnrollDays more. On its last day
`LapseInv` excludes that it is still on disk or a text is, unless the last request
brought no certificate, and `WindowInv` says of a new one that the pair is whole, if Life - EnrollDays is more than RenewDays:
with less a further renewal could already have removed the key again. With the
code's 7 and 30 days that asks for certificates of more than 37 days.

*The loop.* ServedInTime is not inductive: it says nothing of what the daemon has
done since the tick. `BusyFor(D, b)` does: the loop has not been idle for b, and
has done the jobs of D since, each once, because what it has done or is doing
ticked within b, which is less than a period, and so is not waiting again. So b
is at most the work of the jobs, whichever the select takes. `LoopInv` says that
such D and b exist while the daemon is up; the bounds on ticks, on the stop and,
with `GapInv`, on the time between two checks follow.

*The commands.* None of the three properties says anything while a command is
under way, so `UninstalledTo(n)` and `InstalledTo(n)` say what has been done before
step n. `UInv` needs the order of the list: the daemon stops first, and only then
is a state that is removed not written again. `IInv` needs that a service which an
installation is about to start does not run: systemctl start would leave it on
what it has. That is the hypothesis on `Reinstall`.

*The registrations.* `TInv` is the types and two facts on which they rest: a
request that its process has not given up on belongs to a process that is between
stamp and answer, and there is one such request per process. Requests are lost
out of the middle of `flight`, put in at its end, and shown from anywhere in it, so
most of the work is lemmas on what these do to positions (`Thinned`: what is left
of a sequence, in order). NotBackAlone needs `OrderInv`: a record during whose run
none was stamped has seen at least what all before it in `flight`, and the one
shown, have seen; and while such a run is still collecting, its fingerprint has.
So the order of the stamps is the order of what they saw, as far as records are
*alone*, and the server, which shows a later stamp over an earlier one, does not
go back with them.

*The inputs.* `Lists(P, T)` is the lists of inputs on files of P with tags of T of
which no two are alike. `Together` says when two such lists make one: their
files differ, or are shared ones and the tags differ. The proof for DetectServices
then goes service by service through the table of services.go, for a host with
any units, programs and files. `OnePattern` adds that PostgreSQL's pattern matches no
file of another service, so these inputs read no file twice, and not only name
none twice. AddManual adds a path only if its text is new, which is all that then
holds. The
same invariant carries that every parser named is defined.

*The way of a line.* `Sent` says that what was sent last is a line or an entry as
the parser of some input and the filter left it; the rest is about the operators
of `Enrich`, case by case, for records with any words and objects.

Left to TLC: all liveness (OutageAlerted, RecoveryHeals, Recovers, BackUp,
RestartsRefresh, ComesBack, EachJobAgain, Converges, FileHeals), which needs the
fairness of actions and with it ENABLED, out of reach of the prover. Every safety
and action property of a passing run is a theorem; TLC checks it too, on the
instances of section 4.

## 6. Not modelled

Parsing and formatting (Prometheus text, PEM, x509, the alert's wording, patterns
and regular expressions beyond the words that matter); the settings that are only
copied into the configuration (job, buffer size, gzip, flush) and `FB_TLS_CA`;
how OS, environment and the parts of a fingerprint are found, which are stateless
probes; the table of versions of DetectServicesDetailed; syncing to disk and loss
of power (after one, the renamed state file may be empty); a failed write that
leaves part of the text counts as one that leaves none, as neither parses; a
keyring left half downloaded, which every later installation takes for the key;
other init systems than systemd. `status`, `version` and `verify.py` only read.

## 7. Plan

Done, in this order: `StateStore`, `Watchdog`, `Enrollment`, `Scheduler`,
`Lifecycle`, `Registration`, `Agent`, `Discovery`, `Enrich`, `Pipeline`, and the
eight proof modules.

What could follow: abstract specifications of `Registration` (what a server shows
of a host) and of the renewal, and that the modules implement them; `Lifecycle` with the half
downloaded keyring and with `Reinstall`, for the properties that do hold of it;
the daemon of `Scheduler` with the handlers of `Watchdog` and `Registration` in
one state space, for the delays they cause each other.
