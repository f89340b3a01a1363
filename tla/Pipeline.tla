------------------------------ MODULE Pipeline ------------------------------
(***************************************************************************)
(* The way of a log line: `fb-agent install` looks at the host and at its  *)
(* settings and writes fluent-bit.conf (cmd/install.go, steps 6, 7, 10 and *)
(* 11); Fluent Bit then reads lines from the inputs of that file, parses   *)
(* and filters them, and sends what is left to the server.                 *)
(***************************************************************************)
EXTENDS Discovery, Enrich

CONSTANTS
  Hosts,    \* the hosts to install on
  Manual,   \* the settings of FB_LOG_PATHS, each path with its tag
  Lines,    \* the lines of log files
  Entries   \* the entries of the journal

ASSUME ManualAssumption == \A m \in Manual : Len(m) \in Nat
\* A word that marks a severity is no text that the filter drops.
ASSUME LinesAssumption == \A line \in Lines : line.mark \notin Noise
\* An entry has a priority of syslog's or none, and a systemd input no level.
ASSUME EntriesAssumption ==
  \A entry \in Entries : entry.pri \in 0..7 \cup {NoPri} /\ entry.level = Nil

VARIABLES
  pc,      \* where install is; "running" once it has been through
  host,    \* the host it runs on
  manual,  \* its manual paths
  inputs,  \* the file inputs it has so far
  done,    \* how many of the manual paths it has dealt with
  conf,    \* the inputs of fluent-bit.conf
  sent     \* the last line read, and what became of it

vars == <<pc, host, manual, inputs, done, conf, sent>>

NoHost == [units |-> {}, programs |-> {}, files |-> {}, journal |-> FALSE]
NoConf == [journal |-> FALSE, inputs |-> <<>>]
NoLine == [source |-> "none"]

Init ==
  /\ pc = "off"
  /\ host = NoHost /\ manual = <<>> /\ inputs = <<>> /\ done = 0
  /\ conf = NoConf
  /\ sent = NoLine

-----------------------------------------------------------------------------
(* install.                                                                *)

\* FB_SKIP_DETECT=1 leaves the services out.
Begin(h, m, skip) ==
  /\ pc = "off"
  /\ pc' = "manual"
  /\ host' = h /\ manual' = m
  /\ inputs' = IF skip THEN <<>> ELSE DetectServices(h)
  /\ done' = 0
  /\ UNCHANGED <<conf, sent>>

\* The next path of FB_LOG_PATHS.
TakeManual ==
  /\ pc = "manual" /\ done < Len(manual)
  /\ done' = done + 1
  /\ inputs' = AddManual(inputs, done', manual[done'].path, manual[done'].tag)
  /\ UNCHANGED <<pc, host, manual, conf, sent>>

\* An installation without an input ends before the file is written.
Configure ==
  /\ pc = "manual" /\ done = Len(manual)
  /\ IF ~host.journal /\ inputs = <<>>
     THEN pc' = "off" /\ UNCHANGED conf
     ELSE /\ pc' = "running"
          /\ conf' = [journal |-> host.journal, inputs |-> inputs]
  /\ host' = NoHost /\ manual' = <<>> /\ inputs' = <<>> /\ done' = 0
  /\ UNCHANGED sent

-----------------------------------------------------------------------------
(* Fluent Bit.                                                             *)

Fate(tag, r) == [kept |-> ~Dropped(tag, r), out |-> Enriched(tag, r)]

ReadFile(input, line) ==
  /\ pc = "running" /\ sent = NoLine
  /\ sent' = [source |-> "file", parser |-> input.parser, line |-> line,
              fate |-> Fate(input.tag, Parse(input.parser, line))]
  /\ UNCHANGED <<pc, host, manual, inputs, done, conf>>

\* The journal's input has the tag host.
ReadJournal(entry) ==
  /\ pc = "running" /\ sent = NoLine /\ conf.journal
  /\ sent' = [source |-> "journal", line |-> entry,
              fate |-> Fate("host", entry)]
  /\ UNCHANGED <<pc, host, manual, inputs, done, conf>>

\* What was read is done with.
Flush ==
  /\ sent /= NoLine
  /\ sent' = NoLine
  /\ UNCHANGED <<pc, host, manual, inputs, done, conf>>

Next ==
  \/ \E h \in Hosts, m \in Manual, skip \in BOOLEAN : Begin(h, m, skip)
  \/ TakeManual
  \/ Configure
  \/ \E k \in DOMAIN conf.inputs, line \in Lines :
       ReadFile(conf.inputs[k], line)
  \/ \E entry \in Entries : ReadJournal(entry)
  \/ Flush

Spec == Init /\ [][Next]_vars

-----------------------------------------------------------------------------
(* Properties.                                                             *)

TypeOK ==
  /\ pc \in {"off", "manual", "running"}
  /\ done \in 0..Len(manual)
  /\ pc = "running" => conf.journal \/ conf.inputs /= <<>>
  /\ sent.source /= "none" =>
       sent.fate.out.level \in {"debug", "info", "warn", "error"}

\* The services never have a file read twice, by whatever pattern, but one of
\* /var/log/httpd on a host with both nginx and Apache (services.go:83,
\* services.go:94).  Nor do the settings, so no line is sent twice, as far as
\* install can tell: it compares the texts of the paths (install.go:80-90), so
\* a pattern and a file that it matches, of which one is named by hand, are
\* both read; two inputs with the same path are not there.
Both(list, i, j) == i /= j /\ Overlap(list[i].path, list[j].path)
OfTwoServices(list, i) == list[i].path[1] = "/var/log/httpd"
ByPattern(list, i, j) ==
  /\ list[i].path /= list[j].path
  /\ {list[i].path[2], list[j].path[2]} \cap Wild /= {}
EachFileOnce ==
  /\ \A i, j \in DOMAIN inputs : Both(inputs, i, j) =>
       \/ OfTwoServices(inputs, i)
       \/ done > 0 /\ ByPattern(inputs, i, j)
  /\ \A i, j \in DOMAIN conf.inputs : Both(conf.inputs, i, j) =>
       OfTwoServices(conf.inputs, i) \/ ByPattern(conf.inputs, i, j)

\* Two inputs with one path differ in their tag, so each has a database of
\* offsets of its own (fluent-bit.conf.tmpl:44): nginx and Apache in
\* /var/log/httpd.  A pattern and a file that it matches may have one tag, and
\* so may two files.
OffsetsApart ==
  \A i, j \in DOMAIN conf.inputs :
    i /= j /\ conf.inputs[i].path = conf.inputs[j].path =>
      conf.inputs[i].tag /= conf.inputs[j].tag

\* What the noise filter is for, enrich.lua:7, and texts that are empty.
NoiseOnly(s) ==
  \/ s.fate.out.app \in DropApps
  \/ s.line.words \cap Noise /= {}
  \/ s.line.words = {}

\* Nothing but noise is lost, and lines of an access log read as such, for
\* which nginx_access has no message (parsers-custom.conf:29, enrich.lua:105).
NothingElseLost ==
  sent.source /= "none" /\ ~sent.fate.kept =>
    \/ NoiseOnly(sent)
    \/ sent.source = "file" /\ sent.line.form = "access"
         /\ sent.parser = "nginx_access"

\* Nothing but noise is lost.
OnlyNoiseLost == sent.source /= "none" /\ ~sent.fate.kept => NoiseOnly(sent)

\* A word that names an error makes the line one, whichever input it comes
\* by: from the field of a parser or from the text.  Excepted are JSON, which
\* says its own level, and a syslog line whose number in brackets is taken for
\* a priority that is not informational and milder than an error: a warning
\* for four, debug from seven up (enrich.lua:109-114).
ErrorWords == {"fatal", "panic", "emerg", "error", "crit"}
TakenAsMild(s) ==
  s.parser = "syslog_rfc3164" /\ s.line.form = "bracketed"
    /\ s.line.pri \notin {0, 1, 2, 3, 5, 6}
MarkedIsError ==
  sent.source = "file" /\ sent.fate.kept /\ sent.line.mark \in ErrorWords
    /\ ~sent.line.json /\ ~TakenAsMild(sent) =>
      sent.fate.out.level = "error"

\* The level of a journal entry is that of its priority, and without one it is
\* informational (enrich.lua:109), unless its JSON says another; only one that
\* is informational may be raised, by its words.
Rank == [debug |-> 0, info |-> 1, warn |-> 2, error |-> 3]
PriorityOf(e) == IF e.pri = NoPri THEN 6 ELSE e.pri
Due(pri) == IF pri <= 3 THEN 3 ELSE IF pri = 4 THEN 2 ELSE IF pri >= 7 THEN 0
            ELSE 1
Silent(e) ==
  e.json => ObjLevel(e.obj) \notin DOMAIN NumToLevel \cup DOMAIN TextToLevel
PriorityKept ==
  sent.source = "journal" /\ Silent(sent.line) =>
    LET pri == PriorityOf(sent.line) IN
    /\ Rank[sent.fate.out.level] >= Due(pri)
    /\ pri \notin {5, 6} => Rank[sent.fate.out.level] = Due(pri)

=============================================================================
