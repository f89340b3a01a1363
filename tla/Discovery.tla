----------------------------- MODULE Discovery ------------------------------
(***************************************************************************)
(* Which log files a host has for Fluent Bit: detect/services.go and the   *)
(* manual paths of cmd/install.go, as operators.  A host is the units that *)
(* are active, the programs in its path, the files and directories it has, *)
(* and whether it has a journal.  A path is a directory and a name in it,  *)
(* or a pattern of names; the name of the directory itself is "".          *)
(***************************************************************************)
EXTENDS Integers, Sequences, TLC

\* The patterns, and the names that do not end in .log.
Wild == {"*", "*.log"}
Plain == {"", "syslog", "messages", "secure", "maillog"}

\* Fluent Bit reads every file that the path of an input matches.
Matched(p, q) ==
  p[1] = q[1] /\ (p[2] = "*" \/ (p[2] = "*.log" /\ q[2] \notin Plain))
Overlap(p, q) == p = q \/ Matched(p, q) \/ Matched(q, p)

Input(path, tag, parser) == [path |-> path, tag |-> tag, parser |-> parser]

\* addInput, for a path without a wildcard
Add(h, path, tag, parser) ==
  IF path \in h.files THEN <<Input(path, tag, parser)>> ELSE <<>>

\* A loop that ends at the first path that is there.
AddFirst(h, paths, tag, parser) ==
  LET there == {i \in DOMAIN paths : paths[i] \in h.files}
  IN  IF there = {} THEN <<>>
      ELSE LET i == CHOOSE i \in there : \A j \in there : i <= j
           IN  <<Input(paths[i], tag, parser)>>

KerioStore == "/opt/kerio/mailserver/store/logs"
KerioServer == <<"/opt/kerio/mailserver", "">>
KerioDir(h) ==
  IF <<KerioStore, "">> \in h.files THEN KerioStore ELSE "/var/log/kerio"

Kerio(h) ==
  IF "kerio-connect" \notin h.units /\ KerioServer \notin h.files
  THEN <<>>
  ELSE LET d == KerioDir(h)
       IN  Add(h, <<d, "mail.log">>, "kerio_mail", "kerio_mail")
           \o Add(h, <<d, "security.log">>, "kerio_security", "kerio_security")
           \o Add(h, <<d, "error.log">>, "kerio_error", "")
           \o Add(h, <<d, "warning.log">>, "kerio_warning", "")
           \o Add(h, <<d, "spam.log">>, "kerio_spam", "")
           \o Add(h, <<d, "debug.log">>, "kerio_debug", "")

NginxIn(h, d) ==
  Add(h, <<d, "access.log">>, "nginx_access", "nginx_access")
  \o Add(h, <<d, "error.log">>, "nginx_error", "nginx_error")

Nginx(h) ==
  IF "nginx" \notin h.units \cup h.programs THEN <<>>
  ELSE NginxIn(h, "/var/log/nginx") \o NginxIn(h, "/var/log/httpd")

\* Slip: the tags of nginx.
ApacheAsNginx(h, d) ==
  Add(h, <<d, "access.log">>, "nginx_access", "nginx_access")
  \o Add(h, <<d, "error.log">>, "nginx_error", "")

ApacheIn(h, d) ==
  Add(h, <<d, "access.log">>, "apache_access", "nginx_access")
  \o Add(h, <<d, "error.log">>, "apache_error", "")

Apache(h) ==
  IF {"apache2", "httpd"} \cap h.programs = {} THEN <<>>
  ELSE ApacheIn(h, "/var/log/apache2") \o ApacheIn(h, "/var/log/httpd")

\* A directory is looked for, and all its logs are taken.
PgLog == "/var/log/postgresql"
PgData == "/var/lib/pgsql/data/log"

Postgres(h) ==
  LET Found(d) == "postgresql" \in h.units /\ <<d, "">> \in h.files
      Logs(d) == <<Input(<<d, "*.log">>, "postgresql", "")>>
  IN  IF Found(PgLog) THEN Logs(PgLog)
      ELSE IF Found(PgData) THEN Logs(PgData) ELSE <<>>

MySQL(h) ==
  IF {"mysql", "mariadb"} \cap h.units = {} THEN <<>>
  ELSE AddFirst(h, << <<"/var/log/mysql", "error.log">>,
                      <<"/var/log/mariadb", "mariadb.log">>,
                      <<"/var/log", "mysqld.log">> >>, "mysql", "")

MongoDB(h) ==
  IF "mongod" \notin h.units THEN <<>>
  ELSE Add(h, <<"/var/log/mongodb", "mongod.log">>, "mongodb", "")

Redis(h) ==
  IF {"redis-server", "redis"} \cap h.units = {} THEN <<>>
  ELSE AddFirst(h, << <<"/var/log/redis", "redis-server.log">>,
                      <<"/var/log", "redis.log">> >>, "redis", "")

Fail2Ban(h) ==
  IF "fail2ban" \notin h.units THEN <<>>
  ELSE Add(h, <<"/var/log", "fail2ban.log">>, "fail2ban", "")

Syslog(h) ==
  IF h.journal THEN <<>>
  ELSE AddFirst(h, << <<"/var/log", "syslog">>, <<"/var/log", "messages">> >>,
                "syslog", "syslog_rfc3164")

Auth(h) ==
  AddFirst(h, << <<"/var/log", "auth.log">>, <<"/var/log", "secure">> >>,
           "auth", "")

\* DetectServices: the inputs.
DetectServices(h) ==
  Kerio(h) \o Nginx(h) \o Apache(h) \o Postgres(h) \o MySQL(h) \o MongoDB(h)
    \o Redis(h) \o Fail2Ban(h) \o Syslog(h) \o Auth(h)

-----------------------------------------------------------------------------
(* A path of FB_LOG_PATHS, with its entry of FB_EXTRA_TAGS or none.        *)

\* The parser is chosen by what the text of the path has in it: "kerio/mail"
\* is also in the name of Kerio's own directory.
ManualParser(path) ==
  CASE path[1] = KerioStore -> "kerio_mail"
    [] path = <<"/var/log/kerio", "mail.log">> -> "kerio_mail"
    [] path[2] = "maillog" -> "kerio_mail"
    [] path = <<"/var/log/kerio", "security.log">> -> "kerio_security"
    [] path[2] = "access.log" -> "nginx_access"
    [] path[2] = "error.log" -> "nginx_error"
    [] OTHER -> ""

\* "manual_" and the position, unless a tag is given.
ManualTag(i, tag) == IF tag = "" THEN "manual_" \o ToString(i - 1) ELSE tag
ManualInput(i, path, tag) ==
  Input(path, ManualTag(i, tag), ManualParser(path))

Tailed(inputs, path) == \E k \in DOMAIN inputs : inputs[k].path = path

\* Slip: only what the services gave is compared with.
AddManualTwice(inputs, i, path, tag) ==
  IF path = <<>> THEN inputs ELSE Append(inputs, ManualInput(i, path, tag))

\* An empty path is passed over, one that is there already too.  Paths are
\* compared as texts: one that a pattern matches is not the pattern.
AddManual(inputs, i, path, tag) ==
  IF path = <<>> \/ Tailed(inputs, path) THEN inputs
  ELSE Append(inputs, ManualInput(i, path, tag))

=============================================================================
