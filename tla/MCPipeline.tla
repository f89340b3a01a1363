----------------------------- MODULE MCPipeline ------------------------------
(* Small hosts, settings, lines and entries for Pipeline. *)
EXTENDS Pipeline

Httpd == "/var/log/httpd"
Var == "/var/log"

\* Web servers and the system logs, with and without a journal; the mail
\* server with some or all of its files; and every other service.
MCHosts ==
  [units : {{"nginx"}}, programs : {{"httpd"}},
   files : SUBSET { <<Httpd, "access.log">>, <<Httpd, "error.log">>,
                    <<Var, "auth.log">>, <<Var, "messages">> },
   journal : BOOLEAN]
  \cup
  [units : {{"kerio-connect", "fail2ban"}}, programs : {{"apache2"}},
   files : {f \cup {KerioServer, <<Var, "fail2ban.log">>} :
              f \in SUBSET { <<KerioStore, "">>, <<KerioStore, "mail.log">>,
                             <<"/var/log/kerio", "security.log">> }},
   journal : {FALSE}]
  \cup
  [units : {{"postgresql", "mariadb", "redis", "mongod"}}, programs : {{}},
   files : {{ <<PgLog, "">>, <<PgData, "">>,
              <<"/var/log/mysql", "error.log">>, <<Var, "mysqld.log">>,
              <<Var, "redis.log">>, <<"/var/log/mongodb", "mongod.log">>,
              <<Var, "syslog">>, <<Var, "messages">>, <<Var, "secure">> }},
   journal : BOOLEAN]

\* Paths that a service has or may have and others, twice with an empty one
\* in between: files, a file that PostgreSQL's pattern matches, one beside it
\* that it does not, that pattern itself, and one of every name in a directory.
MCManual ==
  {<<>>} \cup
  {<<[path |-> a, tag |-> ""], [path |-> <<>>, tag |-> ""],
     [path |-> a, tag |-> "own"]>> :
     a \in { <<Httpd, "error.log">>, <<KerioStore, "mail.log">>,
             <<Var, "maillog">>, <<PgLog, "slow.log">>, <<PgLog, "maillog">>,
             <<PgLog, "*.log">>, <<Var, "*">> }}

Str(s) == [is |-> "string", as |-> s]
Num(s) == [is |-> "number", as |-> s]
Empty == [is |-> "empty", as |-> ""]
Last == [is |-> "last", as |-> ""]

\* Objects that say a text, a level and a name, or parts of it.
Objects ==
  {[NoObj EXCEPT !["msg"] = m, !["errmsg"] = e, !["level"] = l] :
     m \in {Absent, Str("hello"), Last}, e \in {Absent, Str("error")},
     l \in {Absent, Str("warning"), Num("50"), Str("strange"), Empty}}
  \cup
  {[NoObj EXCEPT !["text"] = Str("panic"), !["severity"] = Str("err"),
                 !["name"] = Str("db")]}

Texts ==
  [form : Forms \ {"bracketed"},
   mark : {Nil, "emerg", "error", "crit", "warning", "alert", "debug"},
   words : {{}, {"hello"}, {"warn", "hello"}, {"Removed session"}},
   json : {FALSE}, obj : {NoObj}, pri : {NoPri}]
\* Both forms of Kerio have a text.
TextLines ==
  {line \in Texts : line.words = {} =>
                      line.form \notin {"kerio_mail", "kerio_security"}}
Bracketed ==
  [form : {"bracketed"}, mark : {Nil, "error"}, words : {{"hello"}},
   json : {FALSE}, obj : {NoObj}, pri : {3, 4, 6, 14}]
JsonLines ==
  {[form |-> "plain", mark |-> Nil, words |-> {"hello"}, json |-> TRUE,
    obj |-> o, pri |-> NoPri] : o \in Objects}
MCLines == TextLines \cup Bracketed \cup JsonLines

MCEntries ==
  [id : {Nil, "cron", "sshd-session"},
   words : {{}, {"hello"}, {"error"}, {"warning"}, {"New session 1"}},
   json : {FALSE}, obj : {NoObj}, pri : 0..7 \cup {NoPri}, level : {Nil}]
  \cup
  [id : {"app"}, words : {{"hello"}}, json : {TRUE}, obj : Objects,
   pri : {3, 4, 6, 7}, level : {Nil}]

=============================================================================
