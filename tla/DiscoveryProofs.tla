--------------------------- MODULE DiscoveryProofs --------------------------
(***************************************************************************)
(* Theorems about Discovery, for every host: what DetectServices gives     *)
(* never has a file read twice, but one that nginx and Apache share, and   *)
(* what is named by hand adds no path that is there already.               *)
(***************************************************************************)
EXTENDS Discovery, TLAPS

\* The one directory whose files two services claim.
Shared == "/var/log/httpd"

\* The tags of the services, and the parsers of parsers-custom.conf, or none.
Tags ==
  {"kerio_mail", "kerio_security", "kerio_error", "kerio_warning", "kerio_spam",
   "kerio_debug", "nginx_access", "nginx_error", "apache_access",
   "apache_error", "postgresql", "mysql", "mongodb", "redis", "fail2ban",
   "syslog", "auth"}
Parsers ==
  {"", "kerio_mail", "kerio_security", "nginx_access", "nginx_error",
   "syslog_rfc3164"}

\* Two inputs of a list with one path are of nginx and of Apache.
Apart(list) ==
  \A i, j \in DOMAIN list :
    i # j /\ list[i].path = list[j].path =>
      list[i].path[1] = Shared /\ list[i].tag # list[j].tag

\* The lists of inputs, on whatever files, no two of them alike.
IsApart(list) == Apart(list) /\ \E S : list \in Seq(S)

\* Fluent Bit does not start with an input whose parser no file defines.
Parsed(list) == \A i \in DOMAIN list : list[i].parser \in Parsers

\* The lists of inputs on files of P with tags of T, no two of them alike.
Inputs(P, T) == [path : P, tag : T, parser : Parsers]
Lists(P, T) == {s \in Seq(Inputs(P, T)) : Apart(s)}

-----------------------------------------------------------------------------
(* Lists.                                                                  *)

LEMMA NoneApart ==
  ASSUME NEW P, NEW T PROVE <<>> \in Lists(P, T)
BY DEF Lists, Apart

LEMMA OneApart ==
  ASSUME NEW P, NEW T, NEW path \in P, NEW tag \in T, NEW parser \in Parsers
  PROVE  <<Input(path, tag, parser)>> \in Lists(P, T)
<1>1. Input(path, tag, parser) \in Inputs(P, T)
  BY DEF Input, Inputs
<1>2. \A S : \A e \in S : <<e>> \in Seq(S) /\ DOMAIN <<e>> = {1}
  OBVIOUS
<1> DEFINE s == <<Input(path, tag, parser)>>
<1>3. s \in Seq(Inputs(P, T)) /\ DOMAIN s = {1}
  BY <1>1, <1>2
<1> HIDE DEF s
<1>4. Apart(s)
  BY <1>3 DEF Apart
<1> QED
  BY <1>3, <1>4 DEF Lists, s

LEMMA More ==
  ASSUME NEW P, NEW T, NEW Q, NEW U, P \subseteq Q, T \subseteq U,
         NEW s \in Lists(P, T)
  PROVE  s \in Lists(Q, U)
<1>1. Inputs(P, T) \subseteq Inputs(Q, U)
  BY DEF Inputs
<1>2. Seq(Inputs(P, T)) \subseteq Seq(Inputs(Q, U))
  BY <1>1
<1> QED
  BY <1>2 DEF Lists

\* Two lists together: a file of both is shared, and the tags tell whose it is.
LEMMA Together ==
  ASSUME NEW P, NEW T, NEW Q, NEW U,
         NEW s \in Lists(P, T), NEW t \in Lists(Q, U),
         \A p \in P \cap Q : p[1] = Shared,
         P \cap Q # {} => T \cap U = {}
  PROVE  s \o t \in Lists(P \cup Q, T \cup U)
<1> DEFINE I == Inputs(P, T)
           J == Inputs(Q, U)
           K == Inputs(P \cup Q, T \cup U)
           m == Len(s)
           n == Len(t)
           both == s \o t
<1>1. I \subseteq K /\ J \subseteq K
  BY DEF Inputs
<1>2. s \in Seq(I) /\ t \in Seq(J) /\ Apart(s) /\ Apart(t)
  BY DEF Lists
<1>3. \A a \in I, b \in J :
        a.path = b.path => a.path[1] = Shared /\ b.path[1] = Shared
                           /\ a.tag # b.tag
  BY DEF Inputs
<1> HIDE DEF I, J, K
<1>4. s \in Seq(K) /\ t \in Seq(K)
  BY <1>1, <1>2
<1>5. both \in Seq(K)
  BY <1>4
<1>6. m \in Nat /\ n \in Nat /\ DOMAIN s = 1..m /\ DOMAIN t = 1..n
      /\ DOMAIN both = 1..(m + n)
  BY <1>4
<1>7. \A i \in 1..m : both[i] = s[i] /\ s[i] \in I
  BY <1>2, <1>4, <1>6
<1>8. \A i \in (m + 1)..(m + n) :
        i - m \in 1..n /\ both[i] = t[i - m] /\ t[i - m] \in J
  BY <1>2, <1>4, <1>6
<1> HIDE DEF both, m, n
<1>9. ASSUME NEW i \in DOMAIN both, NEW j \in DOMAIN both, i # j,
             both[i].path = both[j].path
      PROVE  both[i].path[1] = Shared /\ both[i].tag # both[j].tag
  <2>1. CASE i <= m /\ j <= m
    <3>1. i \in DOMAIN s /\ j \in DOMAIN s /\ both[i] = s[i] /\ both[j] = s[j]
      BY <1>6, <1>7, <1>9, <2>1
    <3> QED
      BY <1>2, <1>9, <3>1 DEF Apart
  <2>2. CASE i > m /\ j > m
    <3>1. i - m \in DOMAIN t /\ j - m \in DOMAIN t /\ i - m # j - m
          /\ both[i] = t[i - m] /\ both[j] = t[j - m]
      BY <1>6, <1>8, <1>9, <2>2
    <3> QED
      BY <1>2, <1>9, <3>1 DEF Apart
  <2>3. CASE i <= m /\ j > m
    <3>1. both[i] \in I /\ both[j] \in J
      BY <1>6, <1>7, <1>8, <2>3
    <3> QED
      BY <1>3, <1>9, <3>1
  <2>4. CASE i > m /\ j <= m
    <3>1. both[i] \in J /\ both[j] \in I
      BY <1>6, <1>7, <1>8, <2>4
    <3> QED
      BY <1>3, <1>9, <3>1
  <2> QED
    BY <1>6, <2>1, <2>2, <2>3, <2>4
<1>10. Apart(both)
  BY <1>9 DEF Apart
<1> QED
  BY <1>5, <1>10 DEF Lists, both, K

\* A service adds an input or none, and so does the first of up to three
\* paths.
LEMMA AddApart ==
  ASSUME NEW h, NEW P, NEW T, NEW path \in P, NEW tag \in T,
         NEW parser \in Parsers
  PROVE  Add(h, path, tag, parser) \in Lists(P, T)
BY NoneApart, OneApart DEF Add

LEMMA AddFirstApart ==
  ASSUME NEW h, NEW P, NEW T, NEW paths \in Seq(P), Len(paths) <= 3,
         NEW tag \in T, NEW parser \in Parsers
  PROVE  AddFirst(h, paths, tag, parser) \in Lists(P, T)
<1> DEFINE there == {i \in DOMAIN paths : paths[i] \in h.files}
           First(i) == \A j \in there : i <= j
<1>1. CASE there = {}
  BY <1>1, NoneApart DEF AddFirst
<1>2. CASE there # {}
  <2>1. there \subseteq 1..3
    OBVIOUS
  <2>2. \E i \in there : First(i)
    <3> HIDE DEF there
    <3>1. CASE 1 \in there
      BY <2>1, <3>1
    <3>2. CASE 1 \notin there /\ 2 \in there
      BY <2>1, <3>2
    <3>3. CASE 1 \notin there /\ 2 \notin there
      <4>1. \A i \in there : i = 3
        BY <2>1, <3>3
      <4> QED
        BY <1>2, <4>1
    <3> QED
      BY <3>1, <3>2, <3>3
  <2> DEFINE i == CHOOSE i \in there : First(i)
  <2>3. i \in there
    <3> HIDE DEF there, First
    <3> QED
      BY <2>2
  <2>4. paths[i] \in P
    BY <2>3
  <2>5. AddFirst(h, paths, tag, parser) = <<Input(paths[i], tag, parser)>>
    BY <1>2 DEF AddFirst
  <2> HIDE DEF i
  <2> QED
    BY <2>4, <2>5, OneApart
<1> QED
  BY <1>1, <1>2

\* Lists on different files, and one more input.
LEMMA Join ==
  ASSUME NEW P, NEW Q, NEW s \in Lists(P, Tags), NEW t \in Lists(Q, Tags),
         P \cap Q = {}
  PROVE  s \o t \in Lists(P \cup Q, Tags)
<1>1. s \o t \in Lists(P \cup Q, Tags \cup Tags)
  BY Together
<1> QED
  BY <1>1

LEMMA AddTo ==
  ASSUME NEW h, NEW d, NEW N, NEW s \in Lists({d} \X N, Tags),
         NEW name, name \notin N, NEW M, M = N \cup {name},
         NEW tag \in Tags, NEW parser \in Parsers
  PROVE  s \o Add(h, <<d, name>>, tag, parser) \in Lists({d} \X M, Tags)
<1> DEFINE a == Add(h, <<d, name>>, tag, parser)
<1>1. a \in Lists({<<d, name>>}, Tags)
  BY AddApart
<1>2. ({d} \X N) \cap {<<d, name>>} = {}
      /\ ({d} \X N) \cup {<<d, name>>} = {d} \X M
  OBVIOUS
<1> HIDE DEF a
<1>3. s \o a \in Lists(({d} \X N) \cup {<<d, name>>}, Tags)
  BY <1>1, <1>2, Join
<1> QED
  BY <1>2, <1>3 DEF a

-----------------------------------------------------------------------------
(* The services.                                                           *)

KerioFiles ==
  {"mail.log", "security.log", "error.log", "warning.log", "spam.log",
   "debug.log"}
KerioPaths == {KerioStore, "/var/log/kerio"} \X KerioFiles

LEMMA KerioApart == ASSUME NEW h PROVE Kerio(h) \in Lists(KerioPaths, Tags)
<1> DEFINE d == KerioDir(h)
           N1 == {"mail.log"}
           N2 == N1 \cup {"security.log"}
           N3 == N2 \cup {"error.log"}
           N4 == N3 \cup {"warning.log"}
           N5 == N4 \cup {"spam.log"}
           N6 == N5 \cup {"debug.log"}
           s1 == Add(h, <<d, "mail.log">>, "kerio_mail", "kerio_mail")
           s2 == s1 \o Add(h, <<d, "security.log">>, "kerio_security",
                           "kerio_security")
           s3 == s2 \o Add(h, <<d, "error.log">>, "kerio_error", "")
           s4 == s3 \o Add(h, <<d, "warning.log">>, "kerio_warning", "")
           s5 == s4 \o Add(h, <<d, "spam.log">>, "kerio_spam", "")
           s6 == s5 \o Add(h, <<d, "debug.log">>, "kerio_debug", "")
<1>1. d \in {KerioStore, "/var/log/kerio"}
  BY DEF KerioDir
<1>2. Kerio(h) \in {<<>>, s6}
  BY DEF Kerio
<1>3. /\ {"kerio_mail", "kerio_security", "kerio_error", "kerio_warning",
          "kerio_spam", "kerio_debug"} \subseteq Tags
      /\ {"", "kerio_mail", "kerio_security"} \subseteq Parsers
      /\ "security.log" \notin N1 /\ "error.log" \notin N2
      /\ "warning.log" \notin N3 /\ "spam.log" \notin N4
      /\ "debug.log" \notin N5
  BY DEF Tags, Parsers
<1>4. N6 = KerioFiles
  BY DEF KerioFiles
<1> HIDE DEF d
<1>5. s1 \in Lists({d} \X N1, Tags)
  <2>1. <<d, "mail.log">> \in {d} \X N1
    OBVIOUS
  <2> QED
    BY <1>3, <2>1, AddApart
<1> HIDE DEF s1, N1
<1>6. s2 \in Lists({d} \X N2, Tags)
  BY <1>3, <1>5, AddTo
<1> HIDE DEF s2, N2
<1>7. s3 \in Lists({d} \X N3, Tags)
  BY <1>3, <1>6, AddTo
<1> HIDE DEF s3, N3
<1>8. s4 \in Lists({d} \X N4, Tags)
  BY <1>3, <1>7, AddTo
<1> HIDE DEF s4, N4
<1>9. s5 \in Lists({d} \X N5, Tags)
  BY <1>3, <1>8, AddTo
<1> HIDE DEF s5, N5
<1>10. s6 \in Lists({d} \X N6, Tags)
  BY <1>3, <1>9, AddTo
<1> HIDE DEF s6, N6
<1>11. {d} \X N6 \subseteq KerioPaths
  BY <1>1, <1>4 DEF KerioPaths
<1>12. s6 \in Lists(KerioPaths, Tags)
  BY <1>10, <1>11, More
<1> QED
  BY <1>2, <1>12, NoneApart

Web == {"access.log", "error.log"}
NginxPaths == {"/var/log/nginx", Shared} \X Web
NginxTags == {"nginx_access", "nginx_error"}
ApachePaths == {"/var/log/apache2", Shared} \X Web
ApacheTags == {"apache_access", "apache_error"}

\* Two directories, each with two files.
LEMMA WebApart ==
  ASSUME NEW h, NEW d, NEW T, NEW access \in T, NEW error \in T,
         NEW parser \in Parsers, NEW other \in Parsers
  PROVE  Add(h, <<d, "access.log">>, access, parser)
           \o Add(h, <<d, "error.log">>, error, other) \in Lists({d} \X Web, T)
<1> DEFINE P == {<<d, "access.log">>}
           Q == {<<d, "error.log">>}
           a == Add(h, <<d, "access.log">>, access, parser)
           e == Add(h, <<d, "error.log">>, error, other)
<1>1. a \in Lists(P, T) /\ e \in Lists(Q, T)
  BY AddApart
<1>2. P \cap Q = {}
  OBVIOUS
<1>3. P \cup Q \subseteq {d} \X Web
  BY DEF Web
<1> HIDE DEF P, Q, a, e
<1>4. a \o e \in Lists(P \cup Q, T \cup T)
  BY <1>1, <1>2, Together
<1>5. a \o e \in Lists({d} \X Web, T)
  BY <1>3, <1>4, More
<1> QED
  BY <1>5 DEF a, e

LEMMA TwoDirsApart ==
  ASSUME NEW T, NEW d, NEW e, d # e,
         NEW s \in Lists({d} \X Web, T), NEW t \in Lists({e} \X Web, T)
  PROVE  s \o t \in Lists({d, e} \X Web, T)
<1>1. ({d} \X Web) \cap ({e} \X Web) = {}
  OBVIOUS
<1>2. s \o t \in Lists(({d} \X Web) \cup ({e} \X Web), T \cup T)
  BY <1>1, Together
<1>3. ({d} \X Web) \cup ({e} \X Web) \subseteq {d, e} \X Web
  OBVIOUS
<1> QED
  BY <1>2, <1>3, More

LEMMA NginxApart == ASSUME NEW h PROVE Nginx(h) \in Lists(NginxPaths, NginxTags)
<1>1. ASSUME NEW d PROVE NginxIn(h, d) \in Lists({d} \X Web, NginxTags)
  <2>1. "nginx_access" \in NginxTags /\ "nginx_error" \in NginxTags
        /\ "nginx_access" \in Parsers /\ "nginx_error" \in Parsers
    BY DEF NginxTags, Parsers
  <2> QED
    BY <2>1, WebApart DEF NginxIn
<1>2. NginxIn(h, "/var/log/nginx") \o NginxIn(h, Shared)
        \in Lists(NginxPaths, NginxTags)
  <2>1. "/var/log/nginx" # Shared
    BY DEF Shared
  <2> QED
    BY <1>1, <2>1, TwoDirsApart DEF NginxPaths
<1> QED
  BY <1>2, NoneApart DEF Nginx, Shared

LEMMA ApacheApart ==
  ASSUME NEW h PROVE Apache(h) \in Lists(ApachePaths, ApacheTags)
<1>1. ASSUME NEW d PROVE ApacheIn(h, d) \in Lists({d} \X Web, ApacheTags)
  <2>1. "apache_access" \in ApacheTags /\ "apache_error" \in ApacheTags
        /\ "nginx_access" \in Parsers /\ "" \in Parsers
    BY DEF ApacheTags, Parsers
  <2> QED
    BY <2>1, WebApart DEF ApacheIn
<1>2. ApacheIn(h, "/var/log/apache2") \o ApacheIn(h, Shared)
        \in Lists(ApachePaths, ApacheTags)
  <2>1. "/var/log/apache2" # Shared
    BY DEF Shared
  <2> QED
    BY <1>1, <2>1, TwoDirsApart DEF ApachePaths
<1> QED
  BY <1>2, NoneApart DEF Apache, Shared

-----------------------------------------------------------------------------
(* The services with one log, and all of them.                             *)

PostgresPaths == {<<PgLog, "*.log">>, <<PgData, "*.log">>}
MySQLPaths ==
  {<<"/var/log/mysql", "error.log">>, <<"/var/log/mariadb", "mariadb.log">>,
   <<"/var/log", "mysqld.log">>}
MongoDBPaths ==
  {<<"/var/log/mongodb", "mongod.log">>}
RedisPaths ==
  {<<"/var/log/redis", "redis-server.log">>, <<"/var/log", "redis.log">>}
Fail2BanPaths ==
  {<<"/var/log", "fail2ban.log">>}
SyslogPaths ==
  {<<"/var/log", "syslog">>, <<"/var/log", "messages">>}
AuthPaths ==
  {<<"/var/log", "auth.log">>, <<"/var/log", "secure">>}

LEMMA Firsts ==
  ASSUME NEW P, NEW p \in P, NEW q \in P, NEW r \in P
  PROVE  /\ <<p, q>> \in Seq(P) /\ Len(<<p, q>>) <= 3
         /\ <<p, q, r>> \in Seq(P) /\ Len(<<p, q, r>>) <= 3
OBVIOUS

LEMMA PostgresApart == ASSUME NEW h PROVE Postgres(h) \in Lists(PostgresPaths, Tags)
<1> DEFINE Logs(d) == <<Input(<<d, "*.log">>, "postgresql", "")>>
<1>1. Postgres(h) \in {Logs(PgLog), Logs(PgData), <<>>}
  BY DEF Postgres
<1>2. "postgresql" \in Tags /\ "" \in Parsers
  BY DEF Tags, Parsers
<1>3. ASSUME NEW path \in PostgresPaths
      PROVE  <<Input(path, "postgresql", "")>> \in Lists(PostgresPaths, Tags)
  BY <1>2, OneApart
<1>4. <<PgLog, "*.log">> \in PostgresPaths /\ <<PgData, "*.log">> \in PostgresPaths
  BY DEF PostgresPaths
<1> QED
  BY <1>1, <1>3, <1>4, NoneApart

LEMMA MySQLApart == ASSUME NEW h PROVE MySQL(h) \in Lists(MySQLPaths, Tags)
<1> DEFINE p == <<"/var/log/mysql", "error.log">>
           q == <<"/var/log/mariadb", "mariadb.log">>
           r == <<"/var/log", "mysqld.log">>
<1>1. p \in MySQLPaths /\ q \in MySQLPaths /\ r \in MySQLPaths
      /\ "mysql" \in Tags /\ "" \in Parsers
  BY DEF MySQLPaths, Tags, Parsers
<1>2. MySQL(h) \in {<<>>, AddFirst(h, <<p, q, r>>, "mysql", "")}
  BY DEF MySQL
<1> HIDE DEF p, q, r
<1>3. AddFirst(h, <<p, q, r>>, "mysql", "") \in Lists(MySQLPaths, Tags)
  BY <1>1, Firsts, AddFirstApart
<1> QED
  BY <1>2, <1>3, NoneApart

LEMMA MongoDBApart == ASSUME NEW h PROVE MongoDB(h) \in Lists(MongoDBPaths, Tags)
<1>1. <<"/var/log/mongodb", "mongod.log">> \in MongoDBPaths
      /\ "mongodb" \in Tags /\ "" \in Parsers
  BY DEF MongoDBPaths, Tags, Parsers
<1> QED
  BY <1>1, AddApart, NoneApart DEF MongoDB

LEMMA RedisApart == ASSUME NEW h PROVE Redis(h) \in Lists(RedisPaths, Tags)
<1> DEFINE p == <<"/var/log/redis", "redis-server.log">>
           q == <<"/var/log", "redis.log">>
<1>1. p \in RedisPaths /\ q \in RedisPaths
      /\ "redis" \in Tags /\ "" \in Parsers
  BY DEF RedisPaths, Tags, Parsers
<1>2. Redis(h) \in {<<>>, AddFirst(h, <<p, q>>, "redis", "")}
  BY DEF Redis
<1> HIDE DEF p, q
<1>3. AddFirst(h, <<p, q>>, "redis", "") \in Lists(RedisPaths, Tags)
  BY <1>1, Firsts, AddFirstApart
<1> QED
  BY <1>2, <1>3, NoneApart

LEMMA Fail2BanApart == ASSUME NEW h PROVE Fail2Ban(h) \in Lists(Fail2BanPaths, Tags)
<1>1. <<"/var/log", "fail2ban.log">> \in Fail2BanPaths
      /\ "fail2ban" \in Tags /\ "" \in Parsers
  BY DEF Fail2BanPaths, Tags, Parsers
<1> QED
  BY <1>1, AddApart, NoneApart DEF Fail2Ban

LEMMA SyslogApart == ASSUME NEW h PROVE Syslog(h) \in Lists(SyslogPaths, Tags)
<1> DEFINE p == <<"/var/log", "syslog">>
           q == <<"/var/log", "messages">>
<1>1. p \in SyslogPaths /\ q \in SyslogPaths
      /\ "syslog" \in Tags /\ "syslog_rfc3164" \in Parsers
  BY DEF SyslogPaths, Tags, Parsers
<1>2. Syslog(h) \in {<<>>, AddFirst(h, <<p, q>>, "syslog", "syslog_rfc3164")}
  BY DEF Syslog
<1> HIDE DEF p, q
<1>3. AddFirst(h, <<p, q>>, "syslog", "syslog_rfc3164") \in Lists(SyslogPaths, Tags)
  BY <1>1, Firsts, AddFirstApart
<1> QED
  BY <1>2, <1>3, NoneApart

LEMMA AuthApart == ASSUME NEW h PROVE Auth(h) \in Lists(AuthPaths, Tags)
<1> DEFINE p == <<"/var/log", "auth.log">>
           q == <<"/var/log", "secure">>
<1>1. p \in AuthPaths /\ q \in AuthPaths
      /\ "auth" \in Tags /\ "" \in Parsers
  BY DEF AuthPaths, Tags, Parsers
<1>2. Auth(h) \in {<<>>, AddFirst(h, <<p, q>>, "auth", "")}
  BY DEF Auth
<1> HIDE DEF p, q
<1>3. AddFirst(h, <<p, q>>, "auth", "") \in Lists(AuthPaths, Tags)
  BY <1>1, Firsts, AddFirstApart
<1> QED
  BY <1>2, <1>3, NoneApart

LEMMA WebServersApart ==
  ASSUME NEW h
  PROVE  Nginx(h) \o Apache(h) \in Lists(NginxPaths \cup ApachePaths, Tags)
<1>1. \A p \in NginxPaths \cap ApachePaths : p[1] = Shared
  BY DEF NginxPaths, ApachePaths, Shared
<1>2. NginxTags \cap ApacheTags = {} /\ NginxTags \cup ApacheTags \subseteq Tags
  BY DEF NginxTags, ApacheTags, Tags
<1>3. Nginx(h) \o Apache(h)
        \in Lists(NginxPaths \cup ApachePaths, NginxTags \cup ApacheTags)
  BY <1>1, <1>2, NginxApart, ApacheApart, Together
<1> QED
  BY <1>2, <1>3, More

LEMMA Associates ==
  ASSUME NEW S, NEW s \in Seq(S), NEW t \in Seq(S), NEW u \in Seq(S)
  PROVE  s \o t \o u = s \o (t \o u)
OBVIOUS

\* The directories of those that have one log.
OneLogDirs ==
  {"/var/log/postgresql", "/var/lib/pgsql/data/log", "/var/log/mysql",
   "/var/log/mariadb", "/var/log/mongodb", "/var/log/redis", "/var/log"}

LEMMA OtherFiles ==
  /\ \A p \in KerioPaths : p[1] \notin OneLogDirs
  /\ \A p \in NginxPaths \cup ApachePaths : p[1] \notin OneLogDirs
BY DEF KerioPaths, KerioStore, NginxPaths, ApachePaths, Shared, OneLogDirs

LEMMA OneLogFiles ==
  /\ \A p \in PostgresPaths \cup MySQLPaths \cup MongoDBPaths
              \cup RedisPaths : p[1] \in OneLogDirs
  /\ \A p \in Fail2BanPaths \cup SyslogPaths \cup AuthPaths :
       p[1] \in OneLogDirs
  /\ PostgresPaths \cap MySQLPaths = {}
  /\ (PostgresPaths \cup MySQLPaths) \cap MongoDBPaths = {}
  /\ (PostgresPaths \cup MySQLPaths \cup MongoDBPaths) \cap RedisPaths = {}
  /\ (PostgresPaths \cup MySQLPaths \cup MongoDBPaths \cup RedisPaths)
       \cap Fail2BanPaths = {}
  /\ (PostgresPaths \cup MySQLPaths \cup MongoDBPaths \cup RedisPaths
       \cup Fail2BanPaths) \cap SyslogPaths = {}
  /\ (PostgresPaths \cup MySQLPaths \cup MongoDBPaths \cup RedisPaths
       \cup Fail2BanPaths \cup SyslogPaths) \cap AuthPaths = {}
BY DEF OneLogDirs, PostgresPaths, PgLog, PgData, MySQLPaths, MongoDBPaths, RedisPaths,
       Fail2BanPaths, SyslogPaths, AuthPaths

LEMMA ListsParsed ==
  ASSUME NEW P, NEW T, NEW s \in Lists(P, T) PROVE IsApart(s) /\ Parsed(s)
<1>1. s \in Seq(Inputs(P, T)) /\ Apart(s)
  BY DEF Lists
<1>2. \A i \in DOMAIN s : s[i] \in Inputs(P, T)
  BY <1>1
<1> QED
  BY <1>1, <1>2 DEF Inputs, IsApart, Parsed

\* The files the services know of.
Files ==
  KerioPaths \cup (NginxPaths \cup ApachePaths) \cup PostgresPaths
    \cup MySQLPaths \cup MongoDBPaths \cup RedisPaths \cup Fail2BanPaths
    \cup SyslogPaths \cup AuthPaths

\* What the services of a host give: no path twice, but one of /var/log/httpd
\* that nginx reads with a tag and Apache with another.  The paths are of Files.
THEOREM ServicesApart == \A h : DetectServices(h) \in Lists(Files, Tags)
<1> SUFFICES ASSUME NEW h PROVE DetectServices(h) \in Lists(Files, Tags)
  OBVIOUS
<1> DEFINE P2 == KerioPaths \cup (NginxPaths \cup ApachePaths)
           P3 == P2 \cup PostgresPaths
           P4 == P3 \cup MySQLPaths
           P5 == P4 \cup MongoDBPaths
           P6 == P5 \cup RedisPaths
           P7 == P6 \cup Fail2BanPaths
           P8 == P7 \cup SyslogPaths
           P9 == P8 \cup AuthPaths
           s2 == Kerio(h) \o (Nginx(h) \o Apache(h))
           s3 == s2 \o Postgres(h)
           s4 == s3 \o MySQL(h)
           s5 == s4 \o MongoDB(h)
           s6 == s5 \o Redis(h)
           s7 == s6 \o Fail2Ban(h)
           s8 == s7 \o Syslog(h)
           s9 == s8 \o Auth(h)
<1>1. KerioPaths \cap (NginxPaths \cup ApachePaths) = {}
  BY DEF KerioPaths, KerioStore, NginxPaths, ApachePaths, Shared
<1>2. P2 \cap PostgresPaths = {}
  BY OtherFiles, OneLogFiles
<1>3. P3 \cap MySQLPaths = {}
  BY OtherFiles, OneLogFiles
<1>4. P4 \cap MongoDBPaths = {}
  BY OtherFiles, OneLogFiles
<1>5. P5 \cap RedisPaths = {}
  BY OtherFiles, OneLogFiles
<1>6. P6 \cap Fail2BanPaths = {}
  BY OtherFiles, OneLogFiles
<1>7. P7 \cap SyslogPaths = {}
  BY OtherFiles, OneLogFiles
<1>8. P8 \cap AuthPaths = {}
  BY OtherFiles, OneLogFiles
<1>9. s2 \in Lists(P2, Tags)
  BY <1>1, KerioApart, WebServersApart, Join
<1>10. DetectServices(h) = s9
  <2>1. KerioPaths \cup NginxPaths \cup ApachePaths \subseteq P2
    OBVIOUS
  <2>2. NginxTags \subseteq Tags /\ ApacheTags \subseteq Tags
    BY DEF NginxTags, ApacheTags, Tags
  <2> HIDE DEF P2
  <2>3. {Kerio(h), Nginx(h), Apache(h)} \subseteq Lists(P2, Tags)
    BY <2>1, <2>2, KerioApart, NginxApart, ApacheApart, More
  <2>4. {Kerio(h), Nginx(h), Apache(h)} \subseteq Seq(Inputs(P2, Tags))
    BY <2>3 DEF Lists
  <2>5. Kerio(h) \o Nginx(h) \o Apache(h) = s2
    BY <2>4, Associates
  <2> QED
    BY <2>5 DEF DetectServices
<1> HIDE DEF s2, P2
<1>11. s3 \in Lists(P3, Tags)
  BY <1>2, <1>9, PostgresApart, Join
<1> HIDE DEF s3, P3
<1>12. s4 \in Lists(P4, Tags)
  BY <1>3, <1>11, MySQLApart, Join
<1> HIDE DEF s4, P4
<1>13. s5 \in Lists(P5, Tags)
  BY <1>4, <1>12, MongoDBApart, Join
<1> HIDE DEF s5, P5
<1>14. s6 \in Lists(P6, Tags)
  BY <1>5, <1>13, RedisApart, Join
<1> HIDE DEF s6, P6
<1>15. s7 \in Lists(P7, Tags)
  BY <1>6, <1>14, Fail2BanApart, Join
<1> HIDE DEF s7, P7
<1>16. s8 \in Lists(P8, Tags)
  BY <1>7, <1>15, SyslogApart, Join
<1> HIDE DEF s8, P8
<1>17. s9 \in Lists(P9, Tags)
  BY <1>8, <1>16, AuthApart, Join
<1> HIDE DEF s9, P9
<1> QED
  BY <1>10, <1>17 DEF Files, P2, P3, P4, P5, P6, P7, P8, P9

-----------------------------------------------------------------------------
(* The files that the inputs read.                                         *)

\* The one pattern of the services stands for no file of another service.
LEMMA OnePattern ==
  ASSUME NEW p \in Files, NEW q \in Files, Matched(p, q)
  PROVE  p = q
<1> DEFINE Others == KerioPaths \cup (NginxPaths \cup ApachePaths)
                       \cup MySQLPaths \cup MongoDBPaths \cup RedisPaths
                       \cup Fail2BanPaths \cup SyslogPaths \cup AuthPaths
           Apart1(f) == f[1] \notin {PgLog, PgData} /\ f[2] \notin Wild
<1>1. \A f \in Others : Apart1(f)
  <2>1. \A f \in KerioPaths \cup (NginxPaths \cup ApachePaths) : Apart1(f)
    BY DEF KerioPaths, KerioStore, KerioFiles, NginxPaths, ApachePaths, Shared,
           Web, PgLog, PgData, Wild
  <2>2. \A f \in MySQLPaths \cup MongoDBPaths \cup RedisPaths : Apart1(f)
    BY DEF MySQLPaths, MongoDBPaths, RedisPaths, PgLog, PgData, Wild
  <2>3. \A f \in Fail2BanPaths \cup SyslogPaths \cup AuthPaths : Apart1(f)
    BY DEF Fail2BanPaths, SyslogPaths, AuthPaths, PgLog, PgData, Wild
  <2> QED
    BY <2>1, <2>2, <2>3
<1>2. Files = Others \cup PostgresPaths
  BY DEF Files
<1> HIDE DEF Others
<1>3. p \in PostgresPaths
  BY <1>1, <1>2 DEF Matched, Wild
<1>4. q \in PostgresPaths
  BY <1>1, <1>2, <1>3 DEF Matched, PostgresPaths
<1> QED
  BY <1>3, <1>4 DEF Matched, PostgresPaths

\* Of the services' inputs two that read one file have one path.
LEMMA ServicesRead ==
  ASSUME NEW s \in Lists(Files, Tags), NEW i \in DOMAIN s, NEW j \in DOMAIN s,
         Overlap(s[i].path, s[j].path)
  PROVE  s[i].path = s[j].path
<1>1. s \in Seq(Inputs(Files, Tags))
  BY DEF Lists
<1>2. s[i] \in Inputs(Files, Tags) /\ s[j] \in Inputs(Files, Tags)
  BY <1>1
<1>3. s[i].path \in Files /\ s[j].path \in Files
  BY <1>2 DEF Inputs
<1> QED
  BY <1>3, OnePattern DEF Overlap

\* Whatever a host has, no file is read by two inputs of its services, but one
\* of /var/log/httpd that nginx reads with a tag and Apache with another.
THEOREM ServicesReadApart ==
  \A h : \A i, j \in DOMAIN DetectServices(h) :
    LET s == DetectServices(h) IN
    i # j /\ Overlap(s[i].path, s[j].path) =>
      s[i].path[1] = Shared /\ s[i].tag # s[j].tag
<1> SUFFICES ASSUME NEW s \in Lists(Files, Tags),
                    NEW i \in DOMAIN s, NEW j \in DOMAIN s, i # j,
                    Overlap(s[i].path, s[j].path)
             PROVE  s[i].path[1] = Shared /\ s[i].tag # s[j].tag
  BY ServicesApart
<1> QED
  BY ServicesRead DEF Lists, Apart

-----------------------------------------------------------------------------
(* The paths named by hand.                                                *)

\* A path named by hand is new to the list, or it adds nothing.
LEMMA ManualApart ==
  ASSUME NEW list, IsApart(list), Parsed(list), NEW i, NEW path, NEW tag
  PROVE  /\ IsApart(AddManual(list, i, path, tag))
         /\ Parsed(AddManual(list, i, path, tag))
<1>1. CASE path = <<>> \/ Tailed(list, path)
  BY <1>1 DEF AddManual
<1>2. CASE ~(path = <<>> \/ Tailed(list, path))
  <2> DEFINE new == ManualInput(i, path, tag)
             longer == Append(list, new)
             n == Len(list)
  <2>1. new.path = path /\ new.parser \in Parsers
    BY DEF ManualInput, Input, ManualParser, Parsers
  <2>2. PICK S : list \in Seq(S)
    BY DEF IsApart
  <2> DEFINE R == S \cup {new}
  <2>3. list \in Seq(R) /\ new \in R
    BY <2>2
  <2> HIDE DEF R, new
  <2>4. longer \in Seq(R)
    BY <2>3
  <2>5. n \in Nat /\ DOMAIN list = 1..n /\ DOMAIN longer = 1..(n + 1)
        /\ longer[n + 1] = new /\ \A j \in 1..n : longer[j] = list[j]
    BY <2>3
  <2>6. \A j \in 1..n : list[j].path # new.path
    BY <1>2, <2>1, <2>5 DEF Tailed
  <2> HIDE DEF longer, n
  <2>7. Apart(longer)
    <3> SUFFICES ASSUME NEW j \in DOMAIN longer, NEW k \in DOMAIN longer, j # k,
                        longer[j].path = longer[k].path
                 PROVE  longer[j].path[1] = Shared /\ longer[j].tag # longer[k].tag
      BY DEF Apart
    <3>1. CASE j \in 1..n /\ k \in 1..n
      BY <2>5, <3>1 DEF IsApart, Apart
    <3>2. CASE ~(j \in 1..n /\ k \in 1..n)
      <4>1. (j = n + 1 /\ k \in 1..n) \/ (k = n + 1 /\ j \in 1..n)
        BY <2>5, <3>2
      <4> QED
        BY <2>5, <2>6, <4>1
    <3> QED
      BY <3>1, <3>2
  <2>8. Parsed(longer)
    BY <2>1, <2>5 DEF Parsed
  <2>9. AddManual(list, i, path, tag) = longer
    BY <1>2 DEF AddManual, longer, new
  <2> QED
    BY <2>4, <2>7, <2>8, <2>9 DEF IsApart
<1> QED
  BY <1>1, <1>2

=============================================================================
