------------------------------- MODULE Enrich --------------------------------
(***************************************************************************)
(* What becomes of one line: the parsers of parsers-custom.conf and the    *)
(* Lua filter enrich.lua, as operators.  A text is the set of the words it *)
(* has that matter here: names of levels, patterns of noise, anything      *)
(* else.  Letters are taken in lower case, as both tables do.              *)
(***************************************************************************)
EXTENDS Integers

Nil == "nil"
NoPri == -1

\* Lua's `or`
a ?? b == IF a = Nil THEN b ELSE a

-----------------------------------------------------------------------------
(* JSON, as the patterns of the filter see it.                             *)

\* A value is a string, a number, an empty string before another key or
\* after the last one, or not there.
MsgKeys == {"msg", "message", "error", "text"}
ErrKeys == {"errmsg", "error_message"}
NameKeys == {"name", "component", "service", "module"}
Keys == MsgKeys \cup ErrKeys \cup NameKeys \cup {"level", "severity"}
Absent == [is |-> "absent", as |-> ""]
NoObj == [k \in Keys |-> Absent]

\* What `"(.-[^\\])"` finds behind an empty value: its closing quote, and
\* all up to the opening quote of the next key.
Junk == "\","

JsonStr(v) ==
  CASE v.is = "string" -> v.as
    [] v.is = "empty" -> Junk
    [] v.is = "last" -> ""
    [] OTHER -> Nil

JsonNum(v) == IF v.is = "number" THEN v.as ELSE Nil

-----------------------------------------------------------------------------
(* enrich.  A record has the program that wrote it, its message (MESSAGE,  *)
(* message or log, whichever its input sets), a priority and a level, if   *)
(* its input sets them.                                                    *)

DropApps == {"(sd-pam)", "systemd-logind", "sshd-session", "(systemd)"}
Noise == {"pam_unix(cron:session)", "Removed session", "New session 1",
          "session opened for user root", "session closed for user root"}

NumToLevel == [n \in {"10", "20", "30", "40", "50", "60", "70"} |->
  CASE n \in {"10", "20"} -> "debug" [] n = "30" -> "info"
    [] n = "40" -> "warn" [] n = "50" -> "error" [] OTHER -> "fatal"]

FatalNames == {"fatal", "crit", "critical", "panic", "alert", "emerg"}
TextToLevel ==
  [n \in {"debug", "trace", "info", "notice", "warn", "warning", "error",
          "err"} \cup FatalNames |->
    CASE n \in {"debug", "trace"} -> "debug"
      [] n \in {"info", "notice"} -> "info"
      [] n \in {"warn", "warning"} -> "warn"
      [] n \in {"error", "err"} -> "error"
      [] OTHER -> "fatal"]

\* sshd for auth; kerio/mail for kerio_mail and so on: another name for the
\* tag, so the tag is kept.
AppOfTag(tag) == IF tag = "auth" THEN "sshd" ELSE tag

\* Journal records have lost the underscore of _COMM (Strip_Underscores).
App(tag, r) == IF r.id \notin {Nil, ""} THEN r.id ELSE AppOfTag(tag)

Text(s) == IF s = "" THEN {} ELSE {s}

\* The message of a record whose text is an object.
ObjText(o, words) ==
  LET msg == JsonStr(o["msg"]) ?? (JsonStr(o["message"])
               ?? (JsonStr(o["error"]) ?? JsonStr(o["text"])))
      err == JsonStr(o["errmsg"]) ?? JsonStr(o["error_message"])
  IN  IF msg = Nil THEN words
      ELSE Text(msg) \cup IF err \in {Nil, "", msg} THEN {} ELSE {err}

ObjLevel(o) ==
  JsonStr(o["level"]) ?? (JsonNum(o["level"])
    ?? (JsonStr(o["severity"]) ?? JsonNum(o["severity"])))

ObjName(o) ==
  JsonStr(o["name"]) ?? (JsonStr(o["component"])
    ?? (JsonStr(o["service"]) ?? JsonStr(o["module"])))

Message(r) == IF r.json THEN ObjText(r.obj, r.words) ELSE r.words

\* Slip: a priority of three is a warning.
PriorityLevelOff(p) ==
  CASE p <= 1 -> "fatal" [] p = 2 -> "error" [] p \in {3, 4} -> "warn"
    [] p >= 7 -> "debug" [] OTHER -> "info"

PriorityLevel(p) ==
  CASE p <= 2 -> "fatal" [] p = 3 -> "error" [] p = 4 -> "warn"
    [] p >= 7 -> "debug" [] OTHER -> "info"

Known(name, cur) ==
  IF name \in DOMAIN NumToLevel THEN NumToLevel[name]
  ELSE IF name \in DOMAIN TextToLevel THEN TextToLevel[name] ELSE cur

\* Slip: the table lacks the names that only syslog has.
FieldLevelShort(name, cur) ==
  IF name \in {"debug", "info", "warn", "warning", "error"}
  THEN TextToLevel[name] ELSE cur

FieldLevel(name, cur) ==
  IF name \in DOMAIN TextToLevel THEN TextToLevel[name] ELSE cur

\* detect_level_text
Detect(words, cur) ==
  IF cur /= "info" THEN cur
  ELSE IF words \cap {"fatal", "panic", "emerg"} /= {} THEN "fatal"
  ELSE IF words \cap {"error", "failed", "crit"} /= {} THEN "error"
  ELSE IF words \cap {"warn", "warning"} /= {} THEN "warn" ELSE cur

\* Slip: fatal is sent as it is.
LevelAsFound(r) ==
  LET field == FieldLevel(r.level,
                 PriorityLevel(IF r.pri = NoPri THEN 6 ELSE r.pri))
      said == IF r.json THEN Known(ObjLevel(r.obj), field) ELSE field
  IN  Detect(Message(r), said)

Level(r) ==
  LET field == FieldLevel(r.level,
                 PriorityLevel(IF r.pri = NoPri THEN 6 ELSE r.pri))
      said == IF r.json THEN Known(ObjLevel(r.obj), field) ELSE field
      found == Detect(Message(r), said)
  IN  IF found = "fatal" THEN "error" ELSE found

\* Slip: an empty message is looked for after JSON has been taken apart.
DroppedLate(tag, r) ==
  \/ App(tag, r) \in DropApps
  \/ Message(r) = {}
  \/ r.words \cap Noise /= {}

Dropped(tag, r) ==
  \/ App(tag, r) \in DropApps
  \/ r.words = {}
  \/ r.words \cap Noise /= {}

NameOf(r) ==
  IF r.json /\ ObjName(r.obj) \notin {Nil, ""} THEN ObjName(r.obj) ELSE Nil

\* The record that goes to the server.
Enriched(tag, r) ==
  [msg |-> Message(r), app |-> App(tag, r), name |-> NameOf(r),
   level |-> Level(r)]

-----------------------------------------------------------------------------
(* The parsers.  A line has a form, the word its writer marks its severity *)
(* with, the number between angle brackets if there is one, and its text.  *)

Forms == {"plain", "access", "nginx_error", "kerio_mail", "kerio_security",
          "bracketed"}

\* The forms the expression of a parser matches.
Matches(parser) ==
  CASE parser = "kerio_mail" -> {"kerio_mail", "kerio_security"}
    [] parser = "kerio_security" -> {"kerio_mail", "kerio_security"}
    [] parser = "nginx_access" -> {"access"}
    [] parser = "nginx_error" -> {"nginx_error"}
    [] parser = "syslog_rfc3164" -> {"bracketed"}
    [] OTHER -> {}

Mark(line) == IF line.mark = Nil THEN {} ELSE {line.mark}

\* A line that is not parsed is the field log of its record.
Raw(line) ==
  [id |-> Nil, words |-> line.words \cup Mark(line), json |-> line.json,
   obj |-> line.obj, pri |-> NoPri, level |-> Nil]

\* nginx_access has no field for a message.  A line of Kerio's security log
\* has no level; the word that kerio_mail takes for it names none.
Parse(parser, line) ==
  IF line.form \notin Matches(parser) THEN Raw(line)
  ELSE CASE parser = "nginx_access" -> [Raw(line) EXCEPT !.words = {}]
         [] parser = "nginx_error" ->
              [Raw(line) EXCEPT !.words = line.words, !.level = line.mark]
         [] parser = "kerio_mail" /\ line.form = "kerio_mail" ->
              [Raw(line) EXCEPT !.words = line.words, !.level = line.mark]
         [] parser = "syslog_rfc3164" -> [Raw(line) EXCEPT !.pri = line.pri]
         [] OTHER -> Raw(line)

=============================================================================
