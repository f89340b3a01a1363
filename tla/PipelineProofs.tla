--------------------------- MODULE PipelineProofs ----------------------------
(***************************************************************************)
(* Theorems about Pipeline, for all hosts, settings, lines and entries:    *)
(* what the parsers and enrich.lua make of a record.                       *)
(***************************************************************************)
EXTENDS Pipeline, DiscoveryProofs, TLAPS

FourLevels == {"debug", "info", "warn", "error"}
Levels == FourLevels \cup {"fatal"}

LEMMA LevelTables ==
  /\ \A n \in DOMAIN NumToLevel : NumToLevel[n] \in Levels
  /\ \A n \in DOMAIN TextToLevel : TextToLevel[n] \in Levels
BY DEF NumToLevel, TextToLevel, FatalNames, Levels, FourLevels

\* Every record that is sent has one of four levels.
LEMMA LevelRange ==
  ASSUME NEW r PROVE Level(r) \in FourLevels
<1> DEFINE pri == PriorityLevel(IF r.pri = NoPri THEN 6 ELSE r.pri)
           field == FieldLevel(r.level, pri)
           said == IF r.json THEN Known(ObjLevel(r.obj), field) ELSE field
           found == Detect(Message(r), said)
<1>1. pri \in Levels
  BY DEF PriorityLevel, Levels, FourLevels
<1>2. field \in Levels
  BY <1>1, LevelTables DEF FieldLevel
<1>3. said \in Levels
  BY <1>2, LevelTables DEF Known
<1>4. found \in Levels
  BY <1>3 DEF Detect, Levels, FourLevels
<1>5. Level(r) = IF found = "fatal" THEN "error" ELSE found
  BY DEF Level
<1> QED
  BY <1>4, <1>5 DEF Levels, FourLevels

\* What was sent last is a line or an entry, as the parser of its input and
\* the filter have left it.
Sent(s) ==
  \/ s = NoLine
  \/ \E parser, tag : \E line \in Lines :
       s = [source |-> "file", parser |-> parser, line |-> line,
            fate |-> Fate(tag, Parse(parser, line))]
  \/ \E entry \in Entries :
       s = [source |-> "journal", line |-> entry, fate |-> Fate("host", entry)]

LEMMA SentKept == Spec => []Sent(sent)
<1>1. Init => Sent(sent)
  BY DEF Init, Sent
<1>2. Sent(sent) /\ [Next]_vars => Sent(sent)'
  <2> SUFFICES ASSUME Sent(sent), [Next]_vars PROVE Sent(sent)'
    OBVIOUS
  <2>1. CASE UNCHANGED sent
    BY <2>1 DEF Sent
  <2>2. ASSUME NEW k \in DOMAIN conf.inputs, NEW line \in Lines,
               ReadFile(conf.inputs[k], line)
        PROVE  Sent(sent)'
    BY <2>2 DEF ReadFile, Sent
  <2>3. ASSUME NEW entry \in Entries, ReadJournal(entry) PROVE Sent(sent)'
    BY <2>3 DEF ReadJournal, Sent
  <2>4. CASE Flush
    BY <2>4 DEF Flush, Sent
  <2> QED
    BY <2>1, <2>2, <2>3, <2>4
       DEF Next, Begin, TakeManual, Configure, vars
<1> QED
  BY <1>1, <1>2, PTL DEF Spec

\* install stays within its list of manual paths and never starts a Fluent Bit
\* without an input, and a record that is sent has one of four levels.
THEOREM TypeCorrect == Spec => []TypeOK
<1> DEFINE Steps == /\ pc \in {"off", "manual", "running"}
                    /\ done \in 0..Len(manual) /\ Len(manual) \in Nat
                    /\ pc = "running" => conf.journal \/ conf.inputs /= <<>>
<1>1. Init => Steps
  BY DEF Init
<1>2. Steps /\ [Next]_vars => Steps'
  <2> SUFFICES ASSUME Steps, [Next]_vars PROVE Steps'
    OBVIOUS
  <2>1. ASSUME NEW h \in Hosts, NEW m \in Manual, NEW skip \in BOOLEAN,
               Begin(h, m, skip)
        PROVE  Steps'
    BY <2>1, ManualAssumption DEF Begin
  <2>2. CASE TakeManual
    BY <2>2 DEF TakeManual
  <2>3. CASE Configure
    <3>1. done' = 0 /\ manual' = <<>>
      BY <2>3 DEF Configure
    <3>2. CASE ~host.journal /\ inputs = <<>>
      BY <2>3, <3>1, <3>2 DEF Configure
    <3>3. CASE ~(~host.journal /\ inputs = <<>>)
      BY <2>3, <3>1, <3>3 DEF Configure
    <3> QED
      BY <3>2, <3>3
  <2>4. CASE UNCHANGED <<pc, manual, done, conf>>
    BY <2>4
  <2> QED
    BY <2>1, <2>2, <2>3, <2>4 DEF Next, ReadFile, ReadJournal, Flush, vars
<1>3. Sent(sent) /\ Steps => TypeOK
  <2> SUFFICES ASSUME Sent(sent), sent.source /= "none"
               PROVE  sent.fate.out.level \in FourLevels
    BY DEF TypeOK, FourLevels
  <2>1. \E tag, r : sent.fate = Fate(tag, r)
    BY DEF Sent, NoLine
  <2>2. PICK tag, r : sent.fate = Fate(tag, r)
    BY <2>1
  <2>3. sent.fate.out.level = Level(r)
    BY <2>2 DEF Fate, Enriched
  <2> QED
    BY <2>3, LevelRange
<1> QED
  BY <1>1, <1>2, <1>3, SentKept, PTL DEF Spec

\* The record that a line becomes: its words are those of the line, with the
\* mark or with the mark in the field of a level, or none.
LEMMA ParsedRecord ==
  ASSUME NEW parser, NEW line
  PROVE  LET r == Parse(parser, line) IN
         /\ r.json = line.json
         /\ \/ r.words = {} /\ parser = "nginx_access" /\ line.form = "access"
            \/ r.words = line.words /\ r.level = line.mark
            \/ r.words = line.words \cup Mark(line) /\ r.level = Nil
         /\ \/ r.pri = NoPri
            \/ /\ r.pri = line.pri /\ parser = "syslog_rfc3164"
               /\ line.form = "bracketed"
BY DEF Parse, Matches, Raw, NoPri, Nil

\* A journal entry keeps the rank of its priority.
LEMMA EntryRank ==
  ASSUME NEW e \in Entries, Silent(e), NEW pri, pri = PriorityOf(e)
  PROVE  /\ Rank[Level(e)] >= Due(pri)
         /\ pri \notin {5, 6} => Rank[Level(e)] = Due(pri)
<1> DEFINE field == FieldLevel(e.level, PriorityLevel(pri))
           said == IF e.json THEN Known(ObjLevel(e.obj), field) ELSE field
           found == Detect(Message(e), said)
<1>1. pri \in 0..7 /\ e.level = Nil
  BY EntriesAssumption DEF PriorityOf
<1>2. Nil \notin DOMAIN TextToLevel
  BY DEF Nil, TextToLevel, FatalNames
<1>3. field = PriorityLevel(pri)
  BY <1>1, <1>2 DEF FieldLevel
<1>4. said = field
  BY DEF Silent, Known
<1>5. Level(e) = IF found = "fatal" THEN "error" ELSE found
  BY DEF Level, PriorityOf
<1>6. CASE pri \in {0, 1, 2}
  <2>1. PriorityLevel(pri) = "fatal"
    BY <1>1, <1>6 DEF PriorityLevel
  <2>2. Level(e) = "error"
    BY <1>3, <1>4, <1>5, <2>1 DEF Detect
  <2> QED
    BY <1>6, <2>2 DEF Rank, Due
<1>7. CASE pri = 3
  <2>1. PriorityLevel(pri) = "error"
    BY <1>7 DEF PriorityLevel
  <2>2. Level(e) = "error"
    BY <1>3, <1>4, <1>5, <2>1 DEF Detect
  <2> QED
    BY <1>7, <2>2 DEF Rank, Due
<1>8. CASE pri = 4
  <2>1. PriorityLevel(pri) = "warn"
    BY <1>8 DEF PriorityLevel
  <2>2. Level(e) = "warn"
    BY <1>3, <1>4, <1>5, <2>1 DEF Detect
  <2> QED
    BY <1>8, <2>2 DEF Rank, Due
<1>9. CASE pri = 7
  <2>1. PriorityLevel(pri) = "debug"
    BY <1>9 DEF PriorityLevel
  <2>2. Level(e) = "debug"
    BY <1>3, <1>4, <1>5, <2>1 DEF Detect
  <2> QED
    BY <1>9, <2>2 DEF Rank, Due
<1>10. CASE pri \in {5, 6}
  <2>1. PriorityLevel(pri) = "info"
    BY <1>10 DEF PriorityLevel
  <2>2. Level(e) \in {"info", "warn", "error"}
    BY <1>3, <1>4, <1>5, <2>1 DEF Detect
  <2> QED
    BY <1>10, <2>2 DEF Rank, Due
<1> QED
  BY <1>1, <1>6, <1>7, <1>8, <1>9, <1>10

\* The label of a journal entry is that of its priority, or for a notice a
\* worse one that its text names.
THEOREM PriorityIsKept == Spec => []PriorityKept
<1>1. Sent(sent) => PriorityKept
  <2> SUFFICES ASSUME NEW e \in Entries, Silent(e), sent.line = e,
                      sent.fate = Fate("host", e)
               PROVE  LET pri == PriorityOf(sent.line) IN
                      /\ Rank[sent.fate.out.level] >= Due(pri)
                      /\ pri \notin {5, 6} =>
                           Rank[sent.fate.out.level] = Due(pri)
    BY DEF Sent, PriorityKept, NoLine
  <2>1. sent.fate.out.level = Level(e)
    BY DEF Fate, Enriched
  <2> QED
    BY <2>1, EntryRank
<1> QED
  BY <1>1, SentKept, PTL

\* Whatever input reads it, a line that is marked as an error and kept is
\* sent as one.
THEOREM MarkIsKept == Spec => []MarkedIsError
<1>1. ASSUME NEW parser, NEW tag, NEW line, ~Dropped(tag, Parse(parser, line)),
             line.mark \in ErrorWords, ~line.json,
             ~TakenAsMild([parser |-> parser, line |-> line])
      PROVE  Level(Parse(parser, line)) = "error"
  <2> DEFINE r == Parse(parser, line)
             pri == IF r.pri = NoPri THEN 6 ELSE r.pri
             field == FieldLevel(r.level, PriorityLevel(pri))
             found == Detect(r.words, field)
  <2>1. ~r.json /\ r.words # {}
    BY <1>1, ParsedRecord DEF Dropped
  <2>2. Level(r) = IF found = "fatal" THEN "error" ELSE found
    BY <2>1 DEF Level, Message
  <2>3. pri \in {0, 1, 2, 3, 5, 6}
    BY <1>1, ParsedRecord DEF TakenAsMild
  <2>4. PriorityLevel(pri) \in {"fatal", "error", "info"}
    BY <2>3 DEF PriorityLevel
  <2>5. CASE r.level = line.mark
    <3>1. field \in {"fatal", "error"}
      BY <1>1, <2>5 DEF FieldLevel, TextToLevel, FatalNames, ErrorWords
    <3> QED
      BY <2>2, <3>1 DEF Detect
  <2>6. CASE r.words = line.words \cup Mark(line) /\ r.level = Nil
    <3>1. field \in {"fatal", "error", "info"}
      BY <2>4, <2>6 DEF FieldLevel, TextToLevel, FatalNames, Nil
    <3>2. line.mark \in r.words
      BY <1>1, <2>6 DEF Mark, ErrorWords, Nil
    <3>3. found \in {"fatal", "error"}
      BY <1>1, <3>1, <3>2 DEF Detect, ErrorWords
    <3> QED
      BY <2>2, <3>3
  <2> QED
    BY <2>1, <2>5, <2>6, ParsedRecord
<1>2. Sent(sent) => MarkedIsError
  <2> SUFFICES ASSUME NEW parser, NEW tag, NEW line \in Lines,
                      sent.parser = parser, sent.line = line,
                      sent.fate = Fate(tag, Parse(parser, line)),
                      sent.fate.kept, line.mark \in ErrorWords,
                      ~line.json, ~TakenAsMild(sent)
               PROVE  sent.fate.out.level = "error"
    BY DEF Sent, MarkedIsError, NoLine
  <2>1. ~Dropped(tag, Parse(parser, line))
    <3> SUFFICES ASSUME Dropped(tag, Parse(parser, line)) PROVE FALSE
      OBVIOUS
    <3>1. Fate(tag, Parse(parser, line)).kept = FALSE
      BY DEF Fate
    <3> QED
      BY <3>1
  <2>2. sent.fate.out.level = Level(Parse(parser, line))
    BY DEF Fate, Enriched
  <2>3. ~TakenAsMild([parser |-> parser, line |-> line])
    BY DEF TakenAsMild
  <2> QED
    BY <1>1, <2>1, <2>2, <2>3
<1> QED
  BY <1>2, SentKept, PTL

\* No record is lost but noise, empty ones, and parsed lines of access logs.
THEOREM OnlyThatIsLost == Spec => []NothingElseLost
<1>1. ASSUME NEW parser, NEW tag, NEW line \in Lines,
             sent = [source |-> "file", parser |-> parser, line |-> line,
                     fate |-> Fate(tag, Parse(parser, line))],
             ~sent.fate.kept
      PROVE  NoiseOnly(sent) \/ (line.form = "access" /\ parser = "nginx_access")
  <2> DEFINE r == Parse(parser, line)
  <2>1. Dropped(tag, r) /\ sent.fate.out.app = App(tag, r) /\ sent.line = line
    BY <1>1 DEF Fate, Enriched
  <2>2. CASE App(tag, r) \in DropApps
    BY <2>1, <2>2 DEF NoiseOnly
  <2>3. CASE r.words = {}
    BY <2>1, <2>3, ParsedRecord DEF NoiseOnly
  <2>4. CASE r.words \cap Noise # {}
    <3>1. r.words \subseteq line.words \cup {line.mark}
      BY ParsedRecord DEF Mark
    <3> QED
      BY <1>1, <2>1, <2>4, <3>1, LinesAssumption DEF NoiseOnly
  <2> QED
    BY <2>1, <2>2, <2>3, <2>4 DEF Dropped
<1>2. ASSUME NEW e \in Entries,
             sent = [source |-> "journal", line |-> e, fate |-> Fate("host", e)],
             ~sent.fate.kept
      PROVE  NoiseOnly(sent)
  BY <1>2 DEF Fate, Enriched, Dropped, NoiseOnly
<1>3. Sent(sent) => NothingElseLost
  BY <1>1, <1>2 DEF Sent, NothingElseLost, NoLine
<1> QED
  BY <1>3, SentKept, PTL

-----------------------------------------------------------------------------
(* The inputs of fluent-bit.conf.                                          *)

\* What install has found so far, and what Fluent Bit runs with.
InputsApart ==
  /\ done \in Nat
  /\ done = 0 => inputs \in Lists(Files, Tags)
  /\ IsApart(inputs) /\ Parsed(inputs)
  /\ IsApart(conf.inputs) /\ Parsed(conf.inputs)

LEMMA InputsKept == Spec => []InputsApart
<1>1. <<>> \in Lists(Files, Tags) /\ IsApart(<<>>) /\ Parsed(<<>>)
  BY NoneApart DEF IsApart, Apart, Parsed
<1>2. Init => InputsApart
  BY <1>1 DEF Init, NoConf, InputsApart
<1>3. InputsApart /\ [Next]_vars => InputsApart'
  <2> SUFFICES ASSUME InputsApart, [Next]_vars PROVE InputsApart'
    OBVIOUS
  <2>1. ASSUME NEW h \in Hosts, NEW m \in Manual, NEW skip \in BOOLEAN,
               Begin(h, m, skip)
        PROVE  InputsApart'
    <3>1. DetectServices(h) \in Lists(Files, Tags)
          /\ IsApart(DetectServices(h)) /\ Parsed(DetectServices(h))
      BY ServicesApart, ListsParsed
    <3> QED
      BY <1>1, <2>1, <3>1 DEF Begin, InputsApart
  <2>2. CASE TakeManual
    <3>1. IsApart(inputs') /\ Parsed(inputs')
      BY <2>2, ManualApart DEF TakeManual, InputsApart
    <3> QED
      BY <2>2, <3>1 DEF TakeManual, InputsApart
  <2>3. CASE Configure
    <3>1. conf' = conf \/ conf'.inputs = inputs
      BY <2>3 DEF Configure
    <3> QED
      BY <1>1, <2>3, <3>1 DEF Configure, InputsApart
  <2>4. CASE UNCHANGED <<inputs, done, conf>>
    BY <2>4 DEF InputsApart
  <2> QED
    BY <2>1, <2>2, <2>3, <2>4 DEF Next, ReadFile, ReadJournal, Flush, vars
<1> QED
  BY <1>2, <1>3, PTL DEF Spec

\* Whatever the host has, no file is read by two of its services, but one of
\* /var/log/httpd; whatever the settings name, no path is in two inputs, so
\* that a file is read twice only by a pattern beside another path.
THEOREM NoFileTwice == Spec => []EachFileOnce
<1>1. ASSUME NEW list, Apart(list), NEW i \in DOMAIN list, NEW j \in DOMAIN list,
             Both(list, i, j)
      PROVE  OfTwoServices(list, i) \/ ByPattern(list, i, j)
  <2>1. i # j /\ Overlap(list[i].path, list[j].path)
    BY <1>1 DEF Both
  <2>2. CASE list[i].path = list[j].path
    BY <1>1, <2>1, <2>2 DEF Apart, Shared, OfTwoServices
  <2>3. CASE list[i].path # list[j].path
    BY <2>1, <2>3 DEF Overlap, Matched, Wild, ByPattern
  <2> QED
    BY <2>2, <2>3
<1>2. ASSUME InputsApart, done = 0, NEW i \in DOMAIN inputs,
             NEW j \in DOMAIN inputs, Both(inputs, i, j)
      PROVE  OfTwoServices(inputs, i)
  <2>1. inputs[i].path = inputs[j].path
    BY <1>2, ServicesRead DEF InputsApart, Both
  <2> QED
    BY <1>2, <2>1 DEF InputsApart, IsApart, Apart, Both, Shared, OfTwoServices
<1>3. InputsApart => EachFileOnce
  BY <1>1, <1>2 DEF InputsApart, IsApart, EachFileOnce
<1> QED
  BY <1>3, InputsKept, PTL

\* Two inputs with one path have a database of offsets each.
THEOREM OffsetsOfTheirOwn == Spec => []OffsetsApart
<1>1. InputsApart => OffsetsApart
  BY DEF InputsApart, IsApart, Apart, OffsetsApart
<1> QED
  BY <1>1, InputsKept, PTL

\* Every input of fluent-bit.conf names a parser of parsers-custom.conf or
\* none, also one for a path named by hand (install.go:94-104).
THEOREM ParsersExist == Spec => []Parsed(conf.inputs)
<1>1. InputsApart => Parsed(conf.inputs)
  BY DEF InputsApart
<1> QED
  BY <1>1, InputsKept, PTL

=============================================================================
