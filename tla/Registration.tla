---------------------------- MODULE Registration ----------------------------
(***************************************************************************)
(* The registration of a host: cmd/register.go, run by the daemon once a   *)
(* day, by install at its end and by `fb-agent register`, in as many       *)
(* processes.  A run looks at the host for up to half a minute, stamps     *)
(* what it found, writes it to host-registration.json in place, and posts  *)
(* it once.  Nothing is locked and nothing is retried but by the next run. *)
(* The server shows, of the records it has, the one with the last stamp.   *)
(* Only the order of the stamps matters, so they are not numbers here.     *)
(* Two assumptions are in that: the wall clock is not stepped back, and no *)
(* two records of the host are stamped within one second, which is what    *)
(* the stamp counts (register.go:120), or the server shows the later one.  *)
(***************************************************************************)
EXTENDS Integers, Sequences, FiniteSets

CONSTANTS
  Procs,     \* the processes that register the host
  Daemon,    \* the one that does it every day
  Ports,     \* the settings of VL_PORT looked at
  MaxFacts,  \* bound: how often what is registered changes
  MaxLate    \* bound: the requests that are on their way without a process

ASSUME ProcsAssumption == Daemon \in Procs
ASSUME PortsAssumption == Ports \subseteq Nat
ASSUME BoundAssumption == MaxFacts \in Nat /\ MaxLate \in Nat

VARIABLES
  facts,   \* the host as it is: the number of changes so far
  up,      \* the server, asked in the right way, answers within ten seconds
  full,    \* /var/lib/fluent-bit cannot be written to
  port,    \* VL_PORT
  token,   \* CF_CLIENT_ID is set
  file,    \* host-registration.json
  shown,   \* the record the server shows
  flight,  \* the records stamped after that one and not lost, oldest first
  pc,      \* pc[p]: the next step of p
  rec      \* rec[p]: the record p works on

vars == <<facts, up, full, port, token, file, shown, flight, pc, rec>>
env == <<facts, up, full, port, token>>

-----------------------------------------------------------------------------
(* Records and messages.                                                   *)

\* net: the facts when the fingerprint was taken; svc: those when the
\* services were; alone: no other record was stamped in between.
Record == [net : 0..MaxFacts, svc : 0..MaxFacts, alone : BOOLEAN]
NoRecord == [net |-> 0, svc |-> 0, alone |-> FALSE]

\* sent: the process has given up on it, or died, but the network may not.
Message == [by : Procs, rec : Record, sent : BOOLEAN]

\* form: what the file holds; rec: the record, if it holds one.
Content == [form : {"none", "empty", "garbled", "whole"}, rec : Record]
File(form) == [form |-> form, rec |-> NoRecord]
Holds(r) == [form |-> "whole", rec |-> r]

TypeOK ==
  /\ facts \in 0..MaxFacts
  /\ up \in BOOLEAN /\ full \in BOOLEAN
  /\ port \in Ports /\ token \in BOOLEAN
  /\ file \in Content
  /\ shown \in [known : BOOLEAN, rec : Record]
  /\ flight \in Seq(Message)
  /\ pc \in [Procs -> {"idle", "services", "open", "write", "post"}]
  /\ rec \in [Procs -> Record]
  /\ \A i \in DOMAIN flight :
       flight[i].sent \/ pc[flight[i].by] \in {"open", "write", "post"}

Init ==
  /\ facts = 0 /\ up \in BOOLEAN /\ full = FALSE
  /\ port \in Ports /\ token \in BOOLEAN
  /\ file = File("none")
  /\ shown = [known |-> FALSE, rec |-> NoRecord]
  /\ flight = <<>>
  /\ pc = [p \in Procs |-> "idle"]
  /\ rec = [p \in Procs |-> NoRecord]

Goto(p, l) == pc' = [pc EXCEPT ![p] = l]

\* The run p is in has come to its end.
Done(p) ==
  /\ Goto(p, "idle")
  /\ rec' = [rec EXCEPT ![p] = NoRecord]

\* Its message is no more, or only the network has it.
Mine(m, p) == m.by = p /\ ~m.sent
Lose(i) ==
  flight' = SubSeq(flight, 1, i - 1) \o SubSeq(flight, i + 1, Len(flight))
GiveUp(p) ==
  \/ \E i \in DOMAIN flight : Mine(flight[i], p) /\ Lose(i)
  \/ (\A i \in DOMAIN flight : ~Mine(flight[i], p)) /\ UNCHANGED flight
Leave(p) ==
  /\ Cardinality({i \in DOMAIN flight : flight[i].sent}) < MaxLate
  /\ flight' = [i \in DOMAIN flight |->
                  IF Mine(flight[i], p) THEN [flight[i] EXCEPT !.sent = TRUE]
                  ELSE flight[i]]

\* The server gets message i, after which it does not matter what becomes of
\* the ones stamped before it.
Arrive(i) ==
  /\ shown' = [known |-> TRUE, rec |-> flight[i].rec]
  /\ flight' = SubSeq(flight, i + 1, Len(flight))

-----------------------------------------------------------------------------
(* Register.                                                               *)

\* Slip: what is on record already is not registered again.
BeginOnce(p) ==
  /\ pc[p] = "idle" /\ file.form /= "whole"
  /\ rec' = [rec EXCEPT ![p] =
               [net |-> facts, svc |-> facts, alone |-> TRUE]]
  /\ Goto(p, "services")
  /\ UNCHANGED <<env, file, shown, flight>>

\* GetFingerprint: up to three requests for the external address.
Begin(p) ==
  /\ pc[p] = "idle"
  /\ rec' = [rec EXCEPT ![p] =
               [net |-> facts, svc |-> facts, alone |-> TRUE]]
  /\ Goto(p, "services")
  /\ UNCHANGED <<env, file, shown, flight>>

\* Slip: the stamp is taken before the rest is collected.
StampEarly(p) ==
  /\ pc[p] = "services"
  /\ rec' = [q \in Procs |->
               IF q = p THEN [rec[p] EXCEPT !.svc = facts]
               ELSE IF pc[q] = "services" THEN [rec[q] EXCEPT !.alone = FALSE]
               ELSE rec[q]]
  /\ \E k \in 0..Len(flight) :
       flight' = SubSeq(flight, 1, k)
                 \o <<[by |-> p, rec |-> rec'[p], sent |-> FALSE]>>
                 \o SubSeq(flight, k + 1, Len(flight))
  /\ Goto(p, "open")
  /\ UNCHANGED <<env, file, shown>>

\* The rest of what is collected, as if at once and just before the stamp:
\* then the record is stamped, later than all that are.
Stamp(p) ==
  /\ pc[p] = "services"
  /\ rec' = [q \in Procs |->
               IF q = p THEN [rec[p] EXCEPT !.svc = facts]
               ELSE IF pc[q] = "services" THEN [rec[q] EXCEPT !.alone = FALSE]
               ELSE rec[q]]
  /\ flight' = Append(flight, [by |-> p, rec |-> rec'[p], sent |-> FALSE])
  /\ Goto(p, "open")
  /\ UNCHANGED <<env, file, shown>>

\* Slip: the run goes on in the background.
SaveFailsOnly(p) ==
  /\ pc[p] \in {"open", "write"} /\ full
  /\ Done(p)
  /\ UNCHANGED <<env, file, shown, flight>>

\* A file that cannot be written ends the run before anything is posted.
SaveFails(p) ==
  /\ pc[p] \in {"open", "write"} /\ full
  /\ GiveUp(p)
  /\ Done(p)
  /\ UNCHANGED <<env, file, shown>>

\* Slip: the file is opened without O_TRUNC.
OpenAsIs(p) ==
  /\ pc[p] = "open"
  /\ Goto(p, "write")
  /\ UNCHANGED <<env, file, shown, flight, rec>>

Open(p) ==
  /\ pc[p] = "open"
  /\ file' = File("empty")
  /\ Goto(p, "write")
  /\ UNCHANGED <<env, shown, flight, rec>>

\* Over a longer record that another process wrote since, it leaves a tail.
Write(p) ==
  /\ pc[p] = "write"
  /\ \/ file' = Holds(rec[p])
     \/ /\ file.form \notin {"none", "empty"} /\ file /= Holds(rec[p])
        /\ file' = File("garbled")
  /\ Goto(p, "post")
  /\ UNCHANGED <<env, shown, flight, rec>>

Scheme == IF port = 9428 THEN "http" ELSE "https"
CFHeaders == port = 443 /\ token

\* README.md:71 - 443 is HTTPS behind Cloudflare Access, 9428 plain HTTP, and
\* 9429 asks for a client certificate, which this request does not have.
Admits ==
  \/ port = 443 /\ Scheme = "https" /\ CFHeaders
  \/ port = 9428 /\ Scheme = "http"

\* The answer is 200 or 204, an error, or none; the run ends without an
\* error whichever it is.
Post(p) ==
  /\ pc[p] = "post"
  /\ \/ /\ Admits
        /\ \/ \E i \in DOMAIN flight : Mine(flight[i], p) /\ Arrive(i)
           \/ /\ \A i \in DOMAIN flight : ~Mine(flight[i], p)
              /\ UNCHANGED <<shown, flight>>
     \/ ~(up /\ Admits) /\ GiveUp(p) /\ UNCHANGED shown
     \/ ~up /\ Admits /\ Leave(p) /\ UNCHANGED shown
  /\ Done(p)
  /\ UNCHANGED <<env, file>>

Register(p) ==
  Begin(p) \/ Stamp(p) \/ SaveFails(p) \/ Open(p) \/ Write(p) \/ Post(p)

-----------------------------------------------------------------------------
(* The rest of the world.                                                  *)

\* A process dies, its request perhaps on the way.
Crash(p) ==
  /\ pc[p] /= "idle"
  /\ \/ GiveUp(p)
     \/ pc[p] = "post" /\ Admits /\ Leave(p)
  /\ Done(p)
  /\ UNCHANGED <<env, file, shown>>

\* A request arrives after its process has stopped waiting, or is lost.
Late ==
  /\ \E i \in DOMAIN flight :
       /\ flight[i].sent
       /\ Arrive(i) \/ (Lose(i) /\ UNCHANGED shown)
  /\ UNCHANGED <<env, file, pc, rec>>

Change ==
  /\ facts < MaxFacts
  /\ facts' = facts + 1
  /\ UNCHANGED <<up, full, port, token, file, shown, flight, pc, rec>>

Weather ==
  /\ \/ up' = ~up /\ UNCHANGED full
     \/ full' = ~full /\ UNCHANGED up
  /\ UNCHANGED <<facts, port, token, file, shown, flight, pc, rec>>

Next ==
  \/ \E p \in Procs : Register(p) \/ Crash(p)
  \/ Late
  \/ Change
  \/ Weather

Spec == Init /\ [][Next]_vars

\* The daemon's ticker comes round and a run of its goes on to its end.
FairSpec == Spec /\ WF_vars(Register(Daemon))

-----------------------------------------------------------------------------
(* Properties.                                                             *)

\* What the server shows of the host goes back in time only by a run during
\* which another one stamped its record: a stamp says when a run ended, not
\* how old what it found is (register.go:98, register.go:120).
NotBackAlone ==
  [][shown.known /\ shown'.rec.alone =>
       /\ shown'.rec.net >= shown.rec.net
       /\ shown'.rec.svc >= shown.rec.svc]_vars

IsCurrent(r) == r.net = facts /\ r.svc = facts

\* The host changes no more, the server is there, the disk can be written to
\* and nothing kills the daemon.
Calm == <>[](up /\ Admits /\ ~full) /\ <>[][~Crash(Daemon)]_vars

\* In the end the server shows the host as it is (README.md:104), whatever
\* requests were lost, late or answered with an error that nobody looks at
\* (register.go:209-221).
Converges == Calm => <>[](shown.known /\ IsCurrent(shown.rec))

\* And the local copy is whole and right again and again, although it is
\* written in place by processes that know nothing of each other.
FileHeals == Calm => []<>(file.form = "whole" /\ IsCurrent(file.rec))

=============================================================================
