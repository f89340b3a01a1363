----------------------------- MODULE Enrollment -----------------------------
(***************************************************************************)
(* The client certificate: network/mtls.go (EnrollCert and                 *)
(* RenewCertIfExpiring), the TLS decision of `fb-agent install`            *)
(* (cmd/install.go:160-193) and the weekly ticker of the daemon that calls *)
(* the renewal.  Installer and daemon share client.crt, client.key and     *)
(* ca.crt; a write truncates a file before it fills it, and either process *)
(* may die between two system calls.  Time is counted in days, relative to *)
(* the certificate's end.                                                  *)
(***************************************************************************)
EXTENDS Integers

CONSTANTS
  Procs,       \* who runs: "install", "daemon" or both
  KeyIds,      \* the private keys there can be
  NoKey,       \* client.key is absent
  JunkKey,     \* client.key is there and does not parse
  Life,        \* days a signed certificate is valid
  RenewDays,   \* RenewCertIfExpiring leaves a longer-lived certificate alone
  EnrollDays,  \* and EnrollCert one that lives longer than this
  Week,        \* days between two ticks of the daemon's certTicker
  MaxMissed,   \* how many requests in a row bring no certificate
  Faults       \* what may go wrong in this environment

AllFaults == {"crash",   \* a process dies; the daemon's ticker starts anew
              "disk",    \* the certificate directory takes no write
              "remove",  \* client.key cannot be removed
              "api",     \* any request may bring no certificate
              "nocert",  \* an answer may have, for the certificate, some
                         \* other text, which is taken for one
              "noca",    \* an answer may come without a CA
              "badca"}   \* an answer may have some other text for the CA

ASSUME ProcsAssumption == Procs \subseteq {"install", "daemon"}
ASSUME KeyAssumption == NoKey \notin KeyIds /\ JunkKey \notin KeyIds
ASSUME DaysAssumption ==
  /\ Life \in Nat /\ RenewDays \in Nat /\ EnrollDays \in Nat /\ Week \in Nat
  /\ EnrollDays < RenewDays /\ RenewDays < Life
  /\ Week > 0
ASSUME EnvAssumption == MaxMissed \in Nat /\ Faults \subseteq AllFaults

VARIABLES
  cert,    \* client.crt
  key,     \* client.key
  ca,      \* ca.crt
  mode,    \* the TLS mode of the fluent-bit.conf last written
  due,     \* days to the next tick of certTicker
  missed,  \* requests in a row, the last one among them, that brought no
           \* certificate: they failed, or the answer had another text
  pc,      \* pc[p]: the next step of p
  run      \* run[p]: the key p holds, and the answer it was given

files == <<cert, key, ca>>
vars == <<cert, key, ca, mode, due, missed, pc, run>>

\* left: the days to notAfter; -1 once it has passed.
Certs == [form : {"none", "junk", "whole"}, key : KeyIds \cup {NoKey},
          left : -1..Life]
NoCert == [form |-> "none", key |-> NoKey, left |-> -1]
JunkCert == [form |-> "junk", key |-> NoKey, left |-> -1]
\* Slip: the time left is measured from the wrong end.
SignedBack(k) == [form |-> "whole", key |-> k, left |-> -1 - Life]
Signed(k) == [form |-> "whole", key |-> k, left |-> Life]

\* What a text is worth: that of the certificate is never empty.
CertTexts == {"junk", "whole"}
CATexts == {"none", "junk", "whole"}
Runs == [key : KeyIds \cup {NoKey}, cert : CertTexts, ca : CATexts]

TypeOK ==
  /\ cert \in Certs
  /\ key \in KeyIds \cup {NoKey, JunkKey}
  /\ ca \in CATexts
  /\ mode \in {"none", "off", "mtls", "cf-access"}
  /\ due \in 0..Week
  /\ missed \in 0..MaxMissed
  /\ pc \in [Procs -> {"idle", "rmkey", "enroll", "key", "keywrite", "post",
                       "cert", "certwrite", "ca", "cawrite"}]
  /\ run \in [Procs -> Runs]

Idle == \A p \in Procs : pc[p] = "idle"

\* A host without certificates, or one enrolled before, with more than a
\* month left when its daemon is started.
Init ==
  /\ \/ cert = NoCert /\ key = NoKey /\ ca = "none" /\ mode = "none"
     \/ /\ \E k \in KeyIds : key = k
        /\ \E d \in RenewDays..Life : cert = [Signed(key) EXCEPT !.left = d]
        /\ ca = "whole" /\ mode = "mtls"
  /\ due = Week /\ missed = 0
  /\ pc = [p \in Procs |-> "idle"]
  /\ run = [p \in Procs |-> [key |-> NoKey, cert |-> "junk", ca |-> "none"]]

-----------------------------------------------------------------------------
(* EnrollCert.                                                             *)

Goto(p, l) == pc' = [pc EXCEPT ![p] = l]

\* Slip: any certificate that parses is valid.
ValidAnyway(days) == cert.form = "whole"

\* isCertValid
Valid(days) == cert.form = "whole" /\ cert.left > days

\* EnrollCert returns.  The daemon logs an error; the installer turns mTLS
\* on or goes on without.
Return(p, ok) ==
  /\ Goto(p, "idle")
  /\ mode' = IF p = "daemon" THEN mode ELSE IF ok THEN "mtls" ELSE "off"

\* Bound: MaxMissed requests in a row, but for "api".
Missed ==
  /\ missed < MaxMissed \/ "api" \in Faults
  /\ missed' = IF missed < MaxMissed THEN missed + 1 ELSE missed

\* A request to the signing API fails: the probe of buildSignURL for its URL,
\* or the signing, whose answer does not come, does not parse, has an error
\* or has no text for a certificate (postCSR).
RequestFails(p) == Missed /\ Return(p, FALSE)

\* Slip: a file at the path of the certificate ends the call.
EnrollIfAbsent(p) ==
  /\ pc[p] = "enroll"
  /\ IF cert.form /= "none" THEN Return(p, TRUE)
     ELSE Goto(p, "key") /\ UNCHANGED mode
  /\ UNCHANGED <<files, due, missed, run>>

\* A certificate good for more than seven days ends the call.  The probe
\* comes before the key is looked at.
Enroll(p) ==
  /\ pc[p] = "enroll"
  /\ \/ Valid(EnrollDays) /\ Return(p, TRUE) /\ UNCHANGED missed
     \/ ~Valid(EnrollDays) /\ Goto(p, "key") /\ UNCHANGED <<mode, missed>>
     \/ ~Valid(EnrollDays) /\ RequestFails(p)
  /\ UNCHANGED <<files, due, run>>

\* Slip: every enrollment makes a new key.
EnsureNewKey(p) ==
  /\ pc[p] = "key"
  /\ \E k \in KeyIds \ ({cert.key} \cup {run[q].key : q \in Procs}) :
       run' = [run EXCEPT ![p].key = k]
  /\ key' = JunkKey
  /\ Goto(p, "keywrite")
  /\ UNCHANGED <<cert, ca, mode, due, missed>>

\* ensurePrivateKey loads the key, or makes one and opens the file for it.
EnsureKey(p) ==
  /\ pc[p] = "key"
  /\ IF key \in KeyIds
     THEN /\ run' = [run EXCEPT ![p].key = key]
          /\ Goto(p, "post")
          /\ UNCHANGED key
     ELSE /\ \E k \in KeyIds \ ({cert.key} \cup {run[q].key : q \in Procs}) :
               run' = [run EXCEPT ![p].key = k]
          /\ key' = JunkKey
          /\ Goto(p, "keywrite")
  /\ UNCHANGED <<cert, ca, mode, due, missed>>

WriteKey(p) ==
  /\ pc[p] = "keywrite"
  /\ key' = run[p].key
  /\ Goto(p, "post")
  /\ UNCHANGED <<cert, ca, mode, due, missed, run>>

\* The answers there may be that postCSR returns: it asks only that the text
\* of the certificate is not empty.
CertAnswers == IF "nocert" \in Faults THEN CertTexts ELSE {"whole"}
CAAnswers ==
  {"whole"} \cup (IF "noca" \in Faults THEN {"none"} ELSE {})
            \cup (IF "badca" \in Faults THEN {"junk"} ELSE {})

Post(p) ==
  /\ pc[p] = "post"
  /\ \/ \E c \in CertAnswers, a \in CAAnswers :
          /\ IF c = "whole" THEN missed' = 0 ELSE Missed
          /\ run' = [run EXCEPT ![p].cert = c, ![p].ca = a]
          /\ Goto(p, "cert")
          /\ UNCHANGED mode
     \/ RequestFails(p) /\ UNCHANGED run
  /\ UNCHANGED <<files, due>>

OpenCert(p) ==
  /\ pc[p] = "cert"
  /\ cert' = JunkCert
  /\ Goto(p, "certwrite")
  /\ UNCHANGED <<key, ca, mode, due, missed, run>>

\* The text of the answer, whatever it is.  The CA is saved only when the
\* answer has one.
WriteCert(p) ==
  /\ pc[p] = "certwrite"
  /\ cert' = IF run[p].cert = "whole" THEN Signed(run[p].key) ELSE JunkCert
  /\ IF run[p].ca = "none" THEN Return(p, TRUE)
     ELSE Goto(p, "ca") /\ UNCHANGED mode
  /\ UNCHANGED <<key, ca, due, missed, run>>

OpenCA(p) ==
  /\ pc[p] = "ca"
  /\ ca' = "junk"
  /\ Goto(p, "cawrite")
  /\ UNCHANGED <<cert, key, mode, due, missed, run>>

WriteCA(p) ==
  /\ pc[p] = "cawrite"
  /\ ca' = run[p].ca
  /\ Return(p, TRUE)
  /\ UNCHANGED <<cert, key, due, missed, run>>

\* os.MkdirAll fails, or os.WriteFile: at its open the file is as it was, at
\* its write it has been truncated.  A key that loads is not written.
DiskFails(p) ==
  /\ "disk" \in Faults
  /\ pc[p] \in {"enroll", "key", "keywrite", "cert", "certwrite", "ca",
               "cawrite"}
  /\ pc[p] = "key" => key \notin KeyIds
  /\ Return(p, FALSE)
  /\ UNCHANGED <<files, due, missed, run>>

EnrollStep(p) ==
  \/ Enroll(p) \/ EnsureKey(p) \/ WriteKey(p) \/ Post(p)
  \/ OpenCert(p) \/ WriteCert(p) \/ OpenCA(p) \/ WriteCA(p)

-----------------------------------------------------------------------------
(* RenewCertIfExpiring, called by the daemon when certTicker fires.        *)

\* Slip: the days are not looked at.
RenewAlways ==
  /\ "daemon" \in Procs /\ pc["daemon"] = "idle" /\ due = 0
  /\ due' = Week
  /\ IF cert.form = "none" THEN UNCHANGED pc ELSE Goto("daemon", "rmkey")
  /\ UNCHANGED <<files, mode, missed, run>>

Renew ==
  /\ "daemon" \in Procs /\ pc["daemon"] = "idle" /\ due = 0
  /\ due' = Week
  /\ IF cert.form = "none" \/ Valid(RenewDays) THEN UNCHANGED pc
     ELSE Goto("daemon", "rmkey")
  /\ UNCHANGED <<files, mode, missed, run>>

\* An error of os.Remove is ignored.
RemoveKey ==
  /\ "daemon" \in Procs /\ pc["daemon"] = "rmkey"
  /\ key' \in {NoKey} \cup (IF "remove" \in Faults THEN {key} ELSE {})
  /\ Goto("daemon", "enroll")
  /\ UNCHANGED <<cert, ca, mode, due, missed, run>>

RenewStep == Renew \/ RemoveKey

-----------------------------------------------------------------------------
(* The TLS decision of install: port443 is VL_PORT=443, skip is            *)
(* FB_SKIP_MTLS=1.                                                         *)

CertsExist == cert.form /= "none" /\ key /= NoKey /\ ca /= "none"

Install(port443, skip) ==
  /\ "install" \in Procs /\ pc["install"] = "idle"
  /\ IF ~CertsExist /\ ~skip /\ ~port443
     THEN Goto("install", "enroll") /\ UNCHANGED mode
     ELSE /\ mode' = IF CertsExist THEN "mtls"
                     ELSE IF port443 THEN "cf-access" ELSE "off"
          /\ UNCHANGED pc
  /\ UNCHANGED <<files, due, missed, run>>

-----------------------------------------------------------------------------
(* Crashes, days and the specification.                                    *)

\* The daemon that is started again has a new ticker, and checks nothing
\* before it fires.
Crash(p) ==
  /\ "crash" \in Faults
  /\ Goto(p, "idle")
  /\ due' = IF p = "daemon" THEN Week ELSE due
  /\ UNCHANGED <<files, mode, missed, run>>

\* Bound: a run, whose requests time out after 15 s, ends within its day.
Day ==
  /\ Idle
  /\ ("daemon" \in Procs => due > 0)
  /\ due' = IF due > 0 THEN due - 1 ELSE due
  /\ cert' = IF cert.left >= 0 THEN [cert EXCEPT !.left = @ - 1] ELSE cert
  /\ UNCHANGED <<key, ca, mode, missed, pc, run>>

Work ==
  \/ \E p \in Procs : EnrollStep(p) \/ DiskFails(p) \/ Crash(p)
  \/ RenewStep
  \/ \E port443, skip \in BOOLEAN : Install(port443, skip)

Next == Work \/ Day

Spec == Init /\ [][Next]_vars

\* Days pass and a run of the daemon goes on to its end.
FairSpec ==
  /\ Spec
  /\ WF_vars(Day)
  /\ \A p \in Procs : WF_vars(EnrollStep(p))
  /\ WF_vars(RenewStep)

-----------------------------------------------------------------------------
(* Properties.                                                             *)

Usable == cert.form = "whole" /\ key = cert.key /\ ca = "whole"

\* Whatever step a run is stopped at, a certificate on disk is for the key
\* on disk: Fluent Bit, which loads both when it starts, can use the pair.
KeyMatches == cert.form = "whole" => key = cert.key

\* Between two runs of the daemon it is, as mtls.go:95 has it: the key is
\* removed so that EnrollCert makes a fresh one.
PairBetweenRuns == Idle => KeyMatches

\* A certificate with more than thirty days left keeps its key, and is kept
\* (mtls.go:92).
FreshCertKept == [][Valid(RenewDays) => key' = key /\ cert'.key = cert.key]_vars

\* Between two runs a host that has client.crt has a certificate in it that
\* has not passed its end, unless the last request brought none: as long as
\* the signing API gives certificates, the weekly check comes in time
\* (README.md:105, mtls.go:41).
NoLapse ==
  Idle /\ cert.form /= "none" /\ cert.left < 0 => missed > 0

\* A host with a certificate, even one that has ended or a text that is none,
\* comes back to a pair it can use for as long as the signing API gives a
\* certificate now and then.
Recovers == cert.form /= "none" ~> Usable /\ cert.left = Life

=============================================================================
