-------------------------- MODULE EnrollmentProofs --------------------------
(***************************************************************************)
(* Theorems about Enrollment, for every length of the certificate's life,  *)
(* of the renewal window and of the week, and for every fault.             *)
(***************************************************************************)
EXTENDS Enrollment, TLAPS

USE ProcsAssumption, KeyAssumption, DaysAssumption, EnvAssumption
    DEF AllFaults

LEMMA CertTypes ==
  /\ NoCert \in Certs /\ JunkCert \in Certs
  /\ \A k \in KeyIds \cup {NoKey} : Signed(k) \in Certs
BY DEF NoCert, JunkCert, Signed, Certs

\* Init, without the day a certificate was signed on.
LEMMA InitCert ==
  ASSUME Init
  PROVE  /\ cert \in Certs /\ key \in KeyIds \cup {NoKey, JunkKey}
         /\ cert.form = "whole" => key = cert.key /\ key \in KeyIds
         /\ ca \in CATexts
         /\ mode \in {"none", "off", "mtls", "cf-access"}
<1>1. CASE cert = NoCert /\ key = NoKey /\ ca = "none" /\ mode = "none"
  BY <1>1, CertTypes DEF NoCert, CATexts
<1>2. CASE /\ \E k \in KeyIds : key = k
           /\ \E d \in RenewDays..Life :
                cert = [Signed(key) EXCEPT !.left = d]
           /\ ca = "whole" /\ mode = "mtls"
  <2>1. PICK d \in RenewDays..Life : cert = [Signed(key) EXCEPT !.left = d]
    BY <1>2
  <2>2. cert = [form |-> "whole", key |-> key, left |-> d] /\ key \in KeyIds
    BY <1>2, <2>1 DEF Signed
  <2>3. d \in -1..Life
    OBVIOUS
  <2> QED
    BY <1>2, <2>2, <2>3 DEF Certs, CATexts
<1> QED
  BY <1>1, <1>2 DEF Init

\* A request leaves the files and the key of the run alone; an answer with
\* another text than a certificate's is counted, and one with another text
\* than a CA's is a fault.
LEMMA PostStep ==
  ASSUME TypeOK, NEW p \in Procs, Post(p)
  PROVE  /\ pc[p] = "post" /\ pc'[p] \in {"cert", "idle"}
         /\ pc' = [pc EXCEPT ![p] = pc'[p]]
         /\ UNCHANGED <<cert, key, ca, due>>
         /\ mode' = IF pc'[p] = "cert" \/ p = "daemon" THEN mode ELSE "off"
         /\ missed' \in 0..MaxMissed
         /\ run' \in [Procs -> Runs] /\ run'[p].key = run[p].key
         /\ \A q \in Procs : q # p => run'[q] = run[q]
         /\ MaxMissed > 0 /\ (run'[p].cert = "junk" \/ pc'[p] = "idle") =>
              missed' > 0
         /\ "badca" \notin Faults /\ pc'[p] = "cert" => run'[p].ca # "junk"
<1> USE DEF TypeOK, Goto, Return, files
<1>1. pc[p] = "post" /\ UNCHANGED <<cert, key, ca, due>>
  BY DEF Post
<1>2. missed \in 0..MaxMissed /\ MaxMissed \in Nat
  OBVIOUS
<1>3. Missed => /\ missed' \in 0..MaxMissed
                /\ MaxMissed > 0 => missed' > 0
  BY <1>2 DEF Missed
<1>4. ASSUME RequestFails(p), UNCHANGED run
      PROVE  /\ pc' = [pc EXCEPT ![p] = "idle"] /\ Missed
             /\ mode' = IF p = "daemon" THEN mode ELSE "off"
  BY <1>4 DEF RequestFails
<1>5. ASSUME NEW c \in CertAnswers, NEW a \in CAAnswers,
             IF c = "whole" THEN missed' = 0 ELSE Missed,
             run' = [run EXCEPT ![p].cert = c, ![p].ca = a]
      PROVE  /\ run' \in [Procs -> Runs] /\ run'[p].key = run[p].key
             /\ \A q \in Procs : q # p => run'[q] = run[q]
             /\ missed' \in 0..MaxMissed
             /\ MaxMissed > 0 /\ run'[p].cert = "junk" => missed' > 0
             /\ "badca" \notin Faults => run'[p].ca # "junk"
  <2>1. c \in CertTexts /\ a \in CATexts
    BY DEF CertAnswers, CAAnswers, CertTexts, CATexts
  <2>2. run' = [run EXCEPT ![p] = [run[p] EXCEPT !.cert = c, !.ca = a]]
    BY <1>5
  <2>3. run[p] \in Runs
    OBVIOUS
  <2>4. /\ [run[p] EXCEPT !.cert = c, !.ca = a] \in Runs
        /\ [run[p] EXCEPT !.cert = c, !.ca = a].key = run[p].key
        /\ [run[p] EXCEPT !.cert = c, !.ca = a].cert = c
        /\ [run[p] EXCEPT !.cert = c, !.ca = a].ca = a
    BY <2>1, <2>3 DEF Runs
  <2>5. /\ run' \in [Procs -> Runs] /\ run'[p].key = run[p].key
        /\ run'[p].cert = c /\ run'[p].ca = a
        /\ \A q \in Procs : q # p => run'[q] = run[q]
    BY <2>2, <2>4
  <2>6. "badca" \notin Faults => a # "junk"
    BY DEF CAAnswers
  <2> QED
    BY <1>2, <1>3, <1>5, <2>5, <2>6
<1>6. CASE \E c \in CertAnswers, a \in CAAnswers :
             /\ IF c = "whole" THEN missed' = 0 ELSE Missed
             /\ run' = [run EXCEPT ![p].cert = c, ![p].ca = a]
             /\ Goto(p, "cert")
             /\ UNCHANGED mode
  <2>1. PICK c \in CertAnswers, a \in CAAnswers :
          /\ IF c = "whole" THEN missed' = 0 ELSE Missed
          /\ run' = [run EXCEPT ![p].cert = c, ![p].ca = a]
    BY <1>6
  <2>2. pc' = [pc EXCEPT ![p] = "cert"] /\ UNCHANGED mode
    BY <1>6
  <2>3. pc'[p] = "cert"
    BY <2>2
  <2> QED
    BY <1>1, <1>5, <2>1, <2>2, <2>3
<1>7. CASE RequestFails(p) /\ UNCHANGED run
  <2>1. pc'[p] = "idle"
    BY <1>4, <1>7
  <2> QED
    BY <1>1, <1>3, <1>4, <1>7, <2>1
<1> QED
  BY <1>6, <1>7 DEF Post

\* Every variable keeps its type, whoever runs and whatever fails.
THEOREM TypeCorrect == Spec => []TypeOK
<1>1. Init => TypeOK
  <2> SUFFICES ASSUME Init PROVE TypeOK
    OBVIOUS
  <2>1. due \in 0..Week /\ missed \in 0..MaxMissed
    BY DEF Init
  <2>2. /\ pc \in [Procs -> {"idle", "rmkey", "enroll", "key", "keywrite",
                             "post", "cert", "certwrite", "ca", "cawrite"}]
        /\ run \in [Procs -> Runs]
    BY DEF Init, Runs, CertTexts, CATexts
  <2> QED
    BY <2>1, <2>2, InitCert DEF TypeOK
<1>2. TypeOK /\ [Next]_vars => TypeOK'
  <2> SUFFICES ASSUME TypeOK, [Next]_vars PROVE TypeOK'
    OBVIOUS
  <2> USE DEF TypeOK, Goto, Return, files
  <2>1. ASSUME NEW p \in Procs, Enroll(p) PROVE TypeOK'
    BY <2>1 DEF Enroll, RequestFails, Missed
  <2>2. ASSUME NEW p \in Procs, EnsureKey(p) PROVE TypeOK'
    <3>1. PICK k \in KeyIds : run' = [run EXCEPT ![p].key = k]
      BY <2>2 DEF EnsureKey
    <3>2. run' \in [Procs -> Runs]
      BY <3>1 DEF Runs
    <3> QED
      BY <2>2, <3>2 DEF EnsureKey
  <2>3. ASSUME NEW p \in Procs, WriteKey(p) PROVE TypeOK'
    <3>1. run[p].key \in KeyIds \cup {NoKey}
      BY DEF Runs
    <3> QED
      BY <2>3, <3>1 DEF WriteKey
  <2>4. ASSUME NEW p \in Procs, Post(p) PROVE TypeOK'
    BY <2>4, PostStep
  <2>5. ASSUME NEW p \in Procs, OpenCert(p) PROVE TypeOK'
    BY <2>5, CertTypes DEF OpenCert
  <2>6. ASSUME NEW p \in Procs, WriteCert(p) PROVE TypeOK'
    <3>1. run[p].key \in KeyIds \cup {NoKey}
      BY DEF Runs
    <3> QED
      BY <2>6, <3>1, CertTypes DEF WriteCert
  <2>7. ASSUME NEW p \in Procs, OpenCA(p) PROVE TypeOK'
    BY <2>7 DEF OpenCA, CATexts
  <2>8. ASSUME NEW p \in Procs, WriteCA(p) PROVE TypeOK'
    <3>1. run[p].ca \in CATexts
      BY DEF Runs
    <3> QED
      BY <2>8, <3>1 DEF WriteCA
  <2>9. ASSUME NEW p \in Procs, DiskFails(p) PROVE TypeOK'
    BY <2>9 DEF DiskFails
  <2>10. ASSUME NEW p \in Procs, Crash(p) PROVE TypeOK'
    BY <2>10 DEF Crash
  <2>11. CASE RenewStep
    BY <2>11 DEF RenewStep, Renew, RemoveKey
  <2>12. ASSUME NEW port443 \in BOOLEAN, NEW skip \in BOOLEAN,
                Install(port443, skip)
         PROVE  TypeOK'
    BY <2>12 DEF Install
  <2>13. CASE Day
    <3>1. cert' \in Certs
      BY <2>13 DEF Day, Certs
    <3> QED
      BY <2>13, <3>1 DEF Day
  <2>14. CASE UNCHANGED vars
    BY <2>14 DEF vars
  <2> QED
    BY <2>1, <2>2, <2>3, <2>4, <2>5, <2>6, <2>7, <2>8, <2>9, <2>10, <2>11,
       <2>12, <2>13, <2>14 DEF Next, Work, EnrollStep
<1> QED
  BY <1>1, <1>2, PTL DEF Spec

-----------------------------------------------------------------------------
(* The installer alone.                                                    *)

\* The key a run works with is the one on disk; while a new one is written
\* there is no certificate it could belong to.
PairInv ==
  /\ KeyMatches
  /\ cert.form = "whole" => cert.key \in KeyIds
  /\ \A p \in Procs :
       /\ pc[p] \in {"post", "cert", "certwrite"} =>
            run[p].key = key /\ key \in KeyIds
       /\ pc[p] = "keywrite" => cert.form /= "whole" /\ run[p].key \in KeyIds

\* However an installation is stopped, and as often as it is tried again, a
\* certificate on disk is for the key on disk.
THEOREM InstallKeepsPair ==
  ASSUME Procs = {"install"} PROVE Spec => []KeyMatches
<1> USE DEF PairInv, KeyMatches
<1>1. Init => PairInv
  <2> SUFFICES ASSUME Init PROVE PairInv
    OBVIOUS
  <2>1. \A p \in Procs : pc[p] = "idle"
    BY DEF Init
  <2> QED
    BY <2>1, InitCert
<1>2. TypeOK /\ PairInv /\ [Next]_vars => PairInv'
  <2> SUFFICES ASSUME TypeOK, PairInv, [Next]_vars PROVE PairInv'
    OBVIOUS
  <2> USE DEF TypeOK, Goto, Return, files
  <2>1. ASSUME NEW p \in Procs, Enroll(p) PROVE PairInv'
    BY <2>1 DEF Enroll, RequestFails
  <2>2. ASSUME NEW p \in Procs, EnsureKey(p) PROVE PairInv'
    <3>1. run[p] \in Runs /\ \A q \in Procs : q = p
      OBVIOUS
    <3>2. \A k : run' = [run EXCEPT ![p].key = k] => run'[p].key = k
      BY <3>1 DEF Runs
    <3> QED
      BY <2>2, <3>1, <3>2 DEF EnsureKey
  <2>3. ASSUME NEW p \in Procs, WriteKey(p) PROVE PairInv'
    BY <2>3 DEF WriteKey
  <2>4. ASSUME NEW p \in Procs, Post(p) PROVE PairInv'
    <3>1. /\ run'[p].key = run[p].key /\ UNCHANGED <<cert, key>>
          /\ pc[p] = "post" /\ pc'[p] \in {"cert", "idle"}
          /\ \A q \in Procs : q = p
      BY <2>4, PostStep
    <3> QED
      BY <3>1
  <2>5. ASSUME NEW p \in Procs, OpenCert(p) PROVE PairInv'
    BY <2>5 DEF OpenCert, JunkCert
  <2>6. ASSUME NEW p \in Procs, WriteCert(p) PROVE PairInv'
    BY <2>6 DEF WriteCert, Signed, JunkCert
  <2>7. ASSUME NEW p \in Procs, OpenCA(p) PROVE PairInv'
    BY <2>7 DEF OpenCA
  <2>8. ASSUME NEW p \in Procs, WriteCA(p) PROVE PairInv'
    BY <2>8 DEF WriteCA
  <2>9. ASSUME NEW p \in Procs, DiskFails(p) \/ Crash(p) PROVE PairInv'
    BY <2>9 DEF DiskFails, Crash
  <2>10. CASE RenewStep
    BY <2>10 DEF RenewStep, Renew, RemoveKey
  <2>11. ASSUME NEW port443 \in BOOLEAN, NEW skip \in BOOLEAN,
                Install(port443, skip)
         PROVE  PairInv'
    BY <2>11 DEF Install
  <2>12. CASE Day
    BY <2>12 DEF Day, Idle, Certs
  <2>13. CASE UNCHANGED vars
    BY <2>13 DEF vars
  <2> QED
    BY <2>1, <2>2, <2>3, <2>4, <2>5, <2>6, <2>7, <2>8, <2>9, <2>10, <2>11,
       <2>12, <2>13 DEF Next, Work, EnrollStep
<1>3. PairInv => KeyMatches
  OBVIOUS
<1> QED
  BY <1>1, <1>2, <1>3, TypeCorrect, PTL DEF Spec

-----------------------------------------------------------------------------
(* The daemon alone.                                                       *)

\* A renewal under way has found thirty days or less, and nothing it has
\* done since has changed that but its own new certificate.
RenewInv ==
  \A p \in Procs :
    pc[p] \in {"rmkey", "enroll", "key", "keywrite", "post", "cert",
               "certwrite"} => ~Valid(RenewDays)

\* No step of such a run touches a certificate with more days than that.
RenewKeeps == Valid(RenewDays) => key' = key /\ cert'.key = cert.key

LEMMA RenewKept ==
  ASSUME Procs = {"daemon"} PROVE Spec => []RenewInv /\ [][RenewKeeps]_vars
<1>1. Init => RenewInv
  BY DEF Init, RenewInv
<1>2. TypeOK /\ RenewInv /\ [Next]_vars => RenewInv' /\ [RenewKeeps]_vars
  <2> SUFFICES ASSUME TypeOK, RenewInv, [Next]_vars
               PROVE  RenewInv' /\ (RenewKeeps \/ UNCHANGED vars)
    OBVIOUS
  <2> USE DEF RenewKeeps, TypeOK, RenewInv, Valid, Goto, Return, files
  <2>1. ASSUME NEW p \in Procs, Enroll(p) PROVE RenewInv' /\ RenewKeeps
    BY <2>1 DEF Enroll, RequestFails
  <2>2. ASSUME NEW p \in Procs, EnsureKey(p) PROVE RenewInv' /\ RenewKeeps
    BY <2>2 DEF EnsureKey
  <2>3. ASSUME NEW p \in Procs, WriteKey(p) PROVE RenewInv' /\ RenewKeeps
    BY <2>3 DEF WriteKey
  <2>4. ASSUME NEW p \in Procs, Post(p) PROVE RenewInv' /\ RenewKeeps
    BY <2>4 DEF Post, RequestFails
  <2>5. ASSUME NEW p \in Procs, OpenCert(p) PROVE RenewInv' /\ RenewKeeps
    BY <2>5 DEF OpenCert, JunkCert
  <2>6. ASSUME NEW p \in Procs, WriteCert(p) PROVE RenewInv' /\ RenewKeeps
    BY <2>6 DEF WriteCert
  <2>7. ASSUME NEW p \in Procs, OpenCA(p) \/ WriteCA(p)
        PROVE  RenewInv' /\ RenewKeeps
    BY <2>7 DEF OpenCA, WriteCA
  <2>8. ASSUME NEW p \in Procs, DiskFails(p) \/ Crash(p)
        PROVE  RenewInv' /\ RenewKeeps
    BY <2>8 DEF DiskFails, Crash
  <2>9. CASE RenewStep
    BY <2>9 DEF RenewStep, Renew, RemoveKey
  <2>10. ASSUME NEW port443 \in BOOLEAN, NEW skip \in BOOLEAN,
                Install(port443, skip)
         PROVE  RenewInv' /\ RenewKeeps
    BY <2>10 DEF Install
  <2>11. CASE Day
    BY <2>11 DEF Day, Idle, Certs
  <2>12. CASE UNCHANGED vars
    BY <2>12 DEF vars
  <2> QED
    BY <2>1, <2>2, <2>3, <2>4, <2>5, <2>6, <2>7, <2>8, <2>9, <2>10, <2>11,
       <2>12 DEF Next, Work, EnrollStep
<1> QED
  BY <1>1, <1>2, TypeCorrect, PTL DEF Spec

\* The daemon never removes or replaces the key of a certificate with more
\* than thirty days left, nor the certificate, whatever fails or crashes.
THEOREM RenewKeepsFresh ==
  ASSUME Procs = {"daemon"} PROVE Spec => FreshCertKept
BY RenewKept, PTL DEF FreshCertKept, RenewKeeps

\* A run of the daemon holds the key on disk from the request on, and the
\* certificate it then writes is for that key.
FreshPair ==
  /\ Valid(RenewDays) => key = cert.key
  /\ \A p \in Procs : pc[p] \in {"post", "cert", "certwrite"} => run[p].key = key

\* Whatever fails and whenever the daemon dies, a certificate with more than
\* thirty days left is for the key on disk: that the daemon may leave the two
\* in disagreement is a matter of the last thirty days.
THEOREM FreshPairMatches ==
  ASSUME Procs = {"daemon"}
  PROVE  Spec => [](Valid(RenewDays) => key = cert.key)
<1>1. Init => RenewInv /\ FreshPair
  <2> SUFFICES ASSUME Init PROVE FreshPair
    BY DEF Init, RenewInv
  <2>1. \A p \in Procs : pc[p] = "idle"
    BY DEF Init
  <2> QED
    BY <2>1, InitCert DEF FreshPair, Valid
<1>2. TypeOK /\ RenewInv /\ FreshPair /\ [Next]_vars => FreshPair'
  <2> SUFFICES ASSUME TypeOK, RenewInv, FreshPair, [Next]_vars PROVE FreshPair'
    OBVIOUS
  <2> USE DEF TypeOK, RenewInv, FreshPair, Valid, Goto, Return, files
  <2>1. ASSUME NEW p \in Procs, Enroll(p) PROVE FreshPair'
    BY <2>1 DEF Enroll, RequestFails
  <2>2. ASSUME NEW p \in Procs, EnsureKey(p) PROVE FreshPair'
    <3>1. run[p] \in Runs /\ \A q \in Procs : q = p
      OBVIOUS
    <3>2. \A k : run' = [run EXCEPT ![p].key = k] => run'[p].key = k
      BY <3>1 DEF Runs
    <3> QED
      BY <2>2, <3>1, <3>2 DEF EnsureKey
  <2>3. ASSUME NEW p \in Procs, WriteKey(p) PROVE FreshPair'
    BY <2>3 DEF WriteKey
  <2>4. ASSUME NEW p \in Procs, Post(p) PROVE FreshPair'
    <3>1. /\ run'[p].key = run[p].key /\ UNCHANGED <<cert, key>>
          /\ pc[p] = "post" /\ pc'[p] \in {"cert", "idle"}
          /\ \A q \in Procs : q = p
      BY <2>4, PostStep
    <3> QED
      BY <3>1
  <2>5. ASSUME NEW p \in Procs, OpenCert(p) PROVE FreshPair'
    BY <2>5 DEF OpenCert, JunkCert
  <2>6. ASSUME NEW p \in Procs, WriteCert(p) PROVE FreshPair'
    BY <2>6 DEF WriteCert, Signed, JunkCert
  <2>7. ASSUME NEW p \in Procs, OpenCA(p) \/ WriteCA(p) PROVE FreshPair'
    BY <2>7 DEF OpenCA, WriteCA
  <2>8. ASSUME NEW p \in Procs, DiskFails(p) \/ Crash(p) PROVE FreshPair'
    BY <2>8 DEF DiskFails, Crash
  <2>9. CASE RenewStep
    BY <2>9 DEF RenewStep, Renew, RemoveKey
  <2>10. ASSUME NEW port443 \in BOOLEAN, NEW skip \in BOOLEAN,
                Install(port443, skip)
         PROVE  FreshPair'
    BY <2>10 DEF Install
  <2>11. CASE Day
    BY <2>11 DEF Day, Idle, Certs
  <2>12. CASE UNCHANGED vars
    BY <2>12 DEF vars
  <2> QED
    BY <2>1, <2>2, <2>3, <2>4, <2>5, <2>6, <2>7, <2>8, <2>9, <2>10, <2>11,
       <2>12 DEF Next, Work, EnrollStep
<1>3. FreshPair => (Valid(RenewDays) => key = cert.key)
  BY DEF FreshPair
<1> QED
  BY <1>1, <1>2, <1>3, TypeCorrect, RenewKept, PTL DEF Spec

\* Between two runs there are as many days left as there are to the next
\* check, unless a request has brought no certificate; a run that has asked,
\* and has an answer with another text, has counted it.
LapseInv ==
  \A p \in Procs :
    /\ pc[p] = "idle" /\ cert.form /= "none" /\ missed = 0 => cert.left >= due
    /\ pc[p] \in {"cert", "certwrite"} /\ run[p].cert = "junk" => missed > 0
    /\ pc[p] \in {"ca", "cawrite"} /\ missed = 0 => cert.left = Life

LEMMA LapseKept ==
  ASSUME Procs = {"daemon"}, Faults \cap {"crash", "disk"} = {},
         Week <= EnrollDays, MaxMissed > 0
  PROVE  Spec => []LapseInv
<1>1. Init => LapseInv
  <2> SUFFICES ASSUME Init PROVE LapseInv
    OBVIOUS
  <2>1. due = Week /\ \A p \in Procs : pc[p] = "idle"
    BY DEF Init
  <2>2. cert.form /= "none" => cert.left >= Week
    <3>1. CASE cert = NoCert
      BY <3>1 DEF NoCert
    <3>2. CASE \E d \in RenewDays..Life :
                 cert = [Signed(key) EXCEPT !.left = d]
      BY <3>2 DEF Signed
    <3> QED
      BY <3>1, <3>2 DEF Init
  <2> QED
    BY <2>1, <2>2 DEF LapseInv
<1>2. TypeOK /\ LapseInv /\ [Next]_vars => LapseInv'
  <2> SUFFICES ASSUME TypeOK, LapseInv, [Next]_vars PROVE LapseInv'
    OBVIOUS
  <2> USE DEF TypeOK, LapseInv, Goto, Return, files
  <2>1. ASSUME NEW p \in Procs, Enroll(p) PROVE LapseInv'
    BY <2>1 DEF Enroll, RequestFails, Missed, Valid, Certs
  <2>2. ASSUME NEW p \in Procs, EnsureKey(p) PROVE LapseInv'
    BY <2>2 DEF EnsureKey
  <2>3. ASSUME NEW p \in Procs, WriteKey(p) PROVE LapseInv'
    BY <2>3 DEF WriteKey
  <2>4. ASSUME NEW p \in Procs, Post(p) PROVE LapseInv'
    <3>1. /\ pc[p] = "post" /\ pc'[p] \in {"cert", "idle"}
          /\ run'[p].cert = "junk" \/ pc'[p] = "idle" => missed' > 0
          /\ \A q \in Procs : q = p
      BY <2>4, PostStep
    <3> QED
      BY <3>1
  <2>5. ASSUME NEW p \in Procs, OpenCert(p) PROVE LapseInv'
    BY <2>5 DEF OpenCert
  <2>6. ASSUME NEW p \in Procs, WriteCert(p) PROVE LapseInv'
    <3>1. run[p].cert \in {"junk", "whole"}
      BY DEF Runs, CertTexts
    <3>2. missed' = 0 => cert'.left = Life
      BY <2>6, <3>1 DEF WriteCert, Signed
    <3>3. pc'[p] \in {"idle", "ca"} /\ due' = due /\ \A q \in Procs : q = p
      BY <2>6 DEF WriteCert
    <3> QED
      BY <3>2, <3>3
  <2>7. ASSUME NEW p \in Procs, OpenCA(p) PROVE LapseInv'
    BY <2>7 DEF OpenCA
  <2>8. ASSUME NEW p \in Procs, WriteCA(p) PROVE LapseInv'
    BY <2>8 DEF WriteCA
  <2>9. ASSUME NEW p \in Procs, DiskFails(p) \/ Crash(p) PROVE LapseInv'
    BY <2>9 DEF DiskFails, Crash
  <2>10. CASE RenewStep
    BY <2>10 DEF RenewStep, Renew, RemoveKey, Valid, Certs
  <2>11. ASSUME NEW port443 \in BOOLEAN, NEW skip \in BOOLEAN,
                Install(port443, skip)
         PROVE  LapseInv'
    BY <2>11 DEF Install
  <2>12. CASE Day
    <3>1. /\ due \in Nat /\ due > 0 /\ due' = due - 1
          /\ \A p \in Procs : pc[p] = "idle" /\ pc'[p] = "idle"
          /\ missed' = missed
      BY <2>12 DEF Day, Idle
    <3>2. /\ cert.left \in -1..Life /\ cert'.form = cert.form
          /\ cert'.left = IF cert.left >= 0 THEN cert.left - 1 ELSE cert.left
      BY <2>12 DEF Day, Certs
    <3> QED
      BY <3>1, <3>2
  <2>13. CASE UNCHANGED vars
    BY <2>13 DEF vars
  <2> QED
    BY <2>1, <2>2, <2>3, <2>4, <2>5, <2>6, <2>7, <2>8, <2>9, <2>10, <2>11,
       <2>12, <2>13 DEF Next, Work, EnrollStep
<1> QED
  BY <1>1, <1>2, TypeCorrect, PTL DEF Spec

\* A daemon that is not restarted, whose disk takes what it writes, lets a
\* certificate lapse, or another text stand in its place, only after a request
\* that brought none, if the week between two checks is no longer than the
\* horizon of EnrollCert.
THEOREM WeeklyIsEnough ==
  ASSUME Procs = {"daemon"}, Faults \cap {"crash", "disk"} = {},
         Week <= EnrollDays, MaxMissed > 0
  PROVE  Spec => []NoLapse
<1>1. TypeOK /\ LapseInv => NoLapse
  BY DEF TypeOK, LapseInv, NoLapse, Idle, Certs
<1> QED
  BY <1>1, LapseKept, TypeCorrect, PTL

=============================================================================
