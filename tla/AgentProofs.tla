----------------------------- MODULE AgentProofs -----------------------------
(***************************************************************************)
(* Theorems about Agent: what EnrollmentProofs shows of the files on disk  *)
(* holds beside a Fluent Bit that uses them, and what Fluent Bit has       *)
(* loaded never outlives what was signed.                                  *)
(***************************************************************************)
EXTENDS Agent, EnrollmentProofs

USE DaysAssumption, KeyAssumption

\* Agent implements Enrollment: Fluent Bit only reads the files.
THEOREM ImplementsEnrollment == AgentSpec => Spec
<1>1. AgentInit => Init
  BY DEF AgentInit
<1>2. [AgentNext]_agentVars => [Next]_vars
  BY DEF AgentNext, Next, Work, RenewStep, Start, Stop, AgentDay, agentVars,
     vars
<1> QED
  BY <1>1, <1>2, PTL DEF AgentSpec, Spec

\* The files and what Fluent Bit has loaded of them keep their types.
THEOREM AgentTypeCorrect == AgentSpec => []AgentTypeOK
<1> DEFINE FbOK == fb \in [up : BOOLEAN, left : -1..Life]
<1>1. AgentInit => FbOK
  BY DEF AgentInit, Down
<1>2. TypeOK /\ FbOK /\ [AgentNext]_agentVars => FbOK'
  <2> SUFFICES ASSUME TypeOK, FbOK, [AgentNext]_agentVars PROVE FbOK'
    OBVIOUS
  <2>1. CASE Start
    BY <2>1 DEF Start, Loaded, TypeOK, Certs
  <2>2. CASE Stop
    BY <2>2 DEF Stop, Down
  <2>3. CASE AgentDay
    <3>1. CASE fb.left >= 0
      BY <2>3, <3>1 DEF AgentDay
    <3>2. CASE ~(fb.left >= 0)
      BY <2>3, <3>2 DEF AgentDay
    <3> QED
      BY <3>1, <3>2
  <2>4. CASE UNCHANGED fb
    BY <2>4
  <2> QED
    BY <2>1, <2>2, <2>3, <2>4 DEF AgentNext, agentVars
<1> QED
  BY <1>1, <1>2, ImplementsEnrollment, TypeCorrect, PTL
     DEF AgentSpec, AgentTypeOK

-----------------------------------------------------------------------------
(* The daemon alone.                                                       *)

\* On a host that was enrolled: a renewal has begun with thirty days or less,
\* and has the key that is on disk once it asks; outside of one the pair of a
\* certificate with more days than that is whole.  A CA it was given is one.
WindowInv ==
  mode = "mtls" =>
    /\ cert.form # "whole" => cert.left = -1
    /\ \A p \in Procs :
         /\ ca = "whole" \/ pc[p] = "cawrite"
         /\ pc[p] \in {"rmkey", "enroll", "key", "keywrite", "post"} =>
              cert.left <= RenewDays
         /\ pc[p] \in {"post", "cert", "certwrite"} => run[p].key = key
         /\ pc[p] \in {"cert", "certwrite"} => run[p].ca # "junk"
         /\ pc[p] \in {"ca", "cawrite"} => run[p].ca = "whole"
         /\ pc[p] \in {"idle", "ca", "cawrite"} /\ cert.left > RenewDays =>
              cert.form = "whole" /\ key = cert.key

LEMMA WindowKept ==
  ASSUME Procs = {"daemon"}, Faults \cap {"crash", "disk", "badca"} = {}
  PROVE  Spec => []WindowInv
<1>1. Init => WindowInv
  <2> SUFFICES ASSUME Init, mode = "mtls" PROVE WindowInv
    BY DEF WindowInv
  <2>1. /\ ca = "whole" /\ \A p \in Procs : pc[p] = "idle"
        /\ \E d \in RenewDays..Life :
             cert = [Signed(key) EXCEPT !.left = d]
    BY DEF Init
  <2>2. cert.form = "whole" /\ cert.key = key
    BY <2>1 DEF Signed
  <2> QED
    BY <2>1, <2>2 DEF WindowInv
<1>2. TypeOK /\ WindowInv /\ [Next]_vars => WindowInv'
  <2> SUFFICES ASSUME TypeOK, WindowInv, [Next]_vars PROVE WindowInv'
    OBVIOUS
  <2> USE DEF TypeOK, WindowInv, Goto, Return, files
  <2>1. ASSUME NEW p \in Procs, Enroll(p) PROVE WindowInv'
    <3>1. /\ pc[p] = "enroll" /\ pc'[p] \in {"idle", "key"}
          /\ UNCHANGED <<cert, key, ca, mode>> /\ \A q \in Procs : q = p
      BY <2>1 DEF Enroll, RequestFails
    <3>2. mode = "mtls" =>
            /\ cert.form # "whole" => cert.left = -1
            /\ ca = "whole" /\ cert.left <= RenewDays
      BY <3>1
    <3>3. ~(cert.left <= RenewDays /\ cert.left > RenewDays)
      BY DEF Certs
    <3> QED
      BY <3>1, <3>2, <3>3
  <2>2. ASSUME NEW p \in Procs, EnsureKey(p) PROVE WindowInv'
    <3>1. run[p] \in Runs /\ \A q \in Procs : q = p
      OBVIOUS
    <3>2. \A k : run' = [run EXCEPT ![p].key = k] => run'[p].key = k
      BY <3>1 DEF Runs
    <3> QED
      BY <2>2, <3>1, <3>2 DEF EnsureKey
  <2>3. ASSUME NEW p \in Procs, WriteKey(p) PROVE WindowInv'
    BY <2>3 DEF WriteKey
  <2>4. ASSUME NEW p \in Procs, Post(p) PROVE WindowInv'
    <3>1. /\ run'[p].key = run[p].key /\ UNCHANGED <<cert, key, ca, mode>>
          /\ pc'[p] \in {"cert", "idle"} /\ pc[p] = "post"
          /\ pc'[p] = "cert" => run'[p].ca # "junk"
          /\ \A q \in Procs : q = p
      BY <2>4, PostStep
    <3>3. mode = "mtls" =>
            /\ cert.form # "whole" => cert.left = -1
            /\ ca = "whole" /\ cert.left <= RenewDays /\ run[p].key = key
      BY <3>1
    <3>4. ~(cert.left <= RenewDays /\ cert.left > RenewDays)
      BY DEF Certs
    <3> QED
      BY <3>1, <3>3, <3>4
  <2>5. ASSUME NEW p \in Procs, OpenCert(p) PROVE WindowInv'
    BY <2>5 DEF OpenCert, JunkCert
  <2>6. ASSUME NEW p \in Procs, WriteCert(p) PROVE WindowInv'
    <3>1. run[p].ca \in {"none", "junk", "whole"}
      BY DEF Runs, CATexts
    <3> QED
      BY <2>6, <3>1 DEF WriteCert, Signed, JunkCert
  <2>7. ASSUME NEW p \in Procs, OpenCA(p) \/ WriteCA(p) PROVE WindowInv'
    BY <2>7 DEF OpenCA, WriteCA
  <2>8. ASSUME NEW p \in Procs, DiskFails(p) \/ Crash(p) PROVE WindowInv'
    BY <2>8 DEF DiskFails, Crash
  <2>9. CASE RenewStep
    <3>1. CASE Renew /\ pc' # pc
      <4>1. ~Valid(RenewDays) /\ pc' = [pc EXCEPT !["daemon"] = "rmkey"]
            /\ UNCHANGED <<cert, key, ca, mode, run>> /\ pc["daemon"] = "idle"
        BY <3>1 DEF Renew
      <4>2. mode = "mtls" => cert.left <= RenewDays
        BY <4>1 DEF Valid, Certs
      <4> QED
        BY <4>1, <4>2
    <3>2. CASE Renew /\ pc' = pc
      BY <3>2 DEF Renew
    <3>3. CASE RemoveKey
      BY <3>3 DEF RemoveKey
    <3> QED
      BY <2>9, <3>1, <3>2, <3>3 DEF RenewStep
  <2>10. ASSUME NEW port443 \in BOOLEAN, NEW skip \in BOOLEAN,
                Install(port443, skip)
         PROVE  WindowInv'
    BY <2>10 DEF Install
  <2>11. CASE Day
    <3>1. /\ UNCHANGED <<key, ca, mode, pc, run>>
          /\ \A p \in Procs : pc[p] = "idle"
      BY <2>11 DEF Day, Idle
    <3>2. /\ cert.left \in -1..Life /\ cert'.form = cert.form
          /\ cert'.key = cert.key
          /\ cert'.left = IF cert.left >= 0 THEN cert.left - 1 ELSE cert.left
      BY <2>11 DEF Day, Certs
    <3>3. mode = "mtls" =>
            /\ ca = "whole" /\ (cert.form # "whole" => cert.left = -1)
            /\ cert.left > RenewDays => cert.form = "whole" /\ key = cert.key
      BY <3>1
    <3>4. mode = "mtls" =>
            /\ cert'.form # "whole" => cert'.left = -1
            /\ cert'.left > RenewDays =>
                 cert'.form = "whole" /\ key' = cert'.key
      BY <3>1, <3>2, <3>3
    <3> QED
      BY <3>1, <3>3, <3>4
  <2>12. CASE UNCHANGED vars
    BY <2>12 DEF vars
  <2> QED
    BY <2>1, <2>2, <2>3, <2>4, <2>5, <2>6, <2>7, <2>8, <2>9, <2>10, <2>11,
       <2>12 DEF Next, Work, EnrollStep
<1> QED
  BY <1>1, <1>2, TypeCorrect, PTL DEF Spec

\* Whatever the API gives for a certificate and however often it fails, a
\* daemon that is not killed, whose disk takes what it writes, leaves Fluent
\* Bit without a pair to start with in the last thirty days of the certificate
\* only.  What the API gives for a CA, if it gives any, must be one.
THEOREM DownOnlyInWindow ==
  ASSUME Procs = {"daemon"}, Faults \cap {"crash", "disk", "badca"} = {}
  PROVE  AgentSpec => []DownInWindowOnly
<1>1. WindowInv => DownInWindowOnly
  BY DEF WindowInv, DownInWindowOnly, Idle, Startable, Usable
<1> QED
  BY <1>1, WindowKept, ImplementsEnrollment, PTL

\* What Fluent Bit has loaded is what is on disk, or has been replaced there, by
\* a new certificate or a text that is none, in its last days only.
LoadedInv ==
  /\ \A p \in Procs :
       /\ pc[p] \in {"key", "keywrite", "post", "cert"} /\ mode = "mtls" =>
            cert.left <= EnrollDays
       /\ pc[p] = "certwrite" => cert.form = "junk"
  /\ fb.up => mode = "mtls"
  /\ fb.left >= 0 =>
       /\ fb.up
       /\ \/ cert.left = fb.left
          \/ cert.left >= fb.left + (Life - EnrollDays)
          \/ fb.left <= EnrollDays /\ cert.form = "junk"
       /\ \A p \in Procs :
            pc[p] \in {"key", "keywrite", "post", "cert"} =>
              fb.left <= EnrollDays

LEMMA LoadedKept ==
  ASSUME Procs = {"daemon"}, Faults \cap {"crash", "disk", "badca"} = {}
  PROVE  AgentSpec => []LoadedInv
<1>1. AgentInit => LoadedInv
  BY DEF AgentInit, Init, Down, LoadedInv
<1>2. AgentTypeOK /\ WindowInv /\ LoadedInv /\ [AgentNext]_agentVars => LoadedInv'
  <2> SUFFICES ASSUME AgentTypeOK, WindowInv, LoadedInv, [AgentNext]_agentVars
               PROVE  LoadedInv'
    OBVIOUS
  <2> DEFINE d == "daemon"
             at == pc[d]
  <2>0. /\ Procs = {d} /\ cert.left \in -1..Life /\ fb.left \in -1..Life
        /\ EnrollDays < Life /\ EnrollDays \in Nat /\ Life \in Nat
    BY DEF AgentTypeOK, TypeOK, Certs
  <2> USE DEF AgentTypeOK, TypeOK, LoadedInv, Goto, Return, files
  <2>1. CASE Enroll(d) /\ UNCHANGED fb
    <3>1. CASE Valid(EnrollDays)
      BY <2>0, <2>1, <3>1 DEF Enroll, RequestFails
    <3>2. CASE ~Valid(EnrollDays)
      <4>1. mode = "mtls" => cert.left <= EnrollDays
        BY <2>0, <2>1, <3>2 DEF Valid, WindowInv
      <4>2. at = "enroll" /\ pc'[d] \in {"idle", "key"}
            /\ UNCHANGED <<cert, mode, fb>>
        BY <2>0, <2>1, <3>2 DEF Enroll, RequestFails
      <4> QED
        BY <2>0, <4>1, <4>2
    <3> QED
      BY <3>1, <3>2
  <2>2. CASE EnsureKey(d) /\ UNCHANGED fb
    BY <2>0, <2>2 DEF EnsureKey
  <2>3. CASE WriteKey(d) /\ UNCHANGED fb
    BY <2>0, <2>3 DEF WriteKey
  <2>4. CASE Post(d) /\ UNCHANGED fb
    <3>1. /\ at = "post" /\ pc'[d] \in {"idle", "cert"}
          /\ UNCHANGED <<cert, mode, fb>>
      BY <2>0, <2>4 DEF Post, RequestFails
    <3> QED
      BY <2>0, <3>1
  <2>5. CASE OpenCert(d) /\ UNCHANGED fb
    <3>1. /\ at = "cert" /\ pc'[d] = "certwrite" /\ UNCHANGED <<mode, fb>>
          /\ cert'.form = "junk" /\ cert'.left = -1
      BY <2>0, <2>5 DEF OpenCert, JunkCert
    <3> QED
      BY <2>0, <3>1
  <2>6. CASE WriteCert(d) /\ UNCHANGED fb
    <3>1. /\ pc[d] = "certwrite" /\ pc'[d] \in {"idle", "ca"}
          /\ UNCHANGED <<mode, fb>>
          /\ cert'.left = Life \/ cert'.form = "junk"
      BY <2>0, <2>6 DEF WriteCert, Signed, JunkCert
    <3>2. mode = "mtls" => cert.left = -1
      BY <2>0, <3>1 DEF WindowInv
    <3>3. fb.left >= 0 => fb.left <= EnrollDays
      BY <2>0, <3>1, <3>2
    <3> QED
      BY <2>0, <3>1, <3>3
  <2>7. CASE (OpenCA(d) \/ WriteCA(d)) /\ UNCHANGED fb
    BY <2>0, <2>7 DEF OpenCA, WriteCA
  <2>8. CASE (Renew \/ RemoveKey) /\ UNCHANGED fb
    BY <2>0, <2>8 DEF Renew, RemoveKey
  <2>9. CASE Start
    <3>1. /\ fb' = [up |-> TRUE, left |-> cert.left] /\ mode = "mtls"
          /\ cert.form = "whole" /\ UNCHANGED <<cert, pc, mode>>
      BY <2>9 DEF Start, Loaded, Startable, Usable, vars
    <3> QED
      BY <2>0, <3>1
  <2>10. CASE Stop
    BY <2>0, <2>10 DEF Stop, Down, vars
  <2>11. CASE AgentDay
    <3>1. /\ at = "idle" /\ UNCHANGED <<mode, pc>>
          /\ fb' = IF fb.left >= 0 THEN [fb EXCEPT !.left = @ - 1] ELSE fb
      BY <2>0, <2>11 DEF AgentDay, Day, Idle
    <3>2. /\ cert'.left = IF cert.left >= 0 THEN cert.left - 1 ELSE cert.left
          /\ cert'.form = cert.form
      BY <2>11 DEF AgentDay, Day, Certs
    <3>3. /\ fb'.up = fb.up
          /\ fb'.left = IF fb.left >= 0 THEN fb.left - 1 ELSE fb.left
      BY <3>1
    <3> QED
      BY <2>0, <3>1, <3>2, <3>3
  <2>12. CASE UNCHANGED agentVars
    BY <2>12 DEF agentVars
  <2> QED
    BY <2>0, <2>1, <2>2, <2>3, <2>4, <2>5, <2>6, <2>7, <2>8, <2>9, <2>10,
       <2>11, <2>12 DEF AgentNext, EnrollStep, DiskFails, Crash, Install
<1> QED
  BY <1>1, <1>2, AgentTypeCorrect, ImplementsEnrollment, WindowKept, PTL
     DEF AgentSpec

\* The day the certificate Fluent Bit runs with ends, a renewed pair is on
\* disk unless the last request brought no certificate, if the week between
\* two checks fits in the horizon of EnrollCert and the window of the renewal
\* leaves it out of a new certificate's first days.  The answers may be any
\* text for a certificate, also one that the code writes and calls a success;
\* of the CA they may only leave it out.
THEOREM ReplacedInTime ==
  ASSUME Procs = {"daemon"}, Faults \cap {"crash", "disk", "badca"} = {},
         Week <= EnrollDays, MaxMissed > 0, EnrollDays + RenewDays < Life
  PROVE  AgentSpec => ReplacedWhenItEnds
<1> DEFINE Replaced ==
             fb.left = 0 /\ fb'.left = -1 /\ fb'.up =>
               (Usable /\ cert.left >= 0)' \/ missed > 0
<1>1. AgentTypeOK /\ WindowInv /\ LapseInv /\ LoadedInv
        /\ [AgentNext]_agentVars => [Replaced]_agentVars
  <2> SUFFICES ASSUME AgentTypeOK, WindowInv, LapseInv, LoadedInv, AgentNext,
                      fb.left = 0, fb'.left = -1, fb'.up, ~(missed > 0)
               PROVE  (Usable /\ cert.left >= 0)'
    OBVIOUS
  <2> DEFINE d == "daemon"
  <2>1. /\ cert.left \in -1..Life /\ missed = 0 /\ due \in Nat
        /\ d \in Procs
    BY DEF AgentTypeOK, TypeOK, Certs
  <2>2. AgentDay
    <3>1. fb.up /\ ~(UNCHANGED fb)
      BY DEF LoadedInv
    <3>2. ~Start /\ ~Stop
      BY <3>1 DEF Start, Stop, Down
    <3> QED
      BY <3>1, <3>2 DEF AgentNext
  <2>3. pc[d] = "idle" /\ due > 0 /\ UNCHANGED <<key, ca>>
    BY <2>1, <2>2 DEF AgentDay, Day, Idle
  <2>4. mode = "mtls"
    BY DEF LoadedInv
  <2>5. cert.left = 0 \/ cert.left >= Life - EnrollDays
    <3>1. cert.form # "junk"
      BY <2>1, <2>3, <2>4 DEF LapseInv, WindowInv
    <3> QED
      BY <2>1, <2>3, <3>1 DEF LoadedInv
  <2>6. cert.left > RenewDays
    BY <2>1, <2>3, <2>4, <2>5 DEF LapseInv, WindowInv
  <2>7. Usable
    BY <2>1, <2>3, <2>4, <2>6 DEF WindowInv, Usable
  <2>8. /\ cert'.form = cert.form /\ cert'.key = cert.key
        /\ cert'.left = cert.left - 1
    BY <2>1, <2>2, <2>6 DEF AgentDay, Day, AgentTypeOK, TypeOK, Certs
  <2> QED
    BY <2>1, <2>3, <2>6, <2>7, <2>8 DEF Usable
<1> QED
  <2>1. Faults \cap {"crash", "disk"} = {}
    OBVIOUS
  <2>2. Spec => []LapseInv
    BY <2>1, LapseKept
  <2> QED
    BY <1>1, <2>2, AgentTypeCorrect, ImplementsEnrollment, WindowKept,
       LoadedKept, PTL DEF AgentSpec, ReplacedWhenItEnds

=============================================================================
