-------------------------------- MODULE Agent --------------------------------
(***************************************************************************)
(* The certificate and the Fluent Bit that uses it.  Fluent Bit reads      *)
(* client.crt, client.key and ca.crt when it starts, and never again:      *)
(* fluent-bit.conf names the three files (fluent-bit.conf.tmpl:64-68), the *)
(* daemon renews them (cmd/daemon.go:78-83) and restarts nothing.  A start *)
(* that cannot load them fails, and systemd tries again every ten seconds  *)
(* (the override of cmd/install.go:252-258).                               *)
(***************************************************************************)
EXTENDS Enrollment

VARIABLE
  fb  \* Fluent Bit: whether it is up, and the days its certificate has left

agentVars == <<cert, key, ca, mode, due, missed, pc, run, fb>>

Down == [up |-> FALSE, left |-> -1]

AgentTypeOK == TypeOK /\ fb \in [up : BOOLEAN, left : -1..Life]

Startable == mode = "mtls" /\ Usable

\* A certificate that has ended still loads; the server refuses it.
Loaded == [up |-> TRUE, left |-> cert.left]

AgentInit == Init /\ fb = Down

Start ==
  /\ ~fb.up /\ Startable
  /\ fb' = Loaded
  /\ UNCHANGED vars

\* A crash, a restart by hand, or a reboot.
Stop ==
  /\ fb.up
  /\ fb' = Down
  /\ UNCHANGED vars

\* Slip: the days go on after the last one.
AgentDayOn ==
  /\ ~fb.up => ~Startable
  /\ Day
  /\ fb' = [fb EXCEPT !.left = @ - 1]

\* systemd has restarted what can be restarted long before a day is over.
AgentDay ==
  /\ ~fb.up => ~Startable
  /\ Day
  /\ fb' = IF fb.left >= 0 THEN [fb EXCEPT !.left = @ - 1] ELSE fb

\* The steps of Enrollment: a Fluent Bit that runs notices none of them.
AgentNext ==
  \/ \E p \in Procs : EnrollStep(p) /\ UNCHANGED fb
  \/ \E p \in Procs : DiskFails(p) /\ UNCHANGED fb
  \/ \E p \in Procs : Crash(p) /\ UNCHANGED fb
  \/ Renew /\ UNCHANGED fb
  \/ RemoveKey /\ UNCHANGED fb
  \/ \E port443, skip \in BOOLEAN : Install(port443, skip) /\ UNCHANGED fb
  \/ Start
  \/ Stop
  \/ AgentDay

AgentSpec == AgentInit /\ [][AgentNext]_agentVars

AgentFairSpec ==
  /\ AgentSpec
  /\ SF_agentVars(AgentDay)
  /\ WF_agentVars(Start)
  /\ \A p \in Procs : WF_agentVars(EnrollStep(p) /\ UNCHANGED fb)
  /\ WF_agentVars(RenewStep /\ UNCHANGED fb)

-----------------------------------------------------------------------------
(* Properties.                                                             *)

\* Fluent Bit that is down between two runs has a pair to start with, but in
\* the last thirty days of the certificate on disk (mtls.go:92, mtls.go:96):
\* whatever the API does, the time without a key never reaches beyond them.
DownInWindowOnly ==
  Idle /\ mode = "mtls" /\ ~fb.up /\ cert.left > RenewDays => Startable

\* The day the certificate in use ends, the pair on disk has been renewed, or
\* the last request brought no certificate: it failed, or had an answer with
\* another text, which the code takes for a success (mtls.go:238).  But for
\* that a restart is all that is missing (daemon.go:83).
ReplacedWhenItEnds ==
  [][fb.left = 0 /\ fb'.left = -1 /\ fb'.up =>
       (Usable /\ cert.left >= 0)' \/ missed > 0]_agentVars

\* Fluent Bit, whenever it stops, comes back, even if it stops where the key
\* is missing.
BackUp == mode = "mtls" ~> fb.up

\* Fluent Bit that is restarted now and then has, now and then, a certificate
\* that has not ended: what the daemon renews gets used.
RestartsRefresh == mode = "mtls" /\ []<>~fb.up => []<>(fb.up /\ fb.left >= 0)

=============================================================================
