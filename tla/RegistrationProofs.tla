------------------------- MODULE RegistrationProofs -------------------------
(***************************************************************************)
(* Theorems about Registration, for any number of processes, changes of    *)
(* the host and late requests: type correctness, and that the server goes  *)
(* back in time only by a run that another one has overtaken.              *)
(***************************************************************************)
EXTENDS Registration, SequenceTheorems, TLAPS

-----------------------------------------------------------------------------
(* What the network does to the messages.                                  *)

\* t is what is left of s, in its order.
Thinned(t, s) ==
  \E f \in [DOMAIN t -> DOMAIN s] :
    /\ \A i, j \in DOMAIN t : i < j => f[i] < f[j]
    /\ \A i \in DOMAIN t : t[i] = s[f[i]]

\* The part of a sequence before and after its element k.
LEMMA BeforeIs ==
  ASSUME NEW S, NEW s \in Seq(S), NEW k \in 1..Len(s)
  PROVE  /\ SubSeq(s, 1, k - 1) \in Seq(S) /\ Len(SubSeq(s, 1, k - 1)) = k - 1
         /\ \A i \in 1..k - 1 : SubSeq(s, 1, k - 1)[i] = s[i]
<1>1. Len(s) \in Nat /\ \A i \in 1..Len(s) : s[i] \in S
  BY LenProperties, ElementOfSeq
<1>2. k - 1 \in Int /\ \A i \in 1..k - 1 : s[i] \in S
  BY <1>1
<1>3. /\ SubSeq(s, 1, k - 1) \in Seq(S)
      /\ Len(SubSeq(s, 1, k - 1)) = IF 1 <= k - 1 THEN (k - 1) - 1 + 1 ELSE 0
      /\ \A i \in 1..(k - 1) - 1 + 1 : SubSeq(s, 1, k - 1)[i] = s[1 + i - 1]
  BY <1>2, SubSeqProperties
<1>4. /\ (k - 1) - 1 + 1 = k - 1 /\ \A i \in Int : 1 + i - 1 = i
      /\ (IF 1 <= k - 1 THEN (k - 1) - 1 + 1 ELSE 0) = k - 1
  BY <1>1
<1> QED
  BY <1>3, <1>4

LEMMA AfterIs ==
  ASSUME NEW S, NEW s \in Seq(S), NEW k \in 1..Len(s)
  PROVE  LET t == SubSeq(s, k + 1, Len(s)) IN
         /\ t \in Seq(S) /\ Len(t) = Len(s) - k
         /\ \A i \in 1..Len(s) - k : t[i] = s[k + i]
<1> DEFINE n == Len(s)
           t == SubSeq(s, k + 1, n)
<1>1. n \in Nat /\ \A i \in 1..n : s[i] \in S
  BY LenProperties, ElementOfSeq
<1>2. k \in Int /\ k + 1 \in Int /\ \A i \in k + 1..n : s[i] \in S
  BY <1>1
<1> HIDE DEF n
<1>3. /\ t \in Seq(S) /\ Len(t) = IF k + 1 <= n THEN n - (k + 1) + 1 ELSE 0
      /\ \A i \in 1..n - (k + 1) + 1 : t[i] = s[(k + 1) + i - 1]
  BY <1>1, <1>2, SubSeqProperties
<1> HIDE DEF t
<1>4. k <= n
  BY DEF n
<1>5. /\ n - (k + 1) + 1 = n - k /\ \A i \in Int : (k + 1) + i - 1 = k + i
      /\ (IF k + 1 <= n THEN n - (k + 1) + 1 ELSE 0) = n - k
  BY <1>1, <1>2, <1>4
<1>6. ASSUME NEW i \in 1..n - k PROVE t[i] = s[k + i]
  <2>1. i \in 1..n - (k + 1) + 1 /\ (k + 1) + i - 1 = k + i
    BY <1>5
  <2> QED
    BY <1>3, <2>1
<1>7. t \in Seq(S) /\ Len(t) = n - k
  BY <1>3, <1>5
<1> QED
  BY <1>6, <1>7 DEF t, n

\* A sequence without its element k.
LEMMA WithoutIs ==
  ASSUME NEW S, NEW s \in Seq(S), NEW k \in 1..Len(s)
  PROVE  LET t == SubSeq(s, 1, k - 1) \o SubSeq(s, k + 1, Len(s)) IN
         /\ t \in Seq(S) /\ Len(t) = Len(s) - 1
         /\ \A i \in 1..Len(s) - 1 : t[i] = s[IF i < k THEN i ELSE i + 1]
<1> DEFINE a == SubSeq(s, 1, k - 1)
           b == SubSeq(s, k + 1, Len(s))
           n == Len(s)
<1>1. a \in Seq(S) /\ Len(a) = k - 1 /\ \A i \in 1..k - 1 : a[i] = s[i]
  BY BeforeIs
<1>2. b \in Seq(S) /\ Len(b) = n - k /\ \A i \in 1..n - k : b[i] = s[k + i]
  BY AfterIs
<1>3. n \in Nat /\ k \in 1..n
  BY LenProperties
<1> HIDE DEF a, b, n
<1>4. /\ a \o b \in Seq(S) /\ Len(a \o b) = Len(a) + Len(b)
      /\ \A i \in 1..Len(a) + Len(b) :
           (a \o b)[i] = IF i <= Len(a) THEN a[i] ELSE b[i - Len(a)]
  BY <1>1, <1>2, ConcatProperties
<1>5. Len(a) + Len(b) = n - 1
  BY <1>1, <1>2, <1>3
<1>6. ASSUME NEW i \in 1..n - 1
      PROVE  (a \o b)[i] = s[IF i < k THEN i ELSE i + 1]
  <2>1. CASE i < k
    BY <1>1, <1>3, <1>4, <1>5, <2>1
  <2>2. CASE ~(i < k)
    <3>1. i - Len(a) \in 1..n - k /\ k + (i - Len(a)) = i + 1
      BY <1>1, <1>3, <2>2
    <3>2. (a \o b)[i] = b[i - Len(a)]
      BY <1>1, <1>3, <1>4, <1>5, <2>2
    <3> QED
      BY <1>2, <2>2, <3>1, <3>2
  <2> QED
    BY <2>1, <2>2
<1> QED
  BY <1>4, <1>5, <1>6 DEF a, b, n

\* A message that is lost leaves the others as they are.
LEMMA LoseThins ==
  ASSUME NEW S, flight \in Seq(S), NEW k \in DOMAIN flight, Lose(k)
  PROVE  /\ flight' \in Seq(S) /\ Thinned(flight', flight)
         /\ \A i \in DOMAIN flight' :
              \E j \in DOMAIN flight : k /= j /\ flight'[i] = flight[j]
<1> DEFINE n == Len(flight)
           f == [i \in 1..n - 1 |-> IF i < k THEN i ELSE i + 1]
<1>1. n \in Nat /\ k \in 1..n /\ DOMAIN flight = 1..n
  BY LenProperties
<1>2. /\ flight' \in Seq(S) /\ Len(flight') = n - 1
      /\ \A i \in 1..n - 1 : flight'[i] = flight[IF i < k THEN i ELSE i + 1]
  BY <1>1, WithoutIs DEF Lose
<1>3. DOMAIN flight' = 1..n - 1
  BY <1>2, LenProperties
<1> HIDE DEF n
<1>4. f \in [DOMAIN flight' -> DOMAIN flight]
  BY <1>1, <1>3
<1>5. \A i, j \in 1..n - 1 : i < j => f[i] < f[j]
  BY <1>1
<1>6. \A i \in 1..n - 1 : flight'[i] = flight[f[i]] /\ k /= f[i]
  BY <1>1, <1>2
<1> QED
  BY <1>2, <1>3, <1>4, <1>5, <1>6 DEF Thinned

\* The messages stamped after one that arrives are left.
LEMMA ArriveThins ==
  ASSUME NEW S, flight \in Seq(S), NEW k \in DOMAIN flight, Arrive(k)
  PROVE  /\ flight' \in Seq(S) /\ Thinned(flight', flight)
         /\ \A i \in DOMAIN flight' :
              \E j \in DOMAIN flight : k < j /\ flight'[i] = flight[j]
<1> DEFINE n == Len(flight)
           f == [i \in 1..n - k |-> k + i]
<1>1. n \in Nat /\ k \in 1..n /\ DOMAIN flight = 1..n
  BY LenProperties
<1>2. /\ flight' \in Seq(S) /\ Len(flight') = n - k
      /\ \A i \in 1..n - k : flight'[i] = flight[k + i]
  BY <1>1, AfterIs DEF Arrive
<1>3. DOMAIN flight' = 1..n - k
  BY <1>2, LenProperties
<1> HIDE DEF n
<1>4. f \in [DOMAIN flight' -> DOMAIN flight]
  BY <1>1, <1>3
<1>5. \A i, j \in 1..n - k : i < j => f[i] < f[j]
  BY <1>1
<1>6. \A i \in 1..n - k : flight'[i] = flight[f[i]] /\ k < f[i]
  BY <1>1, <1>2
<1> QED
  BY <1>2, <1>3, <1>4, <1>5, <1>6 DEF Thinned

-----------------------------------------------------------------------------
(* Type correctness.                                                       *)

Busy == {"open", "write", "post"}
Steps == Busy \cup {"idle", "services"}

HostOK ==
  /\ facts \in 0..MaxFacts
  /\ up \in BOOLEAN /\ full \in BOOLEAN
  /\ port \in Ports /\ token \in BOOLEAN
  /\ file \in Content
  /\ shown \in [known : BOOLEAN, rec : Record]
  /\ pc \in [Procs -> Steps]
  /\ rec \in [Procs -> Record]

\* A process that has not given up on its message is still to post it, and
\* has one: so the message on its way is that of the run it is in.
FlightOK ==
  /\ flight \in Seq(Message)
  /\ \A i \in DOMAIN flight : flight[i].sent \/ pc[flight[i].by] \in Busy
  /\ \A i, j \in DOMAIN flight :
       ~flight[i].sent /\ ~flight[j].sent /\ flight[i].by = flight[j].by
         => i = j

LEMMA NoRecordTyped == NoRecord \in Record
  BY BoundAssumption DEF NoRecord, Record

LEMMA MessageOf ==
  ASSUME NEW s \in Seq(Message), NEW i \in DOMAIN s
  PROVE  s[i] \in Message /\ s[i].by \in Procs /\ s[i].rec \in Record
<1>1. s[i] \in Message
  BY LenProperties, ElementOfSeq
<1> QED
  BY <1>1 DEF Message

\* Messages that are lost leave the rest as it was, where a process goes on
\* only without one.
LEMMA ThinKeepsFlight ==
  ASSUME FlightOK, flight' \in Seq(Message), Thinned(flight', flight),
         \A q \in Procs : \/ pc'[q] = pc[q]
                          \/ \A i \in DOMAIN flight' : ~Mine(flight'[i], q)
  PROVE  FlightOK'
<1>1. PICK f \in [DOMAIN flight' -> DOMAIN flight] :
        /\ \A i, j \in DOMAIN flight' : i < j => f[i] < f[j]
        /\ \A i \in DOMAIN flight' : flight'[i] = flight[f[i]]
  BY DEF Thinned
<1>2. ASSUME NEW i \in DOMAIN flight', ~flight'[i].sent
      PROVE  pc'[flight'[i].by] \in Busy
  <2>1. flight'[i].by \in Procs
    BY MessageOf
  <2>2. pc[flight'[i].by] \in Busy
    BY <1>1, <1>2 DEF FlightOK
  <2> QED
    BY <1>2, <2>1, <2>2 DEF Mine
<1>3. ASSUME NEW i \in DOMAIN flight', NEW j \in DOMAIN flight',
             ~flight'[i].sent, ~flight'[j].sent,
             flight'[i].by = flight'[j].by, i /= j
      PROVE  FALSE
  <2>1. f[i] = f[j]
    BY <1>1, <1>3 DEF FlightOK
  <2>2. i \in Int /\ j \in Int /\ f[i] \in Int
    BY <1>1, LenProperties DEF FlightOK
  <2>3. i < j \/ j < i
    BY <1>3, <2>2
  <2> QED
    BY <1>1, <2>1, <2>2, <2>3
<1> QED
  BY <1>2, <1>3 DEF FlightOK

\* A process that has given up has no message.
LEMMA GiveUpThins ==
  ASSUME FlightOK, NEW p \in Procs, GiveUp(p)
  PROVE  /\ flight' \in Seq(Message) /\ Thinned(flight', flight)
         /\ \A i \in DOMAIN flight' : ~Mine(flight'[i], p)
<1>1. ASSUME NEW k \in DOMAIN flight, Mine(flight[k], p), Lose(k)
      PROVE  /\ flight' \in Seq(Message) /\ Thinned(flight', flight)
             /\ \A i \in DOMAIN flight' : ~Mine(flight'[i], p)
  <2>1. /\ flight' \in Seq(Message) /\ Thinned(flight', flight)
        /\ \A i \in DOMAIN flight' :
             \E j \in DOMAIN flight : k /= j /\ flight'[i] = flight[j]
    BY <1>1, LoseThins DEF FlightOK
  <2> QED
    BY <1>1, <2>1 DEF FlightOK, Mine
<1>2. CASE (\A i \in DOMAIN flight : ~Mine(flight[i], p)) /\ UNCHANGED flight
  <2>1. Thinned(flight, flight)
    <3> DEFINE f == [i \in DOMAIN flight |-> i]
    <3>1. f \in [DOMAIN flight -> DOMAIN flight]
      OBVIOUS
    <3> QED
      BY <3>1 DEF Thinned
  <2> QED
    BY <1>2, <2>1 DEF FlightOK
<1> QED
  BY <1>1, <1>2 DEF GiveUp

\* Nor has one whose message has arrived.
LEMMA PostThins ==
  ASSUME FlightOK, NEW p \in Procs, NEW k \in DOMAIN flight,
         Mine(flight[k], p), Arrive(k)
  PROVE  /\ flight' \in Seq(Message) /\ Thinned(flight', flight)
         /\ \A i \in DOMAIN flight' : ~Mine(flight'[i], p)
<1>1. /\ flight' \in Seq(Message) /\ Thinned(flight', flight)
      /\ \A i \in DOMAIN flight' :
           \E j \in DOMAIN flight : k < j /\ flight'[i] = flight[j]
  BY ArriveThins DEF FlightOK
<1>2. \A j \in DOMAIN flight : k < j => k /= j
  BY LenProperties DEF FlightOK
<1> QED
  BY <1>1, <1>2 DEF FlightOK, Mine

\* A message that is left to the network keeps its place and what it says.
LEMMA LeaveIs ==
  ASSUME FlightOK, NEW p \in Procs, Leave(p)
  PROVE  /\ flight' \in Seq(Message) /\ DOMAIN flight' = DOMAIN flight
         /\ \A i \in DOMAIN flight :
              /\ flight'[i].by = flight[i].by /\ flight'[i].rec = flight[i].rec
              /\ flight'[i].sent = (flight[i].sent \/ flight[i].by = p)
<1> DEFINE e(i) == IF Mine(flight[i], p) THEN [flight[i] EXCEPT !.sent = TRUE]
                   ELSE flight[i]
<1>1. DOMAIN flight = 1..Len(flight) /\ Len(flight) \in Nat
  BY LenProperties DEF FlightOK
<1>2. flight' = [i \in 1..Len(flight) |-> e(i)]
  BY <1>1 DEF Leave
<1>3. ASSUME NEW i \in DOMAIN flight
      PROVE  /\ e(i) \in Message /\ e(i).by = flight[i].by
             /\ e(i).rec = flight[i].rec
             /\ e(i).sent = (flight[i].sent \/ flight[i].by = p)
  <2>1. flight[i] \in Message
    BY MessageOf DEF FlightOK
  <2>2. CASE Mine(flight[i], p)
    BY <2>1, <2>2 DEF Message, Mine
  <2>3. CASE ~Mine(flight[i], p)
    BY <2>1, <2>3 DEF Message, Mine
  <2> QED
    BY <2>2, <2>3
<1> HIDE DEF e
<1>4. flight' \in Seq(Message)
  BY <1>1, <1>2, <1>3
<1> QED
  BY <1>1, <1>2, <1>3, <1>4

TInv == HostOK /\ FlightOK

\* What a step of Register does to the messages, and to where processes are.
LEMMA DoneIs ==
  ASSUME HostOK, NEW p \in Procs, Done(p)
  PROVE  /\ pc' \in [Procs -> Steps] /\ rec' \in [Procs -> Record]
         /\ pc'[p] = "idle" /\ rec'[p] = NoRecord
         /\ \A q \in Procs \ {p} : pc'[q] = pc[q] /\ rec'[q] = rec[q]
  BY NoRecordTyped DEF HostOK, Done, Goto, Steps

LEMMA GiveUpKeeps ==
  ASSUME TInv, NEW p \in Procs, GiveUp(p), Done(p)
  PROVE  FlightOK'
<1>1. /\ flight' \in Seq(Message) /\ Thinned(flight', flight)
      /\ \A i \in DOMAIN flight' : ~Mine(flight'[i], p)
  BY GiveUpThins DEF TInv
<1>2. \A q \in Procs \ {p} : pc'[q] = pc[q]
  BY DoneIs DEF TInv
<1> QED
  BY <1>1, <1>2, ThinKeepsFlight DEF TInv

LEMMA LeaveKeeps ==
  ASSUME TInv, NEW p \in Procs, Leave(p), Done(p)
  PROVE  FlightOK'
<1>1. /\ flight' \in Seq(Message) /\ DOMAIN flight' = DOMAIN flight
      /\ \A i \in DOMAIN flight :
           /\ flight'[i].by = flight[i].by /\ flight'[i].rec = flight[i].rec
           /\ flight'[i].sent = (flight[i].sent \/ flight[i].by = p)
  BY LeaveIs DEF TInv
<1>2. \A q \in Procs \ {p} : pc'[q] = pc[q]
  BY DoneIs DEF TInv
<1>3. \A i \in DOMAIN flight : flight[i].by \in Procs
  BY MessageOf DEF TInv, FlightOK
<1> QED
  BY <1>1, <1>2, <1>3 DEF TInv, FlightOK

\* The record that is stamped, and the message made of it.
LEMMA StampIs ==
  ASSUME TInv, NEW p \in Procs, Stamp(p)
  PROVE  /\ rec' \in [Procs -> Record]
         /\ rec'[p] = [rec[p] EXCEPT !.svc = facts]
         /\ \A q \in Procs \ {p} :
              rec'[q] = IF pc[q] = "services"
                        THEN [rec[q] EXCEPT !.alone = FALSE] ELSE rec[q]
         /\ flight' \in Seq(Message) /\ Len(flight) \in Nat
         /\ DOMAIN flight = 1..Len(flight)
         /\ DOMAIN flight' = 1..Len(flight) + 1
         /\ \A i \in 1..Len(flight) : flight'[i] = flight[i]
         /\ flight'[Len(flight) + 1] = [by |-> p, rec |-> rec'[p], sent |-> FALSE]
<1>1. rec' \in [Procs -> Record]
  BY DEF TInv, HostOK, Stamp, Record
<1>2. [by |-> p, rec |-> rec'[p], sent |-> FALSE] \in Message
  BY <1>1 DEF Message
<1>3. flight' = Append(flight, [by |-> p, rec |-> rec'[p], sent |-> FALSE])
  BY DEF Stamp
<1>4. /\ flight' \in Seq(Message) /\ Len(flight') = Len(flight) + 1
      /\ \A i \in 1..Len(flight) : flight'[i] = flight[i]
      /\ flight'[Len(flight) + 1] = [by |-> p, rec |-> rec'[p], sent |-> FALSE]
  BY <1>2, <1>3, AppendProperties DEF TInv, FlightOK
<1>5. /\ Len(flight) \in Nat /\ DOMAIN flight = 1..Len(flight)
      /\ DOMAIN flight' = 1..Len(flight')
  BY <1>4, LenProperties DEF TInv, FlightOK
<1> QED
  BY <1>1, <1>4, <1>5 DEF Stamp

LEMMA StampKeeps ==
  ASSUME TInv, NEW p \in Procs, Stamp(p)
  PROVE  FlightOK'
<1> DEFINE n == Len(flight)
<1>1. /\ flight' \in Seq(Message) /\ n \in Nat
      /\ DOMAIN flight = 1..n /\ DOMAIN flight' = 1..n + 1
      /\ \A i \in 1..n : flight'[i] = flight[i]
      /\ flight'[n + 1] = [by |-> p, rec |-> rec'[p], sent |-> FALSE]
  BY StampIs
<1> HIDE DEF n
<1>2. pc[p] = "services" /\ pc' = [pc EXCEPT ![p] = "open"]
  BY DEF Stamp, Goto
<1>3. \A i \in 1..n : flight[i].by \in Procs /\ (flight[i].by = p => flight[i].sent)
  BY <1>1, <1>2, MessageOf DEF TInv, FlightOK, Busy
<1>4. \A i \in 1..n + 1 : flight'[i].sent \/ pc'[flight'[i].by] \in Busy
  <2>1. pc'[p] \in Busy /\ flight'[n + 1].by = p
    BY <1>1, <1>2 DEF TInv, HostOK, Busy
  <2>2. ASSUME NEW i \in 1..n PROVE flight'[i].sent \/ pc'[flight'[i].by] \in Busy
    BY <1>1, <1>2, <1>3 DEF TInv, FlightOK
  <2> QED
    BY <1>1, <2>1, <2>2
<1>5. ASSUME NEW i \in 1..n + 1, NEW j \in 1..n + 1, ~flight'[i].sent,
             ~flight'[j].sent, flight'[i].by = flight'[j].by
      PROVE  i = j
  <2>1. CASE i \in 1..n /\ j \in 1..n
    BY <1>1, <1>5, <2>1 DEF TInv, FlightOK
  <2>2. CASE i = n + 1 \/ j = n + 1
    <3>1. flight'[n + 1].by = p
      BY <1>1
    <3> QED
      BY <1>1, <1>3, <1>5, <2>2, <3>1
  <2> QED
    BY <1>1, <2>1, <2>2
<1> QED
  BY <1>1, <1>4, <1>5 DEF FlightOK

LEMMA TypeStep == TInv /\ [Next]_vars => TInv'
<1> SUFFICES ASSUME TInv, [Next]_vars PROVE TInv'
  OBVIOUS
<1> USE DEF env
<1>1. ASSUME NEW p \in Procs, Begin(p) PROVE TInv'
  <2>1. rec' \in [Procs -> Record] /\ pc' \in [Procs -> Steps]
    BY <1>1 DEF TInv, HostOK, Begin, Goto, Record, Steps
  <2>2. FlightOK'
    <3>1. /\ UNCHANGED flight
          /\ \A q \in Procs : pc'[q] = pc[q] \/ pc[q] \notin Busy
      BY <1>1 DEF TInv, HostOK, Begin, Goto, Busy
    <3>2. \A i \in DOMAIN flight : flight[i].by \in Procs
      BY MessageOf DEF TInv, FlightOK
    <3> QED
      BY <3>1, <3>2 DEF TInv, FlightOK
  <2> QED
    BY <1>1, <2>1, <2>2 DEF TInv, HostOK, Begin
<1>2. ASSUME NEW p \in Procs, Stamp(p) PROVE TInv'
  <2>1. pc' \in [Procs -> Steps]
    BY <1>2 DEF TInv, HostOK, Stamp, Goto, Steps, Busy
  <2> QED
    BY <1>2, <2>1, StampIs, StampKeeps DEF TInv, HostOK, Stamp
<1>3. ASSUME NEW p \in Procs, SaveFails(p) PROVE TInv'
  <2>1. FlightOK'
    BY <1>3, GiveUpKeeps DEF SaveFails
  <2> QED
    BY <1>3, <2>1, DoneIs DEF TInv, HostOK, SaveFails
<1>4. ASSUME NEW p \in Procs, Open(p) \/ Write(p) PROVE TInv'
  <2>1. /\ UNCHANGED <<env, shown, flight, rec>> /\ pc' \in [Procs -> Steps]
        /\ \A q \in Procs : pc'[q] = pc[q] \/ pc'[q] \in Busy
    BY <1>4 DEF TInv, HostOK, Open, Write, Goto, Steps, Busy
  <2>2. file' \in Content
    BY <1>4, NoRecordTyped
       DEF TInv, HostOK, Open, Write, Content, File, Holds
  <2>3. FlightOK'
    <3>1. \A i \in DOMAIN flight : flight[i].by \in Procs
      BY MessageOf DEF TInv, FlightOK
    <3> QED
      BY <2>1, <3>1 DEF TInv, FlightOK
  <2> QED
    BY <2>1, <2>2, <2>3 DEF TInv, HostOK
<1>5. ASSUME NEW p \in Procs, Post(p) PROVE TInv'
  <2>1. Done(p) /\ UNCHANGED <<env, file>>
    BY <1>5 DEF Post
  <2>2. ASSUME NEW k \in DOMAIN flight, Mine(flight[k], p), Arrive(k)
        PROVE  FlightOK' /\ shown' \in [known : BOOLEAN, rec : Record]
    <3>1. FlightOK'
      BY <2>1, <2>2, PostThins, DoneIs, ThinKeepsFlight DEF TInv
    <3> QED
      BY <2>2, <3>1, MessageOf DEF Arrive, TInv, FlightOK
  <2>3. CASE /\ \A i \in DOMAIN flight : ~Mine(flight[i], p)
             /\ UNCHANGED <<shown, flight>>
    <3>1. GiveUp(p)
      BY <2>3 DEF GiveUp
    <3> QED
      BY <2>1, <2>3, <3>1, GiveUpKeeps, DoneIs DEF TInv, HostOK
  <2>4. CASE GiveUp(p) /\ UNCHANGED shown
    BY <2>1, <2>4, GiveUpKeeps, DoneIs DEF TInv, HostOK
  <2>5. CASE Leave(p) /\ UNCHANGED shown
    BY <2>1, <2>5, LeaveKeeps, DoneIs DEF TInv, HostOK
  <2>6. CASE \E k \in DOMAIN flight : Mine(flight[k], p) /\ Arrive(k)
    BY <2>1, <2>2, <2>6, DoneIs DEF TInv, HostOK
  <2> QED
    BY <1>5, <2>3, <2>4, <2>5, <2>6 DEF Post
<1>6. ASSUME NEW p \in Procs, Crash(p) PROVE TInv'
  <2>1. Done(p) /\ UNCHANGED <<env, file, shown>> /\ (GiveUp(p) \/ Leave(p))
    BY <1>6 DEF Crash
  <2>2. FlightOK'
    BY <2>1, GiveUpKeeps, LeaveKeeps
  <2> QED
    BY <2>1, <2>2, DoneIs DEF TInv, HostOK
<1>7. CASE Late
  <2>1. UNCHANGED <<env, file, pc, rec>>
    BY <1>7 DEF Late
  <2>2. ASSUME NEW k \in DOMAIN flight, Arrive(k)
        PROVE  FlightOK' /\ shown' \in [known : BOOLEAN, rec : Record]
    <3>1. FlightOK'
      BY <2>1, <2>2, ArriveThins, ThinKeepsFlight DEF TInv, FlightOK
    <3> QED
      BY <2>2, <3>1, MessageOf DEF Arrive, TInv, FlightOK
  <2>3. ASSUME NEW k \in DOMAIN flight, Lose(k) PROVE FlightOK'
    BY <2>1, <2>3, LoseThins, ThinKeepsFlight DEF TInv, FlightOK
  <2> QED
    BY <1>7, <2>1, <2>2, <2>3 DEF Late, TInv, HostOK
<1>8. CASE Change
  BY <1>8, BoundAssumption DEF Change, TInv, HostOK, FlightOK
<1>9. CASE Weather
  BY <1>9 DEF Weather, TInv, HostOK, FlightOK
<1>10. CASE UNCHANGED vars
  BY <1>10 DEF vars, TInv, HostOK, FlightOK
<1> QED
  BY <1>1, <1>2, <1>3, <1>4, <1>5, <1>6, <1>7, <1>8, <1>9, <1>10
     DEF Next, Register

LEMMA TypesInit == Init => TInv
<1> SUFFICES ASSUME Init PROVE TInv
  OBVIOUS
<1>1. FlightOK
  <2>1. flight = <<>> /\ Len(flight) = 0 /\ flight \in Seq(Message)
    BY EmptySeq DEF Init
  <2>2. DOMAIN flight = {}
    BY <2>1
  <2> QED
    BY <2>1, <2>2 DEF FlightOK
<1>2. file \in Content /\ shown \in [known : BOOLEAN, rec : Record]
  BY NoRecordTyped DEF Init, Content, File
<1>3. /\ pc \in [Procs -> Steps] /\ rec \in [Procs -> Record]
      /\ facts \in 0..MaxFacts
  BY NoRecordTyped, BoundAssumption DEF Init, Steps
<1>4. up \in BOOLEAN /\ full \in BOOLEAN /\ port \in Ports /\ token \in BOOLEAN
  BY DEF Init
<1> QED
  BY <1>1, <1>2, <1>3, <1>4 DEF TInv, HostOK

\* The records and messages keep their types, and a message that nobody has
\* given up on is that of a process which is still to post (register.go:88-224).
THEOREM TypeCorrect == Spec => []TypeOK
<1>1. TInv => TypeOK
  BY DEF TInv, HostOK, FlightOK, TypeOK, Steps, Busy
<1> QED
  BY <1>1, TypesInit, TypeStep, PTL DEF Spec

-----------------------------------------------------------------------------
(* The order of the records.                                               *)

\* s says nothing older than r does.
Older(r, s) == r.net <= s.net /\ r.svc <= s.svc

\* What r says has been so.
Past(r) == r.net <= facts /\ r.svc <= facts

\* All records are of the past; one during whose run none was stamped is no
\* older than any record stamped before it.  A run that has not stamped its
\* record, and none of the others has since it began, has seen at its
\* beginning all that those before it had seen.
OrderInv ==
  /\ \A p \in Procs : Past(rec[p])
  /\ shown.known => Past(shown.rec)
  /\ \A i \in DOMAIN flight :
       /\ Past(flight[i].rec)
       /\ shown.known /\ flight[i].rec.alone => Older(shown.rec, flight[i].rec)
  /\ \A i, j \in DOMAIN flight :
       i < j /\ flight[j].rec.alone => Older(flight[i].rec, flight[j].rec)
  /\ \A p \in Procs : pc[p] = "services" /\ rec[p].alone =>
       /\ shown.known => shown.rec.net <= rec[p].net
       /\ \A i \in DOMAIN flight : flight[i].rec.net <= rec[p].net

\* The part of it that is about the records on their way and shown.
StampedInv ==
  /\ shown.known => Past(shown.rec)
  /\ \A i \in DOMAIN flight :
       /\ Past(flight[i].rec)
       /\ shown.known /\ flight[i].rec.alone => Older(shown.rec, flight[i].rec)
  /\ \A i, j \in DOMAIN flight :
       i < j /\ flight[j].rec.alone => Older(flight[i].rec, flight[j].rec)

\* Every record that is shown or on its way has been so before.
Before ==
  /\ shown'.known => \/ shown.known /\ shown'.rec = shown.rec
                     \/ \E j \in DOMAIN flight : shown'.rec = flight[j].rec
  /\ \A i \in DOMAIN flight' :
       \E j \in DOMAIN flight : flight'[i].rec = flight[j].rec

\* Losing messages, or leaving them to the network, keeps the order.
LEMMA ThinKeepsOrder ==
  ASSUME OrderInv, UNCHANGED <<facts, shown>>, Thinned(flight', flight)
  PROVE  StampedInv' /\ Before
<1>1. PICK f \in [DOMAIN flight' -> DOMAIN flight] :
        /\ \A i, j \in DOMAIN flight' : i < j => f[i] < f[j]
        /\ \A i \in DOMAIN flight' : flight'[i] = flight[f[i]]
  BY DEF Thinned
<1>2. Before
  BY <1>1 DEF Before
<1>3. StampedInv'
  BY <1>1 DEF OrderInv, StampedInv, Past
<1> QED
  BY <1>2, <1>3

LEMMA LeaveKeepsOrder ==
  ASSUME TInv, OrderInv, NEW p \in Procs, Leave(p), UNCHANGED <<facts, shown>>
  PROVE  StampedInv' /\ Before
<1>1. /\ DOMAIN flight' = DOMAIN flight
      /\ \A i \in DOMAIN flight : flight'[i].rec = flight[i].rec
  BY LeaveIs DEF TInv
<1> QED
  BY <1>1 DEF OrderInv, StampedInv, Before, Past

\* The record that arrives is older than none of those that are left, and
\* not older than the one it replaces if its run was alone.
LEMMA ArriveKeepsOrder ==
  ASSUME TInv, OrderInv, NEW k \in DOMAIN flight, Arrive(k), UNCHANGED facts
  PROVE  /\ StampedInv' /\ Before
         /\ shown.known /\ shown'.rec.alone => Older(shown.rec, shown'.rec)
<1>1. /\ Thinned(flight', flight)
      /\ \A i \in DOMAIN flight' :
           \E j \in DOMAIN flight : k < j /\ flight'[i] = flight[j]
  BY ArriveThins DEF TInv, FlightOK
<1>2. PICK f \in [DOMAIN flight' -> DOMAIN flight] :
        /\ \A i, j \in DOMAIN flight' : i < j => f[i] < f[j]
        /\ \A i \in DOMAIN flight' : flight'[i] = flight[f[i]]
  BY <1>1 DEF Thinned
<1>3. shown'.known /\ shown'.rec = flight[k].rec
  BY DEF Arrive
<1>4. Before
  BY <1>2, <1>3 DEF Before
<1>5. StampedInv'
  BY <1>1, <1>2, <1>3 DEF OrderInv, StampedInv, Past
<1> QED
  BY <1>3, <1>4, <1>5 DEF OrderInv

\* A run that stamps nothing and begins nothing.
LEMMA OthersKeep ==
  ASSUME OrderInv, StampedInv', Before, UNCHANGED facts,
         \A p \in Procs : \/ rec'[p] = rec[p] /\ pc'[p] \in {pc[p], "idle"} \cup Busy
                          \/ rec'[p] = NoRecord /\ pc'[p] = "idle",
         facts \in Nat
  PROVE  OrderInv'
<1>1. \A p \in Procs : Past(rec[p])'
  BY DEF OrderInv, Past, NoRecord
<1>2. ASSUME NEW p \in Procs, pc'[p] = "services", rec'[p].alone
      PROVE  /\ shown'.known => shown'.rec.net <= rec'[p].net
             /\ \A i \in DOMAIN flight' : flight'[i].rec.net <= rec'[p].net
  <2>1. pc[p] = "services" /\ rec'[p] = rec[p]
    BY <1>2 DEF Busy
  <2> QED
    BY <1>2, <2>1 DEF OrderInv, Before
<1> QED
  BY <1>1, <1>2 DEF OrderInv, StampedInv

\* The record that is stamped says what is so now, and saw at the beginning
\* of its run what no record before it is newer than, if it was alone.
LEMMA StampKeepsOrder ==
  ASSUME TInv, OrderInv, NEW p \in Procs, Stamp(p)
  PROVE  OrderInv'
<1> DEFINE n == Len(flight)
<1>1. /\ rec'[p] = [rec[p] EXCEPT !.svc = facts]
      /\ \A q \in Procs \ {p} :
           rec'[q] = IF pc[q] = "services"
                     THEN [rec[q] EXCEPT !.alone = FALSE] ELSE rec[q]
      /\ n \in Nat /\ DOMAIN flight = 1..n /\ DOMAIN flight' = 1..n + 1
      /\ \A i \in 1..n : flight'[i] = flight[i]
      /\ flight'[n + 1] = [by |-> p, rec |-> rec'[p], sent |-> FALSE]
  BY StampIs
<1> HIDE DEF n
<1>2. /\ pc[p] = "services" /\ pc' = [pc EXCEPT ![p] = "open"]
      /\ UNCHANGED <<facts, shown>>
  BY DEF Stamp, Goto, env
<1>3. /\ \A q \in Procs : rec[q] \in Record
      /\ facts \in Nat /\ flight'[n + 1].rec = rec'[p]
  BY <1>1, BoundAssumption DEF TInv, HostOK
<1>4. /\ rec'[p].net = rec[p].net /\ rec'[p].svc = facts
      /\ rec'[p].alone = rec[p].alone
  BY <1>1, <1>3 DEF Record
<1>5. ASSUME NEW q \in Procs \ {p}
      PROVE  /\ rec'[q].net = rec[q].net /\ rec'[q].svc = rec[q].svc
             /\ pc'[q] = pc[q] /\ (pc[q] = "services" => ~rec'[q].alone)
  BY <1>1, <1>2, <1>3 DEF Record, TInv, HostOK
<1>6. \A q \in Procs : Past(rec[q])'
  <2>1. Past(rec[p])'
    BY <1>2, <1>3, <1>4 DEF OrderInv, Past
  <2>2. ASSUME NEW q \in Procs \ {p} PROVE Past(rec[q])'
    BY <1>2, <1>5 DEF OrderInv, Past
  <2> QED
    BY <2>1, <2>2
<1>7. (shown.known => Past(shown.rec))'
  BY <1>2 DEF OrderInv, Past
<1>8. ASSUME NEW i \in 1..n + 1
      PROVE  /\ flight'[i].rec.net <= facts /\ flight'[i].rec.svc <= facts
             /\ shown.known /\ flight'[i].rec.alone =>
                  Older(shown.rec, flight'[i].rec)
  <2>1. CASE i \in 1..n
    BY <1>1, <2>1 DEF OrderInv, Past
  <2>2. CASE i = n + 1
    BY <1>2, <1>3, <1>4, <1>6, <2>2 DEF OrderInv, Past, Older
  <2> QED
    BY <1>1, <2>1, <2>2
<1>9. ASSUME NEW i \in 1..n + 1, NEW j \in 1..n + 1,
             i < j, flight'[j].rec.alone
      PROVE  Older(flight'[i].rec, flight'[j].rec)
  <2>1. CASE j \in 1..n
    <3>1. i \in 1..n
      BY <1>1, <1>9, <2>1
    <3> QED
      BY <1>1, <1>9, <2>1, <3>1 DEF OrderInv
  <2>2. CASE j = n + 1
    <3>1. i \in 1..n
      BY <1>1, <1>9, <2>2
    <3>2. flight[i].rec.net <= rec[p].net /\ flight[i].rec.svc <= facts
      BY <1>1, <1>2, <1>3, <1>4, <1>9, <2>2, <3>1 DEF OrderInv, Past
    <3> QED
      BY <1>1, <1>3, <1>4, <2>2, <3>1, <3>2 DEF Older
  <2> QED
    BY <1>1, <2>1, <2>2
<1>10. \A q \in Procs : pc'[q] = "services" => ~rec'[q].alone
  BY <1>2, <1>5 DEF TInv, HostOK
<1> QED
  BY <1>1, <1>2, <1>6, <1>7, <1>8, <1>9, <1>10 DEF OrderInv, Past

\* What the server shows goes back only by a run that was not alone.
Forward ==
  shown.known /\ shown'.rec.alone =>
    /\ shown'.rec.net >= shown.rec.net
    /\ shown'.rec.svc >= shown.rec.svc

LEMMA OrderStep ==
  ASSUME TInv, OrderInv, [Next]_vars
  PROVE  OrderInv' /\ Forward
<1> USE DEF env
<1>1. /\ facts \in Nat /\ shown.known \in BOOLEAN
      /\ shown.rec.net \in Nat /\ shown.rec.svc \in Nat
  BY BoundAssumption DEF TInv, HostOK, Record
<1>2. UNCHANGED shown => Forward
  BY <1>1 DEF Forward
<1>3. ASSUME NEW k \in DOMAIN flight, Arrive(k), UNCHANGED facts PROVE Forward
  <2>1. shown.known /\ shown'.rec.alone => Older(shown.rec, shown'.rec)
    BY <1>3, ArriveKeepsOrder
  <2>2. shown'.rec.net \in Nat /\ shown'.rec.svc \in Nat
    <3>1. shown'.rec \in Record
      BY <1>3, MessageOf DEF Arrive, TInv, FlightOK
    <3> QED
      BY <3>1, BoundAssumption DEF Record
  <2> QED
    BY <1>1, <2>1, <2>2 DEF Forward, Older
<1>4. ASSUME NEW p \in Procs, Done(p), UNCHANGED facts, StampedInv', Before
      PROVE  OrderInv'
  BY <1>1, <1>4, DoneIs, OthersKeep DEF TInv
<1>5. ASSUME NEW p \in Procs, Done(p), UNCHANGED <<facts, shown>>,
             GiveUp(p) \/ Leave(p)
      PROVE  OrderInv'
  BY <1>4, <1>5, GiveUpThins, ThinKeepsOrder, LeaveKeepsOrder DEF TInv
<1>6. ASSUME NEW p \in Procs, Begin(p) PROVE OrderInv' /\ Forward
  <2>1. /\ rec' = [rec EXCEPT ![p] =
                     [net |-> facts, svc |-> facts, alone |-> TRUE]]
        /\ pc' = [pc EXCEPT ![p] = "services"]
        /\ UNCHANGED <<facts, shown, flight>>
    BY <1>6 DEF Begin, Goto
  <2>2. OrderInv'
    BY <1>1, <2>1 DEF OrderInv, Past, Older, TInv, HostOK
  <2> QED
    BY <1>2, <2>1, <2>2
<1>7. ASSUME NEW p \in Procs, Stamp(p) PROVE OrderInv' /\ Forward
  BY <1>2, <1>7, StampKeepsOrder DEF Stamp
<1>8. ASSUME NEW p \in Procs, SaveFails(p) PROVE OrderInv' /\ Forward
  BY <1>2, <1>5, <1>8 DEF SaveFails
<1>9. ASSUME NEW p \in Procs, Open(p) \/ Write(p) PROVE OrderInv' /\ Forward
  <2>1. /\ UNCHANGED <<facts, shown, flight, rec>>
        /\ \A q \in Procs : pc'[q] \in {pc[q]} \cup Busy
    BY <1>9 DEF Open, Write, Goto, Busy, TInv, HostOK
  <2>2. \A q \in Procs : pc'[q] = "services" => pc[q] = "services"
    BY <2>1 DEF Busy
  <2> QED
    BY <1>2, <2>1, <2>2 DEF OrderInv, Past
<1>10. ASSUME NEW p \in Procs, Post(p) PROVE OrderInv' /\ Forward
  <2>1. Done(p) /\ UNCHANGED facts
    BY <1>10 DEF Post
  <2>2. ASSUME NEW k \in DOMAIN flight, Arrive(k) PROVE OrderInv' /\ Forward
    BY <1>3, <1>4, <2>1, <2>2, ArriveKeepsOrder
  <2>3. CASE /\ \A i \in DOMAIN flight : ~Mine(flight[i], p)
             /\ UNCHANGED <<shown, flight>>
    BY <1>2, <1>5, <2>1, <2>3 DEF GiveUp
  <2>4. CASE (GiveUp(p) \/ Leave(p)) /\ UNCHANGED shown
    BY <1>2, <1>5, <2>1, <2>4
  <2> QED
    BY <1>10, <2>2, <2>3, <2>4 DEF Post
<1>11. ASSUME NEW p \in Procs, Crash(p) PROVE OrderInv' /\ Forward
  BY <1>2, <1>5, <1>11 DEF Crash
<1>12. CASE Late
  <2>1. UNCHANGED <<facts, pc, rec>>
    BY <1>12 DEF Late
  <2>2. ASSUME StampedInv', Before PROVE OrderInv'
    BY <1>1, <2>1, <2>2, OthersKeep
  <2>3. ASSUME NEW k \in DOMAIN flight, Arrive(k) PROVE OrderInv' /\ Forward
    BY <1>3, <2>1, <2>2, <2>3, ArriveKeepsOrder
  <2>4. ASSUME NEW k \in DOMAIN flight, Lose(k), UNCHANGED shown
        PROVE  OrderInv' /\ Forward
    BY <1>2, <2>1, <2>2, <2>4, LoseThins, ThinKeepsOrder DEF TInv, FlightOK
  <2> QED
    BY <1>12, <2>3, <2>4 DEF Late
<1>13. CASE Change
  <2>1. /\ facts' = facts + 1 /\ UNCHANGED <<shown, flight, pc, rec>>
    BY <1>13 DEF Change
  <2>2. \A r \in Record : Past(r) => r.net <= facts' /\ r.svc <= facts'
    BY <1>1, <2>1, BoundAssumption DEF Past, Record
  <2>3. /\ \A q \in Procs : rec[q] \in Record
        /\ shown.rec \in Record /\ \A i \in DOMAIN flight : flight[i].rec \in Record
    BY MessageOf DEF TInv, HostOK, FlightOK
  <2>4. OrderInv'
    BY <2>1, <2>2, <2>3 DEF OrderInv, Past
  <2> QED
    BY <1>2, <2>1, <2>4
<1>14. CASE Weather \/ UNCHANGED vars
  <2>1. UNCHANGED <<facts, shown, flight, pc, rec>>
    BY <1>14 DEF Weather, vars
  <2> QED
    BY <1>2, <2>1 DEF OrderInv, Past
<1> QED
  BY <1>6, <1>7, <1>8, <1>9, <1>10, <1>11, <1>12, <1>13, <1>14
     DEF Next, Register

\* For any number of processes, late requests and changes of the host: what
\* the server shows goes back in time only by a run during which another one
\* stamped its record (register.go:98, register.go:120).
THEOREM BackOnlyIfOvertaken == Spec => NotBackAlone
<1>1. Init => OrderInv
  BY DEF Init, OrderInv, Past, NoRecord
<1>2. TInv /\ OrderInv /\ [Next]_vars => OrderInv' /\ TInv'
  BY TypeStep, OrderStep
<1>3. TInv /\ OrderInv /\ [Next]_vars => [Forward]_vars
  BY OrderStep
<1> QED
  BY <1>1, <1>2, <1>3, TypesInit, PTL DEF Spec, NotBackAlone, Forward

=============================================================================
