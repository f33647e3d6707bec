-------------------------- MODULE LogStreamProofs --------------------------
(***************************************************************************)
(* Theorems about LogStream, for every number of pipes, clients and lines  *)
(* and every capacity of the channels.                                     *)
(***************************************************************************)
EXTENDS LogStream, TLAPS

USE DEF Streaming, Waiting

\* What is appended to a sequence.
LEMMA Appending ==
  ASSUME NEW S, NEW q \in Seq(S), NEW e \in S
  PROVE  /\ Append(q, e) \in Seq(S)
         /\ Len(Append(q, e)) = Len(q) + 1
         /\ \A i \in 1..Len(q) : Append(q, e)[i] = q[i]
         /\ Append(q, e)[Len(q) + 1] = e
  OBVIOUS

\* Places in a channel, as sums of where a stream began, what it skipped and
\* what it got.
LEMMA OneFurther ==
  ASSUME NEW a \in Nat, NEW b \in Nat, NEW n \in Nat, NEW m \in Nat, a + b + n = m
  PROVE  a + b + (n + 1) = m + 1
  OBVIOUS

\* Counting entries: what a lagged receiver skips up to the oldest entry kept.
LEMMA SkipAhead ==
  ASSUME NEW a \in Nat, NEW b \in Nat, NEW n \in Nat, NEW m \in Nat, NEW o \in Nat,
         a + b + n = m, m < o
  PROVE  a + (b + (o - m)) + n = o /\ b + (o - m) \in Nat /\ b <= b + (o - m)
  OBVIOUS

\* Counting entries: at most is transitive.
LEMMA AtMost ==
  ASSUME NEW a \in Nat, NEW b \in Nat, NEW n \in Nat, a <= b, b <= n
  PROVE  a <= n
  OBVIOUS

\* Counting entries: what is forwarded later has a greater number.
LEMMA LaterIsBehind ==
  ASSUME NEW a \in Nat, NEW b \in Nat, NEW c \in Nat, NEW i \in Nat \ {0}, NEW j \in Nat \ {0},
         b <= c, i < j
  PROVE  a + b + i \in Nat \ {0} /\ a + c + j \in Nat \ {0} /\ a + b + i < a + c + j
  OBVIOUS

\* Where a lagged receiver goes on.
LEMMA OldestIsWithin ==
  ASSUME NEW S, NEW q \in Seq(S), NEW n \in Nat, n < Oldest(q)
  PROVE  Oldest(q) \in Nat /\ Oldest(q) <= Len(q)
  BY CapacityAssumption DEF Oldest

-----------------------------------------------------------------------------
(***************************************************************************)
(* Types.                                                                  *)
(***************************************************************************)

Stream == [status : {"none", "open", "closed"}, from : Nat, passed : Nat,
           skipped : Nat, got : Seq(Received)]

\* The first state is well typed.
LEMMA InitType == Init => TypeOK
  BY DEF Init, TypeOK

\* A client's receiver taking an entry or lagging keeps the types.
LEMMA DeliverType ==
  ASSUME TypeOK, NEW c \in Clients, Deliver(c)
  PROVE  TypeOK'
<1>1. stream \in [Clients -> Stream] /\ stream[c] \in Stream
  BY DEF TypeOK, Stream
<1>2. PICK r : r = stream[c]
  OBVIOUS
<1>3. CASE Lagged(forwarded, r.passed)
  <2> DEFINE o == Oldest(forwarded)
             new == [r EXCEPT !.skipped = @ + (o - r.passed), !.passed = o]
  <2>1. o \in Nat /\ r.passed \in Nat /\ r.passed < o
    BY <1>1, <1>2, <1>3, OldestIsWithin DEF TypeOK, Lagged, Stream
  <2>2. stream' = [stream EXCEPT ![c] = new]
    BY <1>2, <1>3 DEF Deliver
  <2> HIDE DEF o
  <2>3. new \in Stream
    <3>1. r.skipped + (o - r.passed) \in Nat
      BY <1>1, <1>2, <2>1 DEF Stream
    <3>2. r \in Stream
      BY <1>1, <1>2
    <3> QED
      BY <2>1, <3>1, <3>2 DEF Stream
  <2> QED
    BY <1>1, <2>2, <2>3, SMTT(30) DEF Deliver, TypeOK, Stream
<1>4. CASE ~Lagged(forwarded, r.passed)
  <2> DEFINE e == [line |-> forwarded[r.passed + 1], skipped |-> r.skipped]
             new == [r EXCEPT !.got = Append(@, e), !.passed = @ + 1]
  <2>1. r.passed + 1 \in 1..Len(forwarded)
    BY <1>1, <1>2 DEF Deliver, TypeOK, Stream
  <2>2. e \in Received
    BY <1>1, <1>2, <2>1 DEF TypeOK, Received, Stream
  <2>3. stream' = [stream EXCEPT ![c] = new]
    BY <1>2, <1>4 DEF Deliver
  <2> HIDE DEF e
  <2>4. Append(r.got, e) \in Seq(Received)
    BY <1>1, <1>2, <2>2, Appending DEF Stream
  <2>5. new \in Stream
    <3>1. r.passed + 1 \in Nat
      BY <1>1, <1>2 DEF Stream
    <3>2. r \in Stream
      BY <1>1, <1>2
    <3> QED
      BY <2>4, <3>1, <3>2 DEF Stream
  <2> QED
    BY <1>1, <2>3, <2>5, SMTT(30) DEF Deliver, TypeOK, Stream
<1> QED
  BY <1>3, <1>4

\* The forwarder passing an entry on, or lagging, keeps the types.
LEMMA ForwardType ==
  ASSUME TypeOK, Forward
  PROVE  TypeOK'
<1>1. CASE Lagged(sent, forwarder.passed)
  BY <1>1 DEF Forward, TypeOK
<1>2. CASE ~Lagged(sent, forwarder.passed)
  <2>1. sent[forwarder.passed + 1] \in Line
    BY DEF Forward, TypeOK
  <2>2. forwarded \in Seq(Line) /\ forwarded' = Append(forwarded, sent[forwarder.passed + 1])
    BY <1>2 DEF Forward, TypeOK
  <2>3. forwarded' \in Seq(Line)
    BY <2>1, <2>2, Appending
  <2>4. forwarder' \in [status : {"running", "lagged"}, passed : Nat]
    BY <1>2 DEF Forward, TypeOK
  <2> QED
    BY <2>3, <2>4 DEF Forward, TypeOK
<1> QED
  BY <1>1, <1>2

\* Every step keeps the types.
LEMMA TypeStep == TypeOK /\ [Next]_vars => TypeOK'
<1> SUFFICES ASSUME TypeOK, [Next]_vars PROVE TypeOK'
  OBVIOUS
<1>1. ASSUME NEW s \in Sources, WriteLine(s) PROVE TypeOK'
  BY <1>1 DEF WriteLine, TypeOK
<1>2. ASSUME NEW s \in Sources, CheckShutdown(s) PROVE TypeOK'
  BY <1>2 DEF CheckShutdown, TypeOK
<1>3. ASSUME NEW s \in Sources, ReadLine(s) PROVE TypeOK'
  <2>1. [source |-> s, number |-> taken[s] + 1] \in Line
    BY DEF TypeOK, Line
  <2> QED
    BY <1>3, <2>1, SMTT(30) DEF ReadLine, TypeOK
<1>4. ASSUME NEW s \in Sources, ReadFails(s) PROVE TypeOK'
  BY <1>4 DEF ReadFails, TypeOK
<1>5. ASSUME NEW c \in Clients, StreamLogs(c) PROVE TypeOK'
  <2>1. stream \in [Clients -> Stream] /\ Len(forwarded) \in Nat
    BY DEF TypeOK, Stream
  <2>2. stream' \in [Clients -> Stream]
    BY <1>5, <2>1 DEF StreamLogs, Stream
  <2> QED
    BY <1>5, <2>2 DEF StreamLogs, TypeOK, Stream
<1>6. ASSUME NEW c \in Clients, Leave(c) PROVE TypeOK'
  BY <1>6, ZenonT(40) DEF Leave, TypeOK
<1>7. CASE Shutdown
  BY <1>7 DEF Shutdown, TypeOK
<1>8. CASE NodeEnds
  BY <1>8, ZenonT(40) DEF NodeEnds, TypeOK
<1>9. CASE UNCHANGED vars
  BY <1>9 DEF vars, TypeOK
<1> QED
  BY <1>1, <1>2, <1>3, <1>4, <1>5, <1>6, <1>7, <1>8, <1>9, DeliverType, ForwardType
     DEF Next

\* The state keeps its types, whatever is written, read, dropped or closed.
THEOREM TypeCorrect == Spec => []TypeOK
  BY InitType, TypeStep, PTL DEF Spec

-----------------------------------------------------------------------------
(***************************************************************************)
(* Gaps.  What the forwarder has sent is a prefix of what it was sent,     *)
(* because it ends where it would skip something; and each stream knows    *)
(* how far it is: what it skipped and what it got add up.                  *)
(***************************************************************************)

ForwardedIsPrefix ==
  /\ forwarder.passed = Len(forwarded) /\ Len(forwarded) <= Len(sent)
  /\ \A i \in 1..Len(forwarded) : forwarded[i] = sent[i]

CountsAddUp ==
  \A c \in Clients :
    /\ stream[c].from + stream[c].skipped + Len(stream[c].got) = stream[c].passed
    /\ stream[c].passed <= Len(forwarded)

LinesAreInPlace ==
  \A c \in Clients : \A i \in 1..Len(stream[c].got) :
    /\ stream[c].got[i].skipped <= stream[c].skipped
    /\ sent[stream[c].from + stream[c].got[i].skipped + i] = stream[c].got[i].line

\* Later lines come with no fewer skipped ones.
SkipsGrow ==
  \A c \in Clients : \A i, j \in 1..Len(stream[c].got) :
    i < j => stream[c].got[i].skipped <= stream[c].got[j].skipped

\* What the readers have sent is in the order of each pipe.
SentInOrder ==
  /\ \A p \in 1..Len(sent) : sent[p].number <= taken[sent[p].source]
  /\ \A p, q \in 1..Len(sent) :
       p < q /\ sent[p].source = sent[q].source => sent[p].number < sent[q].number

FreshStreams ==
  \A c \in Clients : stream[c].status = "none" => stream[c].skipped = 0 /\ stream[c].got = <<>>

StreamInv == CountsAddUp /\ LinesAreInPlace /\ SkipsGrow /\ FreshStreams
LogInv == ForwardedIsPrefix /\ StreamInv /\ SentInOrder

\* Nothing is sent at first, so nothing is lost.
LEMMA InitInv == Init => LogInv
  BY DEF Init, LogInv, ForwardedIsPrefix, StreamInv, CountsAddUp, LinesAreInPlace, SkipsGrow,
         FreshStreams, SentInOrder

\* A reader appends to what was sent; nothing that was in place moves.
LEMMA ReadStep ==
  ASSUME TypeOK, LogInv, NEW s \in Sources, ReadLine(s)
  PROVE  LogInv'
<1> USE DEF LogInv, StreamInv
<1> DEFINE e == [source |-> s, number |-> taken[s] + 1]
<1>1. e \in Line /\ sent \in Seq(Line) /\ taken[s] \in Nat
  BY DEF TypeOK, Line
<1>2. /\ Len(sent') \in Nat /\ Len(sent') >= Len(sent)
      /\ \A i \in 1..Len(sent) : sent'[i] = sent[i]
  BY <1>1, Appending DEF ReadLine
<1>3. ForwardedIsPrefix'
  BY <1>1, <1>2 DEF ReadLine, TypeOK, ForwardedIsPrefix
<1>4. CountsAddUp' /\ SkipsGrow' /\ FreshStreams'
  BY DEF ReadLine, CountsAddUp, SkipsGrow, FreshStreams
<1>5. LinesAreInPlace'
  <2> SUFFICES ASSUME NEW c \in Clients, NEW i \in 1..Len(stream[c].got)
               PROVE  /\ stream[c].got[i].skipped <= stream[c].skipped
                      /\ sent'[stream[c].from + stream[c].got[i].skipped + i] = stream[c].got[i].line
    BY DEF ReadLine, LinesAreInPlace
  <2>1. stream[c] \in Stream /\ stream[c].got[i] \in Received
    BY DEF TypeOK, Stream
  <2>2. stream[c].from + stream[c].got[i].skipped + i \in 1..Len(sent)
    BY <1>1, <2>1, SMTT(30) DEF LinesAreInPlace, CountsAddUp, ForwardedIsPrefix, Stream, Received, TypeOK
  <2> QED
    BY <1>2, <2>2 DEF LinesAreInPlace
<1>6. SentInOrder'
  <2>1. CASE forwarder.status = "running"
    <3>1. /\ Len(sent') = Len(sent) + 1 /\ sent'[Len(sent) + 1] = e
          /\ \A i \in 1..Len(sent) : sent'[i] = sent[i] /\ sent[i] \in Line
      BY <1>1, <2>1, Appending DEF ReadLine
    <3>2. taken' = [taken EXCEPT ![s] = @ + 1]
      BY DEF ReadLine
    <3>3. \A i \in 1..Len(sent) : sent[i].source = s => sent[i].number < e.number
      BY <1>1, <3>1, SMTT(30) DEF SentInOrder, Line
    <3>4. \A p \in 1..Len(sent') : sent'[p].number <= taken'[sent'[p].source]
      <4> SUFFICES ASSUME NEW p \in 1..Len(sent') PROVE sent'[p].number <= taken'[sent'[p].source]
        OBVIOUS
      <4>1. taken \in [Sources -> Nat]
        BY DEF TypeOK
      <4>2. CASE p = Len(sent) + 1
        BY <1>1, <3>1, <3>2, <4>1, <4>2
      <4>3. CASE p # Len(sent) + 1
        <5>1. /\ p \in 1..Len(sent) /\ sent'[p] = sent[p] /\ sent[p] \in Line
              /\ sent[p].number <= taken[sent[p].source]
          BY <1>1, <3>1, <4>3 DEF SentInOrder
        <5>2. sent[p].source \in Sources /\ sent[p].number \in Nat
          BY <5>1 DEF Line
        <5>3. \A x \in Sources : taken'[x] \in Nat /\ taken[x] \in Nat /\ taken'[x] >= taken[x]
          BY <3>2, <4>1
        <5>4. taken'[sent[p].source] >= taken[sent[p].source] /\ taken[sent[p].source] \in Nat
              /\ taken'[sent[p].source] \in Nat
          BY <5>2, <5>3
        <5> QED
          BY <5>1, <5>2, <5>4
      <4> QED
        BY <4>2, <4>3
    <3> HIDE DEF e
    <3>5. \A p, q \in 1..Len(sent') :
            p < q /\ sent'[p].source = sent'[q].source => sent'[p].number < sent'[q].number
      <4> SUFFICES ASSUME NEW p \in 1..Len(sent'), NEW q \in 1..Len(sent'), p < q,
                          sent'[p].source = sent'[q].source
                   PROVE  sent'[p].number < sent'[q].number
        OBVIOUS
      <4>1. e.source = s
        BY DEF e
      <4>2. CASE q = Len(sent) + 1
        BY <1>1, <3>1, <3>3, <4>1, <4>2
      <4>3. CASE q # Len(sent) + 1
        BY <1>1, <3>1, <4>3 DEF SentInOrder
      <4> QED
        BY <4>2, <4>3
    <3> QED
      BY <3>4, <3>5 DEF SentInOrder
  <2>2. CASE forwarder.status # "running"
    <3>1. sent' = sent /\ \A i \in 1..Len(sent) : sent[i] \in Line
      BY <1>1, <2>2 DEF ReadLine
    <3>2. taken \in [Sources -> Nat] /\ taken' = [taken EXCEPT ![s] = @ + 1]
      BY DEF ReadLine, TypeOK
    <3>3. \A x \in Sources : taken'[x] \in Nat /\ taken[x] \in Nat /\ taken'[x] >= taken[x]
      BY <3>2
    <3>4. \A p \in 1..Len(sent) : sent[p].number <= taken'[sent[p].source]
      <4> TAKE p \in 1..Len(sent)
      <4>1. sent[p].source \in Sources /\ sent[p].number \in Nat
        BY <3>1 DEF Line
      <4>2. sent[p].number <= taken[sent[p].source]
        BY DEF SentInOrder
      <4>3. /\ taken'[sent[p].source] \in Nat /\ taken[sent[p].source] \in Nat
            /\ taken'[sent[p].source] >= taken[sent[p].source]
        BY <3>3, <4>1
      <4> QED
        BY <4>1, <4>2, <4>3
    <3> QED
      BY <3>1, <3>4 DEF SentInOrder
  <2> QED
    BY <2>1, <2>2
<1> QED
  BY <1>3, <1>4, <1>5, <1>6

\* What the forwarder does keeps the account of what each client lost.
LEMMA ForwardStep ==
  ASSUME TypeOK, LogInv, Forward
  PROVE  LogInv'
<1> USE DEF LogInv, StreamInv
<1>1. CASE Lagged(sent, forwarder.passed)
  <2>1. forwarder' = [forwarder EXCEPT !.status = "lagged"] /\ forwarded' = forwarded
    BY <1>1 DEF Forward
  <2> QED
    BY <2>1 DEF Forward, TypeOK, ForwardedIsPrefix, CountsAddUp, LinesAreInPlace, SkipsGrow,
                FreshStreams, SentInOrder
<1>2. CASE ~Lagged(sent, forwarder.passed)
  <2>1. /\ forwarder' = [forwarder EXCEPT !.passed = @ + 1]
        /\ forwarded' = Append(forwarded, sent[forwarder.passed + 1])
        /\ UNCHANGED <<sent, taken, stream>>
    BY <1>2 DEF Forward
  <2>2. /\ Len(forwarded) \in Nat /\ Len(sent) \in Nat /\ Len(forwarded) < Len(sent)
        /\ forwarder.passed = Len(forwarded)
        /\ sent[forwarder.passed + 1] \in Line /\ forwarded \in Seq(Line)
    BY DEF Forward, TypeOK, ForwardedIsPrefix
  <2>3. /\ Len(forwarded') = Len(forwarded) + 1
        /\ \A i \in 1..Len(forwarded) : forwarded'[i] = forwarded[i]
        /\ forwarded'[Len(forwarded) + 1] = sent[Len(forwarded) + 1]
    BY <2>1, <2>2, Appending
  <2>4. ForwardedIsPrefix'
    BY <2>1, <2>2, <2>3 DEF ForwardedIsPrefix, TypeOK
  <2>5. CountsAddUp'
    BY <2>1, <2>2, <2>3 DEF CountsAddUp, TypeOK
  <2> QED
    BY <2>1, <2>4, <2>5 DEF LinesAreInPlace, SkipsGrow, FreshStreams, SentInOrder
<1> QED
  BY <1>1, <1>2

\* A client that takes an item: the other streams are as they were.
LEMMA DeliverStep ==
  ASSUME TypeOK, LogInv, NEW c \in Clients, Deliver(c)
  PROVE  LogInv'
<1> USE DEF LogInv, StreamInv
<1>1. stream \in [Clients -> Stream] /\ stream[c] \in Stream /\ forwarded \in Seq(Line)
  BY DEF TypeOK, Stream
<1>2. PICK r : r = stream[c]
  OBVIOUS
<1>3. r \in Stream /\ r.got \in Seq(Received) /\ Len(r.got) \in Nat
  BY <1>1, <1>2 DEF Stream
<1>9. \A i \in 1..Len(r.got) : r.got[i].skipped \in Nat
  <2>1. \A i \in 1..Len(r.got) : r.got[i] \in Received
    BY <1>3
  <2> QED
    BY <2>1 DEF Received
<1>4. /\ r.from + r.skipped + Len(r.got) = r.passed /\ r.passed < Len(forwarded)
      /\ \A i \in 1..Len(r.got) :
           r.got[i].skipped <= r.skipped /\ sent[r.from + r.got[i].skipped + i] = r.got[i].line
      /\ \A i, j \in 1..Len(r.got) : i < j => r.got[i].skipped <= r.got[j].skipped
  BY <1>2 DEF CountsAddUp, LinesAreInPlace, SkipsGrow, Deliver
<1>5. UNCHANGED <<sent, taken, forwarded, forwarder>>
  BY DEF Deliver
<1>10. r.from + r.skipped + Len(r.got) = r.passed /\ r.passed < Len(forwarded)
  BY <1>4
<1>6. ASSUME NEW new, stream' = [stream EXCEPT ![c] = new],
             new.status # "none",
             /\ new.from + new.skipped + Len(new.got) = new.passed
             /\ new.passed <= Len(forwarded),
             \A i \in 1..Len(new.got) : /\ new.got[i].skipped <= new.skipped
                                        /\ sent[new.from + new.got[i].skipped + i] = new.got[i].line,
             \A i, j \in 1..Len(new.got) : i < j => new.got[i].skipped <= new.got[j].skipped
      PROVE  LogInv'
  <2>1. stream'[c] = new /\ \A d \in Clients \ {c} : stream'[d] = stream[d]
    BY <1>1, <1>6
  <2>2. CountsAddUp'
    BY <1>5, <1>6, <2>1 DEF CountsAddUp
  <2>3. LinesAreInPlace'
    BY <1>5, <1>6, <2>1 DEF LinesAreInPlace
  <2>4. SkipsGrow'
    BY <1>5, <1>6, <2>1 DEF SkipsGrow
  <2>5. FreshStreams'
    BY <1>6, <2>1 DEF FreshStreams
  <2> QED
    BY <1>5, <2>2, <2>3, <2>4, <2>5 DEF ForwardedIsPrefix, SentInOrder
<1>7. CASE Lagged(forwarded, r.passed)
  <2> DEFINE o == Oldest(forwarded)
             new == [r EXCEPT !.skipped = @ + (o - r.passed), !.passed = o]
  <2>1. o \in Nat /\ o <= Len(forwarded) /\ r.passed \in Nat /\ r.passed < o
    BY <1>1, <1>3, <1>7, OldestIsWithin DEF Lagged, Stream
  <2>2. stream' = [stream EXCEPT ![c] = new]
    BY <1>2, <1>7 DEF Deliver
  <2> HIDE DEF o
  <2>3. /\ new.from = r.from /\ new.got = r.got /\ new.passed = o
        /\ new.skipped = r.skipped + (o - r.passed) /\ new.status # "none"
    BY <1>2, <1>3 DEF Stream, Deliver
  <2>4. \A i \in 1..Len(r.got) : r.got[i].skipped \in Nat
    BY <1>9
  <2>5. r.from \in Nat /\ r.skipped \in Nat
    BY <1>3 DEF Stream
  <2> HIDE DEF new
  <2>9. /\ r.from + (r.skipped + (o - r.passed)) + Len(r.got) = o
        /\ r.skipped + (o - r.passed) \in Nat /\ r.skipped <= r.skipped + (o - r.passed)
    <3>1. Len(r.got) \in Nat /\ r.from + r.skipped + Len(r.got) = r.passed
      BY <1>3, <1>10
    <3>2. /\ r.from \in Nat /\ r.skipped \in Nat /\ r.passed \in Nat /\ o \in Nat
          /\ r.passed < o
      BY <2>1, <2>5
    <3>3. PICK a \in Nat, b \in Nat, n \in Nat, m \in Nat :
            a = r.from /\ b = r.skipped /\ n = Len(r.got) /\ m = r.passed
      BY <3>1, <3>2
    <3>4. a + b + n = m /\ o \in Nat /\ m < o
      BY <3>1, <3>2, <3>3
    <3>5. a + (b + (o - m)) + n = o /\ b + (o - m) \in Nat /\ b <= b + (o - m)
      BY <3>4, SkipAhead
    <3> QED
      BY <3>3, <3>5
  <2>6. new.from + new.skipped + Len(new.got) = new.passed /\ new.passed <= Len(forwarded)
    BY <2>1, <2>3, <2>9
  <2>7. \A i \in 1..Len(new.got) :
           new.got[i].skipped <= new.skipped /\ sent[new.from + new.got[i].skipped + i] = new.got[i].line
    <3>1. ASSUME NEW i \in 1..Len(r.got)
          PROVE  r.got[i].skipped <= r.skipped + (o - r.passed)
      <4>1. r.got[i].skipped <= r.skipped /\ r.got[i].skipped \in Nat
        BY <1>4, <2>4
      <4> QED
        BY <2>5, <2>9, <4>1, AtMost
    <3> QED
      BY <1>4, <2>3, <3>1, Zenon
  <2>8. \A i, j \in 1..Len(new.got) : i < j => new.got[i].skipped <= new.got[j].skipped
    BY <1>4, <2>3
  <2> QED
    BY <1>6, <2>2, <2>3, <2>6, <2>7, <2>8
<1>8. CASE ~Lagged(forwarded, r.passed)
  <2> DEFINE e == [line |-> forwarded[r.passed + 1], skipped |-> r.skipped]
             new == [r EXCEPT !.got = Append(@, e), !.passed = @ + 1]
  <2>1. stream' = [stream EXCEPT ![c] = new]
    BY <1>2, <1>8 DEF Deliver
  <2>2. r.from \in Nat /\ r.skipped \in Nat /\ r.passed \in Nat
    BY <1>3 DEF Stream
  <2>3. r.passed + 1 \in 1..Len(forwarded) /\ e \in Received
    BY <1>1, <1>4, <2>2, SMTT(30) DEF Received
  <2>4. e.skipped = r.skipped /\ e.line = sent[r.passed + 1]
    BY <2>3 DEF ForwardedIsPrefix
  <2> HIDE DEF e
  <2>5. /\ new.from = r.from /\ new.skipped = r.skipped /\ new.passed = r.passed + 1
        /\ new.got = Append(r.got, e) /\ new.status # "none"
    BY <1>2, <1>3 DEF Stream, Deliver
  <2> HIDE DEF new
  <2>6. /\ Len(new.got) = Len(r.got) + 1
        /\ \A i \in 1..Len(r.got) : new.got[i] = r.got[i] /\ r.got[i].skipped \in Nat
        /\ new.got[Len(r.got) + 1] = e
    BY <1>3, <1>9, <2>3, <2>5, Appending
  <2>7. new.from + new.skipped + Len(new.got) = new.passed /\ new.passed <= Len(forwarded)
    <3>1. Len(forwarded) \in Nat
      BY <1>1
    <3>2. r.from + r.skipped + (Len(r.got) + 1) = r.passed + 1
      BY <1>3, <1>10, <2>2, OneFurther
    <3>3. r.passed + 1 <= Len(forwarded)
      BY <1>10, <2>2, <3>1
    <3> QED
      BY <2>5, <2>6, <3>2, <3>3, Zenon
  <2>8. \A i \in 1..Len(new.got) :
           new.got[i].skipped <= new.skipped /\ sent[new.from + new.got[i].skipped + i] = new.got[i].line
    <3> SUFFICES ASSUME NEW i \in 1..Len(new.got)
                 PROVE  /\ new.got[i].skipped <= new.skipped
                        /\ sent[new.from + new.got[i].skipped + i] = new.got[i].line
      OBVIOUS
    <3>1. CASE i = Len(r.got) + 1
      <4>1. new.got[i].skipped = r.skipped
        BY <1>3, <2>4, <2>6, <3>1
      <4>2. new.from + new.got[i].skipped + i = r.passed + 1
        <5>1. r.from + r.skipped + (Len(r.got) + 1) = r.passed + 1
          BY <1>3, <1>10, <2>2, OneFurther
        <5> QED
          BY <2>5, <3>1, <4>1, <5>1, Zenon
      <4> QED
        BY <2>2, <2>4, <2>5, <2>6, <3>1, <4>1, <4>2
    <3>2. CASE i # Len(r.got) + 1
      BY <1>3, <1>4, <2>5, <2>6, <3>2
    <3> QED
      BY <3>1, <3>2
  <2>9. \A i, j \in 1..Len(new.got) : i < j => new.got[i].skipped <= new.got[j].skipped
    <3> SUFFICES ASSUME NEW i \in 1..Len(new.got), NEW j \in 1..Len(new.got), i < j
                 PROVE  new.got[i].skipped <= new.got[j].skipped
      OBVIOUS
    <3>1. i \in 1..Len(r.got)
      BY <1>3, <2>6
    <3>2. CASE j = Len(r.got) + 1
      BY <1>3, <1>4, <2>4, <2>6, <3>1, <3>2
    <3>3. CASE j # Len(r.got) + 1
      BY <1>3, <1>4, <2>6, <3>1, <3>3, SMTT(30)
    <3> QED
      BY <3>2, <3>3
  <2> QED
    BY <1>6, <2>1, <2>5, <2>7, <2>8, <2>9
<1> QED
  BY <1>7, <1>8

\* A client that subscribes starts from what is forwarded next.
LEMMA SubscribeStep ==
  ASSUME TypeOK, LogInv, NEW c \in Clients, StreamLogs(c)
  PROVE  LogInv'
<1> USE DEF LogInv, StreamInv
<1>1. stream \in [Clients -> Stream] /\ Len(forwarded) \in Nat
  BY DEF TypeOK, Stream
<1>2. UNCHANGED <<sent, taken, forwarded, forwarder>>
  BY DEF StreamLogs
<1>3. /\ stream'[c].got = <<>> /\ stream'[c].skipped = 0 /\ stream'[c].status = "open"
      /\ stream'[c].from = Len(forwarded) /\ stream'[c].passed = Len(forwarded)
      /\ \A d \in Clients \ {c} : stream'[d] = stream[d]
  BY <1>1 DEF StreamLogs, FreshStreams, Stream
<1>4. CountsAddUp'
  BY <1>1, <1>2, <1>3 DEF CountsAddUp
<1>5. LinesAreInPlace' /\ SkipsGrow' /\ FreshStreams'
  BY <1>2, <1>3, SMTT(30) DEF LinesAreInPlace, SkipsGrow, FreshStreams
<1> QED
  BY <1>2, <1>4, <1>5 DEF ForwardedIsPrefix, SentInOrder

\* Steps that change no stream but perhaps its status, and nothing that was
\* sent.
LEMMA OtherStep ==
  ASSUME TypeOK, LogInv, UNCHANGED <<sent, taken, forwarded, forwarder>>,
         \A c \in Clients :
           \/ stream'[c] = stream[c]
           \/ stream[c].status = "open" /\ stream'[c] = [stream[c] EXCEPT !.status = "closed"]
  PROVE  LogInv'
<1> USE DEF LogInv, StreamInv
<1>1. \A c \in Clients :
        /\ stream'[c].from = stream[c].from /\ stream'[c].passed = stream[c].passed
        /\ stream'[c].skipped = stream[c].skipped /\ stream'[c].got = stream[c].got
        /\ stream'[c].status = "none" => stream[c].status = "none"
  <2>1. \A c \in Clients : stream[c] \in Stream
    BY DEF TypeOK, Stream
  <2> QED
    BY <2>1, ZenonT(40) DEF Stream
<1>2. CountsAddUp' /\ LinesAreInPlace' /\ SkipsGrow' /\ FreshStreams'
  BY <1>1 DEF CountsAddUp, LinesAreInPlace, SkipsGrow, FreshStreams
<1> QED
  BY <1>2 DEF ForwardedIsPrefix, SentInOrder

\* Every step keeps the account of what each client lost.
LEMMA InvStep == TypeOK /\ LogInv /\ [Next]_vars => LogInv'
<1> SUFFICES ASSUME TypeOK, LogInv, [Next]_vars PROVE LogInv'
  OBVIOUS
<1>1. ASSUME NEW s \in Sources, WriteLine(s) \/ CheckShutdown(s) \/ ReadFails(s) PROVE LogInv'
  BY <1>1, OtherStep DEF WriteLine, CheckShutdown, ReadFails
<1>2. ASSUME NEW c \in Clients, Leave(c) PROVE LogInv'
  BY <1>2, OtherStep DEF Leave, TypeOK
<1>3. CASE Shutdown
  BY <1>3, OtherStep DEF Shutdown
<1>4. CASE NodeEnds
  BY <1>4, OtherStep DEF NodeEnds
<1>5. CASE UNCHANGED vars
  BY <1>5, OtherStep DEF vars
<1> QED
  BY <1>1, <1>2, <1>3, <1>4, <1>5, ReadStep, ForwardStep, DeliverStep, SubscribeStep DEF Next

\* The invariant gives GapsAreAnnounced.
LEMMA InvIsGaps == TypeOK /\ LogInv => GapsAreAnnounced
<1> SUFFICES ASSUME TypeOK, LogInv, NEW c \in Clients, NEW i \in 1..Len(stream[c].got)
             PROVE  LET at == stream[c].from + stream[c].got[i].skipped + i
                    IN  at <= Len(sent) /\ sent[at] = stream[c].got[i].line
  BY DEF GapsAreAnnounced
<1>1. stream[c] \in Stream /\ stream[c].got[i] \in Received /\ Len(sent) \in Nat
      /\ Len(forwarded) \in Nat
  BY DEF TypeOK, Stream
<1> QED
  BY <1>1, SMTT(30) DEF LogInv, StreamInv, CountsAddUp, LinesAreInPlace, ForwardedIsPrefix, Stream, Received

\* The invariant gives PipesStayInOrder.
LEMMA InvIsOrder == TypeOK /\ LogInv => PipesStayInOrder
<1> SUFFICES ASSUME TypeOK, LogInv, NEW c \in Clients,
                    NEW i \in 1..Len(stream[c].got), NEW j \in 1..Len(stream[c].got), i < j,
                    stream[c].got[i].line.source = stream[c].got[j].line.source
             PROVE  stream[c].got[i].line.number < stream[c].got[j].line.number
  BY DEF PipesStayInOrder
<1> DEFINE p == stream[c].from + stream[c].got[i].skipped + i
           q == stream[c].from + stream[c].got[j].skipped + j
<1>1. /\ stream[c] \in Stream
      /\ stream[c].got[i] \in Received /\ stream[c].got[j] \in Received
  BY DEF TypeOK, Stream
<1>2. p \in Nat \ {0} /\ q \in Nat /\ p < q
  <2>1. stream[c].got[i].skipped <= stream[c].got[j].skipped
    BY DEF LogInv, StreamInv, SkipsGrow
  <2>2. /\ stream[c].got[i].skipped \in Nat /\ stream[c].got[j].skipped \in Nat
        /\ stream[c].from \in Nat /\ i \in Nat \ {0} /\ j \in Nat \ {0}
    BY <1>1, SMTT(30) DEF Received, Stream
  <2> QED
    BY <2>1, <2>2, LaterIsBehind
<1>3. q <= Len(sent) /\ sent[p] = stream[c].got[i].line /\ sent[q] = stream[c].got[j].line
  BY InvIsGaps DEF GapsAreAnnounced
<1> HIDE DEF p, q
<1>4. Len(sent) \in Nat
  BY DEF TypeOK
<1>5. p \in 1..Len(sent) /\ q \in 1..Len(sent) /\ p < q
  BY <1>2, <1>3, <1>4
<1>6. sent[p].source = sent[q].source
  BY <1>3
<1>7. sent[p].number < sent[q].number
  BY <1>5, <1>6 DEF LogInv, SentInOrder
<1> QED
  BY <1>3, <1>7

\* Whatever the capacity of the channels, the number of pipes and of clients,
\* and however slow they are, a client is told of every line it does not get.
THEOREM NothingIsLostSilently == Spec => []GapsAreAnnounced
  BY InitType, InitInv, TypeStep, InvStep, InvIsGaps, PTL DEF Spec

\* The lines of a pipe come in order and once.
THEOREM Ordered == Spec => []PipesStayInOrder
  BY InitType, InitInv, TypeStep, InvStep, InvIsOrder, PTL DEF Spec

=============================================================================
