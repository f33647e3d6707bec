------------------------------ MODULE LogStream ------------------------------
(***************************************************************************)
(* Log streaming: TigerBeetle writes lines to stdout and stderr, a reader  *)
(* task per pipe broadcasts them (process.rs), a forwarder re-broadcasts   *)
(* them in the form of the protocol (main.rs), and each StreamLogs call    *)
(* has a receiver of its own (grpc_service.rs).                            *)
(*                                                                         *)
(* A broadcast channel is the sequence of what was sent to it, of which it *)
(* keeps the last Capacity values.  What is sent while nobody listens is   *)
(* lost.  A receiver is the number of values it has passed.                *)
(***************************************************************************)
EXTENDS Naturals, Sequences, Functions

CONSTANTS Sources,  \* the child's pipes
          Clients,  \* calls of StreamLogs
          Capacity, \* of both channels (1024)
          MaxLines  \* bound on the lines of the child

ASSUME CapacityAssumption == Capacity \in Nat \ {0} /\ MaxLines \in Nat

VARIABLES written,   \* pipe -> lines that the child has written
          taken,     \* pipe -> lines that its reader has taken out
          reader,    \* pipe -> where its reader is
          node,      \* "up", "shutdown" once Ctrl-C has come, "gone"
          sent,      \* the channel of the process manager
          forwarder, \* [status, passed]
          forwarded, \* the channel of the node
          stream     \* client -> [status, from, passed, skipped, got]

vars == <<written, taken, reader, node, sent, forwarder, forwarded, stream>>

Line == [source : Sources, number : Nat \ {0}]

\* A line that a client got, with the number of lines that the notices before
\* it have announced as skipped.
Received == [line : Line, skipped : Nat]

Oldest(channel) == IF Len(channel) > Capacity THEN Len(channel) - Capacity ELSE 0
Lagged(channel, passed) == passed < Oldest(channel)
Waiting(channel, passed) == passed < Len(channel)

Streaming(c) == stream[c].status = "open"

Init ==
  /\ written = [s \in Sources |-> 0] /\ taken = written
  /\ reader = [s \in Sources |-> "check"]
  /\ node = "up"
  /\ sent = <<>> /\ forwarder = [status |-> "running", passed |-> 0]
  /\ forwarded = <<>>
  /\ stream = [c \in Clients |->
                 [status |-> "none", from |-> 0, passed |-> 0, skipped |-> 0, got |-> <<>>]]

(***************************************************************************)
(* The child and its readers.                                              *)
(***************************************************************************)

LinesWritten == FoldFunction(+, 0, written)

WriteLine(s) ==
  /\ node # "gone" /\ LinesWritten < MaxLines
  /\ written' = [written EXCEPT ![s] = @ + 1]
  /\ UNCHANGED <<taken, reader, node, sent, forwarder, forwarded, stream>>

\* The flag is looked at between two lines only.
CheckShutdown(s) ==
  /\ node # "gone" /\ reader[s] = "check"
  /\ reader' = [reader EXCEPT ![s] = IF node = "shutdown" THEN "ended" ELSE "read"]
  /\ UNCHANGED <<written, taken, node, sent, forwarder, forwarded, stream>>

\* Mutant: the buffer is not cleared, and the line comes again.
ReadLineUncleared(s) ==
  /\ node # "gone" /\ reader[s] = "read" /\ taken[s] < written[s]
  /\ sent' = Append(sent, [source |-> s, number |-> taken[s] + 1])
  /\ \E more \in {0, 1} : taken' = [taken EXCEPT ![s] = @ + more]
  /\ reader' = [reader EXCEPT ![s] = "check"]
  /\ Len(sent) < 2 * MaxLines
  /\ UNCHANGED <<written, node, forwarder, forwarded, stream>>

\* The forwarder is the only one that listens.
ReadLine(s) ==
  /\ node # "gone" /\ reader[s] = "read" /\ taken[s] < written[s]
  /\ taken' = [taken EXCEPT ![s] = @ + 1]
  /\ sent' = IF forwarder.status = "running"
             THEN Append(sent, [source |-> s, number |-> taken[s] + 1])
             ELSE sent
  /\ reader' = [reader EXCEPT ![s] = "check"]
  /\ UNCHANGED <<written, node, forwarder, forwarded, stream>>

\* A line that cannot be read, one that is not UTF-8 for instance.
ReadFails(s) ==
  /\ node # "gone" /\ reader[s] = "read" /\ taken[s] < written[s]
  /\ reader' = [reader EXCEPT ![s] = "ended"]
  /\ UNCHANGED <<written, taken, node, sent, forwarder, forwarded, stream>>

(***************************************************************************)
(* The forwarder.                                                          *)
(***************************************************************************)

\* Mutant: the forwarder goes on after it has lagged, as the streams do.
ForwardOnwards ==
  /\ node # "gone" /\ forwarder.status = "running" /\ Waiting(sent, forwarder.passed)
  /\ IF Lagged(sent, forwarder.passed)
     THEN forwarder' = [forwarder EXCEPT !.passed = Oldest(sent)] /\ UNCHANGED forwarded
     ELSE /\ forwarder' = [forwarder EXCEPT !.passed = @ + 1]
          /\ forwarded' = Append(forwarded, sent[forwarder.passed + 1])
  /\ UNCHANGED <<written, taken, reader, node, sent, stream>>

\* Mutant: the forwarder stops when it finds that no client listens.
ForwardWhileHeard ==
  /\ node # "gone" /\ forwarder.status = "running" /\ Waiting(sent, forwarder.passed)
  /\ IF Lagged(sent, forwarder.passed)
     THEN forwarder' = [forwarder EXCEPT !.status = "lagged"] /\ UNCHANGED forwarded
     ELSE /\ forwarder' = [status |-> IF \E c \in Clients : Streaming(c) THEN "running" ELSE "ended",
                           passed |-> forwarder.passed + 1]
          /\ forwarded' = Append(forwarded, sent[forwarder.passed + 1])
  /\ UNCHANGED <<written, taken, reader, node, sent, stream>>

\* Err(_) => break, whether the error is Closed or Lagged.
Forward ==
  /\ node # "gone" /\ forwarder.status = "running" /\ Waiting(sent, forwarder.passed)
  /\ IF Lagged(sent, forwarder.passed)
     THEN forwarder' = [forwarder EXCEPT !.status = "lagged"] /\ UNCHANGED forwarded
     ELSE /\ forwarder' = [forwarder EXCEPT !.passed = @ + 1]
          /\ forwarded' = Append(forwarded, sent[forwarder.passed + 1])
  /\ UNCHANGED <<written, taken, reader, node, sent, stream>>

(***************************************************************************)
(* StreamLogs.                                                             *)
(***************************************************************************)

StreamLogs(c) ==
  /\ node # "gone" /\ stream[c].status = "none"
  /\ stream' = [stream EXCEPT ![c] =
                  [@ EXCEPT !.status = "open", !.from = Len(forwarded), !.passed = Len(forwarded)]]
  /\ UNCHANGED <<written, taken, reader, node, sent, forwarder, forwarded>>

\* The client takes an item: a line, or the notice that some were skipped.
Deliver(c) ==
  /\ node # "gone" /\ Streaming(c) /\ Waiting(forwarded, stream[c].passed)
  /\ LET r == stream[c]
     IN  stream' = [stream EXCEPT ![c] =
           IF Lagged(forwarded, r.passed)
           THEN [r EXCEPT !.skipped = @ + (Oldest(forwarded) - r.passed),
                          !.passed = Oldest(forwarded)]
           ELSE [r EXCEPT !.got = Append(@, [line |-> forwarded[r.passed + 1],
                                             skipped |-> r.skipped]),
                          !.passed = @ + 1]]
  /\ UNCHANGED <<written, taken, reader, node, sent, forwarder, forwarded>>

Leave(c) ==
  /\ node # "gone" /\ Streaming(c)
  /\ stream' = [stream EXCEPT ![c].status = "closed"]
  /\ UNCHANGED <<written, taken, reader, node, sent, forwarder, forwarded>>

(***************************************************************************)
(* The node's end.                                                         *)
(***************************************************************************)

Shutdown ==
  /\ node = "up"
  /\ node' = "shutdown"
  /\ UNCHANGED <<written, taken, reader, sent, forwarder, forwarded, stream>>

\* run() returns when the child has been killed or has exited, and main with
\* it; lines that are on their way are lost.
NodeEnds ==
  /\ node # "gone"
  /\ node' = "gone"
  /\ stream' = [c \in Clients |->
                  IF Streaming(c) THEN [stream[c] EXCEPT !.status = "closed"] ELSE stream[c]]
  /\ UNCHANGED <<written, taken, reader, sent, forwarder, forwarded>>

Next ==
  \/ \E s \in Sources : WriteLine(s) \/ CheckShutdown(s) \/ ReadLine(s) \/ ReadFails(s)
  \/ Forward
  \/ \E c \in Clients : StreamLogs(c) \/ Deliver(c) \/ Leave(c)
  \/ Shutdown \/ NodeEnds

\* The tasks are polled when they can go on, and a client goes on reading
\* until it leaves.
Fairness ==
  /\ \A s \in Sources : WF_vars(CheckShutdown(s)) /\ WF_vars(ReadLine(s))
  /\ WF_vars(Forward)
  /\ \A c \in Clients : WF_vars(Deliver(c))

Spec == Init /\ [][Next]_vars /\ Fairness

(***************************************************************************)
(* Properties.                                                             *)
(***************************************************************************)

\* Types, and what no part can be ahead of.
TypeOK ==
  /\ written \in [Sources -> Nat] /\ taken \in [Sources -> Nat]
  /\ reader \in [Sources -> {"check", "read", "ended"}]
  /\ node \in {"up", "shutdown", "gone"}
  /\ sent \in Seq(Line) /\ forwarded \in Seq(Line)
  /\ forwarder \in [status : {"running", "lagged"}, passed : Nat]
  /\ stream \in [Clients -> [status : {"none", "open", "closed"}, from : Nat, passed : Nat,
                             skipped : Nat, got : Seq(Received)]]

\* Nothing is lost between the reader tasks and a client without a notice: the
\* i-th line that a client got is the i-th, not counting what the notices have
\* announced, of those that the readers have sent since it subscribed, in
\* spite of the two channels that overwrite what is not taken in time.
GapsAreAnnounced ==
  \A c \in Clients : \A i \in 1..Len(stream[c].got) :
    LET at == stream[c].from + stream[c].got[i].skipped + i
    IN  at <= Len(sent) /\ sent[at] = stream[c].got[i].line

\* The lines of a pipe reach a client in the order in which they were written,
\* each once at most.
PipesStayInOrder ==
  \A c \in Clients : \A i, j \in 1..Len(stream[c].got) :
    i < j /\ stream[c].got[i].line.source = stream[c].got[j].line.source =>
      stream[c].got[i].line.number < stream[c].got[j].line.number

\* A line that was written while a client streams reaches it or is announced to
\* it as skipped, unless the client leaves, the pipe's reader or the node
\* ends, or the forwarder has lagged: then every stream is silent for good.
Passed(c, l) == \E p \in 1..stream[c].passed : sent[p] = l
LinesReachStreams ==
  \A c \in Clients, s \in Sources : \A n \in 1..MaxLines :
    Streaming(c) /\ taken[s] < n /\ n <= written[s] ~>
      \/ Passed(c, [source |-> s, number |-> n])
      \/ ~Streaming(c) \/ reader[s] = "ended" \/ node # "up" \/ forwarder.status = "lagged"

=============================================================================
