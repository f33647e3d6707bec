---------------------------- MODULE AccountPaging ----------------------------
(***************************************************************************)
(* The paging stream that the crate documents for range queries            *)
(* (get_account_transfers_paged), run by one thread on the shared client   *)
(* while other threads create transfers, drop futures and close the        *)
(* client, and while the cluster may evict it.                             *)
(*                                                                         *)
(* The stream borrows the client, so its thread lets the client go only    *)
(* when the stream is over.                                                *)
(***************************************************************************)
EXTENDS ClientRequests, SequencesExt

CONSTANTS Pager,         \* the thread that pages
          PagingFilters, \* filters it starts with
          Calls          \* how many requests the other threads make

\* The function asserts a limit above 1, and asks its caller for a limit that
\* the cluster can answer in full: a page is taken for the last one if it is
\* shorter than the limit.
ASSUME PagingAssumption ==
  /\ Pager \in Threads
  /\ PagingFilters \subseteq Filter
  /\ \A f \in PagingFilters : f.limit > 1 /\ f.limit <= ResultMax

VARIABLES state,   \* "none", "start", "continue", "waiting", "end", ...
          event,   \* the filter the stream is made with
          begin,   \* the timestamp in State::Continue
          pages,   \* timestamps of the transfers yielded so far
          broken,  \* the stream ended with an error
          present  \* transfers of the range when the stream was made

pagingVars == <<state, event, begin, pages, broken, present>>
allVars == <<vars, pagingVars>>

InRange(store) == Timestamps(store, "transfers", event)

StartPaging ==
  /\ client = "open" /\ Pager \in holders /\ state = "none"
  /\ state' = "start"
  /\ present' = InRange(ledger)
  /\ UNCHANGED <<event, begin, pages, broken, vars>>

\* The filter of the next query: only the end that moves is replaced.
NextFilter ==
  IF state = "start" THEN event
  ELSE IF event.reversed THEN [event EXCEPT !.max = begin] ELSE [event EXCEPT !.min = begin]

QueryPage ==
  /\ state \in {"start", "continue"}
  /\ GetAccountTransfers(Pager, NextFilter)
  /\ state' = "waiting"
  /\ UNCHANGED <<event, begin, pages, broken, present>>

MustPage(page) == Len(page) = event.limit

\* The timestamps must move on, and must not reach 0.
Advances(page) ==
  IF event.reversed THEN page[1] > Last(page) /\ Last(page) - 1 # 0
                    ELSE page[1] < Last(page)

\* Mutant: the next page starts with the last transfer again.
TimestampBeginInclusive(page) == Last(page)

TimestampBegin(page) == IF event.reversed THEN Last(page) - 1 ELSE Last(page) + 1

\* Mutant: 0 is taken for a bound.
ShouldContinueBounded(page) ==
  IF event.reversed THEN TimestampBegin(page) >= event.min
                    ELSE TimestampBegin(page) <= event.max

ShouldContinue(page) ==
  IF event.reversed THEN TimestampBegin(page) >= event.min \/ event.min = 0
                    ELSE TimestampBegin(page) <= event.max \/ event.max = 0

\* The requests of the stream that is being waited for.
Waiting(s) ==
  /\ state = "waiting"
  /\ requests[s] # Free /\ requests[s].by = Pager /\ requests[s].future = "pending"

PageArrives(s) ==
  /\ Waiting(s) /\ Await(s)
  /\ LET r == requests'[s]
         page == r.answer.result
     IN  \/ /\ r.future = "panicked"
            /\ state' = "panicked" /\ UNCHANGED <<begin, pages, broken>>
         \/ /\ r.future = "ready" /\ r.answer.status # "Ok"
            /\ state' = "end" /\ broken' = TRUE /\ UNCHANGED <<begin, pages>>
         \/ /\ r.future = "ready" /\ r.answer.status = "Ok" /\ ~MustPage(page)
            /\ state' = "end" /\ pages' = pages \o page /\ UNCHANGED <<begin, broken>>
         \/ /\ r.future = "ready" /\ r.answer.status = "Ok"
            /\ MustPage(page) /\ ~Advances(page)
            /\ state' = "panicked" /\ UNCHANGED <<begin, pages, broken>>
         \/ /\ r.future = "ready" /\ r.answer.status = "Ok"
            /\ MustPage(page) /\ Advances(page)
            /\ pages' = pages \o page
            /\ IF ShouldContinue(page)
               THEN state' = "continue" /\ begin' = TimestampBegin(page)
               ELSE state' = "end" /\ UNCHANGED begin
            /\ UNCHANGED broken
  /\ UNCHANGED <<event, present>>

\* The consumer may drop the stream, and the future it waits for with it.
DropStream ==
  /\ state \in {"start", "continue", "waiting"}
  /\ state' = "dropped"
  /\ \/ state # "waiting" /\ UNCHANGED vars
     \/ \E s \in Slots : Waiting(s) /\ DropFuture(s)
  /\ UNCHANGED <<event, begin, pages, broken, present>>

(***************************************************************************)
(* The other threads, tb_client and the whole.                             *)
(***************************************************************************)

CallsMade == Cardinality({s \in Slots : requests[s] # Free /\ requests[s].by # Pager})

OtherCall ==
  /\ CallsMade < Calls
  /\ \E t \in Threads \ {Pager} : Call(t)

\* The stream's own futures live and die with the stream.
Futures == \E s \in Slots : ~Waiting(s) /\ (Await(s) \/ DropFuture(s))

StreamIsOver == state \in {"none", "end", "dropped", "panicked"}

LetGoes == \E t \in Threads : (t = Pager => StreamIsOver) /\ LetGo(t)

PagingInit ==
  /\ Init
  /\ state = "none" /\ event \in PagingFilters /\ begin = 0
  /\ pages = <<>> /\ broken = FALSE /\ present = {}

PagingNext ==
  \/ StartPaging
  \/ QueryPage
  \/ DropStream
  \/ \E s \in Slots : PageArrives(s)
  \/ (Open \/ OtherCall \/ Futures \/ LetGoes \/ Deinit \/ TbClient) /\ UNCHANGED pagingVars

\* tb_client_deinit completes what is left and returns, and executors poll
\* what was completed.  Nothing is assumed of the cluster or of the callers.
Fairness ==
  /\ WF_allVars(Deinit /\ UNCHANGED pagingVars)
  /\ \A s \in Slots : /\ WF_allVars(Shutdown(s) /\ UNCHANGED pagingVars)
                      /\ WF_allVars(Await(s) /\ ~Waiting(s) /\ UNCHANGED pagingVars)
                      /\ WF_allVars(PageArrives(s))

Spec == PagingInit /\ [][PagingNext]_allVars /\ Fairness

(***************************************************************************)
(* Properties.                                                             *)
(***************************************************************************)

\* The types of the client's and the stream's state.
TypeOK ==
  /\ holders \subseteq Threads
  /\ client \in {"unopened", "open", "closing", "closed", "failed"}
  /\ deinits \in Nat /\ boxFrees \in Nat /\ evicted \in BOOLEAN
  /\ \A s \in Slots :
       \/ requests[s] = Free
       \/ /\ requests[s].by \in Threads
          /\ requests[s].packet \in {"lent", "reclaimed"}
          /\ requests[s].server \in {"no", "sent", "run"}
          /\ requests[s].message.status \in {"none", "Ok"} \cup PacketErrors
          /\ requests[s].answer.status \in {"none", "Ok"} \cup PacketErrors
          /\ requests[s].future \in {"pending", "dropped", "ready", "panicked"}
          /\ requests[s].op = "query" => requests[s].sent[1].max \in Nat
  /\ state \in {"none", "start", "continue", "waiting", "end", "dropped", "panicked"}
  /\ event \in PagingFilters /\ begin \in Nat /\ broken \in BOOLEAN
  /\ \A i \in DOMAIN pages : pages[i] \in DOMAIN ledger
  /\ present \subseteq DOMAIN ledger

\* The pages hold a contiguous piece of the range, in the filter's order and
\* each transfer once, although transfers are created between two queries.
PagesHaveNoGaps ==
  pages # <<>> =>
    LET lo == IF event.reversed THEN Last(pages) ELSE event.min
        hi == IF event.reversed THEN pages[1] ELSE Last(pages)
    IN  /\ \A j \in DOMAIN pages : \A i \in 1..(j - 1) : Before(event, pages[i], pages[j])
        /\ {pages[i] : i \in DOMAIN pages} = {t \in InRange(ledger) : lo <= t /\ t <= hi}

\* A stream that ends without an error has yielded every transfer that was in
\* the range when it was made.
EverythingIsPaged ==
  state = "end" /\ ~broken => \A t \in present : \E i \in DOMAIN pages : pages[i] = t

\* Neither a future nor the stream's assertions panic: a transfer's timestamp
\* is above its accounts', so a page never ends at 1.
NobodyPanics == NeverPanics /\ state # "panicked"

\* A client that is closed or dropped gets closed, and every future that is
\* still held resolves, whatever the cluster does.
ClosingEnds ==
  client = "closing" ~>
    /\ client = "closed"
    /\ \A s \in Slots : requests[s] # Free => requests[s].future # "pending"

=============================================================================
