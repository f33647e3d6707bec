------------------------------ MODULE MCClient ------------------------------
(***************************************************************************)
(* Values for model checking the client crate: AccountPaging, through it   *)
(* ClientRequests, and the generator of identifiers.                       *)
(***************************************************************************)
EXTENDS AccountPaging, TimeBasedId

\* Nothing; a duplicate and an order that is not the ids'; too many events.
MCEventLists == {<<>>, <<2, 1, 2>>, <<1, 2, 1, 2>>}

\* One that asks for more than the cluster answers with.
MCFilters == {[min |-> 0, max |-> 0, limit |-> 3, reversed |-> FALSE]}

\* Pages of two, from either end, with and without bounds of their own.
MCPagingFilters ==
  {[min |-> b[1], max |-> b[2], limit |-> 2, reversed |-> d] :
     b \in {<<0, 0>>, <<3, 4>>}, d \in BOOLEAN}

\* Of what the threads create and look up, one account and one transfer exist.
Preloaded(n) == <<[kind |-> "accounts", id |-> 1]>>
                \o [i \in 1..n |-> [kind |-> "transfers", id |-> 1 + i]]

MCInitialLedgers == {<<>>, Preloaded(3)}

-----------------------------------------------------------------------------

\* The client and the generator share no state, so nothing is learnt from
\* their interleavings: each is explored where the other rests at its start.
NoIdDrawn == clock = 0 /\ gen = NoGenerator /\ calling = {}

LibraryInit == PagingInit /\ IdInit

LibraryNext ==
  \/ NoIdDrawn /\ PagingNext /\ UNCHANGED idVars
  \/ PagingInit /\ IdNext /\ UNCHANGED allVars

LibrarySpec == LibraryInit /\ [][LibraryNext]_<<allVars, idVars>> /\ Fairness
=============================================================================
