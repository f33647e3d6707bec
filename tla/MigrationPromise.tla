-------------------------- MODULE MigrationPromise --------------------------
(***************************************************************************)
(* What the migration RPCs promise, whatever happens on the way: the parts *)
(* of a migration (accounts, transfers, or all of it at once) grow in the  *)
(* target and never shrink; one call per part is answered with success,    *)
(* and only when that part is whole.                                       *)
(***************************************************************************)
CONSTANTS Calls, Parts, None

VARIABLES
    part,    \* "none", "partial" or "whole", for each part
    answer   \* what each call was told of which part, or None

vars == <<part, answer>>

Init ==
    /\ part = [p \in Parts |-> "none"]
    /\ answer = [c \in Calls |-> None]

Grow(p) ==
    /\ part[p] # "whole"
    /\ \E size \in {"partial", "whole"} : part' = [part EXCEPT ![p] = size]
    /\ UNCHANGED answer

Succeed(c, p) ==
    /\ answer[c] = None
    /\ part[p] = "whole"
    /\ \A d \in Calls : answer[d] # <<"ok", p>>
    /\ answer' = [answer EXCEPT ![c] = <<"ok", p>>]
    /\ UNCHANGED part

Fail(c, p) ==
    /\ answer[c] = None
    /\ answer' = [answer EXCEPT ![c] = <<"failed", p>>]
    /\ UNCHANGED part

Next ==
    \E p \in Parts : Grow(p) \/ \E c \in Calls : Succeed(c, p) \/ Fail(c, p)

Spec == Init /\ [][Next]_vars
=============================================================================
