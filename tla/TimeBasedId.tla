---------------------------- MODULE TimeBasedId ----------------------------
(***************************************************************************)
(* id() of time_based_id.rs: threads that share one generator behind a     *)
(* Mutex and draw 128-bit identifiers from it, 48 bits of milliseconds     *)
(* above 80 random bits.  The wall clock may stand still, go back, or jump.*)
(*                                                                         *)
(* Randoms stands for 2^80 and MsLimit for 2^48; MaxIds bounds the run.    *)
(***************************************************************************)
EXTENDS Naturals, Sequences

CONSTANTS Callers, Randoms, MsLimit, MaxIds, NoGenerator

ASSUME WidthAssumption == Randoms \in Nat \ {0} /\ MsLimit \in Nat \ {0}
ASSUME BoundAssumption == MaxIds \in Nat
ASSUME NoneAssumption == NoGenerator \notin [ms: Nat, random: Nat]

VARIABLES
    clock,   \* milliseconds since the epoch; 0 before it
    gen,     \* GLOBAL_GENERATOR
    calling, \* the threads inside id()
    issued   \* history: the identifiers drawn, in the order of the lock

idVars == <<clock, gen, calling, issued>>

Random == 0..(Randoms - 1)
Generator == [ms: Nat, random: Random]

\* `ms << 80 | random` in a u128: bits of ms above the 48th are shifted out.
Pack(g) == (g.ms % MsLimit) * Randoms + g.random

\* Mutant: next_random does not look for the largest value.
RandomUnchecked(g, now) ==
    IF now > g.ms THEN [ms: {now}, random: Random]
                  ELSE {[g EXCEPT !.random = @ + 1]}

\* next_state_from_system_time: the states it may choose.
NextStates(g, now) ==
    IF now > g.ms          THEN [ms: {now}, random: Random]
    ELSE IF g.random < Randoms - 1 THEN {[g EXCEPT !.random = @ + 1]}
    ELSE                        [ms: {g.ms + 1}, random: Random]

IdInit ==
    /\ clock \in 0..(MsLimit - 1)
    /\ gen = NoGenerator
    /\ calling = {}
    /\ issued = <<>>

CallId(th) ==
    /\ th \notin calling
    /\ Len(issued) < MaxIds
    /\ calling' = calling \cup {th}
    /\ UNCHANGED <<clock, gen, issued>>

\* Mutant: decides that there is no generator before it takes the lock.
InstallUnlooked(th) ==
    /\ th \in calling
    /\ gen' \in [ms: {clock}, random: Random]
    /\ UNCHANGED <<clock, calling, issued>>

\* The first thread to get the lock finds no generator, installs one, drops
\* the guard and calls id() again.
Install(th) ==
    /\ th \in calling
    /\ gen = NoGenerator
    /\ gen' \in [ms: {clock}, random: Random]
    /\ UNCHANGED <<clock, calling, issued>>

\* With a generator: advance it and return what it packs to.
Draw(th) ==
    /\ th \in calling
    /\ gen # NoGenerator
    /\ gen' \in NextStates(gen, clock)
    /\ issued' = Append(issued, Pack(gen'))
    /\ calling' = calling \ {th}
    /\ UNCHANGED clock

SetClock ==
    /\ clock' \in 0..(MsLimit - 1)
    /\ UNCHANGED <<gen, calling, issued>>

IdNext ==
    \/ \E th \in Callers : CallId(th) \/ Install(th) \/ Draw(th)
    \/ SetClock

IdSpec == IdInit /\ [][IdNext]_idVars

-----------------------------------------------------------------------------

IdTypeOK ==
    /\ clock \in Nat
    /\ gen \in Generator \cup {NoGenerator}
    /\ calling \subseteq Callers
    /\ issued \in Seq(Nat)

\* While the milliseconds fit their 48 bits, every identifier is greater than
\* all that were drawn before it, by any thread, whatever the clock does: so
\* no two are equal, and a call that starts after another has returned gets
\* the greater one.
MsFits == gen # NoGenerator => gen.ms < MsLimit
IdsIncrease ==
    MsFits => \A i, j \in 1..Len(issued) : i < j => issued[i] < issued[j]
=============================================================================
