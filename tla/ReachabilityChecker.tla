-------------------------- MODULE ReachabilityChecker --------------------------
(***************************************************************************)
(* The worker's Checker: whether the hosts clients ask for can be reached  *)
(* without an upstream.  It is consulted by a proxy started without        *)
(* --always.  A module of operators for WorkerOutbound.                    *)
(* Source: worker/utils/structs.go 26-180 and ConcurrentMap in map.go.     *)
(*                                                                         *)
(* Abstraction.  A host the blocked or direct file decides is not in       *)
(* Hosts: it is neither added nor checked.  A check is one step from the   *)
(* snapshot of the item to its result, which comes in a second step.       *)
(***************************************************************************)
EXTENDS Integers

CONSTANTS
    Hosts,       \* what clients connect to
    Checks,      \* bound: checks under way at a time
    MinCount,    \* checks that may settle a verdict (5)
    MaxCount     \* bound: checks of a host with one result

ASSUME CheckerAssumption == Hosts # {} /\ MinCount \in Nat \ {0} /\ MaxCount \in Nat

VARIABLES
    checker,     \* whether NewChecker has been called
    item,        \* for each host: is it in the map, and its two counts
    check        \* for each check: is it under way, of which host and snapshot

checkerVars == <<checker, item, check>>

Counts == [known : BOOLEAN, fails : Nat, successes : Nat]
Unknown == [known |-> FALSE, fails |-> 0, successes |-> 0]
New == [known |-> TRUE, fails |-> 0, successes |-> 0]

NoCheck == [busy |-> FALSE, host |-> CHOOSE h \in Hosts : TRUE, seen |-> Unknown]

CheckerTypeOK ==
    /\ checker \in {"none", "running"}
    /\ item \in [Hosts -> Counts]
    /\ check \in [Checks -> [busy : BOOLEAN, host : Hosts, seen : Counts]]

NoChecker ==
    /\ checker = "none"
    /\ item = [h \in Hosts |-> Unknown] /\ check = [k \in Checks |-> NoCheck]

ForgetChecker ==
    /\ checker' = "none"
    /\ item' = [h \in Hosts |-> Unknown] /\ check' = [k \in Checks |-> NoCheck]

-----------------------------------------------------------------------------
(* Faulty variant: an address is filed afresh whenever a client names it.  *)
AddedAnew(h) == [item EXCEPT ![h] = New]

(* SetIfAbsent, in Add.                                                    *)
Added(h) == [item EXCEPT ![h] = IF @.known THEN @ ELSE New]

IsBlocked(items, h) == items[h].known => items[h].fails >= items[h].successes

(* The second condition asks for successes too: a host that always fails   *)
(* is checked for ever.                                                    *)
Settled(counts) ==
    \/ counts.successes >= MinCount /\ counts.successes > counts.fails
    \/ counts.fails >= MinCount /\ counts.successes > counts.fails

(* A round of checks, with the items as Items() has copied them; the next  *)
(* round does not wait for this one.                                       *)
StartCheck(k, h) ==
    /\ checker = "running"
    /\ item[h].known /\ ~Settled(item[h])
    /\ item[h].fails < MaxCount /\ item[h].successes < MaxCount
    /\ ~check[k].busy
    /\ check' = [check EXCEPT ![k] = [busy |-> TRUE, host |-> h, seen |-> item[h]]]
    /\ UNCHANGED <<checker, item>>

Counted(counts, reached) ==
    IF reached THEN [counts EXCEPT !.successes = @ + 1] ELSE [counts EXCEPT !.fails = @ + 1]

(* The goroutine files its own copy of the item: what others counted since *)
(* it took the copy is overwritten.                                        *)
FinishCheck(k, reached) ==
    /\ check[k].busy
    /\ item' = [item EXCEPT ![check[k].host] = Counted(check[k].seen, reached)]
    /\ check' = [check EXCEPT ![k] = NoCheck]
    /\ UNCHANGED checker
=============================================================================
