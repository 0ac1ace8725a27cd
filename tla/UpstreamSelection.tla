-------------------------- MODULE UpstreamSelection --------------------------
(***************************************************************************)
(* How a worker chooses the upstream of a connection: the list the captain *)
(* has sent, round robin over it, and the sessions that stick to what they *)
(* were given first.  A module of operators for WorkerOutbound.            *)
(* Source: worker/manager/pool_upstream_manager.go, NextUpstream in        *)
(* worker.go, the User object of user_manager.go.                          *)
(*                                                                         *)
(* Abstraction.  An upstream is its address, and no list has it twice; tag *)
(* and credentials go with it, its weight has no reader.                   *)
(***************************************************************************)
EXTENDS Integers, Sequences

CONSTANTS
    Upstreams,   \* addresses of upstreams
    NoUpstream,
    Lists,       \* the lists a captain may send, which are never empty
    Sessions,    \* names of sticky sessions, chosen by clients
    NoSession,   \* a connection without one
    Users,       \* bound: User objects of the one user that connects
    NoUser,      \* no entry in the cache
    Wrap         \* where the position wraps round (2^64)

ASSUME SelectionAssumption ==
    /\ NoUpstream \notin Upstreams /\ NoSession \notin Sessions /\ NoUser \notin Users
    /\ \A l \in Lists :
          /\ l \in Seq(Upstreams) /\ l # <<>>
          /\ \A i, j \in DOMAIN l : l[i] = l[j] => i = j
    /\ Wrap \in Nat \ {0}

VARIABLES
    upstreams,   \* the list, empty until the first configuration
    index,       \* the next position, counted from the start of the process
    entry,       \* the user's entry in the cache
    sessions     \* the Sessions map of each User object

selectionVars == <<upstreams, index, entry, sessions>>

SelectionTypeOK ==
    /\ upstreams \in Lists \cup {<<>>}
    /\ index \in 0..(Wrap - 1)
    /\ entry \in Users \cup {NoUser}
    /\ sessions \in [Users -> [Sessions -> Upstreams \cup {NoUpstream}]]

NoSessions == [s \in Sessions |-> NoUpstream]

(* A worker that has just started.                                         *)
Unconfigured ==
    /\ upstreams = <<>> /\ index = 0
    /\ entry = NoUser /\ sessions = [u \in Users |-> NoSessions]

(* The process ends and starts again.                                      *)
ForgetSelection ==
    /\ upstreams' = <<>> /\ index' = 0
    /\ entry' = NoUser /\ sessions' = [u \in Users |-> NoSessions]

-----------------------------------------------------------------------------
HasUpstreams == upstreams # <<>>

SetUpstreams(list) ==
    /\ upstreams' = list
    /\ UNCHANGED <<index, entry, sessions>>

Position == (index % Len(upstreams)) + 1

Selected == upstreams[Position]

(* The atomic addition of Next, under the read lock of the list.           *)
Advance == index' = (index + 1) % Wrap

Sticks(user, session) == sessions[user][session] # NoUpstream

(* Faulty variant: what a session was given is not remembered.             *)
StickNot(user, session, upstream) == UNCHANGED sessions

Stick(user, session, upstream) == sessions' = [sessions EXCEPT ![user][session] = upstream]

-----------------------------------------------------------------------------
(* A login makes an object without sessions; the entry expires or is       *)
(* removed; the minute timer files an older object again.                  *)
Login(user) ==
    /\ user # entry
    /\ entry' = user
    /\ sessions' = [sessions EXCEPT ![user] = NoSessions]
    /\ UNCHANGED <<upstreams, index>>

Forget ==
    /\ entry # NoUser
    /\ entry' = NoUser
    /\ UNCHANGED <<upstreams, index, sessions>>

Refile(user) ==
    /\ user # entry /\ sessions[user] # NoSessions
    /\ entry' = user
    /\ UNCHANGED <<upstreams, index, sessions>>

=============================================================================
