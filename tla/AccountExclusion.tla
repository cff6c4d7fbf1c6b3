-------------------------- MODULE AccountExclusion --------------------------
(***************************************************************************)
(* What browser ownership promises: an account has at most one holder, a   *)
(* browser is open only for an operation that holds an account, and a      *)
(* holder lets go of all its accounts at once, for good, after its browser *)
(* has ended.  An operation may come to hold a second account (a login     *)
(* that turns out to belong to an account already connected).              *)
(*                                                                         *)
(* BrowserOwnership keeps this promise step by step, and so does the login *)
(* queue with its items.  PublicationSend and ProviderConversations, which *)
(* use an account under the same promise, see the end of a browser and the *)
(* release of its account as one step, and implement the coarse version.   *)
(***************************************************************************)
CONSTANTS Accounts, Ops, None

VARIABLES
    holder,    \* the operation that holds an account, or None
    open,      \* the operations whose browser exists
    released   \* the operations that let go

vars == <<holder, open, released>>

Holds(o) == \E a \in Accounts : holder[a] = o

Init ==
    /\ holder = [a \in Accounts |-> None]
    /\ open = {}
    /\ released = {}

Acquire(o, a) ==
    /\ o \notin released /\ holder[a] = None
    /\ holder' = [holder EXCEPT ![a] = o]
    /\ UNCHANGED <<open, released>>

Open(o) ==
    /\ o \notin released /\ Holds(o)
    /\ open' = open \cup {o}
    /\ UNCHANGED <<holder, released>>

(* Browsers end one by one, or several with their process.                 *)
Close ==
    /\ open' \in SUBSET open
    /\ UNCHANGED <<holder, released>>

Release(o) ==
    /\ o \notin open
    /\ holder' = [a \in Accounts |-> IF holder[a] = o THEN None ELSE holder[a]]
    /\ released' = released \cup {o}
    /\ UNCHANGED open

Next ==
    \/ Close
    \/ \E o \in Ops : (\E a \in Accounts : Acquire(o, a)) \/ Open(o) \/ Release(o)

Spec == Init /\ [][Next]_vars

-----------------------------------------------------------------------------
(* The coarse version.                                                     *)

(* The step of Close and the step of Release, seen as one.                 *)
CloseAndRelease(o) ==
    /\ open' = open \ {o}
    /\ holder' = [a \in Accounts |-> IF holder[a] = o THEN None ELSE holder[a]]
    /\ released' = released \cup {o}

(* Several that have nothing to release, seen as one.                      *)
Retire ==
    /\ released \subseteq released'
    /\ \A o \in released' \ released : o \in Ops \ open /\ ~Holds(o)
    /\ UNCHANGED <<holder, open>>

CoarseNext == Next \/ Retire \/ \E o \in Ops : CloseAndRelease(o)

CoarseSpec == Init /\ [][CoarseNext]_vars

-----------------------------------------------------------------------------
(* What it is good for: whoever has a browser has an account, so nobody    *)
(* else has a browser for that account, and whoever has let go has neither.*)
Exclusive ==
    /\ \A o \in open : Holds(o)
    /\ \A o \in released : o \notin open /\ ~Holds(o)

(* And whoever has let go never comes back.                                *)
Final == [][released \subseteq released']_vars
=============================================================================
