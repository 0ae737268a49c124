----------------------------- MODULE KvIdbOpen -----------------------------
(***************************************************************************)
(* Opening kvgit's IndexedDB backend (kvgit-ts/src/backends/idb.ts, open,   *)
(* openDatabase, deleteDatabase): tabs share a database, each its own       *)
(* object store in it, made in an upgrade of the database's version, which  *)
(* waits for every other connection to close.  IndexedDB serves a           *)
(* database's requests in order, and an abandoned one is still served.      *)
(***************************************************************************)
EXTENDS Naturals, Sequences

CONSTANTS
    Tabs, Want,      \* Want: tab -> the object store it opens
    Current, Delete, \* the version of open(dbName), and of deleteDatabase
    MaxVersion       \* bound

VARIABLES
    version, stores, \* the database: 0 and none until it is made
    requests,        \* what IndexedDB has been asked, oldest first
    conns,           \* the tabs with a connection
    at,              \* tab -> how far its open is
    blocked          \* whether the request served waits for connections to close

vars == <<version, stores, requests, conns, at, blocked>>

Init ==
    /\ version = 0 /\ stores = {} /\ requests = <<>> /\ conns = {} /\ blocked = FALSE
    /\ at = [t \in Tabs |-> "shut"]

Request(t, v) == requests' = Append(requests, [tab |-> t, version |-> v, gaveUp |-> FALSE])

\* open, the loop's first request; deleteDatabase.
Ask(t, v) ==
    /\ at[t] = "shut"
    /\ at' = [at EXCEPT ![t] = IF v = Delete THEN "deleting" ELSE "opening"]
    /\ Request(t, v)
    /\ UNCHANGED <<version, stores, conns, blocked>>

Asked == Head(requests)
Served == requests' = Tail(requests) /\ blocked' = FALSE

\* onsuccess, and what open does with it: a connection that has the store is
\* the backend's; one that lacks it is closed, and the next version asked
\* for; an open that was given up is closed at once.
Opened(t, now, has) ==
    /\ IF Asked.gaveUp
       THEN /\ Served
            /\ UNCHANGED <<conns, at>>
       ELSE IF Want[t] \in has
       THEN /\ Served
            /\ conns' = conns \cup {t} /\ at' = [at EXCEPT ![t] = "open"]
       ELSE /\ blocked' = FALSE
            /\ requests' = Append(Tail(requests), [tab |-> t, gaveUp |-> FALSE,
                   version |-> IF Asked.version = Current THEN now + 1 ELSE Current])
            /\ UNCHANGED <<conns, at>>
    /\ version' = now /\ stores' = has

Upgrades == Asked.version = Delete \/ Asked.version > version \/ version = 0

\* A request for the version there is: a new database is made at version 1.
ServeOpen ==
    /\ requests # <<>> /\ ~Upgrades
    /\ Asked.version \in {Current, version}
    /\ Opened(Asked.tab, version, stores)

\* onupgradeneeded, once no connection is left: the store is made.
ServeUpgrade ==
    /\ requests # <<>> /\ Asked.version # Delete /\ Upgrades
    /\ conns = {}
    /\ LET v == IF Asked.version = Current THEN 1 ELSE Asked.version
       IN  v <= MaxVersion /\ Opened(Asked.tab, v, stores \cup {Want[Asked.tab]})

\* VersionError: the database is past that version; the loop starts over.
ServeTooOld ==
    /\ requests # <<>> /\ Asked.version \notin {Current, Delete} /\ Asked.version < version
    /\ requests' = IF Asked.gaveUp THEN Tail(requests)
                   ELSE Append(Tail(requests), [Asked EXCEPT !.version = Current])
    /\ blocked' = FALSE
    /\ UNCHANGED <<version, stores, conns, at>>

ServeDelete ==
    /\ requests # <<>> /\ Asked.version = Delete
    /\ conns = {}
    /\ version' = 0 /\ stores' = {}
    /\ Served
    /\ at' = IF Asked.gaveUp THEN at ELSE [at EXCEPT ![Asked.tab] = "shut"]
    /\ UNCHANGED conns

\* onblocked: the timer starts.
Blocked ==
    /\ requests # <<>> /\ Upgrades /\ conns # {} /\ ~blocked
    /\ blocked' = TRUE
    /\ UNCHANGED <<version, stores, requests, conns, at>>

\* blockedMs later: the open rejects, its request stays.
GiveUp ==
    /\ blocked /\ ~Asked.gaveUp
    /\ requests' = [requests EXCEPT ![1].gaveUp = TRUE]
    /\ at' = [at EXCEPT ![Asked.tab] = "shut"]
    /\ UNCHANGED <<version, stores, conns, blocked>>

Close(t) ==
    /\ at[t] = "open"
    /\ at' = [at EXCEPT ![t] = "shut"]
    /\ conns' = conns \ {t}
    /\ UNCHANGED <<version, stores, requests, blocked>>

\* The tab closes: its connection and its requests go with it.
Crash(t) ==
    /\ at[t] # "shut"
    /\ at' = [at EXCEPT ![t] = "shut"]
    /\ conns' = conns \ {t}
    /\ requests' = SelectSeq(requests, LAMBDA r : r.tab # t)
    /\ blocked' = (blocked /\ Asked.tab # t)
    /\ UNCHANGED <<version, stores>>

Next ==
    \/ \E t \in Tabs : Ask(t, Current) \/ Ask(t, Delete) \/ Close(t) \/ Crash(t)
    \/ ServeOpen \/ ServeUpgrade \/ ServeTooOld \/ ServeDelete \/ Blocked \/ GiveUp

Spec == Init /\ [][Next]_vars

---------------------------------------------------------------------------
\* An open store is there for as long as its tab holds it, whatever other
\* tabs open, upgrade, delete or give up on (idb.ts:79-106).
OpenHasStore == \A t \in Tabs : at[t] = "open" => t \in conns /\ Want[t] \in stores

\* Of an open that was given up no connection stays to block the others
\* (openDatabase: gaveUp).
GaveUpHoldsNothing == \A t \in conns : at[t] = "open"

\* An open is under way only while IndexedDB has its request: none waits for
\* an answer that never comes.
OpensAwaited == \A t \in Tabs : at[t] \in {"opening", "deleting"} <=>
    \E i \in DOMAIN requests : requests[i].tab = t /\ ~requests[i].gaveUp
=============================================================================
