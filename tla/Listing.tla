------------------------------- MODULE Listing ------------------------------
(* A client that reads a list page by page while the list changes, from     *)
(* list_integrations or list_webhooks, which cut in the same way.  The      *)
(* service sorts the rows that match the filter by created_at, newest first,*)
(* and cuts a page by OFFSET and LIMIT: it keeps nothing between two pages. *)
(* A row is named by its created_at; no two are the same.                   *)
EXTENDS Integers, FiniteSets

CONSTANT Limit

VARIABLES
    listed,      \* the rows that match the filter
    offset,      \* of the page the client asks for next
    seen,        \* what it has been given since it began
    known,       \* history: rows in the list ever since it began
    arrivals,    \* history: rows that have joined the list since
    departures   \* history: rows that have left it since

cursor   == <<offset, seen>>
drift    == <<known, arrivals, departures>>

ListingInit ==
    /\ offset = 0 /\ seen = {}
    /\ known = listed /\ arrivals = 0 /\ departures = 0

Ahead(x) == Cardinality({y \in listed : y > x})

Page_FromOne == {x \in listed : offset < Ahead(x) /\ Ahead(x) =< offset + Limit}
Page == {x \in listed : offset =< Ahead(x) /\ Ahead(x) < offset + Limit}

BeginPaging ==
    /\ offset' = 0 /\ seen' = {}
    /\ known' = listed /\ arrivals' = 0 /\ departures' = 0
    /\ UNCHANGED listed

ReadPage ==
    /\ Page # {}
    /\ seen' = seen \cup Page
    /\ offset' = offset + Limit
    /\ UNCHANGED <<listed, drift>>

(* What becomes of the client's history when the list changes.              *)
Drift ==
    /\ known' = known \cap listed'
    /\ arrivals' = arrivals + Cardinality(listed' \ listed)
    /\ departures' = departures + Cardinality(listed \ listed')
    /\ UNCHANGED cursor

-----------------------------------------------------------------------------
(* Rows that a page is never cut before again.                              *)
Passed == {x \in known : Ahead(x) < offset}

(* A client that pages through a changing list misses no more of the rows   *)
(* that were there all along than have left the list meanwhile, and is given*)
(* no more of them a second time than have joined it.  So nothing is missed *)
(* while rows are only added, whenever their transactions commit.           *)
PagesDriftWithTheList ==
    /\ Cardinality(Passed \ seen) =< departures
    /\ Cardinality((known \cap seen) \ Passed) =< arrivals
=============================================================================
