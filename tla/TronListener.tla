---------------------------- MODULE TronListener ----------------------------
(***************************************************************************)
(* The TRON listener, orchestrator/src/tron_listener.ts: how one of the    *)
(* three watched events gets from the contract to its handler through      *)
(* polls of the TronGrid API that overlap, fail, are cut at a page limit   *)
(* and are answered out of order.  The three events share nothing.         *)
(*                                                                         *)
(* An event is <<t, n>>: the n-th of the block with timestamp t.           *)
(***************************************************************************)
EXTENDS Integers, FiniteSets, FiniteSetsExt

CONSTANTS
    Request,        \* requests that may be in flight at once
    Limit,          \* limit=200
    SeenLimit,      \* 5000 dedupe keys
    MaxPerBlock,    \* bound: events in a block
    MaxTime,        \* bound: last timestamp explored
    MaxRestarts     \* bound: restarts of the process

ASSUME TronAssumption ==
    /\ Limit \in Nat \ {0} /\ SeenLimit \in Nat /\ MaxPerBlock \in Nat
    /\ MaxTime \in Nat /\ MaxRestarts \in Nat

VARIABLES
    now,
    events,         \* the contract's events
    confirmed,      \* blocks with a smaller timestamp are confirmed
    start,          \* when the process started to watch
    since, seen,    \* EventCursor: sinceTimestampMs and seen
    request,        \* the requests in flight, what they asked for and their answer
    handled,        \* history: events handed to the handler
    twice,          \* history: events handed to it more than once
    restarts

vars == <<now, events, confirmed, start, since, seen, request, handled, twice, restarts>>

Free == [st |-> "free", since |-> 0, page |-> {}]
Time(e) == e[1]

\* The cursor after a batch of events: the newest of their timestamps, if it is ahead.
MoveCursor(new) ==
    \/ new = {} /\ since' = since
    \/ \E e \in new :
        /\ \A f \in new : Time(f) <= Time(e)
        /\ since' = IF Time(e) > since THEN Time(e) ELSE since

----------------------------------------------------------------------------
(***************************************************************************)
(* The chain and the API.                                                  *)
(***************************************************************************)
Block ==
    /\ now < MaxTime
    /\ \E c \in 0 .. MaxPerBlock : events' = events \cup {<<now, n>> : n \in 1 .. c}
    /\ now' = now + 1
    /\ UNCHANGED <<confirmed, start, since, seen, request, handled, twice, restarts>>

Confirm ==
    /\ confirmed < now
    /\ confirmed' = confirmed + 1
    /\ UNCHANGED <<now, events, start, since, seen, request, handled, twice, restarts>>

\* only_confirmed=true and min_block_timestamp, which is inclusive.
Matching(t) == {e \in events : Time(e) >= t /\ Time(e) < confirmed}

\* The first Limit of them by timestamp; the order within a block is the API's.
Pages(t) ==
    {p \in SUBSET Matching(t) :
        /\ Cardinality(p) = Min({Limit, Cardinality(Matching(t))})
        /\ \A e \in p, f \in Matching(t) : Time(f) < Time(e) => f \in p}

\* fetchEvents succeeds, with whichever API key.
Answer(r) ==
    /\ request[r].st = "asked"
    /\ \E p \in Pages(request[r].since) :
        request' = [request EXCEPT ![r] = [st |-> "answered", since |-> request[r].since, page |-> p]]
    /\ UNCHANGED <<now, events, confirmed, start, since, seen, handled, twice, restarts>>

----------------------------------------------------------------------------
(***************************************************************************)
(* The process.                                                            *)
(***************************************************************************)
\* A tick of the interval.  pollEvent returns nothing, so that allSettled is fulfilled and
\* inFlight reset before any answer arrives: the guard on inFlight never holds a tick back.
Poll(r) ==
    /\ request[r].st = "free"
    /\ request' = [request EXCEPT ![r] = [st |-> "asked", since |-> since, page |-> {}]]
    /\ UNCHANGED <<now, events, confirmed, start, since, seen, handled, twice, restarts>>

\* Mutant of Deliver: the cursor moves past the newest event, to fetch nothing again.
DeliverPastNewest(r) ==
    LET new == request[r].page \ seen IN
    /\ request[r].st = "answered"
    /\ handled' = handled \cup new
    /\ twice' = twice \cup (handled \cap new)
    /\ since' = Max({since} \cup {Time(e) + 1 : e \in new})
    /\ seen' = IF Cardinality(seen \cup new) > SeenLimit THEN {} ELSE seen \cup new
    /\ request' = [request EXCEPT ![r] = Free]
    /\ UNCHANGED <<now, events, confirmed, start, restarts>>

\* Mutant of Deliver: only what is older than the cursor counts as seen.
DeliverByTime(r) ==
    LET new == {e \in request[r].page : Time(e) >= since} IN
    /\ request[r].st = "answered"
    /\ handled' = handled \cup new
    /\ twice' = twice \cup (handled \cap new)
    /\ MoveCursor(new)
    /\ seen' = IF Cardinality(seen \cup new) > SeenLimit THEN {} ELSE seen \cup new
    /\ request' = [request EXCEPT ![r] = Free]
    /\ UNCHANGED <<now, events, confirmed, start, restarts>>

\* The events of an answer that were not seen go to the handler, in one step; what the
\* handler throws it catches itself.
Deliver(r) ==
    LET new == request[r].page \ seen IN
    /\ request[r].st = "answered"
    /\ handled' = handled \cup new
    /\ twice' = twice \cup (handled \cap new)
    /\ MoveCursor(new)
    /\ seen' = IF Cardinality(seen \cup new) > SeenLimit THEN {} ELSE seen \cup new
    /\ request' = [request EXCEPT ![r] = Free]
    /\ UNCHANGED <<now, events, confirmed, start, restarts>>

\* Mutant of PollFails: after an error the watch resumes at the present.
PollFailsResumes(r) ==
    /\ request[r].st = "asked"
    /\ since' = now
    /\ request' = [request EXCEPT ![r] = Free]
    /\ UNCHANGED <<now, events, confirmed, start, seen, handled, twice, restarts>>

\* Every key failed; the error is logged and the cursor stays.
PollFails(r) ==
    /\ request[r].st = "asked"
    /\ request' = [request EXCEPT ![r] = Free]
    /\ UNCHANGED <<now, events, confirmed, start, since, seen, handled, twice, restarts>>

\* The cursor is memory only: it starts at the present, and the past is not replayed.
Restart ==
    /\ restarts < MaxRestarts
    /\ restarts' = restarts + 1
    /\ start' = now
    /\ since' = now
    /\ seen' = {}
    /\ request' = [r \in Request |-> Free]
    /\ UNCHANGED <<now, events, confirmed, handled, twice>>

Init ==
    /\ now = 0
    /\ events = {}
    /\ confirmed = 0
    /\ start = 0
    /\ since = 0
    /\ seen = {}
    /\ request = [r \in Request |-> Free]
    /\ handled = {}
    /\ twice = {}
    /\ restarts = 0

Next ==
    \/ Block
    \/ Confirm
    \/ Restart
    \/ \E r \in Request : Poll(r) \/ Answer(r) \/ Deliver(r) \/ PollFails(r)

Spec == Init /\ [][Next]_vars

\* The chain confirms, the interval keeps ticking and a fetch does not fail for ever; an
\* answer that has arrived is processed.
Fairness ==
    /\ WF_vars(Confirm)
    /\ \A r \in Request : WF_vars(Poll(r)) /\ SF_vars(Answer(r)) /\ WF_vars(Deliver(r))

FairSpec == Spec /\ Fairness

----------------------------------------------------------------------------
Event == Nat \X Nat

\* The shape of the cursor and of the requests; the cursor holds no future timestamp.
TypeOK ==
    /\ now \in Nat /\ confirmed \in 0 .. now /\ start \in 0 .. now /\ since \in start .. now
    /\ events \subseteq Event /\ handled \subseteq events /\ twice \subseteq handled
    /\ seen \subseteq handled
    /\ request \in [Request -> [st : {"free", "asked", "answered"}, since : Nat, page : SUBSET Event]]

\* The cursor never passes an event that was not handled, however the answers overlap and
\* wherever the page limit cuts a block: what lies between the start of the watch and the
\* cursor has been handed to the handler.
NothingSkipped ==
    \A e \in events : start <= Time(e) /\ Time(e) < since => e \in handled

\* As long as the dedupe keys are not cleared, overlapping and repeated answers do not
\* hand an event to the handler twice.
HandledOnce == twice = {}

\* A block whose events fill a page: the cursor, a timestamp, stays on it for ever.
FullBlock == \E t \in 0 .. MaxTime : Cardinality({e \in events : Time(e) = t}) >= Limit

\* An event is handled in the end, however polls fail and overlap, if the process does not
\* restart and no block fills a page.
EventsArrive ==
    \A t \in 0 .. MaxTime, n \in 1 .. MaxPerBlock :
        (<<t, n>> \in events /\ start <= t) ~> (<<t, n>> \in handled \/ start > t \/ FullBlock)

\* Requests do not pile up while a previous tick is still resolving.
NoPileUp == Cardinality({r \in Request : request[r].st # "free"}) <= 1
=============================================================================
