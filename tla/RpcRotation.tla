---------------------------- MODULE RpcRotation ----------------------------
(***************************************************************************)
(* The rotating RPC transport, orchestrator/src/rpc_rotation.ts, and one   *)
(* event watcher that polls through it (listener.ts, watchChain).          *)
(*                                                                         *)
(* A request sweeps the endpoints in round-robin order until one answers,  *)
(* and sweeps again after a pause if none did.  An endpoint that reports   *)
(* its capacity exceeded cools down: no sweep that begins meanwhile uses   *)
(* it, unless all of them cool down.  Cooldowns are shared by every        *)
(* client of the process, the start of the rotation is each client's own. *)
(* Requests overlap: a sweep keeps the order it began with, whatever the   *)
(* others learn.  The watcher's filter lives on the endpoint that created  *)
(* it; the others answer "filter not found", and it is created again only  *)
(* when that is the error a poll ends with.                                *)
(***************************************************************************)
EXTENDS Integers, Sequences, FiniteSets

CONSTANTS
    N,              \* number of urls: they are 0 .. N-1
    Client,         \* viem clients, each with a transport of its own
    Request,        \* what may be in flight at the same time
    Watcher,        \* the request that polls the event filter
    ClientOf,       \* the client a request goes through
    Cooldown,       \* RPC_COOLDOWN_SEC, in ticks
    SweepRetries,   \* DEFAULT_SWEEP_RETRY_COUNT
    NoUrl

Url == 0 .. (N - 1)

ASSUME RotationAssumption ==
    /\ N \in Nat \ {0} /\ Cooldown \in Nat \ {0} /\ SweepRetries \in Nat
    /\ IsFiniteSet(Request) /\ Watcher \in Request /\ ClientOf \in [Request -> Client]
    /\ NoUrl \notin Url

VARIABLES
    coolDown,       \* healthByUrl: ticks until coolDownUntilMs
    nextStartIndex, \* by client
    call,           \* the requests
    endpoint,       \* what each endpoint does: "answers", "capped" or "dead"
    filter,         \* the endpoint that holds the watcher's filter, NoUrl if none does
    initialized,    \* the watcher believes that its filter exists
    usable,         \* history: urls that could have served a request ever since it began
    hits            \* history: attempts on a cooling url while another was not

vars == <<coolDown, nextStartIndex, call, endpoint, filter, initialized, usable, hits>>

Idle == [pc |-> "idle", order |-> <<>>, attempt |-> 0]

Cooling(u) == coolDown[u] > 0
AllCooling == \A u \in Url : Cooling(u)

\* A getFilterChanges is understood only where the filter lives, anything else anywhere.
PollsFilter(r) == r = Watcher /\ initialized
Knows(r, u) == PollsFilter(r) => filter = u

Serves(r, u) == endpoint[u] = "answers" /\ Knows(r, u)

\* The order of two urls in a sweep: which recovers sooner, else round-robin from start.
Before(start, u, v) ==
    LET turn(w) == (w - start + N) % N
    IN  coolDown[u] < coolDown[v] \/ (coolDown[u] = coolDown[v] /\ turn(u) < turn(v))

\* A sweep over pool, in which each url has the place that those before it leave.
Sweep(pool, start) ==
    [k \in 1 .. Cardinality(pool) |->
        CHOOSE u \in pool : Cardinality({v \in pool : Before(start, v, u)}) = k - 1]

\* Mutant of rotationOrder: cooldowns put a url last and do not take it out.
rotationOrderOfAll(start) == Sweep(Url, start)

\* Mutant of rotationOrder: nothing to try when all cool down.
rotationOrderNoFallback(start) == Sweep({u \in Url : ~Cooling(u)}, start)

\* Mutant of rotationOrder: a sweep does not wrap around.
rotationOrderNoWrap(start) == Sweep({u \in Url : u >= start}, start)

\* Round-robin from start over the urls that are not cooling down; when all are, the one
\* that recovers soonest comes first.
rotationOrder(start) == Sweep(IF AllCooling THEN Url ELSE {u \in Url : ~Cooling(u)}, start)

----------------------------------------------------------------------------
\* History of a step in which attempted is the url tried, or NoUrl.
History(attempted) ==
    /\ usable' = [r \in Request |->
            IF call'[r].pc = "idle" THEN {}
            ELSE {u \in IF call[r].pc = "idle" THEN Url ELSE usable[r] :
                    Serves(r, u)' /\ ~Cooling(u)'}]
    /\ hits' = [u \in Url |->
            IF ~Cooling(u)' \/ AllCooling' THEN 0
            ELSE IF u = attempted /\ Cooling(u) /\ hits[u] <= Cardinality(Request)
                 THEN hits[u] + 1 ELSE hits[u]]

Begin(r) ==
    /\ call[r].pc = "idle"
    /\ call' = [call EXCEPT ![r] =
            [pc |-> "sweep", order |-> rotationOrder(nextStartIndex[ClientOf[r]]), attempt |-> 0]]
    /\ UNCHANGED <<coolDown, nextStartIndex, endpoint, filter, initialized>>
    /\ History(NoUrl)

Attempt(r) == Head(call[r].order)

\* A createFilter of the watcher leaves its filter where it was answered.
Answered(r) ==
    LET u == Attempt(r)
    IN  /\ call[r].pc = "sweep"
        /\ Serves(r, u)
        /\ nextStartIndex' = [nextStartIndex EXCEPT ![ClientOf[r]] = (u + 1) % N]
        /\ call' = [call EXCEPT ![r] = Idle]
        /\ filter' = IF r = Watcher THEN u ELSE filter
        /\ initialized' = (initialized \/ r = Watcher)
        /\ UNCHANGED <<coolDown, endpoint>>
        /\ History(u)

\* What the endpoint at the head of the order says instead of an answer.
ErrorOf(r) ==
    CASE endpoint[Attempt(r)] = "capped" -> "capacity"
      [] endpoint[Attempt(r)] = "dead"   -> "other"
      [] OTHER                           -> "notFound"

\* recordCapacityError
CoolDownOn(err, u) ==
    coolDown' = IF err = "capacity" THEN [coolDown EXCEPT ![u] = Cooldown] ELSE coolDown

\* The next url of the sweep is tried.
TriesNext(r) ==
    LET err == ErrorOf(r)
    IN  /\ call[r].pc = "sweep"
        /\ ~Serves(r, Attempt(r))
        /\ Len(call[r].order) > 1
        /\ CoolDownOn(err, Attempt(r))
        /\ call' = [call EXCEPT ![r].order = Tail(@)]
        /\ UNCHANGED <<nextStartIndex, endpoint, filter, initialized>>
        /\ History(Attempt(r))

\* The sweep is over: pause, and sweep again.
Pauses(r) ==
    LET err == ErrorOf(r)
    IN  /\ call[r].pc = "sweep"
        /\ ~Serves(r, Attempt(r))
        /\ Len(call[r].order) = 1
        /\ call[r].attempt < SweepRetries
        /\ CoolDownOn(err, Attempt(r))
        /\ call' = [call EXCEPT ![r].pc = "pause", ![r].order = <<>>]
        /\ UNCHANGED <<nextStartIndex, endpoint, filter, initialized>>
        /\ History(Attempt(r))

Resumes(r) ==
    /\ call[r].pc = "pause"
    /\ call' = [call EXCEPT ![r].pc = "sweep", ![r].attempt = @ + 1,
                            ![r].order = rotationOrder(nextStartIndex[ClientOf[r]])]
    /\ UNCHANGED <<coolDown, nextStartIndex, endpoint, filter, initialized>>
    /\ History(NoUrl)

\* Mutant of Throws: the error reaches the watcher without its code.
ThrowsWithoutCode(r) ==
    /\ call[r].pc = "sweep"
    /\ ~Serves(r, Attempt(r))
    /\ Len(call[r].order) = 1
    /\ call[r].attempt = SweepRetries
    /\ CoolDownOn(ErrorOf(r), Attempt(r))
    /\ call' = [call EXCEPT ![r] = Idle]
    /\ UNCHANGED <<nextStartIndex, endpoint, filter, initialized>>
    /\ History(Attempt(r))

\* The last sweep is over: its last error is thrown, and is all the watcher gets to see.
\* A filter that could not be created is asked for again; viem first tries the old filter
\* or, if there never was one, goes on with getLogs, which needs no filter.
Throws(r) ==
    LET err == ErrorOf(r)
    IN  /\ call[r].pc = "sweep"
        /\ ~Serves(r, Attempt(r))
        /\ Len(call[r].order) = 1
        /\ call[r].attempt = SweepRetries
        /\ CoolDownOn(err, Attempt(r))
        /\ call' = [call EXCEPT ![r] = Idle]
        /\ initialized' = (initialized /\ ~(r = Watcher /\ err = "notFound"))
        /\ UNCHANGED <<nextStartIndex, endpoint, filter>>
        /\ History(Attempt(r))

----------------------------------------------------------------------------
Tick ==
    /\ \E u \in Url : Cooling(u)
    /\ coolDown' = [u \in Url |-> IF Cooling(u) THEN coolDown[u] - 1 ELSE 0]
    /\ UNCHANGED <<nextStartIndex, call, endpoint, filter, initialized>>
    /\ History(NoUrl)

EndpointChanges(u) ==
    /\ \E s \in {"answers", "capped", "dead"} \ {endpoint[u]} :
            endpoint' = [endpoint EXCEPT ![u] = s]
    /\ UNCHANGED <<coolDown, nextStartIndex, call, filter, initialized>>
    /\ History(NoUrl)

\* Nodes drop a filter that was not polled for a while, or when they restart.
FilterExpires ==
    /\ filter # NoUrl
    /\ filter' = NoUrl
    /\ UNCHANGED <<coolDown, nextStartIndex, call, endpoint, initialized>>
    /\ History(NoUrl)

Init ==
    /\ coolDown = [u \in Url |-> 0]
    /\ nextStartIndex = [c \in Client |-> 0]
    /\ call = [r \in Request |-> Idle]
    /\ endpoint = [u \in Url |-> "answers"]
    /\ filter = NoUrl
    /\ initialized = FALSE
    /\ usable = [r \in Request |-> {}]
    /\ hits = [u \in Url |-> 0]

Progress(r) == Answered(r) \/ TriesNext(r) \/ Pauses(r) \/ Resumes(r) \/ Throws(r)

Next ==
    \/ \E r \in Request :
            \/ Begin(r) \/ Answered(r) \/ TriesNext(r) \/ Pauses(r) \/ Resumes(r) \/ Throws(r)
    \/ \E u \in Url : EndpointChanges(u)
    \/ FilterExpires
    \/ Tick

Spec == Init /\ [][Next]_vars

\* An attempt ends (RPC_TIMEOUT_MS), pauses end, intervals keep polling, time passes.
FairSpec ==
    /\ Spec
    /\ \A r \in Request : WF_vars(Begin(r)) /\ WF_vars(Progress(r))
    /\ WF_vars(Tick)

----------------------------------------------------------------------------
CallRecord ==
    [pc : {"idle", "sweep", "pause"}, order : Seq(Url), attempt : 0 .. SweepRetries]

\* The types of healthByUrl, nextStartIndex and the locals of request and attemptSweep.
\* A sweep always has a url to try: rotationOrder is never empty.
TypeOK ==
    /\ coolDown \in [Url -> 0 .. Cooldown]
    /\ nextStartIndex \in [Client -> Url]
    /\ call \in [Request -> CallRecord]
    /\ \A r \in Request : call[r].pc = "sweep" <=> call[r].order # <<>>
    /\ endpoint \in [Url -> {"answers", "capped", "dead"}]
    /\ filter \in Url \cup {NoUrl}
    /\ initialized \in BOOLEAN

\* "one client learning a URL is capped keeps every other client in this process off it
\* too" (rpc_rotation.ts, head comment), as far as overlapping requests allow: from the
\* moment a url cools down while another does not, each request that may be in flight
\* hits it once more at most, however many polls begin before the cooldown ends.
SparedWhileCooling ==
    \A u \in Url : hits[u] <= Cardinality(Request)

\* A request throws only if every url failed it or cooled down at some time while it
\* was running: one healthy key is enough, whatever the other keys and the other requests do.
OneGoodKeyIsEnough ==
    [][\A r \in Request : Throws(r) => usable[r] = {}]_vars

Watching == initialized /\ filter # NoUrl /\ endpoint[filter] = "answers"

\* Once the endpoints stop changing and one of them answers, a watcher whose filter
\* expired, or whose filter's endpoint died, gets a new one (rpc_rotation.ts:109-113:
\* losing the error code "left every watcher stuck").
WatcherRecovers ==
    (<>[][endpoint' = endpoint]_vars /\ []<>(\E u \in Url : endpoint[u] = "answers"))
        => []<>Watching
=============================================================================
