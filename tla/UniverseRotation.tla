-------------------------- MODULE UniverseRotation --------------------------
(***************************************************************************)
(* How one futures MarketScanner (scanner.py) keeps its universe: prepare,  *)
(* the periodic poll with its confirmations, the rotation itself with its   *)
(* awaited REST calls, the WebSocket tasks of each universe, and the        *)
(* funding loop that runs beside them all and writes to the same runtime    *)
(* (MarketRuntime.set_active_symbols, FundingRateTracker).                  *)
(*                                                                          *)
(* Steps are what runs between two awaits.  A universe is its tradable and  *)
(* its surveillance symbols; the constant context symbols are left out, so  *)
(* the signature of a universe is its tradable set.                         *)
(***************************************************************************)
EXTENDS Naturals, FiniteSets

CONSTANTS
    Symbols,
    TopN,        \* binance.top_n, also FundingRateTracker.maximum_symbols
    Required,    \* binance.universe_change_confirmations
    MaxRanks     \* bound: changes of the exchange's ranking

ASSUME RotationNumbers ==
    TopN \in Nat \ {0} /\ Required \in Nat \ {0} /\ MaxRanks \in Nat
ASSUME SymbolsFinite == IsFiniteSet(Symbols)

VARIABLES
    ranked,        \* what UniverseSelector.select would return
    ranks,         \* changes of the ranking so far
    pc,            \* where MarketScanner.run is suspended
    candidate,     \* the universe being prepared or activated
    universe,      \* MarketScanner.universe
    signature, confirmations,   \* _pending_universe_signature, _confirmations
    tradable, surveillance,     \* the runtime's active symbols
    streams,       \* tradable symbols the running WebSocket tasks serve
    funding,       \* symbols with history in the FundingRateTracker
    loads,         \* funding requests under way, with the task awaiting them
    paper          \* continuation_symbols of the PAPER lifecycle

runtime == <<tradable, surveillance, funding, paper>>
scanner == <<pc, candidate, universe, signature, confirmations, streams>>
vars == <<ranked, ranks, scanner, runtime, loads>>

-----------------------------------------------------------------------------
Universes ==
    {u \in [tr : SUBSET Symbols \ {{}}, sv : SUBSET Symbols] :
        u.tr \subseteq u.sv /\ Cardinality(u.tr) <= TopN}
NoUniverse == [tr |-> {}, sv |-> {}]
Tasks == {"loop", "scanner"}

(* The places run, prepare and _activate_universe await at. *)
Places == {"select", "prepare_funding", "prepare_bootstrap", "wait", "poll",
           "cancel", "funding", "bootstrap", "ended"}

TypeOK ==
    /\ ranked \in Universes /\ ranks \in Nat
    /\ pc \in Places
    /\ candidate \in Universes \cup {NoUniverse}
    /\ universe \in Universes \cup {NoUniverse}
    /\ signature \in SUBSET Symbols /\ confirmations \in 0 .. Required
    /\ tradable \subseteq surveillance /\ surveillance \subseteq Symbols
    /\ streams \subseteq Symbols
    /\ funding \subseteq Symbols /\ Cardinality(funding) <= TopN
    /\ loads \subseteq Symbols \X Tasks
    /\ paper \subseteq Symbols

Init ==
    /\ ranked \in Universes /\ ranks = 0
    /\ pc = "select"
    /\ candidate = NoUniverse /\ universe = NoUniverse
    /\ signature = {} /\ confirmations = 0
    /\ tradable = {} /\ surveillance = {}
    /\ streams = {} /\ funding = {} /\ paper = {}
    /\ loads = {}

-----------------------------------------------------------------------------
(* set_active_symbols: every store of the runtime keeps its active symbols. *)
SetActiveSymbols(u) ==
    /\ tradable' = u.tr
    /\ surveillance' = u.sv
    /\ funding' = funding \cap u.tr
    /\ paper' = paper \cap u.tr

(* The exchange's volumes change. *)
Rank(u) ==
    /\ ranks < MaxRanks /\ u # ranked
    /\ ranked' = u
    /\ ranks' = ranks + 1
    /\ UNCHANGED <<scanner, runtime, loads>>

(* prepare: the first universe is active before its data is loaded. *)
Prepare ==
    /\ pc = "select"
    /\ candidate' = ranked
    /\ universe' = ranked
    /\ SetActiveSymbols(ranked)
    /\ loads' = loads \cup ranked.tr \X {"scanner"}
    /\ pc' = "prepare_funding"
    /\ UNCHANGED <<ranked, ranks, signature, confirmations, streams>>

Loaded(task) == ~\E l \in loads : l[2] = task

(* _refresh_funding returns to prepare or _activate_universe once every     *)
(* symbol it was called for is answered.                                    *)
FundingLoaded ==
    /\ pc \in {"prepare_funding", "funding"} /\ Loaded("scanner")
    /\ pc' = IF pc = "funding" THEN "bootstrap" ELSE "prepare_bootstrap"
    /\ UNCHANGED <<ranked, ranks, candidate, universe, signature, confirmations,
                   streams, runtime, loads>>

(* _bootstrap has loaded the candles of the added symbols, and the          *)
(* WebSocket tasks of the universe start.                                   *)
Bootstrapped ==
    /\ pc \in {"prepare_bootstrap", "bootstrap"}
    /\ universe' = candidate
    /\ signature' = {} /\ confirmations' = 0
    /\ streams' = candidate.tr
    /\ pc' = "wait"
    /\ UNCHANGED <<ranked, ranks, candidate, runtime, loads>>

(* The universe refresh is due: select is awaited, the streams go on. *)
Poll ==
    /\ pc = "wait"
    /\ pc' = "poll"
    /\ UNCHANGED <<ranked, ranks, candidate, universe, signature, confirmations,
                   streams, runtime, loads>>

(* _poll_universe_candidate, the selection failed or is empty. *)
PollFails ==
    /\ pc = "poll"
    /\ pc' = "wait"
    /\ UNCHANGED <<ranked, ranks, candidate, universe, signature, confirmations,
                   streams, runtime, loads>>

(* The same tradable symbols: a new surveillance universe is taken at once. *)
PollSame ==
    /\ pc = "poll" /\ ranked.tr = universe.tr
    /\ signature' = {} /\ confirmations' = 0
    /\ IF ranked.sv # universe.sv
       THEN SetActiveSymbols(ranked) /\ universe' = ranked
       ELSE UNCHANGED <<runtime, universe>>
    /\ pc' = "wait"
    /\ UNCHANGED <<ranked, ranks, candidate, streams, loads>>

(* Slip: the PAPER state is not looked at. *)
ProtectedNothing(u) == {}
(* Outgoing symbols that PAPER still needs. *)
Protected(u) == paper \cap (universe.tr \ u.tr)

PollDeferred ==
    /\ pc = "poll" /\ ranked.tr # universe.tr
    /\ Protected(ranked) # {}
    /\ signature' = {} /\ confirmations' = 0
    /\ pc' = "wait"
    /\ UNCHANGED <<ranked, ranks, candidate, universe, streams, runtime, loads>>

(* Slip: a repeated candidate does not add to the count. *)
NextConfirmationsStuck == 1
NextConfirmations == IF ranked.tr = signature THEN confirmations + 1 ELSE 1

PollObserved ==
    /\ pc = "poll" /\ ranked.tr # universe.tr
    /\ Protected(ranked) = {} /\ NextConfirmations < Required
    /\ signature' = ranked.tr
    /\ confirmations' = NextConfirmations
    /\ pc' = "wait"
    /\ UNCHANGED <<ranked, ranks, candidate, universe, streams, runtime, loads>>

(* Slip: the streams of the old universe go on until they are replaced. *)
PollConfirmedStreaming ==
    /\ pc = "poll" /\ ranked.tr # universe.tr
    /\ Protected(ranked) = {} /\ NextConfirmations >= Required
    /\ signature' = ranked.tr
    /\ confirmations' = NextConfirmations
    /\ candidate' = ranked
    /\ pc' = "cancel"
    /\ UNCHANGED <<ranked, ranks, universe, streams, runtime, loads>>

(* Confirmed: run cancels the WebSocket tasks before it awaits anything. *)
PollConfirmed ==
    /\ pc = "poll" /\ ranked.tr # universe.tr
    /\ Protected(ranked) = {} /\ NextConfirmations >= Required
    /\ signature' = ranked.tr
    /\ confirmations' = NextConfirmations
    /\ candidate' = ranked
    /\ streams' = {}
    /\ pc' = "cancel"
    /\ UNCHANGED <<ranked, ranks, universe, runtime, loads>>

(* _activate_universe, up to its first await. *)
Activate ==
    /\ pc = "cancel"
    /\ SetActiveSymbols(candidate)
    /\ loads' = loads \cup (candidate.tr \ universe.tr) \X {"scanner"}
    /\ pc' = "funding"
    /\ UNCHANGED <<ranked, ranks, candidate, universe, signature, confirmations, streams>>

(* run ends: the application stops, a REST error is raised while preparing  *)
(* or bootstrapping, or a required symbol is not available.                 *)
Ends ==
    /\ pc # "ended"
    /\ pc' = "ended"
    /\ streams' = {}
    /\ loads' = {}
    /\ UNCHANGED <<ranked, ranks, candidate, universe, signature, confirmations, runtime>>

(* _funding_refresh_loop starts a refresh of the scanner's universe; some   *)
(* symbols need no request.                                                 *)
RefreshFunding(need) ==
    /\ pc \notin {"select", "prepare_funding", "prepare_bootstrap", "ended"}
    /\ Loaded("loop")
    /\ need # {} /\ need \subseteq universe.tr
    /\ loads' = loads \cup need \X {"loop"}
    /\ UNCHANGED <<ranked, ranks, scanner, runtime>>

(* Slip: the symbol capacity is not tested. *)
IngestUnbounded(l) ==
    /\ funding' = funding \cup {l[1]}
    /\ loads' = loads \ {l}
    /\ UNCHANGED <<ranked, ranks, scanner, tradable, surveillance, paper>>

(* An answer is ingested, up to the symbol capacity ... *)
Ingest(l) ==
    /\ l[1] \in funding \/ Cardinality(funding) < TopN
    /\ funding' = funding \cup {l[1]}
    /\ loads' = loads \ {l}
    /\ UNCHANGED <<ranked, ranks, scanner, tradable, surveillance, paper>>

(* ... or dropped: capacity, a REST error or a malformed page. *)
LoadDropped(l) ==
    /\ loads' = loads \ {l}
    /\ UNCHANGED <<ranked, ranks, scanner, runtime>>

(* A candle of a running stream gives its symbol PAPER state or ends it. *)
PaperOpens(s) ==
    /\ s \in streams \cap tradable /\ s \notin paper
    /\ paper' = paper \cup {s}
    /\ UNCHANGED <<ranked, ranks, scanner, tradable, surveillance, funding, loads>>

PaperEnds(s) ==
    /\ s \in streams \cap paper
    /\ paper' = paper \ {s}
    /\ UNCHANGED <<ranked, ranks, scanner, tradable, surveillance, funding, loads>>

-----------------------------------------------------------------------------
Select == PollFails \/ PollSame \/ PollDeferred \/ PollObserved \/ PollConfirmed

Next ==
    \/ \E u \in Universes : Rank(u)
    \/ Prepare \/ FundingLoaded \/ Poll \/ Select \/ Activate \/ Bootstrapped \/ Ends
    \/ \E need \in SUBSET Symbols : RefreshFunding(need)
    \/ \E l \in loads : Ingest(l) \/ LoadDropped(l)
    \/ \E s \in Symbols : PaperOpens(s) \/ PaperEnds(s)

Spec == Init /\ [][Next]_vars

(* The scanner's coroutine is scheduled, requests end (they have timeouts), *)
(* and of infinitely many polls infinitely many reach the exchange.         *)
FairSpec ==
    /\ Spec
    /\ WF_vars(Prepare \/ FundingLoaded \/ Poll \/ Activate \/ Bootstrapped)
    /\ WF_vars(Select)
    /\ SF_vars(PollSame) /\ SF_vars(PollDeferred)
    /\ SF_vars(PollObserved) /\ SF_vars(PollConfirmed)
    /\ WF_vars(\E l \in loads : l[2] = "scanner" /\ (Ingest(l) \/ LoadDropped(l)))

-----------------------------------------------------------------------------
(* Properties. *)

(* A rotation never throws PAPER state away: what poll found unprotected is *)
(* still unprotected when, two awaits later, set_active_symbols prunes.     *)
PaperSurvivesRotation == [][tradable' # tradable => paper' = paper]_vars

(* Streams only run on a settled universe: while a candle can be handled,   *)
(* the scanner, the runtime and the subscriptions agree, whatever is being  *)
(* awaited elsewhere.                                                       *)
StreamsOnSettledUniverse == streams # {} => streams = tradable /\ streams = universe.tr

(* The inductive invariant behind both.  What the runtime has active at     *)
(* each place run is suspended at, and what poll found out about PAPER      *)
(* before the tasks were cancelled.                                         *)
PlaceInv ==
    /\ pc \in {"wait", "poll"} => streams = tradable
    /\ pc \notin {"wait", "poll"} => streams = {}
    /\ pc \in {"wait", "poll", "cancel"} => tradable = universe.tr
    /\ pc \in {"prepare_funding", "prepare_bootstrap", "funding", "bootstrap"}
          => tradable = candidate.tr
    /\ pc = "cancel" => Protected(candidate) = {}
    /\ pc = "select" => paper = {}
    /\ pc \notin {"select", "wait", "poll", "ended"} => candidate \in Universes
    /\ pc \in {"wait", "poll", "cancel"} => universe \in Universes
    /\ pc \in {"wait", "poll"} => confirmations < Required
    /\ paper \subseteq tradable
RotationInv == TypeOK /\ PlaceInv

(* A ranking that lasts is adopted, as soon as no PAPER state stands        *)
(* against it, unless the scanner ends.                                     *)
RankingAdopted ==
    \A u \in Universes :
        <>[](ranked = u /\ paper = {}) => <>(universe = u \/ pc = "ended")

(* Funding histories are only kept for the active universe. *)
FundingWithinUniverse == funding \subseteq tradable

=============================================================================
