----------------------- MODULE UniverseRotationProofs -----------------------
(* Proofs about UniverseRotation, for any symbols, limits and rankings. *)
EXTENDS UniverseRotation, FiniteSetTheorems, TLAPS

(* A set of symbols that has room for one more, or holds it already, stays  *)
(* within the bound when the symbol is added (FundingRateTracker.update).   *)
LEMMA AddWithinBound ==
    ASSUME NEW S \in SUBSET Symbols, NEW x \in Symbols,
           Cardinality(S) <= TopN, x \in S \/ Cardinality(S) < TopN
    PROVE  Cardinality(S \cup {x}) <= TopN
<1>1. IsFiniteSet(S) BY SymbolsFinite, FS_Subset
<1>2. Cardinality(S) \in Nat BY <1>1, FS_CardinalityType
<1>3. CASE x \in S
  <2>1. S \cup {x} = S BY <1>3
  <2> QED BY <2>1
<1>4. CASE x \notin S
  <2>1. Cardinality(S \cup {x}) = Cardinality(S) + 1 BY <1>1, <1>4, FS_AddElement
  <2> QED BY <1>2, <1>4, <2>1, RotationNumbers
<1> QED BY <1>3, <1>4

(* Pruning a set keeps it within the bound (retain_symbols). *)
LEMMA PruneWithinBound ==
    ASSUME NEW S \in SUBSET Symbols, NEW T, Cardinality(S) <= TopN
    PROVE  Cardinality(S \cap T) <= TopN
<1>1. IsFiniteSet(S) BY SymbolsFinite, FS_Subset
<1>2. Cardinality(S) \in Nat /\ Cardinality(S \cap T) \in Nat
      /\ Cardinality(S \cap T) <= Cardinality(S)
  BY <1>1, FS_Subset, FS_CardinalityType
<1> QED BY <1>2, RotationNumbers

(* The empty set of the start is within the bound. *)
LEMMA EmptyWithinBound == Cardinality({}) <= TopN
BY FS_EmptySet, RotationNumbers

(* The first state of prepare satisfies the invariant. *)
LEMMA RotationInitially == Init => RotationInv
BY EmptyWithinBound, RotationNumbers
DEF Init, RotationInv, TypeOK, PlaceInv, NoUniverse, Places, Universes

(* Every step of the scanner, the funding loop and the streams preserves    *)
(* the invariant.                                                           *)
LEMMA RotationPreserved == RotationInv /\ [Next]_vars => RotationInv'
<1> SUFFICES ASSUME RotationInv, [Next]_vars PROVE RotationInv'
  OBVIOUS
<1> USE DEF RotationInv, scanner, runtime
<1>1. CASE \E u \in Universes : Rank(u)
  BY <1>1 DEF Rank, TypeOK, PlaceInv, Protected
<1>2. CASE Prepare
  <2>1. Cardinality(funding') <= TopN
    BY <1>2, PruneWithinBound DEF Prepare, SetActiveSymbols, TypeOK
  <2>2. TypeOK'
    BY <1>2, <2>1 DEF Prepare, SetActiveSymbols, TypeOK, Universes, Places, Tasks
  <2>3. PlaceInv'
    BY <1>2 DEF Prepare, SetActiveSymbols, TypeOK, PlaceInv, Universes
  <2> QED BY <2>2, <2>3
<1>3. CASE FundingLoaded
  BY <1>3 DEF FundingLoaded, TypeOK, PlaceInv, Places, Protected
<1>4. CASE Poll
  BY <1>4 DEF Poll, TypeOK, PlaceInv, Places, Protected
<1>5. CASE PollFails
  BY <1>5 DEF PollFails, TypeOK, PlaceInv, Places, Protected
<1>6. CASE PollSame
  <2>1. Cardinality(funding') <= TopN
    BY <1>6, PruneWithinBound DEF PollSame, SetActiveSymbols, TypeOK
  <2>2. TypeOK'
    BY <1>6, <2>1, RotationNumbers
    DEF PollSame, SetActiveSymbols, TypeOK, Universes, Places
  <2>3. PlaceInv'
    BY <1>6, RotationNumbers DEF PollSame, SetActiveSymbols, TypeOK, PlaceInv
  <2> QED BY <2>2, <2>3
<1>7. CASE PollDeferred
  BY <1>7, RotationNumbers DEF PollDeferred, TypeOK, PlaceInv, Places, Universes
<1>8. CASE PollObserved
  BY <1>8, RotationNumbers
  DEF PollObserved, NextConfirmations, TypeOK, PlaceInv, Places, Universes
<1>9. CASE PollConfirmed
  <2>1. confirmations' \in 0 .. Required
    BY <1>9, RotationNumbers DEF PollConfirmed, NextConfirmations, TypeOK, PlaceInv
  <2>2. TypeOK'
    BY <1>9, <2>1 DEF PollConfirmed, TypeOK, Places, Universes
  <2>3. PlaceInv'
    BY <1>9 DEF PollConfirmed, TypeOK, PlaceInv, Protected
  <2> QED BY <2>2, <2>3
<1>10. CASE Activate
  <2>1. Cardinality(funding') <= TopN
    BY <1>10, PruneWithinBound DEF Activate, SetActiveSymbols, TypeOK
  <2>2. TypeOK'
    BY <1>10, <2>1 DEF Activate, SetActiveSymbols, TypeOK, PlaceInv, Universes, Places, Tasks
  <2>3. PlaceInv'
    BY <1>10 DEF Activate, SetActiveSymbols, TypeOK, PlaceInv
  <2> QED BY <2>2, <2>3
<1>11. CASE Bootstrapped
  BY <1>11, RotationNumbers DEF Bootstrapped, TypeOK, PlaceInv, Places, Universes
<1>12. CASE Ends
  BY <1>12 DEF Ends, TypeOK, PlaceInv, Places
<1>13. CASE \E need \in SUBSET Symbols : RefreshFunding(need)
  BY <1>13 DEF RefreshFunding, TypeOK, PlaceInv, Tasks, Protected
<1>14. CASE \E l \in loads : Ingest(l)
  <2>1. PICK l \in loads : Ingest(l) BY <1>14
  <2>2. l[1] \in Symbols BY DEF TypeOK
  <2>3. Cardinality(funding') <= TopN
    BY <2>1, <2>2, AddWithinBound DEF Ingest, TypeOK
  <2>4. TypeOK' BY <2>1, <2>2, <2>3 DEF Ingest, TypeOK
  <2>5. PlaceInv' BY <2>1 DEF Ingest, PlaceInv, Protected
  <2> QED BY <2>4, <2>5
<1>15. CASE \E l \in loads : LoadDropped(l)
  BY <1>15 DEF LoadDropped, TypeOK, PlaceInv, Protected
<1>16. CASE \E s \in Symbols : PaperOpens(s)
  BY <1>16 DEF PaperOpens, TypeOK, PlaceInv, Protected
<1>17. CASE \E s \in Symbols : PaperEnds(s)
  BY <1>17 DEF PaperEnds, TypeOK, PlaceInv, Protected
<1>18. CASE UNCHANGED vars
  BY <1>18 DEF vars, TypeOK, PlaceInv, Protected
<1> QED
  BY <1>1, <1>2, <1>3, <1>4, <1>5, <1>6, <1>7, <1>8, <1>9, <1>10, <1>11, <1>12,
     <1>13, <1>14, <1>15, <1>16, <1>17, <1>18 DEF Next, Select

(* The invariant holds in every reachable state. *)
THEOREM RotationInvariant == Spec => []RotationInv
BY RotationInitially, RotationPreserved, PTL DEF Spec

(* While a candle can be handled, the scanner's universe, the runtime's     *)
(* active symbols and the WebSocket subscriptions are the same set          *)
(* (MarketScanner.run cancels the tasks before anything else changes).      *)
THEOREM SettledWhileStreaming == Spec => []StreamsOnSettledUniverse
<1>1. RotationInv => StreamsOnSettledUniverse
  BY DEF RotationInv, PlaceInv, StreamsOnSettledUniverse
<1> QED BY RotationInvariant, <1>1, PTL

(* No rotation prunes PAPER state: the protection _poll_universe_candidate  *)
(* checked still holds when set_active_symbols runs, two awaits later.      *)
THEOREM PaperOutlivesRotation == Spec => PaperSurvivesRotation
<1>1. RotationInv /\ [Next]_vars => [tradable' # tradable => paper' = paper]_vars
  <2> SUFFICES ASSUME RotationInv, Next, tradable' # tradable PROVE paper' = paper
    OBVIOUS
  <2> USE DEF RotationInv, scanner, runtime
  <2>1. CASE Prepare
    BY <2>1 DEF Prepare, SetActiveSymbols, PlaceInv
  <2>2. CASE PollSame
    BY <2>2 DEF PollSame, SetActiveSymbols, PlaceInv
  <2>3. CASE Activate
    BY <2>3 DEF Activate, SetActiveSymbols, PlaceInv, Protected
  <2> QED
    BY <2>1, <2>2, <2>3
    DEF Next, Select, Rank, FundingLoaded, Poll, PollFails, PollDeferred,
        PollObserved, PollConfirmed, Bootstrapped, Ends, RefreshFunding, Ingest,
        LoadDropped, PaperOpens, PaperEnds
<1> QED BY RotationInvariant, <1>1, PTL DEF Spec, PaperSurvivesRotation

=============================================================================
