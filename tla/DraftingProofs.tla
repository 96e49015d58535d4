--------------------------- MODULE DraftingProofs ---------------------------
(***************************************************************************)
(* Proofs about Drafting, for any number of sources and any limits.  Every   *)
(* stage of a run is entered once, so what holds of an accepted brief is     *)
(* shown at the step that accepts it; the type invariant gives the shape of  *)
(* the draft, and the finiteness of the sources lets them be counted.        *)
(***************************************************************************)
EXTENDS Drafting, FiniteSetTheorems, TLAPS

\* The inductive invariant: the types, and ids that can be counted.
TypeInv == TypeOK /\ IsFiniteSet(IdsOf(sources))

\* What has to be held is a finite set.
LEMMA SensitiveFinite ==
    ASSUME IsFiniteSet(IdsOf(sources))
    PROVE  /\ IsFiniteSet(Sensitive)
           /\ IsFiniteSet(Missing)
           /\ Cardinality(Missing) <= Cardinality(Sensitive)
           /\ Cardinality(Sensitive) \in Nat
<1>1. Sensitive \in SUBSET IdsOf(sources)
  BY DEF Sensitive, IdsOf
<1>2. IsFiniteSet(Sensitive)
  BY <1>1, FS_Subset
<1>3. Missing \in SUBSET Sensitive
  BY DEF Missing
<1> QED BY <1>2, <1>3, FS_Subset, FS_CardinalityType

\* The items of a draft.
LEMMA DraftItems ==
    ASSUME draft \in Draft
    PROVE  /\ draft.held \in Seq(HeldItem)
           /\ Len(draft.held) <= HeldLimit
           /\ \A i \in DOMAIN draft.held :
                  /\ draft.held[i].ids \in Citations
                  /\ Cardinality(draft.held[i].ids) <= ItemLimit
<1>1. PICK n \in 0 .. HeldLimit :
          draft.held \in [1 .. n -> {item \in HeldItem :
                                        Cardinality(item.ids) <= ItemLimit}]
  BY DEF Draft
<1>2. draft.held \in Seq(HeldItem) /\ Len(draft.held) = n
  BY <1>1, DraftingAssumption
<1>3. \A i \in DOMAIN draft.held :
          draft.held[i] \in HeldItem /\ Cardinality(draft.held[i].ids) <= ItemLimit
  BY <1>1
<1> QED BY <1>1, <1>2, <1>3, DraftingAssumption DEF HeldItem

\* The three outcomes of the routing.
LEMMA RoutedCases ==
    \/ Missing = {} /\ Routed = draft.held
    \/ /\ Missing # {} /\ Groups # {}
       /\ Routed = [draft.held EXCEPT ![FirstGroup].ids = @ \cup Missing]
    \/ /\ Missing # {} /\ Groups = {}
       /\ Routed = Append(draft.held, [group |-> TRUE, ids |-> Missing])
BY DEF Routed

\* An item put at the end leaves those before it where they are.
LEMMA AppendKeeps ==
    ASSUME NEW S, NEW held \in Seq(S), NEW item
    PROVE  /\ Len(Append(held, item)) = Len(held) + 1
           /\ DOMAIN Append(held, item) = 1 .. Len(held) + 1
           /\ Append(held, item)[Len(held) + 1] = item
           /\ \A i \in 1 .. Len(held) :
                  /\ i \in DOMAIN Append(held, item)
                  /\ Append(held, item)[i] = held[i]
<1>1. held \in Seq(S \cup {item}) /\ item \in S \cup {item}
  OBVIOUS
<1> QED BY <1>1

\* What has been routed has the items of the draft, in their places.
LEMMA RoutedKeepsItems ==
    ASSUME draft \in Draft
    PROVE  \A i \in DOMAIN draft.held :
               /\ i \in DOMAIN Routed
               /\ draft.held[i].group = Routed[i].group
               /\ draft.held[i].ids \subseteq Routed[i].ids
<1>0. draft.held \in Seq(HeldItem)
  BY DraftItems
<1>1. CASE Missing = {} /\ Routed = draft.held
  BY <1>1
<1>2. CASE /\ Missing # {} /\ Groups # {}
           /\ Routed = [draft.held EXCEPT ![FirstGroup].ids = @ \cup Missing]
  <2>1. DOMAIN Routed = DOMAIN draft.held
    BY <1>2
  <2>2. ASSUME NEW i \in DOMAIN draft.held
        PROVE  /\ draft.held[i].group = Routed[i].group
               /\ draft.held[i].ids \subseteq Routed[i].ids
    <3>1. draft.held[i] \in HeldItem
      BY <1>0
    <3>2. CASE i = FirstGroup
      BY <1>2, <3>1, <3>2 DEF HeldItem
    <3>3. CASE i # FirstGroup
      BY <1>2, <3>3
    <3> QED BY <3>2, <3>3
  <2> QED BY <2>1, <2>2
<1>3. CASE /\ Missing # {} /\ Groups = {}
           /\ Routed = Append(draft.held, [group |-> TRUE, ids |-> Missing])
  <2> DEFINE new == [group |-> TRUE, ids |-> Missing]
  <2>1. Routed = Append(draft.held, new)
    BY <1>3
  <2>2. \A i \in 1 .. Len(draft.held) :
            i \in DOMAIN Append(draft.held, new)
            /\ Append(draft.held, new)[i] = draft.held[i]
    BY <1>0, AppendKeeps
  <2>3. DOMAIN draft.held = 1 .. Len(draft.held)
    BY <1>0
  <2> QED BY <2>1, <2>2, <2>3
<1> QED BY <1>1, <1>2, <1>3, RoutedCases

\* A set that is finite and has an element is counted from one.
LEMMA Counted ==
    ASSUME NEW S, IsFiniteSet(S), S # {}
    PROVE  Cardinality(S) \in Nat \ {0}
BY FS_CardinalityType, FS_EmptySet

\* What is routed without an error is within the limits of a brief.
LEMMA RoutedWithinLimits ==
    ASSUME draft \in Draft, IsFiniteSet(IdsOf(sources)), Routable
    PROVE  /\ Len(Routed) <= HeldLimit
           /\ \A i \in DOMAIN Routed :
                  Cardinality(Routed[i].ids) \in 1 .. ItemLimit
<1>0. /\ draft.held \in Seq(HeldItem)
      /\ Len(draft.held) <= HeldLimit
      /\ HeldLimit \in Nat /\ ItemLimit \in Nat
  BY DraftItems, DraftingAssumption
<1>a. ASSUME NEW i \in DOMAIN draft.held
      PROVE  /\ IsFiniteSet(draft.held[i].ids) /\ draft.held[i].ids # {}
             /\ Cardinality(draft.held[i].ids) \in 1 .. ItemLimit
  <2>1. draft.held[i].ids \in Citations
    BY DraftItems
  <2>2. IsFiniteSet(draft.held[i].ids) /\ draft.held[i].ids # {}
    BY <2>1, DraftingAssumption
  <2>3. Cardinality(draft.held[i].ids) \in Nat \ {0}
    BY <2>2, Counted
  <2> QED BY <1>0, <2>2, <2>3, DraftItems
<1>b. IsFiniteSet(Missing)
  BY SensitiveFinite
<1>1. CASE Missing = {} /\ Routed = draft.held
  BY <1>0, <1>a, <1>1
<1>2. CASE /\ Missing # {} /\ Groups # {}
           /\ Routed = [draft.held EXCEPT ![FirstGroup].ids = @ \cup Missing]
  <2>1. Len(Routed) = Len(draft.held) /\ DOMAIN Routed = DOMAIN draft.held
    BY <1>0, <1>2
  <2>2. Cardinality(draft.held[FirstGroup].ids \cup Missing) <= ItemLimit
    BY <1>2 DEF Routable
  <2>3. ASSUME NEW i \in DOMAIN draft.held
        PROVE  Cardinality(Routed[i].ids) \in 1 .. ItemLimit
    <3>1. CASE i = FirstGroup
      <4>1. draft.held[i] \in HeldItem
        BY <1>0
      <4>2. Routed[i].ids = draft.held[FirstGroup].ids \cup Missing
        BY <1>2, <3>1, <4>1 DEF HeldItem
      <4>3. IsFiniteSet(Routed[i].ids) /\ Routed[i].ids # {}
        <5>1. IsFiniteSet(draft.held[i].ids)
          BY <1>a
        <5>2. IsFiniteSet(draft.held[i].ids \cup Missing)
          BY <1>b, <5>1, FS_Union
        <5> QED BY <1>2, <3>1, <4>2, <5>2
      <4>4. Cardinality(Routed[i].ids) \in Nat \ {0}
        BY <4>3, Counted
      <4> QED BY <1>0, <2>2, <4>2, <4>4
    <3>2. CASE i # FirstGroup
      <4>1. Routed[i] = draft.held[i]
        BY <1>2, <3>2
      <4> QED BY <1>a, <4>1
    <3> QED BY <3>1, <3>2
  <2> QED BY <1>0, <2>1, <2>3
<1>3. CASE /\ Missing # {} /\ Groups = {}
           /\ Routed = Append(draft.held, [group |-> TRUE, ids |-> Missing])
  <2> DEFINE new == [group |-> TRUE, ids |-> Missing]
  <2>1. Len(draft.held) < HeldLimit /\ Cardinality(Missing) <= ItemLimit
    BY <1>3 DEF Routable
  <2>2. Cardinality(Missing) \in Nat \ {0}
    BY <1>b, <1>3, Counted
  <2>3. /\ Len(Routed) = Len(draft.held) + 1
        /\ DOMAIN Routed = 1 .. Len(draft.held) + 1
        /\ Routed[Len(draft.held) + 1] = new
        /\ \A i \in 1 .. Len(draft.held) : Routed[i] = draft.held[i]
    <3>1. Routed = Append(draft.held, new)
      BY <1>3
    <3> HIDE DEF new
    <3> QED BY <1>0, <3>1, AppendKeeps
  <2>4. Len(draft.held) \in Nat /\ DOMAIN draft.held = 1 .. Len(draft.held)
    BY <1>0
  <2>5. ASSUME NEW i \in DOMAIN Routed
        PROVE  Cardinality(Routed[i].ids) \in 1 .. ItemLimit
    <3>1. CASE i = Len(draft.held) + 1
      BY <1>0, <2>1, <2>2, <2>3, <3>1
    <3>2. CASE i \in 1 .. Len(draft.held)
      BY <1>a, <2>3, <2>4, <3>2
    <3> QED BY <2>3, <2>4, <3>1, <3>2
  <2> QED BY <1>0, <2>1, <2>3, <2>4, <2>5
<1> QED BY <1>1, <1>2, <1>3, RoutedCases

-----------------------------------------------------------------------------

\* The types hold at the start.
LEMMA TypeInit == Init => TypeInv
<1> SUFFICES ASSUME Init PROVE TypeInv
  OBVIOUS
<1>1. NoDraft \in Draft
  <2>1. Cardinality({}) = 0 /\ IsFiniteSet({})
    BY FS_EmptySet
  <2>2. <<>> \in [1 .. 0 -> {item \in HeldItem :
                                Cardinality(item.ids) <= ItemLimit}]
    OBVIOUS
  <2>3. 0 \in 0 .. HeldLimit
    BY DraftingAssumption
  <2> QED BY <2>1, <2>2, <2>3, DraftingAssumption DEF NoDraft, Draft
<1>2. IdsOf(sources) = {}
  BY DEF Init, IdsOf
<1>3. Len(NoBrief.held) = 0 /\ DOMAIN NoBrief.held = {}
  BY DEF NoBrief
<1>4. NoBrief.result = "none"
  BY DEF NoBrief
<1>5. IsFiniteSet({})
  BY FS_EmptySet
<1>6. HeldLimit \in Nat
  BY DraftingAssumption
<1>7. /\ stage = "fetching" /\ sources = {} /\ evidence = {}
      /\ {scope, coverage, baseline} \subseteq BOOLEAN
      /\ draft = NoDraft /\ brief = NoBrief
  BY DEF Init
<1>8. TypeOK
  BY <1>1, <1>3, <1>4, <1>6, <1>7 DEF TypeOK
<1> QED BY <1>2, <1>5, <1>8 DEF TypeInv

\* Every step keeps the types.
LEMMA TypeStep == TypeInv /\ [Next]_vars => TypeInv'
<1> SUFFICES ASSUME TypeInv, [Next]_vars PROVE TypeInv'
  OBVIOUS
<1> USE DEF TypeInv, TypeOK
<1>1. CASE Fetch
  <2>1. PICK s \in Source : sources' = sources \cup {s} /\ scope' \in BOOLEAN
    BY <1>1 DEF Fetch
  <2>2. IdsOf(sources') = IdsOf(sources) \cup {s.id}
    BY <2>1 DEF IdsOf
  <2>3. IsFiniteSet(IdsOf(sources'))
    BY <2>2, FS_AddElement
  <2> QED BY <1>1, <2>1, <2>3 DEF Fetch, IdsOf
<1>2. CASE Curate
  BY <1>2 DEF Curate, IdsOf
<1>3. CASE Write
  BY <1>3 DEF Write, IdsOf
<1>4. CASE WriterFails
  BY <1>4 DEF WriterFails, IdsOf
<1>5. CASE Accept
  <2>1. brief'.held = Routed /\ brief'.result = Result
    BY <1>5 DEF Accept
  <2>2. Result \in Results
    BY DEF Result, Results
  <2>3. Routable
    BY <1>5 DEF Accept
  <2>4. /\ Len(Routed) <= HeldLimit
        /\ \A i \in DOMAIN Routed : Cardinality(Routed[i].ids) \in 1 .. ItemLimit
    BY <2>3, RoutedWithinLimits
  <2> QED BY <1>5, <2>1, <2>2, <2>4 DEF Accept, IdsOf
<1>6. CASE Reject
  BY <1>6 DEF Reject, IdsOf
<1>7. CASE UNCHANGED vars
  BY <1>7 DEF vars, IdsOf
<1> QED BY <1>1, <1>2, <1>3, <1>4, <1>5, <1>6, <1>7 DEF Next

\* The types of the variables, and a brief within its limits.
THEOREM TypeCorrect == Spec => []TypeOK
<1>1. TypeInv => TypeOK
  BY DEF TypeInv
<1> QED BY <1>1, TypeInit, TypeStep, PTL DEF Spec

-----------------------------------------------------------------------------
(* What holds of an accepted brief.                                          *)

\* An accepted brief is accepted at one step, by the gate, and stays.
LEMMA AcceptedAtOnce ==
    ASSUME [Next]_vars, stage' = "accepted"
    PROVE  Accept \/ UNCHANGED vars
BY DEF Next, Fetch, Curate, Write, WriterFails, Reject

\* A claim of a brief cites only what the model was shown and what is nowhere
\* held.
THEOREM Supported == Spec => []ClaimsSupported
<1>1. Init => ClaimsSupported
  BY DEF Init, ClaimsSupported
<1>2. ClaimsSupported /\ [Next]_vars => ClaimsSupported'
  <2> SUFFICES ASSUME ClaimsSupported, [Next]_vars, stage' = "accepted"
               PROVE  ClaimsSupported'
    BY DEF ClaimsSupported
  <2>1. CASE Accept
    <3>1. ClaimsAllowed /\ brief'.claims = draft.claims
      BY <2>1 DEF Accept, Valid
    <3>2. sources' = sources /\ evidence' = evidence
      BY <2>1 DEF Accept
    <3>3. ASSUME NEW cites \in draft.claims, NEW id \in cites
          PROVE  \E s \in evidence :
                     /\ s.id = id
                     /\ \A t \in sources : t.id = id => ~t.sensitive
      BY <3>1 DEF ClaimsAllowed, Claimable, Sensitive, IdsOf
    <3> QED BY <3>1, <3>2, <3>3 DEF ClaimsSupported
  <2>2. CASE UNCHANGED vars
    BY <2>2 DEF ClaimsSupported, vars
  <2> QED BY <2>1, <2>2, AcceptedAtOnce
<1> QED BY <1>1, <1>2, PTL DEF Spec

\* Every sensitive source is held, and nothing is held that was not fetched.
THEOREM Held == Spec => []SensitiveHeld
<1>1. Init => SensitiveHeld
  BY DEF Init, SensitiveHeld
<1>2. SensitiveHeld /\ [Next]_vars => SensitiveHeld'
  <2> SUFFICES ASSUME SensitiveHeld, [Next]_vars, stage' = "accepted"
               PROVE  SensitiveHeld'
    BY DEF SensitiveHeld
  <2>1. CASE Accept
    <3>1. HeldAllowed /\ brief'.held = Routed /\ sources' = sources
      BY <2>1 DEF Accept, Valid
    <3>2. \A s \in sources : s.sensitive => s.id \in Sensitive
      BY DEF Sensitive, IdsOf
    <3> HIDE DEF Routed
    <3> QED BY <3>1, <3>2 DEF SensitiveHeld, HeldAllowed, HeldIds, IdsOf
  <2>2. CASE UNCHANGED vars
    BY <2>2 DEF SensitiveHeld, HeldIds, IdsOf, vars
  <2> QED BY <2>1, <2>2, AcceptedAtOnce
<1> QED BY <1>1, <1>2, PTL DEF Spec

\* What a brief says of itself is true.
THEOREM Honest == Spec => []ResultHonest
<1>1. Init => TypeInv /\ ResultHonest
  BY TypeInit DEF Init, ResultHonest
<1>2. TypeInv /\ ResultHonest /\ [Next]_vars => TypeInv' /\ ResultHonest'
  <2> SUFFICES ASSUME TypeInv, ResultHonest, [Next]_vars, stage' = "accepted"
               PROVE  ResultHonest'
    BY TypeStep DEF ResultHonest
  <2>1. CASE Accept
    <3>1. /\ brief'.result = Result
          /\ brief'.claims = draft.claims /\ brief'.held = Routed
          /\ coverage' = coverage /\ baseline' = baseline
          /\ NoChangeJustified /\ SomethingSaid
      BY <2>1 DEF Accept, Valid
    <3>2. Result = "no material change" =>
              coverage /\ ~baseline /\ draft.noChange
      BY DEF Result
    <3>3. Result = "material items found" =>
              coverage /\ ~baseline /\ ~draft.noChange
      BY DEF Result, TypeInv, TypeOK
    <3> QED BY <3>1, <3>2, <3>3
        DEF ResultHonest, NoChangeJustified, SomethingSaid
  <2>2. CASE UNCHANGED vars
    BY <2>2 DEF ResultHonest, vars
  <2> QED BY <2>1, <2>2, AcceptedAtOnce
<1> QED BY <1>1, <1>2, PTL DEF Spec

\* What the model held is held.
THEOREM Kept == Spec => []RoutingKeeps
<1>1. Init => TypeInv /\ RoutingKeeps
  BY TypeInit DEF Init, RoutingKeeps
<1>2. TypeInv /\ RoutingKeeps /\ [Next]_vars => TypeInv' /\ RoutingKeeps'
  <2> SUFFICES ASSUME TypeInv, RoutingKeeps, [Next]_vars, stage' = "accepted"
               PROVE  RoutingKeeps'
    BY TypeStep DEF RoutingKeeps
  <2>1. CASE Accept
    <3>1. brief'.held = Routed /\ draft' = draft
      BY <2>1 DEF Accept
    <3>2. \A i \in DOMAIN draft.held :
              /\ i \in DOMAIN Routed
              /\ draft.held[i].group = Routed[i].group
              /\ draft.held[i].ids \subseteq Routed[i].ids
      BY RoutedKeepsItems DEF TypeInv, TypeOK
    <3> QED BY <3>1, <3>2 DEF RoutingKeeps
  <2>2. CASE UNCHANGED vars
    BY <2>2 DEF RoutingKeeps, vars
  <2> QED BY <2>1, <2>2, AcceptedAtOnce
<1> QED BY <1>1, <1>2, PTL DEF Spec

\* Nothing that is due for review is lost on the way to the brief.
THEOREM KeptForReview == Spec => []HeldForReview
BY Held, Kept, PTL DEF HeldForReview

-----------------------------------------------------------------------------
(* What holds of a rejected draft.                                           *)

\* Where there is no group item, the missing ids are added as one.
LEMMA RoutedIds ==
    ASSUME draft \in Draft, Groups = {}
    PROVE  /\ HeldIds(Routed) = HeldIds(draft.held) \cup Missing
           /\ draft.held # <<>> => Routed # <<>>
<1>0. draft.held \in Seq(HeldItem)
  BY DraftItems
<1>1. CASE Missing = {} /\ Routed = draft.held
  BY <1>1
<1>2. CASE Routed = Append(draft.held, [group |-> TRUE, ids |-> Missing])
  <2> DEFINE new == [group |-> TRUE, ids |-> Missing]
  <2>1. new.ids = Missing
    OBVIOUS
  <2>2. /\ Len(Routed) = Len(draft.held) + 1
        /\ DOMAIN Routed = 1 .. Len(draft.held) + 1
        /\ Routed[Len(draft.held) + 1] = new
        /\ \A i \in 1 .. Len(draft.held) : Routed[i] = draft.held[i]
    <3>1. Routed = Append(draft.held, new)
      BY <1>2
    <3> HIDE DEF new
    <3> QED BY <1>0, <3>1, AppendKeeps
  <2>3. Len(draft.held) \in Nat /\ DOMAIN draft.held = 1 .. Len(draft.held)
    BY <1>0
  <2> HIDE DEF new
  <2>4. HeldIds(draft.held) \cup Missing \subseteq HeldIds(Routed)
    BY <2>1, <2>2, <2>3 DEF HeldIds
  <2>5. HeldIds(Routed) \subseteq HeldIds(draft.held) \cup Missing
    <3>1. ASSUME NEW i \in DOMAIN Routed
          PROVE  Routed[i].ids \subseteq HeldIds(draft.held) \cup Missing
      <4>1. CASE i = Len(draft.held) + 1
        BY <2>1, <2>2, <4>1
      <4>2. CASE i \in 1 .. Len(draft.held)
        BY <2>2, <2>3, <4>2 DEF HeldIds
      <4> QED BY <2>2, <2>3, <4>1, <4>2
    <3> QED BY <3>1 DEF HeldIds
  <2>6. Routed # <<>>
    BY <2>2, <2>3
  <2> QED BY <2>4, <2>5, <2>6
<1> QED BY <1>1, <1>2, RoutedCases

\* The gate has no objection to an obedient draft but for what was fetched.
LEMMA ObedientPasses ==
    ASSUME TypeInv, Obedient, ~scope, Cardinality(Sensitive) <= ItemLimit,
           Claimable \cap Sensitive = {}
    PROVE  Routable /\ Valid
<1>0. draft \in Draft /\ Groups = {}
  BY DEF TypeInv, TypeOK, Obedient
<1>1. Routable
  <2>1. /\ Cardinality(Missing) <= Cardinality(Sensitive)
        /\ Cardinality(Missing) \in Nat /\ Cardinality(Sensitive) \in Nat
    BY SensitiveFinite, FS_CardinalityType DEF TypeInv
  <2>2. ItemLimit \in Nat
    BY DraftingAssumption
  <2>3. Cardinality(Missing) <= ItemLimit
    BY <2>1, <2>2
  <2> QED BY <1>0, <2>3 DEF Obedient, Routable
<1>2. /\ HeldIds(Routed) = HeldIds(draft.held) \cup Missing
      /\ draft.held # <<>> => Routed # <<>>
  BY <1>0, RoutedIds
<1>3. NoChangeJustified /\ SomethingSaid
  BY <1>2 DEF Obedient, NoChangeJustified, SomethingSaid
<1>4. ClaimsAllowed
  BY DEF Obedient, ClaimsAllowed
<1>5. HeldAllowed
  <2>1. Claimable \subseteq IdsOf(sources) /\ Sensitive \subseteq IdsOf(sources)
    BY DEF TypeInv, TypeOK, Claimable, Sensitive, IdsOf
  <2>2. Sensitive \subseteq HeldIds(draft.held) \cup Missing
    BY DEF Missing
  <2>3. Missing \subseteq Sensitive
    BY DEF Missing
  <2> QED BY <1>2, <2>1, <2>2, <2>3 DEF HeldAllowed, Obedient
<1> QED BY <1>1, <1>3, <1>4, <1>5 DEF Valid, Obedient

\* A draft that does what the prompt asks is rejected for what was fetched
\* only.
THEOREM RejectedForCause == Spec => []ObedientAccepted
<1>1. Init => TypeInv /\ ObedientAccepted
  BY TypeInit DEF Init, ObedientAccepted
<1>2. TypeInv /\ ObedientAccepted /\ [Next]_vars =>
          TypeInv' /\ ObedientAccepted'
  <2> SUFFICES ASSUME TypeInv, ObedientAccepted, [Next]_vars,
                      stage' = "rejected"
               PROVE  ObedientAccepted'
    BY TypeStep DEF ObedientAccepted
  <2>1. CASE Reject
    <3>1. Obedient =>
              scope \/ ~(Cardinality(Sensitive) <= ItemLimit)
              \/ Claimable \cap Sensitive # {}
      BY <2>1, ObedientPasses DEF Reject
    <3>2. Cardinality(Sensitive) \in Nat /\ ItemLimit \in Nat
      BY SensitiveFinite, DraftingAssumption DEF TypeInv
    <3>3. /\ scope' = scope /\ draft' = draft /\ coverage' = coverage
          /\ baseline' = baseline /\ sources' = sources
          /\ evidence' = evidence
      BY <2>1 DEF Reject
    <3>4. Sensitive' = Sensitive /\ Claimable' = Claimable
      BY <3>3 DEF Sensitive, Claimable, IdsOf
    <3>5. Obedient' = Obedient
      BY <3>3, <3>4 DEF Obedient, Groups, HeldIds
    <3> QED BY <3>1, <3>2, <3>3, <3>4, <3>5 DEF ObedientAccepted
  <2>2. CASE UNCHANGED vars
    BY <2>2 DEF ObedientAccepted, Obedient, Groups, HeldIds, Sensitive,
                Claimable, IdsOf, vars
  <2>3. Reject \/ UNCHANGED vars
    BY DEF Next, Fetch, Curate, Write, WriterFails, Accept
  <2> QED BY <2>1, <2>2, <2>3
<1> QED BY <1>1, <1>2, PTL DEF Spec

=============================================================================
