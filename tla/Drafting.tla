------------------------------ MODULE Drafting ------------------------------
(***************************************************************************)
(* From the fetched sources of a daily run of x402 Watch to the brief or its *)
(* rejection: which sources are offered to the local model (pipeline.py), a  *)
(* draft that may be anything its JSON schema lets through (llm.py,          *)
(* models.py), the routing of sensitive sources and the editorial gate       *)
(* (policy.py), and the result the brief states (render.py).                 *)
(*                                                                           *)
(* A source's id is made of the page's canonical URL and its text; what is   *)
(* searched for held terms is the title of the hit and the text.  Two hits   *)
(* that are redirected to one page give two sources of one id, and one of    *)
(* the two may be sensitive.                                                 *)
(***************************************************************************)
EXTENDS Naturals, FiniteSets, Sequences

CONSTANTS
    Ids,         \* ids of fetched pages
    Citations,   \* what an item of a draft may cite: sets of ids, of which
                 \* some may belong to no page
    MaxSources,  \* bound: how many pages are fetched
    MaxClaims,   \* max_length of claims
    HeldLimit,   \* the 20 of held_items
    ItemLimit    \* the 20 of the source_ids of a held item

ASSUME DraftingAssumption ==
    /\ \A cites \in Citations : IsFiniteSet(cites) /\ cites # {}
    /\ {MaxSources, MaxClaims, HeldLimit, ItemLimit} \subseteq Nat

VARIABLES
    stage,     \* "fetching", "curated", "drafted", "accepted", "rejected",
               \* "failed"
    sources,
    scope,     \* a title of a source has unapproved scope
    evidence,  \* the sources left by _deduplicate_evidence
    coverage,  \* coverage_complete
    baseline,
    draft,
    brief      \* what is rendered

vars == <<stage, sources, scope, evidence, coverage, baseline, draft, brief>>

Source == [id : Ids, sensitive : BOOLEAN]

\* group: the item has the title route_sensitive_sources looks for.
HeldItem == [group : BOOLEAN, ids : Citations]

\* flagged: a text of the draft breaks a rule of policy.py on wording.
Draft == [claims : {claims \in SUBSET Citations :
                        Cardinality(claims) <= MaxClaims},
          held : UNION {[1 .. n -> {item \in HeldItem :
                                        Cardinality(item.ids) <= ItemLimit}] :
                        n \in 0 .. HeldLimit},
          noChange : BOOLEAN,
          flagged : BOOLEAN]

Results == {"baseline", "incomplete coverage", "no material change",
            "material items found"}
NoDraft == [claims |-> {}, held |-> <<>>, noChange |-> FALSE,
            flagged |-> FALSE]
NoBrief == [claims |-> {}, held |-> <<>>, result |-> "none"]

Init ==
    /\ stage = "fetching"
    /\ sources = {}
    /\ scope = FALSE
    /\ evidence = {}
    /\ coverage = FALSE
    /\ baseline \in BOOLEAN
    /\ draft = NoDraft
    /\ brief = NoBrief

-----------------------------------------------------------------------------
(* The packet.                                                               *)

IdsOf(S) == {s.id : s \in S}

\* Slip: only the sources of the packet are looked at.
SensitiveOfPacket == IdsOf({s \in evidence : s.sensitive})

\* source_requires_human_routing, for the sources of the run.
Sensitive == IdsOf({s \in sources : s.sensitive})

\* allowed_source_ids
Claimable == IdsOf({s \in evidence : ~s.sensitive})

Fetch ==
    /\ stage = "fetching"
    /\ Cardinality(sources) < MaxSources
    /\ \E s \in Source, unapproved \in BOOLEAN :
           /\ sources' = sources \cup {s}
           /\ scope' = (scope \/ unapproved)
    /\ UNCHANGED <<stage, evidence, coverage, baseline, draft, brief>>

\* One source of each text, the first in an order in which titles play no
\* part.  Sources of one id have one text; others may.
OfEachText(E) ==
    /\ E \subseteq sources
    /\ \A s, t \in E : s.id = t.id => s = t
    /\ E = {} => sources = {}

Curate ==
    /\ stage = "fetching"
    /\ stage' = "curated"
    /\ \E E \in SUBSET sources : OfEachText(E) /\ evidence' = E
    /\ coverage' \in BOOLEAN
    /\ UNCHANGED <<sources, scope, baseline, draft, brief>>

-----------------------------------------------------------------------------
(* The draft.                                                                *)

\* The schema names the allowed ids, but it is the server that applies it:
\* nothing here is taken from it that model_validate_json does not check.
Write ==
    /\ stage = "curated"
    /\ stage' = "drafted"
    /\ draft' \in Draft
    /\ UNCHANGED <<sources, scope, evidence, coverage, baseline, brief>>

\* LocalModelError.
WriterFails ==
    /\ stage = "curated"
    /\ stage' = "failed"
    /\ UNCHANGED <<sources, scope, evidence, coverage, baseline, draft, brief>>

-----------------------------------------------------------------------------
(* route_sensitive_sources.                                                  *)

HeldIds(held) == UNION {held[i].ids : i \in DOMAIN held}

Missing == Sensitive \ HeldIds(draft.held)

Groups == {i \in DOMAIN draft.held : draft.held[i].group}

FirstGroup == CHOOSE i \in Groups : \A j \in Groups : i <= j

\* Slip: one more item than the limit.
RoutableBeyond ==
    \/ Missing = {}
    \/ /\ Groups # {}
       /\ Cardinality(draft.held[FirstGroup].ids \cup Missing) <= ItemLimit
    \/ /\ Groups = {}
       /\ Len(draft.held) <= HeldLimit
       /\ Cardinality(Missing) <= ItemLimit

\* PolicyError, or a ValidationError of the new item, if not.
Routable ==
    \/ Missing = {}
    \/ /\ Groups # {}
       /\ Cardinality(draft.held[FirstGroup].ids \cup Missing) <= ItemLimit
    \/ /\ Groups = {}
       /\ Len(draft.held) < HeldLimit
       /\ Cardinality(Missing) <= ItemLimit

\* Slip: the ids of the model's own item give way to the missing ones.
RoutedInPlace ==
    CASE Missing = {} -> draft.held
      [] Missing # {} /\ Groups # {} ->
             [draft.held EXCEPT ![FirstGroup].ids = Missing]
      [] OTHER -> Append(draft.held, [group |-> TRUE, ids |-> Missing])

Routed ==
    CASE Missing = {} -> draft.held
      [] Missing # {} /\ Groups # {} ->
             [draft.held EXCEPT ![FirstGroup].ids = @ \cup Missing]
      [] OTHER -> Append(draft.held, [group |-> TRUE, ids |-> Missing])

-----------------------------------------------------------------------------
(* validate_draft, after the routing.                                        *)

\* Slip: claims are not looked at.
NoChangeByWord == draft.noChange => coverage /\ ~baseline

NoChangeJustified ==
    draft.noChange => coverage /\ ~baseline /\ draft.claims = {}

SomethingSaid ==
    coverage /\ ~baseline /\ ~draft.noChange =>
        draft.claims # {} \/ Routed # <<>>

\* Slip: no allowlist is given.
ClaimsOfSources ==
    \A cites \in draft.claims :
        cites \subseteq IdsOf(sources) /\ cites \cap Sensitive = {}

ClaimsAllowed ==
    \A cites \in draft.claims :
        cites \subseteq Claimable /\ cites \cap Sensitive = {}

\* Slip: held items are compared with the packet.
HeldOfPacket ==
    HeldIds(Routed) \subseteq IdsOf(evidence) /\ Sensitive \subseteq HeldIds(Routed)

HeldAllowed ==
    HeldIds(Routed) \subseteq IdsOf(sources) /\ Sensitive \subseteq HeldIds(Routed)

Valid ==
    /\ ~scope
    /\ NoChangeJustified
    /\ SomethingSaid
    /\ ClaimsAllowed
    /\ HeldAllowed
    /\ ~draft.flagged

Result ==
    CASE baseline -> "baseline"
      [] ~baseline /\ ~coverage -> "incomplete coverage"
      [] ~baseline /\ coverage /\ draft.noChange -> "no material change"
      [] OTHER -> "material items found"

Accept ==
    /\ stage = "drafted"
    /\ Routable /\ Valid
    /\ stage' = "accepted"
    /\ brief' = [claims |-> draft.claims, held |-> Routed, result |-> Result]
    /\ UNCHANGED <<sources, scope, evidence, coverage, baseline, draft>>

Reject ==
    /\ stage = "drafted"
    /\ ~(Routable /\ Valid)
    /\ stage' = "rejected"
    /\ UNCHANGED <<sources, scope, evidence, coverage, baseline, draft, brief>>

Next == Fetch \/ Curate \/ Write \/ WriterFails \/ Accept \/ Reject

Spec == Init /\ [][Next]_vars

-----------------------------------------------------------------------------
(* Properties.                                                               *)

\* Every variable holds values of its type, and the brief that is rendered is
\* within the limits of DraftBrief, which model_copy does not check again.
TypeOK ==
    /\ stage \in {"fetching", "curated", "drafted", "accepted", "rejected",
                  "failed"}
    /\ sources \subseteq Source
    /\ evidence \subseteq sources
    /\ {scope, coverage, baseline} \subseteq BOOLEAN
    /\ draft \in Draft
    /\ brief.result \in Results \cup {"none"}
    /\ Len(brief.held) <= HeldLimit
    /\ \A i \in DOMAIN brief.held :
           Cardinality(brief.held[i].ids) \in 1 .. ItemLimit

\* Whatever the model wrote, a claim of a brief cites only sources the model
\* was shown, and of none of them the held terms were found, under whatever
\* title it was fetched (policy.py:141-144).
ClaimsSupported ==
    stage = "accepted" =>
        \A cites \in brief.claims : \A id \in cites :
            \E s \in evidence :
                /\ s.id = id
                /\ \A t \in sources : t.id = id => ~t.sensitive

\* Every sensitive source of the run is held for review in the brief, also one
\* that was left out of the packet as a duplicate or that the model never saw,
\* and what is held was fetched (policy.py:162-173).
SensitiveHeld ==
    stage = "accepted" =>
        /\ \A s \in sources : s.sensitive => s.id \in HeldIds(brief.held)
        /\ HeldIds(brief.held) \subseteq IdsOf(sources)

\* A brief that tells of no material change rests on a complete search and an
\* earlier brief, and has no claim; one that tells of material items has some
\* (docs/x402-watch-design.md:286-289).
ResultHonest ==
    stage = "accepted" =>
        /\ brief.result = "no material change" =>
               coverage /\ ~baseline /\ brief.claims = {}
        /\ brief.result = "material items found" =>
               coverage /\ (brief.claims # {} \/ brief.held # <<>>)

\* The routing takes nothing away from what the model held: each of its items
\* is still there, in its place, with all its sources.
RoutingKeeps ==
    stage = "accepted" =>
        \A i \in DOMAIN draft.held :
            /\ i \in DOMAIN brief.held
            /\ draft.held[i].group = brief.held[i].group
            /\ draft.held[i].ids \subseteq brief.held[i].ids

\* Nothing that is due for review is lost between the model's draft and the
\* brief: neither a sensitive source nor what the model itself held.
HeldForReview == SensitiveHeld /\ RoutingKeeps

\* What the prompt asks of the model, and room for one more held item.
Obedient ==
    /\ \A cites \in draft.claims : cites \subseteq Claimable
    /\ HeldIds(draft.held) \subseteq Claimable
    /\ ~draft.flagged
    /\ draft.noChange => coverage /\ ~baseline /\ draft.claims = {}
    /\ coverage /\ ~baseline /\ ~draft.noChange =>
           draft.claims # {} \/ draft.held # <<>>
    /\ Groups = {} /\ Len(draft.held) < HeldLimit

\* An obedient draft is rejected for what was fetched only: a title of
\* unapproved scope, too many sensitive sources, or one that was offered to
\* the model under another title.
ObedientAccepted ==
    stage = "rejected" /\ Obedient =>
        \/ scope
        \/ Cardinality(Sensitive) > ItemLimit
        \/ Claimable \cap Sensitive # {}

\* "excludes routed sources from claim synthesis"
\* (docs/x402-watch-uat.md:54-55).
RoutedNotOffered == Claimable \cap Sensitive = {}

=============================================================================
