------------------------------- MODULE Badges -------------------------------
(***************************************************************************)
(* Badges outside the season's close: the definitions the panel keeps, the *)
(* Founder badge of a new account, badges given and taken by hand, and the *)
(* few a player puts on display (badge-admin-store.ts,                     *)
(* awardFounderBadgeIfEligible, setFeaturedBadges).  Each hand is a request*)
(* that reads first and writes in one transaction later.  An account's id  *)
(* stands for its profile, and one season for those a badge can belong to. *)
(***************************************************************************)
EXTENDS Naturals, FiniteSets

CONSTANTS
  Badges,       \* badge_key; one of them is the founder's
  Founder,
  Players,      \* accounts
  Hands,        \* requests at work, of admins and players alike
  MaxFeatured,  \* MAX_FEATURED_BADGES
  MaxEdits      \* bound on the edits of definitions

ASSUME BadgesAssumption ==
  Founder \in Badges /\ MaxFeatured \in Nat /\ MaxEdits \in Nat

VARIABLES
  defined,    \* badge_definitions: obtainable, and its window open or not
  owned,      \* badge_ownerships: by player and badge, none, held or revoked
  given,      \* audit_log lines of badge.manual_award, by player and badge
  taken,      \* audit_log lines of badge.revoke, the same
  byHand,     \* the ownerships whose source is manual
  featured,   \* featured_badges, by player
  hand,       \* what each request holds
  edits       \* how much of the bound is spent

badgeVars == <<defined, owned, given, taken, byHand, featured, hand, edits>>

Resting == [ pc |-> "rest" ]
Both == Players \X Badges

BadgeInit ==
  /\ defined = [ b \in Badges |-> [ obtainable |-> FALSE, open |-> FALSE ] ]
  /\ owned = [ x \in Both |-> "none" ]
  /\ given = [ x \in Both |-> 0 ] /\ taken = [ x \in Both |-> 0 ]
  /\ byHand = {} /\ featured = [ p \in Players |-> {} ]
  /\ hand = [ h \in Hands |-> Resting ] /\ edits = 0

Begins(h, what) == hand[h] = Resting /\ hand' = [ hand EXCEPT ![h] = what ]
Ends(h) == hand' = [ hand EXCEPT ![h] = Resting ]

\* saveBadgeDefinition and setBadgeObtainable; the window's dates and the clock.
EditDefinition(b, obtainable, open) ==
  /\ edits < MaxEdits /\ edits' = edits + 1
  /\ defined' = [ defined EXCEPT ![b] = [ obtainable |-> obtainable, open |-> open ] ]
  /\ UNCHANGED <<owned, given, taken, byHand, featured, hand>>

\* awardFounderBadgeIfEligible: the definition is read, and inside its window
\* the badge goes to the new account; a row that is there stays as it is.
FindFounder(h, p) ==
  /\ defined[Founder].obtainable /\ defined[Founder].open
  /\ Begins(h, [ pc |-> "found", row |-> <<p, Founder>> ])
  /\ UNCHANGED <<defined, owned, given, taken, byHand, featured, edits>>

AwardFounder(h) ==
  /\ hand[h].pc = "found"
  /\ LET x == hand[h].row
     IN  owned' = [ owned EXCEPT ![x] = IF @ = "none" THEN "held" ELSE @ ]
  /\ Ends(h)
  /\ UNCHANGED <<defined, given, taken, byHand, featured, edits>>

\* manuallyAwardBadge, its reads; what may be given does not ask obtainable.
FindBadge(h, x) ==
  /\ Begins(h, [ pc |-> "give", row |-> x ])
  /\ UNCHANGED <<defined, owned, given, taken, byHand, featured, edits>>

\* ... and its transaction: the row, unless there is one, revoked or not, and
\* the audit line with it.
Give(h) ==
  /\ hand[h].pc = "give"
  /\ LET x == hand[h].row
     IN  IF owned[x] # "none" THEN UNCHANGED <<owned, byHand, given>>
         ELSE /\ owned' = [ owned EXCEPT ![x] = "held" ]
              /\ byHand' = byHand \cup {x}
              /\ given' = [ given EXCEPT ![x] = @ + 1 ]
  /\ Ends(h)
  /\ UNCHANGED <<defined, taken, featured, edits>>

\* The panel's list of holders, where a row is picked ...
PickHolder(h, x) ==
  /\ owned[x] # "none"
  /\ Begins(h, [ pc |-> "revoke", row |-> x ])
  /\ UNCHANGED <<defined, owned, given, taken, byHand, featured, edits>>

\* ... and revokeBadgeOwnership, of a row that is not revoked yet.
Revoke(h) ==
  /\ hand[h].pc = "revoke"
  /\ LET x == hand[h].row
     IN  IF owned[x] = "revoked" THEN UNCHANGED <<owned, taken>>
         ELSE /\ owned' = [ owned EXCEPT ![x] = "revoked" ]
              /\ taken' = [ taken EXCEPT ![x] = @ + 1 ]
  /\ Ends(h)
  /\ UNCHANGED <<defined, given, byHand, featured, edits>>

\* setFeaturedBadges: the rows are looked up, a revoked one among them ...
CheckFeatured(h, p, chosen) ==
  /\ Cardinality(chosen) <= MaxFeatured
  /\ \A b \in chosen : owned[<<p, b>>] # "none"
  /\ Begins(h, [ pc |-> "feature", player |-> p, chosen |-> chosen, seen |-> {} ])
  /\ UNCHANGED <<defined, owned, given, taken, byHand, featured, edits>>

\* ... then, in one transaction at READ COMMITTED, the rows its delete sees ...
ClearFeatured(h) ==
  /\ hand[h].pc = "feature"
  /\ hand' = [ hand EXCEPT ![h].pc = "insert", ![h].seen = featured[hand[h].player] ]
  /\ UNCHANGED <<defined, owned, given, taken, byHand, featured, edits>>

\* Rows one request deleted are gone for another that had seen them.
Without(g, p, gone) ==
  IF hand[g].pc = "insert" /\ hand[g].player = p THEN [ hand[g] EXCEPT !.seen = @ \ gone ]
  ELSE hand[g]

\* ... are replaced when it commits.  Rows another request committed since stay
\* beside them, past the limit or not; one that is shown already makes the
\* insert fail, and the delete with it.
SetFeatured(h) ==
  /\ hand[h].pc = "insert"
  /\ LET f == hand[h]
         left == featured[f.player] \ f.seen
     IN  IF f.chosen \cap left # {} THEN Ends(h) /\ UNCHANGED featured
         ELSE /\ featured' = [ featured EXCEPT ![f.player] = left \cup f.chosen ]
              /\ hand' = [ g \in Hands |-> IF g = h THEN Resting ELSE Without(g, f.player, f.seen) ]
  /\ UNCHANGED <<defined, owned, given, taken, byHand, edits>>

BadgeNext ==
  \/ \E b \in Badges, obtainable \in BOOLEAN, open \in BOOLEAN :
       EditDefinition(b, obtainable, open)
  \/ \E h \in Hands :
       \/ AwardFounder(h) \/ Give(h) \/ Revoke(h) \/ ClearFeatured(h) \/ SetFeatured(h)
       \/ \E x \in Both : FindBadge(h, x) \/ PickHolder(h, x)
       \/ \E p \in Players : FindFounder(h, p)
       \/ \E p \in Players, chosen \in SUBSET Badges : CheckFeatured(h, p, chosen)
=============================================================================
