---------------------------- MODULE SnapshotCache -----------------------------
(***************************************************************************)
(* What branch-diff promises of the databases it keeps for refs: a cache   *)
(* of exports that many callers share.  A slot shows one whole export or   *)
(* nothing, whatever transactions fill it; a caller is served the exports  *)
(* of what it asked for when it began, and keeps them while it compares.   *)
(* Slots that others wrote to are spoiled, and nothing is promised of      *)
(* them until they are emptied.                                            *)
(***************************************************************************)
EXTENDS Naturals, Sequences

CONSTANTS Slots, Callers, Exports, Nothing

VARIABLES
    shows,    \* slot -> the export it shows, or Nothing
    spoiled,  \* slots others have written to
    asked,    \* caller -> the exports it asked for
    served    \* caller -> the slots it compares

cacheVars == <<shows, spoiled, asked, served>>

\* one ref, or the two sides of a comparison
Requests == [1..1 -> Exports] \cup [1..2 -> Exports]

CacheInit ==
    /\ shows \in [Slots -> Exports \cup {Nothing}]
    /\ spoiled = {}
    /\ asked = [c \in Callers |-> <<>>]
    /\ served = [c \in Callers |-> <<>>]

\* interference shows in spoiled before anything is served from the slot
Interfere == spoiled \subseteq spoiled'

Ask(c) ==
    /\ asked[c] = <<>>
    /\ asked'[c] \in Requests
    /\ asked' = [asked EXCEPT ![c] = asked'[c]]
    /\ Interfere
    /\ UNCHANGED <<shows, served>>

\* the slot is emptied, and is as good as new afterwards; not under a caller
\* that compares it, unless it was spoiled already and remains so
Empty(c, s) ==
    /\ asked[c] # <<>>
    /\ UNCHANGED <<asked, served>>
    /\ shows' = [shows EXCEPT ![s] = Nothing]
    /\ spoiled' \in {spoiled, spoiled \ {s}}
    /\ \A d \in Callers : \A i \in DOMAIN served[d] : served[d][i] = s => s \in spoiled'

\* an empty slot shows something somebody has asked for
Publish(c, s) ==
    /\ shows[s] = Nothing
    /\ UNCHANGED <<spoiled, asked, served>>
    /\ \E i \in DOMAIN asked[c] : shows' = [shows EXCEPT ![s] = asked[c][i]]

Sound(s, e) == s \in spoiled \/ shows[s] = e

Serve(c) ==
    /\ served[c] = <<>>
    /\ Len(asked[c]) = 2
    /\ UNCHANGED <<shows, asked>>
    /\ Interfere
    /\ \E a, b \in Slots :
          /\ served' = [served EXCEPT ![c] = <<a, b>>]
          /\ Sound(a, asked[c][1])' /\ Sound(b, asked[c][2])'

\* the report is written, or the call refuses, fails or dies
Leave(c) ==
    /\ asked' = [asked EXCEPT ![c] = <<>>]
    /\ served' = [served EXCEPT ![c] = <<>>]
    /\ Interfere
    /\ UNCHANGED shows

\* others write to slots, which are spoiled by it
Meddle ==
    /\ UNCHANGED <<asked, served>>
    /\ shows' \in [Slots -> Exports \cup {Nothing}]
    /\ Interfere
    /\ \A s \in Slots : shows'[s] # shows[s] => s \in spoiled'

CacheNext ==
    \/ Meddle
    \/ \E c \in Callers : Ask(c) \/ Serve(c) \/ Leave(c)
    \/ \E c \in Callers, s \in Slots : Empty(c, s) \/ Publish(c, s)

CacheSpec == CacheInit /\ [][CacheNext]_cacheVars

-----------------------------------------------------------------------------
CacheTypeOK ==
    /\ shows \in [Slots -> Exports \cup {Nothing}]
    /\ spoiled \subseteq Slots
    /\ asked \in [Callers -> Seq(Exports)]
    /\ served \in [Callers -> Seq(Slots)]

\* A caller compares, as long as it compares, the exports it asked for, or a
\* spoiled slot.
ServedAsAsked ==
    \A c \in Callers : served[c] # <<>> =>
        /\ Len(served[c]) = 2 /\ Len(asked[c]) = 2
        /\ \A i \in 1..2 : Sound(served[c][i], asked[c][i])
=============================================================================
