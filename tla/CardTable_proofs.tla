-------------------------- MODULE CardTable_proofs --------------------------
(***************************************************************************)
(* Theorems about module CardTable, for every set of players and of cards, *)
(* every deck and every bound.                                             *)
(***************************************************************************)
EXTENDS CardTable, FiniteSetTheorems, SequenceTheorems, WellFoundedInduction, TLAPS

-----------------------------------------------------------------------------
(* Positions, ranks and lists.                                             *)

\* A nonempty set of positions has a last one: the interval from it to the end
\* is minimal under inclusion.
LEMMA LastExists ==
  ASSUME NEW L \in Nat, NEW S \in SUBSET (1..L), S # {}
  PROVE  \E n \in S : \A k \in S : k <= n
<1> DEFINE Tails == {n..L : n \in S}
<1>1. Tails \subseteq FiniteSubsetsOf(Nat)
  <2> SUFFICES ASSUME NEW n \in S PROVE n..L \in FiniteSubsetsOf(Nat)
    OBVIOUS
  <2>1. IsFiniteSet(n..L)
    BY FS_Interval
  <2> QED BY <2>1 DEF FiniteSubsetsOf
<1>2. Tails # {}
  OBVIOUS
<1>3. PICK B \in Tails : \A C \in Tails : <<C, B>> \notin StrictSubsetOrdering(Nat)
  <2> HIDE DEF Tails
  <2> QED BY ONLY <1>1, <1>2, FS_StrictSubsetOrderingWellFounded, WFMin
<1>4. PICK x \in S : B = x..L
  OBVIOUS
<1>5. ASSUME NEW y \in S PROVE y <= x
  <2>1. SUFFICES ASSUME x < y PROVE FALSE
    OBVIOUS
  <2>2. y..L \subseteq x..L /\ y..L # x..L
    <3>1. x \in x..L /\ x \notin y..L
      BY <2>1
    <3> QED BY <2>1, <3>1
  <2>3. <<y..L, x..L>> \in StrictSubsetOrdering(Nat)
    BY <2>2 DEF StrictSubsetOrdering
  <2> QED BY <1>3, <1>4, <2>3
<1> QED BY <1>5

\* What FromLast() leaves is a list of ids again.
LEMMA FromLastType ==
  ASSUME NEW list \in Seq(Nat), NEW i
  PROVE  FromLast(list, i) \in Seq(Nat)
<1> DEFINE at == {n \in 1..Len(list) : list[n] = i}
           last == CHOOSE n \in at : \A k \in at : k <= n
<1>1. CASE at = {}
  BY <1>1 DEF FromLast
<1>2. CASE at # {}
  <2>1. last \in 1..Len(list)
    <3>1. Len(list) \in Nat /\ at \in SUBSET (1..Len(list))
      OBVIOUS
    <3>2. \E n \in at : \A k \in at : k <= n
      <4> HIDE DEF at
      <4> QED BY <1>2, <3>1, LastExists
    <3> QED BY <3>2
  <2>2. SubSeq(list, last, Len(list)) \in Seq(Nat)
    <3> HIDE DEF last
    <3>1. \A n \in last..Len(list) : list[n] \in Nat
      BY <2>1
    <3> QED BY <2>1, <3>1, SubSeqProperties
  <2> QED BY <1>2, <2>2 DEF FromLast
<1> QED BY <1>1, <1>2

\* A card's rank in a finite set of cards is its own, and below the set's size.
LEMMA RankType ==
  ASSUME NEW S \in SUBSET Card, NEW c \in Card
  PROVE  Rank(c, S) \in Nat
<1>1. IsFiniteSet({d \in S : d < c})
  BY CardsAssumption, FS_Subset
<1> QED BY <1>1, FS_CardinalityType DEF Rank

LEMMA RankGrows ==
  ASSUME NEW S \in SUBSET Card, NEW c \in S, NEW d \in S, c < d
  PROVE  Rank(c, S) < Rank(d, S)
<1> DEFINE below(x) == {y \in S : y < x}
<1>1. IsFiniteSet(below(d)) /\ IsFiniteSet(below(c))
  BY CardsAssumption, FS_Subset
<1>2. below(c) \subseteq below(d) /\ below(c) # below(d)
  <2>1. \A y \in S : y < c => y < d
    BY CardsAssumption
  <2>2. c \in below(d) /\ c \notin below(c)
    BY CardsAssumption
  <2> QED BY <2>1, <2>2
<1>3. Cardinality(below(c)) < Cardinality(below(d))
  <2> HIDE DEF below
  <2> QED BY <1>1, <1>2, FS_Subset, FS_CardinalityType
<1> QED BY <1>3 DEF Rank

LEMMA RanksDiffer ==
  ASSUME NEW S \in SUBSET Card, NEW c \in S, NEW d \in S, c # d
  PROVE  Rank(c, S) # Rank(d, S)
<1>1. c \in Nat /\ d \in Nat
  BY CardsAssumption
<1>2. Rank(c, S) \in Nat /\ Rank(d, S) \in Nat
  BY RankType
<1>3. CASE c < d
  BY <1>2, <1>3, RankGrows
<1>4. CASE d < c
  BY <1>2, <1>4, RankGrows
<1> QED BY <1>1, <1>3, <1>4

LEMMA RankBelowSize ==
  ASSUME NEW S \in SUBSET Card, NEW c \in S
  PROVE  Cardinality(S) \in Nat /\ Rank(c, S) < Cardinality(S)
<1> DEFINE below == {y \in S : y < c}
<1>1. IsFiniteSet(S) /\ IsFiniteSet(below)
  BY CardsAssumption, FS_Subset
<1>2. below \subseteq S /\ below # S
  <2>1. c \notin below
    BY CardsAssumption
  <2> QED BY <2>1
<1>3. Cardinality(below) < Cardinality(S) /\ Cardinality(S) \in Nat
  <2> HIDE DEF below
  <2> QED BY <1>1, <1>2, FS_Subset, FS_CardinalityType
<1> QED BY <1>3 DEF Rank

-----------------------------------------------------------------------------
(* Type correctness.                                                       *)

LEMMA PlaceType ==
  ASSUME NEW p \in Player, NEW z \in Zone
  PROVE  At(p, z) \in Place /\ At(p, z).player = p /\ At(p, z).zone = z
BY DEF At, Place

\* Nowhere is the place of no player.
LEMMA NowhereIsNoPlace ==
  /\ Nowhere \notin Place /\ Nowhere.player = None
  /\ \A w \in Place \cup {Nowhere} : w.player \in Player => w \in Place /\ w.zone \in Zone
BY CardsAssumption DEF Nowhere, Place

LEMMA InPlayArePlayers ==
  ASSUME TypeOK
  PROVE  InPlay \subseteq Player
BY DEF TypeOK, InPlay

\* Dealing a deck.
LEMMA SetupZonesType ==
  ASSUME TypeOK, NEW S \in SUBSET Player, NEW holder \in [Card -> Player \cup {None}],
         SetupZones(S, holder)
  PROVE  /\ place' \in [Card -> Place \cup {Nowhere}]
         /\ id' \in [Card -> Nat]
         /\ nextCardId' \in [Player -> Nat]
<1> DEFINE deckOf(c) == {d \in Card : holder[d] = holder[c]}
           pile(c) == IF Rank(c, deckOf(c)) < LibrarySize THEN "deck" ELSE "crypt"
<1>1. \A c \in Card : Rank(c, deckOf(c)) \in Nat
  BY RankType
<1>2. \A p \in Player : Cardinality({c \in Card : holder[c] = p}) \in Nat
  <2> TAKE p \in Player
  <2>1. IsFiniteSet({c \in Card : holder[c] = p})
    BY CardsAssumption, FS_Subset
  <2> QED BY <2>1, FS_CardinalityType
<1>3. \A c \in Card : holder[c] \in S => At(holder[c], pile(c)) \in Place
  <2> TAKE c \in Card
  <2>1. pile(c) \in Zone
    BY DEF Zone
  <2> HIDE DEF pile
  <2> QED BY <2>1, PlaceType
<1>4. place' \in [Card -> Place \cup {Nowhere}]
  <2>1. place' = [c \in Card |-> IF holder[c] \in S THEN At(holder[c], pile(c)) ELSE place[c]]
    BY DEF SetupZones
  <2> HIDE DEF pile
  <2> QED BY <1>3, <2>1 DEF TypeOK
<1>5. id' \in [Card -> Nat]
  <2>1. id' = [c \in Card |-> IF holder[c] \in S THEN Rank(c, deckOf(c)) ELSE id[c]]
    BY DEF SetupZones
  <2> HIDE DEF deckOf
  <2> QED BY <1>1, <2>1 DEF TypeOK
<1>6. nextCardId' \in [Player -> Nat]
  BY <1>2 DEF SetupZones, TypeOK
<1> QED BY <1>4, <1>5, <1>6

\* Going out of play.
LEMMA OutOfPlayType ==
  ASSUME TypeOK, NEW p \in Player, NEW left,
         seated' \subseteq Player, OutOfPlay(p, left)
  PROVE  TypeOK'
<1> DEFINE stops == Cardinality(left) <= 1
           S == IF stops THEN Player ELSE {p}
           dead == Cleared(S)
<1>1. place' \in [Card -> Place \cup {Nowhere}] /\ id' \in [Card -> Nat]
  BY DEF OutOfPlay, TypeOK
<1>2. faceDown' \in [Card -> BOOLEAN]
  BY DEF OutOfPlay, TypeOK
<1>3. kind' \in [Card -> {"deck", "token", "created"}]
  BY DEF OutOfPlay, TypeOK
<1>4. parent' \in [Card -> Card \cup {None}] /\ stash' \in [Card -> Card \cup {None}]
  BY DEF OutOfPlay, TypeOK
<1>5. lastDrawList' \in [Player -> Seq(Nat)]
  <2>1. <<>> \in Seq(Nat)
    OBVIOUS
  <2>2. lastDrawList' = [o \in Player |-> IF o \in S THEN <<>> ELSE lastDrawList[o]]
    BY DEF OutOfPlay
  <2> HIDE DEF S
  <2> QED BY <2>1, <2>2 DEF TypeOK
<1>6. arrows' \in [Player -> SUBSET Arrow]
  <2>1. \E lost : arrows' = [o \in Player |-> IF o \in S THEN {}
                    ELSE {a \in arrows[o] \ Related(o, p) : <<o, a>> \notin lost}]
    BY DEF OutOfPlay
  <2> HIDE DEF S
  <2> QED BY <2>1 DEF TypeOK
<1>7. grants' \subseteq Place \X Player
  BY DEF OutOfPlay, TypeOK
<1>8. conceded' \subseteq seated' /\ started' \in BOOLEAN
  BY DEF OutOfPlay, OutOf, TypeOK
<1>9. nextCardId' \in [Player -> Nat]
  BY DEF OutOfPlay, TypeOK
<1> QED BY <1>1, <1>2, <1>3, <1>4, <1>5, <1>6, <1>7, <1>8, <1>9 DEF TypeOK

\* Moving a card.
LEMMA MoveCardType ==
  ASSUME TypeOK, NEW m \in Player, NEW c \in Card, NEW to \in Place,
         NEW face \in BOOLEAN, NEW draws \in [Player -> Seq(Nat)], NEW undoing \in BOOLEAN,
         MoveCard(m, c, to, face, draws, undoing)
  PROVE  TypeOK'
<1> DEFINE from == place[c]
           dies == from.zone # to.zone /\ kind[c] = "token"
           x == Arriving(c, dies)
           surfaces == dies /\ x # None
           renamed == x # None /\ Renamed(from, to, face)
           next1 == IF surfaces THEN [nextCardId EXCEPT ![m] = @ + 1] ELSE nextCardId
           next2 == IF renamed THEN [next1 EXCEPT ![to.player] = @ + 1] ELSE next1
           newId == IF renamed THEN next1[to.player]
                    ELSE IF surfaces THEN nextCardId[m] ELSE id[c]
<1>0. to.player \in Player
  BY DEF Place
<1>1. next1 \in [Player -> Nat]
  BY DEF TypeOK
<1>2. next2 \in [Player -> Nat] /\ newId \in Nat
  <2>1. id[c] \in Nat /\ nextCardId[m] \in Nat
    BY DEF TypeOK
  <2> HIDE DEF next1
  <2> QED BY <1>0, <1>1, <2>1
<1>3. nextCardId' \in [Player -> Nat]
  <2>1. nextCardId' = next2
    BY DEF MoveCard
  <2> QED BY <1>2, <2>1
<1>4. id' \in [Card -> Nat]
  <2>1. id' = [d \in Card |-> IF d = x THEN newId ELSE IF dies /\ d = c THEN 0 ELSE id[d]]
    BY DEF MoveCard
  <2> HIDE DEF x, newId, dies
  <2> QED BY <1>2, <2>1 DEF TypeOK
<1>5. place' \in [Card -> Place \cup {Nowhere}]
  BY DEF MoveCard, TypeOK
<1>6. /\ faceDown' \in [Card -> BOOLEAN]
      /\ kind' \in [Card -> {"deck", "token", "created"}]
      /\ parent' \in [Card -> Card \cup {None}]
      /\ stash' \in [Card -> Card \cup {None}]
  BY DEF MoveCard, TypeOK
<1>7. arrows' \in [Player -> SUBSET Arrow]
  BY DEF MoveCard, TypeOK, ArrowsWithout
<1>8. lastDrawList' \in [Player -> Seq(Nat)]
  <2>1. draws[m] \in Seq(Nat)
    OBVIOUS
  <2>2. FromLast(draws[m], id[c]) \in Seq(Nat)
    BY <2>1, FromLastType
  <2>3. \/ lastDrawList' = draws
        \/ lastDrawList' = [draws EXCEPT ![m] = FromLast(@, id[c])]
    BY DEF MoveCard
  <2> QED BY <2>2, <2>3
<1>9. UNCHANGED <<grants, table>>
  BY DEF MoveCard
<1> QED BY <1>3, <1>4, <1>5, <1>6, <1>7, <1>8, <1>9 DEF TypeOK, table

LEMMA AttachType ==
  ASSUME TypeOK, NEW c \in Card, NEW t \in Card \cup {None}, Attach(c, t)
  PROVE  /\ arrows' \in [Player -> SUBSET Arrow]
         /\ parent' \in [Card -> Card \cup {None}]
<1>1. arrows' \in [Player -> SUBSET Arrow]
  BY DEF Attach, ArrowsWithout, TypeOK
<1>2. parent' \in [Card -> Card \cup {None}]
  BY DEF Attach, TypeOK
<1> QED BY <1>1, <1>2

LEMMA DrawType ==
  ASSUME TypeOK, NEW p \in Player, NEW from \in Zone, NEW to \in Zone, Draw(p, from, to)
  PROVE  TypeOK'
<1>1. PICK c \in On(p, from) :
         /\ place' = [place EXCEPT ![c] = At(p, to)]
         /\ lastDrawList' = [lastDrawList EXCEPT ![p] = Append(@, id[c])]
         /\ UNCHANGED <<id, faceDown, kind, parent, stash, nextCardId, arrows, grants, table>>
  BY DEF Draw
<1>2. c \in Card
  BY DEF On
<1>3. place' \in [Card -> Place \cup {Nowhere}]
  BY <1>1, PlaceType DEF TypeOK
<1>4. lastDrawList' \in [Player -> Seq(Nat)]
  <2>1. lastDrawList[p] \in Seq(Nat) /\ id[c] \in Nat
    BY <1>2 DEF TypeOK
  <2>2. Append(lastDrawList[p], id[c]) \in Seq(Nat)
    BY <2>1
  <2> QED BY <1>1, <2>2 DEF TypeOK
<1> QED BY <1>1, <1>3, <1>4 DEF TypeOK, table

LEMMA NewCardIsFree ==
  ASSUME Free # {}
  PROVE  /\ NewCard \in Card /\ place[NewCard] = Nowhere
         /\ \A d \in Card : stash[d] # NewCard
BY DEF NewCard, Free

LEMMA TransformType ==
  ASSUME TypeOK, NEW p \in Player, CmdTransform(p)
  PROVE  TypeOK'
<1> DEFINE n == NewCard
           deleted(c) == Discards(c)
           moved(c, x) == IF x = c THEN n ELSE x
           value(c, f, new, blank) ==
              [d \in Card |-> IF d = n THEN new ELSE IF d = c /\ deleted(c) THEN blank ELSE f[d]]
<1>1. n \in Card /\ NewToken(p)
  BY NewCardIsFree DEF CmdTransform, NewToken
<1>2. PICK k \in {"token", "created"}, z \in PublicZone : \E c \in On(p, z) :
         /\ place' = [place EXCEPT ![n] = At(p, "table"), ![c] = Nowhere]
         /\ id' = value(c, id, nextCardId[p], 0)
         /\ kind' = value(c, kind, k, "deck")
         /\ faceDown' = value(c, faceDown, faceDown[c], FALSE)
         /\ parent' = [d \in Card |-> IF d = n THEN parent[c]
                                      ELSE IF d = c THEN None ELSE moved(c, parent[d])]
         /\ stash' = [stash EXCEPT ![c] = None, ![n] = IF deleted(c) THEN stash[c] ELSE c]
         /\ arrows' = [o \in Player |->
               {[from |-> moved(c, a.from), to |-> moved(c, a.to)] : a \in arrows[o]}]
  BY DEF CmdTransform
<1>3. PICK c \in On(p, z) :
         /\ place' = [place EXCEPT ![n] = At(p, "table"), ![c] = Nowhere]
         /\ id' = value(c, id, nextCardId[p], 0)
         /\ kind' = value(c, kind, k, "deck")
         /\ faceDown' = value(c, faceDown, faceDown[c], FALSE)
         /\ parent' = [d \in Card |-> IF d = n THEN parent[c]
                                      ELSE IF d = c THEN None ELSE moved(c, parent[d])]
         /\ stash' = [stash EXCEPT ![c] = None, ![n] = IF deleted(c) THEN stash[c] ELSE c]
         /\ arrows' = [o \in Player |->
               {[from |-> moved(c, a.from), to |-> moved(c, a.to)] : a \in arrows[o]}]
  BY <1>2
<1> HIDE DEF n
<1>4. c \in Card
  BY DEF On
<1>5. nextCardId' \in [Player -> Nat]
  BY <1>1 DEF NewToken, TypeOK
<1>6. place' \in [Card -> Place \cup {Nowhere}]
  <2>1. At(p, "table") \in Place
    BY PlaceType DEF Zone
  <2> QED BY <1>1, <1>3, <1>4, <2>1 DEF TypeOK
<1>7. id' \in [Card -> Nat]
  <2>1. nextCardId[p] \in Nat
    BY DEF TypeOK
  <2> QED BY <1>3, <2>1 DEF TypeOK
<1>8. kind' \in [Card -> {"deck", "token", "created"}]
  BY <1>2, <1>3 DEF TypeOK
<1>9. faceDown' \in [Card -> BOOLEAN]
  <2>1. faceDown[c] \in BOOLEAN /\ FALSE \in BOOLEAN
    BY <1>4 DEF TypeOK
  <2> QED BY <1>3, <2>1 DEF TypeOK
<1>10. parent' \in [Card -> Card \cup {None}]
  BY <1>1, <1>3, <1>4 DEF TypeOK
<1>11. stash' \in [Card -> Card \cup {None}]
  BY <1>1, <1>3, <1>4 DEF TypeOK
<1>12. arrows' \in [Player -> SUBSET Arrow]
  <2>1. \A o \in Player : \A a \in arrows[o] :
           [from |-> moved(c, a.from), to |-> moved(c, a.to)] \in Arrow
    <3> TAKE o \in Player
    <3> TAKE a \in arrows[o]
    <3>1. a \in Arrow
      BY DEF TypeOK
    <3>2. moved(c, a.from) \in Card /\ moved(c, a.to) \in Card \cup Player
      BY <1>1, <3>1 DEF Arrow
    <3> HIDE DEF moved
    <3> QED BY <3>2 DEF Arrow
  <2> HIDE DEF moved
  <2> QED BY <1>3, <2>1
<1> QED
  BY <1>1, <1>5, <1>6, <1>7, <1>8, <1>9, <1>10, <1>11, <1>12 DEF TypeOK, NewToken, table

LEMMA TypeStep ==
  ASSUME TypeOK, [Next]_vars
  PROVE  TypeOK'
<1>1. CASE DoStartGame
  <2>1. SetupZones(seated, Deck) /\ Deck \in [Card -> Player \cup {None}]
    BY <1>1, CardsAssumption DEF DoStartGame
  <2>2. /\ place' \in [Card -> Place \cup {Nowhere}]
        /\ id' \in [Card -> Nat]
        /\ nextCardId' \in [Player -> Nat]
    <3>1. seated \in SUBSET Player
      BY DEF TypeOK
    <3> QED BY <2>1, <3>1, SetupZonesType
  <2>3. UNCHANGED <<faceDown, kind, parent, stash, lastDrawList, arrows, grants>>
    BY <2>1 DEF SetupZones
  <2> QED BY <1>1, <2>2, <2>3 DEF DoStartGame, TypeOK
<1>2. ASSUME NEW p \in Player, JoinGame(p)
      PROVE  TypeOK'
  BY <1>2 DEF JoinGame, TypeOK, cards
<1>3. ASSUME NEW p \in Player, RemovePlayer(p)
      PROVE  TypeOK'
  BY <1>3, OutOfPlayType DEF RemovePlayer, TypeOK
<1>4. ASSUME NEW p \in Player, CmdConcede(p)
      PROVE  TypeOK'
  BY <1>4, OutOfPlayType DEF CmdConcede, TypeOK
<1>5. ASSUME NEW p \in Player, CmdUnconcede(p)
      PROVE  TypeOK'
  <2> DEFINE holder(S) == [c \in Card |-> IF c \in S THEN p ELSE None]
  <2>1. \A S : holder(S) \in [Card -> Player \cup {None}]
    OBVIOUS
  <2>2. \E S : SetupZones({p}, holder(S))
    BY <1>5 DEF CmdUnconcede
  <2>3. PICK S : SetupZones({p}, holder(S))
    BY <2>2
  <2> HIDE DEF holder
  <2>4. /\ place' \in [Card -> Place \cup {Nowhere}]
        /\ id' \in [Card -> Nat]
        /\ nextCardId' \in [Player -> Nat]
    BY <2>1, <2>3, SetupZonesType
  <2>5. UNCHANGED <<faceDown, kind, parent, stash, lastDrawList, arrows, grants>>
    BY <2>3 DEF SetupZones
  <2> QED BY <1>5, <2>4, <2>5 DEF CmdUnconcede, TypeOK
<1>6. ASSUME NEW p \in Player, DrawCards(p) \/ DrawCryptCards(p)
      PROVE  TypeOK'
  BY <1>6, DrawType DEF DrawCards, DrawCryptCards, Zone
<1>7. ASSUME NEW p \in Player, CmdUndoDraw(p)
      PROVE  TypeOK'
  <2> DEFINE list == lastDrawList[p]
             rest == [lastDrawList EXCEPT ![p] = SubSeq(list, 1, Len(list) - 1)]
  <2>1. rest \in [Player -> Seq(Nat)]
    <3>1. list \in Seq(Nat) /\ list # <<>>
      BY <1>7 DEF TypeOK, CmdUndoDraw
    <3>2. SubSeq(list, 1, Len(list) - 1) \in Seq(Nat)
      <4> HIDE DEF list
      <4>1. Len(list) \in Nat /\ \A n \in 1..(Len(list) - 1) : list[n] \in Nat
        BY <3>1
      <4> QED BY <4>1, SubSeqProperties
    <3> HIDE DEF list
    <3> QED BY <3>2 DEF TypeOK
  <2>2. \/ \E c \in Card : MoveCard(p, c, At(p, "deck"), FALSE, rest, TRUE)
        \/ lastDrawList' = rest /\ UNCHANGED <<cards, nextCardId, arrows, grants, table>>
    BY <1>7 DEF CmdUndoDraw, On
  <2> HIDE DEF rest
  <2>3. At(p, "deck") \in Place
    BY PlaceType DEF Zone
  <2>4. CASE \E c \in Card : MoveCard(p, c, At(p, "deck"), FALSE, rest, TRUE)
    BY <2>1, <2>3, <2>4, MoveCardType
  <2>5. CASE lastDrawList' = rest /\ UNCHANGED <<cards, nextCardId, arrows, grants, table>>
    BY <2>1, <2>5 DEF TypeOK, cards, table
  <2> QED BY <2>2, <2>4, <2>5
<1>8. ASSUME NEW p \in Player, CmdMoveCard(p)
      PROVE  TypeOK'
  <2>1. PICK c \in Card, q \in InPlay, z \in MoveZone :
           \E face \in IF z = "table" THEN Side ELSE {FALSE} :
              MoveCard(p, c, At(q, z), face, lastDrawList, FALSE)
    BY <1>8 DEF CmdMoveCard
  <2>3. PICK face \in BOOLEAN : MoveCard(p, c, At(q, z), face, lastDrawList, FALSE)
    BY <2>1, CardsAssumption
  <2>2. At(q, z) \in Place
    BY InPlayArePlayers, PlaceType, CardsAssumption
  <2>4. lastDrawList \in [Player -> Seq(Nat)]
    BY DEF TypeOK
  <2> QED BY <2>2, <2>3, <2>4, MoveCardType
<1>9. ASSUME NEW p \in Player, CmdFlipCard(p)
      PROVE  TypeOK'
  BY <1>9, CardsAssumption DEF CmdFlipCard, TypeOK, On, table
<1>10. ASSUME NEW p \in Player, CmdRevealCards(p)
       PROVE  TypeOK'
  <2>1. PICK z \in GrantZone, to \in {{q} : q \in seated} \cup {seated} :
           grants' = grants \cup {<<At(p, z), q>> : q \in to \ {p}}
    BY <1>10 DEF CmdRevealCards
  <2>2. to \subseteq Player /\ At(p, z) \in Place
    BY PlaceType, CardsAssumption DEF TypeOK
  <2> QED BY <1>10, <2>1, <2>2 DEF CmdRevealCards, TypeOK, cards, table
<1>11. ASSUME NEW p \in Player, CmdShuffle(p)
       PROVE  TypeOK'
  BY <1>11 DEF CmdShuffle, TypeOK, cards, table
<1>12. ASSUME NEW p \in Player, CmdAttachCard(p)
       PROVE  TypeOK'
  <2>1. PICK c \in Card, t \in Card \cup {None} : Attach(c, t)
    BY <1>12 DEF CmdAttachCard, On
  <2> QED BY <1>12, <2>1, AttachType DEF CmdAttachCard, TypeOK, table
<1>13. ASSUME NEW p \in Player, CmdCreateToken(p)
       PROVE  TypeOK'
  <2> DEFINE n == NewCard
  <2>1. n \in Card
    BY <1>13, NewCardIsFree DEF CmdCreateToken, NewToken
  <2>2. PICK k \in {"token", "created"} :
          /\ place' = [place EXCEPT ![n] = At(p, "table")]
          /\ id' = [id EXCEPT ![n] = nextCardId[p]]
          /\ kind' = [kind EXCEPT ![n] = k]
          /\ UNCHANGED <<faceDown, stash>>
          /\ UNCHANGED <<parent, arrows>> \/ \E c \in On(p, "table") : Attach(c, n)
    BY <1>13 DEF CmdCreateToken
  <2> HIDE DEF n
  <2>3. arrows' \in [Player -> SUBSET Arrow] /\ parent' \in [Card -> Card \cup {None}]
    <3>1. CASE UNCHANGED <<parent, arrows>>
      BY <3>1 DEF TypeOK
    <3>2. CASE \E c \in On(p, "table") : Attach(c, n)
      BY <2>1, <3>2, AttachType DEF On
    <3> QED BY <2>2, <3>1, <3>2
  <2>4. At(p, "table") \in Place /\ nextCardId[p] \in Nat
    BY PlaceType DEF Zone, TypeOK
  <2>5. /\ place' \in [Card -> Place \cup {Nowhere}]
        /\ id' \in [Card -> Nat]
        /\ kind' \in [Card -> {"deck", "token", "created"}]
    BY <2>2, <2>4 DEF TypeOK
  <2>6. nextCardId' \in [Player -> Nat]
    BY <1>13, <2>4 DEF CmdCreateToken, NewToken, TypeOK
  <2>7. UNCHANGED <<faceDown, stash, lastDrawList, grants, table>>
    BY <1>13, <2>2 DEF CmdCreateToken, NewToken
  <2> QED BY <2>3, <2>5, <2>6, <2>7 DEF TypeOK, table
<1>14. ASSUME NEW p \in Player, CmdTransform(p)
       PROVE  TypeOK'
  BY <1>14, TransformType
<1>15. ASSUME NEW p \in Player, CmdCreateArrow(p)
       PROVE  TypeOK'
  <2>1. PICK c \in Card, t \in Card \cup seated :
           arrows' = [arrows EXCEPT ![p] = @ \cup {[from |-> c, to |-> t]}]
    BY <1>15 DEF CmdCreateArrow
  <2>2. [from |-> c, to |-> t] \in Arrow
    BY DEF Arrow, TypeOK
  <2> QED BY <1>15, <2>1, <2>2 DEF CmdCreateArrow, TypeOK, cards, table
<1>16. ASSUME NEW p \in Player, CmdDeleteArrow(p)
       PROVE  TypeOK'
  BY <1>16 DEF CmdDeleteArrow, TypeOK, cards, table
<1>17. CASE UNCHANGED vars
  BY <1>17 DEF vars, cards, table, TypeOK
<1> QED
  BY <1>1, <1>2, <1>3, <1>4, <1>5, <1>6, <1>7, <1>8, <1>9, <1>10, <1>11, <1>12, <1>13,
     <1>14, <1>15, <1>16, <1>17 DEF Next

LEMMA InitType ==
  ASSUME Init
  PROVE  TypeOK
<1>1. place \in [Card -> Place \cup {Nowhere}] /\ id \in [Card -> Nat]
  BY DEF Init
<1>2. /\ faceDown \in [Card -> BOOLEAN]
      /\ kind \in [Card -> {"deck", "token", "created"}]
      /\ parent \in [Card -> Card \cup {None}]
      /\ stash \in [Card -> Card \cup {None}]
  BY DEF Init
<1>3. nextCardId \in [Player -> Nat] /\ arrows \in [Player -> SUBSET Arrow]
  BY DEF Init
<1>4. lastDrawList \in [Player -> Seq(Nat)]
  <2>1. <<>> \in Seq(Nat)
    OBVIOUS
  <2> QED BY <2>1 DEF Init
<1>5. grants \subseteq Place \X Player
      /\ seated \subseteq Player /\ conceded \subseteq seated /\ started \in BOOLEAN
  BY DEF Init
<1> QED BY <1>1, <1>2, <1>3, <1>4, <1>5 DEF TypeOK

\* At every table the state has its shape: places, ids, sides, parents and
\* stashes are total on the cards, and the draw lists are lists of ids.
THEOREM TypeCorrect == Spec => []TypeOK
<1>1. Init => TypeOK
  BY InitType
<1>2. TypeOK /\ [Next]_vars => TypeOK'
  BY TypeStep
<1> QED BY <1>1, <1>2, PTL DEF Spec

-----------------------------------------------------------------------------
(* Where cards lie and what lies under them.                               *)

LEMMA PlacedIsPlace ==
  ASSUME TypeOK, NEW c \in Card
  PROVE  Placed(c) <=> place[c] \in Place
BY NowhereIsNoPlace DEF Placed, TypeOK

LEMMA SetupZonesCards ==
  ASSUME CardInv, TypeOK', NEW S \in SUBSET Player,
         NEW holder \in [Card -> Player \cup {None}], SetupZones(S, holder),
         \A c \in Card : holder[c] \in S => c \in Free,
         InPlay' = InPlay \cup S, started'
  PROVE  CardInv'
<1> DEFINE deckOf(c) == {d \in Card : holder[d] = holder[c]}
           pile(c) == IF Rank(c, deckOf(c)) < LibrarySize THEN "deck" ELSE "crypt"
<1>1. \A c \in Card : holder[c] \in S =>
         /\ place'[c] \in Place /\ place'[c].player = holder[c] /\ place'[c] # Nowhere
         /\ place[c] = Nowhere /\ kind[c] # "token"
         /\ \A d \in Card : stash[d] # c
  <2> SUFFICES ASSUME NEW c \in Card, holder[c] \in S
               PROVE  /\ place'[c] \in Place /\ place'[c].player = holder[c]
                      /\ place'[c] # Nowhere
                      /\ place[c] = Nowhere /\ kind[c] # "token"
                      /\ \A d \in Card : stash[d] # c
    OBVIOUS
  <2>1. pile(c) \in Zone
    BY DEF Zone
  <2>2. place'[c] = At(holder[c], pile(c))
    BY DEF SetupZones
  <2>3. place'[c] \in Place /\ place'[c].player = holder[c]
    <3> HIDE DEF pile
    <3> QED BY <2>1, <2>2, PlaceType
  <2>4. place[c] = Nowhere /\ \A d \in Card : stash[d] # c
    BY DEF Free
  <2>5. kind[c] # "token"
    BY <2>4, CardsAssumption DEF CardInv, TokensOnTable, OnTable, Nowhere, Zone
  <2> QED BY <2>3, <2>4, <2>5, NowhereIsNoPlace
<1>2. \A c \in Card : holder[c] \notin S => place'[c] = place[c]
  BY DEF SetupZones
<1>3. UNCHANGED <<kind, stash>>
  BY DEF SetupZones
<1>4. HoldersInPlay'
  BY <1>1, <1>2 DEF HoldersInPlay, CardInv, Placed
<1>5. TokensOnTable'
  BY <1>1, <1>2, <1>3 DEF TokensOnTable, CardInv, OnTable
<1>6. StashIsPlain'
  <2> SUFFICES ASSUME NEW c \in Card, stash[c] # None
               PROVE  /\ place'[c] # Nowhere /\ place'[stash[c]] = Nowhere
                      /\ kind[stash[c]] # "token" /\ stash[stash[c]] = None
                      /\ \A d \in Card : stash[d] = stash[c] => d = c
    BY <1>3 DEF StashIsPlain, Placed
  <2>1. /\ place[c] # Nowhere /\ place[stash[c]] = Nowhere
        /\ kind[stash[c]] # "token" /\ stash[stash[c]] = None
        /\ \A d \in Card : stash[d] = stash[c] => d = c
    BY DEF CardInv, StashIsPlain, Placed
  <2>2. stash[c] \in Card
    BY DEF CardInv, TypeOK
  <2>3. holder[c] \notin S /\ holder[stash[c]] \notin S
    BY <1>1, <2>1, <2>2
  <2> QED BY <1>2, <2>1, <2>2, <2>3
<1> QED BY <1>4, <1>5, <1>6 DEF CardInv, NobodyConcededYet

LEMMA OutOfPlayCards ==
  ASSUME CardInv, TypeOK', NEW p \in Player, NEW left, OutOfPlay(p, left),
         Cardinality(left) <= 1 \/ InPlay \ {p} \subseteq InPlay',
         NobodyConcededYet'
  PROVE  CardInv'
<1> DEFINE stops == Cardinality(left) <= 1
           S == IF stops THEN Player ELSE {p}
           dead == Cleared(S)
<1>1. \A c \in Card : c \in dead =>
         place'[c] = Nowhere /\ kind'[c] = "deck" /\ stash'[c] = None
  BY DEF OutOfPlay
<1>2. \A c \in Card : c \notin dead =>
         place'[c] = place[c] /\ kind'[c] = kind[c] /\ stash'[c] = stash[c]
  BY DEF OutOfPlay
<1>3. \A c \in Card : c \notin dead => place[c].player \notin S
  BY DEF Cleared
<1>4. HoldersInPlay'
  <2> SUFFICES ASSUME NEW c \in Card, place'[c] # Nowhere
               PROVE  place'[c].player \in InPlay'
    BY DEF HoldersInPlay, Placed
  <2>1. c \notin dead
    BY <1>1
  <2>2. place'[c] = place[c] /\ place[c].player \notin S /\ place[c].player \in InPlay
    BY <1>2, <1>3, <2>1 DEF CardInv, HoldersInPlay, Placed
  <2>3. place[c].player \in Player
    BY <2>2, InPlayArePlayers DEF CardInv
  <2> QED BY <2>2, <2>3
<1>5. TokensOnTable'
  BY <1>1, <1>2 DEF TokensOnTable, CardInv, OnTable
<1>6. StashIsPlain'
  <2> SUFFICES ASSUME NEW c \in Card, stash'[c] # None
               PROVE  /\ place'[c] # Nowhere /\ place'[stash'[c]] = Nowhere
                      /\ kind'[stash'[c]] # "token" /\ stash'[stash'[c]] = None
                      /\ \A d \in Card : stash'[d] = stash'[c] => d = c
    BY DEF StashIsPlain, Placed
  <2> HIDE DEF dead
  <2>1. c \notin dead /\ stash'[c] = stash[c] /\ place'[c] = place[c]
    BY <1>1, <1>2
  <2>2. stash[c] \in Card
    BY <2>1 DEF CardInv, TypeOK
  <2>3. /\ place[c] # Nowhere /\ place[stash[c]] = Nowhere
        /\ kind[stash[c]] # "token" /\ stash[stash[c]] = None
        /\ \A d \in Card : stash[d] = stash[c] => d = c
    BY <2>1 DEF CardInv, StashIsPlain, Placed
  <2>4. \A d \in Card : stash'[d] = stash[c] => d = c
    BY <1>1, <1>2, <2>1, <2>3
  <2> QED BY <1>1, <1>2, <2>1, <2>2, <2>3, <2>4
<1> QED BY <1>4, <1>5, <1>6 DEF CardInv

LEMMA MoveCardCards ==
  ASSUME CardInv, TypeOK', NEW m \in Player, NEW c \in Card, NEW to \in Place,
         place[c] \in Place, to.player \in InPlay,
         NEW face, NEW draws, NEW undoing,
         MoveCard(m, c, to, face, draws, undoing)
  PROVE  CardInv'
<1> DEFINE dies == place[c].zone # to.zone /\ kind[c] = "token"
           x == Arriving(c, dies)
<1>1. \A d \in Card : place'[d] = IF d = x THEN to ELSE IF dies /\ d = c THEN Nowhere
                                  ELSE place[d]
  BY DEF MoveCard
<1>2. \A d \in Card : kind'[d] = IF dies /\ d = c THEN "deck" ELSE kind[d]
  BY DEF MoveCard
<1>3. \A d \in Card : stash'[d] = IF dies /\ d = c THEN None ELSE stash[d]
  BY DEF MoveCard
<1>4. x = (IF dies THEN stash[c] ELSE c)
  BY DEF Arriving
<1>5. UNCHANGED table
  BY DEF MoveCard
<1>6. to # Nowhere /\ place[c] # Nowhere
  BY NowhereIsNoPlace
<1>7. HoldersInPlay' /\ NobodyConcededYet'
  <2>1. InPlay' = InPlay /\ NobodyConcededYet'
    BY <1>5 DEF InPlay, NobodyConcededYet, table, CardInv
  <2> HIDE DEF x, dies
  <2> QED BY <1>1, <2>1 DEF HoldersInPlay, CardInv, Placed
<1>8. TokensOnTable'
  <2> SUFFICES ASSUME NEW d \in Card, kind'[d] = "token"
               PROVE  place'[d].zone = "table"
    BY DEF TokensOnTable, OnTable
  <2>1. kind[d] = "token" /\ place[d].zone = "table" /\ ~(dies /\ d = c)
    BY <1>2 DEF CardInv, TokensOnTable, OnTable
  <2>2. CASE d = x
    <3>1. ~dies
      <4> SUFFICES ASSUME dies PROVE FALSE
        OBVIOUS
      <4>1. d = stash[c] /\ stash[c] # None
        BY <1>4, <2>2, CardsAssumption
      <4> QED BY <2>1, <4>1 DEF CardInv, StashIsPlain
    <3>2. d = c
      BY <1>4, <2>2, <3>1
    <3> QED BY <1>1, <2>1, <2>2, <3>1, <3>2
  <2>3. CASE d # x
    <3> HIDE DEF x, dies
    <3> QED BY <1>1, <2>1, <2>3
  <2> QED BY <2>2, <2>3
<1>9. StashIsPlain'
  <2> SUFFICES ASSUME NEW d \in Card, stash'[d] # None
               PROVE  /\ place'[d] # Nowhere /\ place'[stash'[d]] = Nowhere
                      /\ kind'[stash'[d]] # "token" /\ stash'[stash'[d]] = None
                      /\ \A e \in Card : stash'[e] = stash'[d] => e = d
    BY DEF StashIsPlain, Placed
  <2>1. ~(dies /\ d = c) /\ stash'[d] = stash[d]
    BY <1>3
  <2>2. stash[d] \in Card
    BY <2>1 DEF CardInv, TypeOK
  <2>3. /\ place[d] # Nowhere /\ place[stash[d]] = Nowhere
        /\ kind[stash[d]] # "token" /\ stash[stash[d]] = None
        /\ \A e \in Card : stash[e] = stash[d] => e = d
    BY <2>1 DEF CardInv, StashIsPlain, Placed
  <2>4. stash[d] # x
    BY <1>4, <1>6, <2>1, <2>3
  <2> HIDE DEF dies, x
  <2>5. place'[d] # Nowhere
    BY <1>1, <1>6, <2>1, <2>3
  <2>6. place'[stash[d]] = Nowhere
    BY <1>1, <2>2, <2>3, <2>4
  <2>7. kind'[stash[d]] # "token" /\ stash'[stash[d]] = None
    BY <1>2, <1>3, <2>2, <2>3
  <2>8. \A e \in Card : stash'[e] = stash[d] => e = d
    BY <1>3, <2>1, <2>3
  <2> QED BY <2>1, <2>5, <2>6, <2>7, <2>8
<1> QED BY <1>7, <1>8, <1>9 DEF CardInv

LEMMA DrawKeepsCards ==
  ASSUME CardInv, TypeOK', NEW p \in Player, NEW from \in Zone, NEW to \in Zone,
         from # "table", Draw(p, from, to)
  PROVE  CardInv'
<1>1. PICK c \in On(p, from) :
         /\ p \in InPlay
         /\ place' = [place EXCEPT ![c] = At(p, to)]
         /\ UNCHANGED <<id, faceDown, kind, parent, stash, nextCardId, arrows, grants, table>>
  BY DEF Draw
<1>2. c \in Card /\ place[c] = At(p, from)
  BY DEF On
<1>3. At(p, to).player = p /\ At(p, to) # Nowhere /\ At(p, from) # Nowhere
  BY PlaceType, NowhereIsNoPlace
<1>4. \A d \in Card : place'[d] = IF d = c THEN At(p, to) ELSE place[d]
  BY <1>1, <1>2 DEF CardInv, TypeOK
<1>5. InPlay' = InPlay /\ NobodyConcededYet'
  BY <1>1 DEF InPlay, NobodyConcededYet, table, CardInv
<1>6. HoldersInPlay'
  BY <1>1, <1>3, <1>4, <1>5 DEF HoldersInPlay, CardInv, Placed
<1>7. TokensOnTable'
  <2>1. kind[c] # "token"
    BY <1>2 DEF CardInv, TokensOnTable, OnTable, At
  <2> QED BY <1>1, <1>4, <2>1 DEF TokensOnTable, CardInv, OnTable
<1>8. StashIsPlain'
  BY <1>1, <1>2, <1>3, <1>4 DEF StashIsPlain, CardInv, Placed, TypeOK
<1> QED BY <1>5, <1>6, <1>7, <1>8 DEF CardInv

LEMMA CreateTokenCards ==
  ASSUME CardInv, TypeOK', NEW p \in Player, CmdCreateToken(p)
  PROVE  CardInv'
<1> DEFINE n == NewCard
<1>1. /\ n \in Card /\ place[n] = Nowhere /\ \A d \in Card : stash[d] # n
      /\ p \in InPlay /\ UNCHANGED table
  BY NewCardIsFree DEF CmdCreateToken, NewToken
<1>2. PICK k \in {"token", "created"} :
        /\ place' = [place EXCEPT ![n] = At(p, "table")]
        /\ kind' = [kind EXCEPT ![n] = k]
        /\ stash' = stash
  BY DEF CmdCreateToken
<1> HIDE DEF n
<1>3. At(p, "table").player = p /\ At(p, "table").zone = "table" /\ At(p, "table") # Nowhere
  BY PlaceType, NowhereIsNoPlace DEF Zone
<1>4. \A d \in Card : /\ place'[d] = IF d = n THEN At(p, "table") ELSE place[d]
                      /\ kind'[d] = IF d = n THEN k ELSE kind[d]
  BY <1>1, <1>2 DEF CardInv, TypeOK
<1>5. InPlay' = InPlay /\ NobodyConcededYet'
  BY <1>1 DEF InPlay, NobodyConcededYet, table, CardInv
<1>6. HoldersInPlay'
  BY <1>1, <1>3, <1>4, <1>5 DEF HoldersInPlay, CardInv, Placed
<1>7. TokensOnTable'
  BY <1>3, <1>4 DEF TokensOnTable, CardInv, OnTable
<1>8. StashIsPlain'
  BY <1>1, <1>2, <1>3, <1>4 DEF StashIsPlain, CardInv, Placed, TypeOK
<1> QED BY <1>5, <1>6, <1>7, <1>8 DEF CardInv

LEMMA TransformCards ==
  ASSUME CardInv, TypeOK', NEW p \in Player, CmdTransform(p)
  PROVE  CardInv'
<1> DEFINE n == NewCard
<1>1. /\ n \in Card /\ place[n] = Nowhere /\ \A d \in Card : stash[d] # n
      /\ p \in InPlay /\ UNCHANGED table
  BY NewCardIsFree DEF CmdTransform, NewToken
<1>2. PICK k \in {"token", "created"}, z \in PublicZone : \E c \in On(p, z) :
        /\ place' = [place EXCEPT ![n] = At(p, "table"), ![c] = Nowhere]
        /\ kind' = [d \in Card |-> IF d = n THEN k
                                   ELSE IF d = c /\ Discards(c) THEN "deck" ELSE kind[d]]
        /\ stash' = [stash EXCEPT ![c] = None, ![n] = IF Discards(c) THEN stash[c] ELSE c]
  BY DEF CmdTransform
<1>3. PICK c \in On(p, z) :
        /\ place' = [place EXCEPT ![n] = At(p, "table"), ![c] = Nowhere]
        /\ kind' = [d \in Card |-> IF d = n THEN k
                                   ELSE IF d = c /\ Discards(c) THEN "deck" ELSE kind[d]]
        /\ stash' = [stash EXCEPT ![c] = None, ![n] = IF Discards(c) THEN stash[c] ELSE c]
  BY <1>2
<1> HIDE DEF n
<1>4. /\ c \in Card /\ place[c] = At(p, z) /\ z \in Zone
      /\ At(p, z) # Nowhere /\ c # n
  <2>1. c \in Card /\ place[c] = At(p, z) /\ z \in Zone
    BY DEF On, PublicZone, Zone
  <2> QED BY <1>1, <2>1, PlaceType, NowhereIsNoPlace
<1>5. At(p, "table").player = p /\ At(p, "table").zone = "table" /\ At(p, "table") # Nowhere
  BY PlaceType, NowhereIsNoPlace DEF Zone
<1>6. \A d \in Card :
        /\ place'[d] = IF d = n THEN At(p, "table") ELSE IF d = c THEN Nowhere ELSE place[d]
        /\ kind'[d] = IF d = n THEN k ELSE IF d = c /\ Discards(c) THEN "deck" ELSE kind[d]
  BY <1>1, <1>3, <1>4 DEF CardInv, TypeOK
<1>7. \A d \in Card :
        stash'[d] = IF d = n THEN (IF Discards(c) THEN stash[c] ELSE c)
                    ELSE IF d = c THEN None ELSE stash[d]
  BY <1>1, <1>3, <1>4 DEF CardInv, TypeOK
<1>8. Discards(c) <=> stash[c] # None \/ kind[c] = "token"
  BY DEF Discards
<1>9. InPlay' = InPlay /\ NobodyConcededYet'
  BY <1>1 DEF InPlay, NobodyConcededYet, table, CardInv
<1>10. HoldersInPlay'
  BY <1>1, <1>5, <1>6, <1>9 DEF HoldersInPlay, CardInv, Placed
<1>11. TokensOnTable'
  <2> SUFFICES ASSUME NEW d \in Card, kind'[d] = "token"
               PROVE  place'[d].zone = "table"
    BY DEF TokensOnTable, OnTable
  <2>1. CASE d = n
    BY <1>5, <1>6, <2>1
  <2>2. CASE d # n
    <3>1. kind[d] = "token" /\ d # c
      BY <1>6, <1>8, <2>2
    <3> QED BY <1>6, <2>2, <3>1 DEF CardInv, TokensOnTable, OnTable
  <2> QED BY <2>1, <2>2
<1>12. StashIsPlain'
  <2>1. \A d \in Card : stash[d] # None =>
           /\ stash[d] \in Card
           /\ place[d] # Nowhere /\ place[stash[d]] = Nowhere
           /\ kind[stash[d]] # "token" /\ stash[stash[d]] = None
           /\ \A e \in Card : stash[e] = stash[d] => e = d
    BY DEF CardInv, StashIsPlain, Placed, TypeOK
  <2>2. stash[n] = None
    BY <1>1, <2>1
  <2> SUFFICES ASSUME NEW d \in Card, stash'[d] # None
               PROVE  /\ place'[d] # Nowhere /\ place'[stash'[d]] = Nowhere
                      /\ kind'[stash'[d]] # "token" /\ stash'[stash'[d]] = None
                      /\ \A e \in Card : stash'[e] = stash'[d] => e = d
    BY DEF StashIsPlain, Placed
  <2>3. CASE d = n /\ ~Discards(c)
    <3>1. stash'[d] = c
      BY <1>1, <1>7, <2>3
    <3>2. place'[c] = Nowhere /\ kind'[c] # "token" /\ stash'[c] = None
      BY <1>4, <1>6, <1>7, <1>8, <2>3
    <3>3. \A e \in Card : stash'[e] = c => e = d
      BY <1>1, <1>4, <1>7, <2>1, <2>3
    <3> QED BY <1>5, <1>6, <2>3, <3>1, <3>2, <3>3
  <2>4. CASE d = n /\ Discards(c)
    <3>1. stash'[d] = stash[c] /\ stash[c] # None
      BY <1>1, <1>7, <2>4
    <3>2. /\ stash[c] \in Card /\ place[stash[c]] = Nowhere /\ stash[c] # n /\ stash[c] # c
          /\ kind[stash[c]] # "token" /\ stash[stash[c]] = None
          /\ \A e \in Card : stash[e] = stash[c] => e = c
      BY <1>1, <1>4, <2>1, <3>1
    <3>3. place'[stash[c]] = Nowhere
      BY <1>6, <3>2
    <3>4. kind'[stash[c]] # "token" /\ stash'[stash[c]] = None
      BY <1>6, <1>7, <3>2
    <3>5. \A e \in Card : stash'[e] = stash[c] => e = d
      BY <1>7, <2>4, <3>1, <3>2
    <3> QED BY <1>5, <1>6, <2>4, <3>1, <3>3, <3>4, <3>5
  <2>5. CASE d # n
    <3>1. d # c /\ stash'[d] = stash[d]
      BY <1>7, <2>5
    <3>2. /\ stash[d] \in Card /\ place[d] # Nowhere /\ place[stash[d]] = Nowhere
          /\ stash[d] # n /\ stash[d] # c
          /\ kind[stash[d]] # "token" /\ stash[stash[d]] = None
          /\ \A e \in Card : stash[e] = stash[d] => e = d
      BY <1>1, <1>4, <2>1, <3>1
    <3>3. place'[d] # Nowhere /\ place'[stash[d]] = Nowhere
      BY <1>6, <2>5, <3>1, <3>2
    <3>4. kind'[stash[d]] # "token" /\ stash'[stash[d]] = None
      BY <1>6, <1>7, <3>2
    <3>5. \A e \in Card : stash'[e] = stash[d] => e = d
      BY <1>4, <1>7, <2>5, <3>1, <3>2
    <3> QED BY <3>1, <3>3, <3>4, <3>5
  <2> QED BY <2>3, <2>4, <2>5
<1> QED BY <1>9, <1>10, <1>11, <1>12 DEF CardInv

\* What touches no place, kind or stash, and nobody at the table, changes nothing
\* of this.
LEMMA QuietCards ==
  ASSUME CardInv, TypeOK', UNCHANGED <<place, kind, stash, table>>
  PROVE  CardInv'
<1>1. InPlay' = InPlay
  BY DEF InPlay, table
<1>2. HoldersInPlay' /\ NobodyConcededYet' /\ TokensOnTable'
  BY <1>1 DEF CardInv, HoldersInPlay, NobodyConcededYet, TokensOnTable, Placed, OnTable, table
<1>3. StashIsPlain'
  BY DEF CardInv, StashIsPlain, Placed
<1> QED BY <1>2, <1>3 DEF CardInv

LEMMA CardStep ==
  ASSUME CardInv, [Next]_vars
  PROVE  CardInv'
<1> USE DEF CardInv
<1>0. TypeOK'
  BY TypeStep
<1>1. ASSUME DoStartGame
      PROVE  CardInv'
  <2>1. \A c \in Card : c \in Free
    <3>1. InPlay = {}
      BY <1>1 DEF DoStartGame, InPlay
    <3>2. \A c \in Card : ~Placed(c) /\ stash[c] = None
      BY <3>1 DEF HoldersInPlay, StashIsPlain
    <3> QED BY <3>2, CardsAssumption DEF Free, Placed
  <2>2. InPlay' = InPlay \cup seated /\ started'
    BY <1>1 DEF DoStartGame, InPlay, NobodyConcededYet
  <2>3. seated \in SUBSET Player /\ SetupZones(seated, Deck)
    BY <1>1 DEF DoStartGame
  <2>4. Deck \in [Card -> Player \cup {None}]
    BY CardsAssumption
  <2> QED BY <1>0, <2>1, <2>2, <2>3, <2>4, SetupZonesCards
<1>2. ASSUME NEW p \in Player, JoinGame(p)
      PROVE  CardInv'
  <2>1. UNCHANGED <<place, kind, stash, conceded, started>> /\ seated \subseteq seated'
    BY <1>2 DEF JoinGame, cards
  <2>2. InPlay \subseteq InPlay'
    BY <2>1 DEF InPlay
  <2>3. HoldersInPlay' /\ NobodyConcededYet' /\ TokensOnTable'
    BY <2>1, <2>2 DEF HoldersInPlay, NobodyConcededYet, TokensOnTable, Placed, OnTable
  <2>4. StashIsPlain'
    BY <2>1 DEF StashIsPlain, Placed
  <2> QED BY <1>0, <2>3, <2>4
<1>3. ASSUME NEW p \in Player, RemovePlayer(p)
      PROVE  CardInv'
  <2> DEFINE left == (seated \ conceded) \ {p}
             stops == Cardinality(left) <= 1
  <2>1. /\ OutOfPlay(p, left) /\ seated' = seated \ {p}
        /\ started' = (started /\ ~stops)
        /\ conceded' = IF stops THEN {} ELSE (seated \ left) \cap seated'
    BY <1>3 DEF RemovePlayer, OutOfPlay, OutOf
  <2> HIDE DEF stops
  <2>2. NobodyConcededYet'
    BY <2>1 DEF NobodyConcededYet
  <2>3. stops \/ InPlay \ {p} \subseteq InPlay'
    BY <2>1 DEF InPlay
  <2> QED BY <1>0, <2>1, <2>2, <2>3, OutOfPlayCards DEF stops
<1>4. ASSUME NEW p \in Player, CmdConcede(p)
      PROVE  CardInv'
  <2> DEFINE left == InPlay \ {p}
             stops == Cardinality(left) <= 1
  <2>1. /\ OutOfPlay(p, left) /\ seated' = seated /\ started
        /\ started' = (started /\ ~stops)
        /\ conceded' = IF stops THEN {} ELSE (seated \ left) \cap seated'
    BY <1>4 DEF CmdConcede, OutOfPlay, OutOf, InPlay
  <2> HIDE DEF stops
  <2>2. NobodyConcededYet'
    BY <2>1 DEF NobodyConcededYet
  <2>3. stops \/ InPlay \ {p} \subseteq InPlay'
    BY <2>1 DEF InPlay
  <2> QED BY <1>0, <2>1, <2>2, <2>3, OutOfPlayCards DEF stops
<1>5. ASSUME NEW p \in Player, CmdUnconcede(p)
      PROVE  CardInv'
  <2> DEFINE holder(S) == [c \in Card |-> IF c \in S THEN p ELSE None]
             fresh == Lowest(Free, Cardinality({c \in Card : Deck[c] = p}))
  <2>1. fresh \subseteq Free /\ SetupZones({p}, holder(fresh))
    BY <1>5 DEF CmdUnconcede, Lowest
  <2>2. \A c \in Card : holder(fresh)[c] \in {p} => c \in Free
    <3> HIDE DEF fresh
    <3> QED BY <2>1, CardsAssumption
  <2>3. holder(fresh) \in [Card -> Player \cup {None}]
    OBVIOUS
  <2>4. InPlay' = InPlay \cup {p} /\ started'
    BY <1>5 DEF CmdUnconcede, InPlay, TypeOK
  <2>5. {p} \in SUBSET Player
    OBVIOUS
  <2> HIDE DEF holder, fresh
  <2> QED BY <1>0, <2>1, <2>2, <2>3, <2>4, <2>5, SetupZonesCards
<1>6. ASSUME NEW p \in Player, DrawCards(p) \/ DrawCryptCards(p)
      PROVE  CardInv'
  BY <1>0, <1>6, DrawKeepsCards DEF DrawCards, DrawCryptCards, Zone
<1>7. ASSUME NEW p \in Player, CmdUndoDraw(p)
      PROVE  CardInv'
  <2> DEFINE list == lastDrawList[p]
             rest == [lastDrawList EXCEPT ![p] = SubSeq(list, 1, Len(list) - 1)]
  <2>1. \/ \E c \in On(p, "hand") : MoveCard(p, c, At(p, "deck"), FALSE, rest, TRUE)
        \/ UNCHANGED <<cards, nextCardId, arrows, grants, table>>
    BY <1>7 DEF CmdUndoDraw
  <2> HIDE DEF rest
  <2>2. p \in InPlay
    BY <1>7 DEF CmdUndoDraw
  <2>3. At(p, "deck") \in Place /\ At(p, "hand") \in Place /\ At(p, "deck").player = p
    BY PlaceType DEF Zone
  <2>4. CASE \E c \in On(p, "hand") : MoveCard(p, c, At(p, "deck"), FALSE, rest, TRUE)
    <3>1. PICK c \in On(p, "hand") : MoveCard(p, c, At(p, "deck"), FALSE, rest, TRUE)
      BY <2>4
    <3>2. c \in Card /\ place[c] \in Place
      BY <2>3 DEF On
    <3> QED BY <1>0, <2>2, <2>3, <3>1, <3>2, MoveCardCards
  <2>5. CASE UNCHANGED <<cards, nextCardId, arrows, grants, table>>
    BY <1>0, <2>5, QuietCards DEF cards
  <2> QED BY <2>1, <2>4, <2>5
<1>8. ASSUME NEW p \in Player, CmdMoveCard(p)
      PROVE  CardInv'
  <2>1. PICK c \in Card, q \in InPlay, z \in MoveZone :
           /\ place[c].player \in Player
           /\ \E face \in IF z = "table" THEN Side ELSE {FALSE} :
                 MoveCard(p, c, At(q, z), face, lastDrawList, FALSE)
    BY <1>8 DEF CmdMoveCard
  <2>2. PICK face \in BOOLEAN : MoveCard(p, c, At(q, z), face, lastDrawList, FALSE)
    BY <2>1, CardsAssumption
  <2>3. At(q, z) \in Place /\ At(q, z).player = q
    BY InPlayArePlayers, PlaceType, CardsAssumption
  <2>4. place[c] \in Place
    BY <2>1, NowhereIsNoPlace DEF TypeOK
  <2> QED BY <1>0, <2>2, <2>3, <2>4, MoveCardCards
<1>9. ASSUME NEW p \in Player,
             \/ CmdFlipCard(p) \/ CmdRevealCards(p) \/ CmdShuffle(p)
             \/ CmdCreateArrow(p) \/ CmdDeleteArrow(p) \/ CmdAttachCard(p)
      PROVE  CardInv'
  <2>1. UNCHANGED <<place, kind, stash, table>>
    BY <1>9 DEF CmdFlipCard, CmdRevealCards, CmdShuffle, CmdCreateArrow, CmdDeleteArrow,
                CmdAttachCard, cards
  <2> QED BY <1>0, <2>1, QuietCards
<1>10. ASSUME NEW p \in Player, CmdCreateToken(p)
       PROVE  CardInv'
  BY <1>0, <1>10, CreateTokenCards
<1>11. ASSUME NEW p \in Player, CmdTransform(p)
       PROVE  CardInv'
  BY <1>0, <1>11, TransformCards
<1>12. CASE UNCHANGED vars
  BY <1>0, <1>12, QuietCards DEF vars, cards
<1> QED
  BY <1>1, <1>2, <1>3, <1>4, <1>5, <1>6, <1>7, <1>8, <1>9, <1>10, <1>11, <1>12 DEF Next

LEMMA InitCards ==
  ASSUME Init
  PROVE  CardInv
<1>1. TypeOK
  BY InitType
<1>2. HoldersInPlay /\ NobodyConcededYet /\ TokensOnTable /\ StashIsPlain
  BY DEF Init, HoldersInPlay, NobodyConcededYet, TokensOnTable, StashIsPlain, Placed
<1> QED BY <1>1, <1>2 DEF CardInv

\* What lies under a card is one plain card, under no other and in no zone, after
\* any sequence of transformations, moves, concessions and departures: the
\* comment at server_card.h:186, for every game.
THEOREM StashesStayPlain == Spec => []StashIsPlain
<1>1. Init => CardInv
  BY InitCards
<1>2. CardInv /\ [Next]_vars => CardInv'
  BY CardStep
<1>3. CardInv => StashIsPlain
  BY DEF CardInv
<1> QED BY <1>1, <1>2, <1>3, PTL DEF Spec

-----------------------------------------------------------------------------
(* The ids by which clients name cards.                                    *)

\* The common case: ids are only handed out upwards, and every card but x that is
\* in a zone has stayed with its player under its id; x may have come under a
\* new one.
LEMMA OneArrives ==
  ASSUME IdInv, CardInv', NEW x,
         \A p \in Player : nextCardId[p] <= nextCardId'[p],
         \A c \in Card : Placed(c)' =>
            \/ Placed(c) /\ place'[c].player = place[c].player /\ id'[c] = id[c]
            \/ /\ c = x
               /\ nextCardId[place'[c].player] <= id'[c]
               /\ id'[c] < nextCardId'[place'[c].player]
  PROVE  IdInv'
<1>1. \A c \in Card : Placed(c) => place[c].player \in Player
  BY InPlayArePlayers DEF IdInv, CardInv, HoldersInPlay
<1>2. \A c \in Card : Placed(c)' => place'[c].player \in Player
  <2>1. InPlay' \subseteq Player
    BY DEF CardInv, TypeOK, InPlay
  <2> QED BY <2>1 DEF CardInv, HoldersInPlay
<1>3. /\ \A c \in Card : id[c] \in Nat /\ id'[c] \in Nat
      /\ \A p \in Player : nextCardId[p] \in Nat /\ nextCardId'[p] \in Nat
  BY DEF IdInv, CardInv, TypeOK
<1>4. \A c \in Card : Placed(c) => id[c] < nextCardId[place[c].player]
  BY DEF IdInv, IdsBelow
<1>5. \A c \in Card : Placed(c)' => id'[c] < nextCardId'[place'[c].player]
  <2> SUFFICES ASSUME NEW c \in Card, Placed(c)'
               PROVE  id'[c] < nextCardId'[place'[c].player]
    OBVIOUS
  <2>1. CASE Placed(c) /\ place'[c].player = place[c].player /\ id'[c] = id[c]
    BY <1>1, <1>3, <1>4, <2>1
  <2> QED BY <2>1
<1>6. \A c, d \in Card :
         (c # d /\ Placed(c)' /\ place'[c].player = place'[d].player) => id'[c] # id'[d]
  <2> SUFFICES ASSUME NEW c \in Card, NEW d \in Card, c # d, Placed(c)',
                      place'[c].player = place'[d].player
               PROVE  id'[c] # id'[d]
    OBVIOUS
  <2>0. Placed(d)'
    <3>1. place'[d].player \in Player
      BY <1>2
    <3> QED BY <3>1, CardsAssumption DEF Placed, Nowhere
  <2>1. CASE c # x /\ d # x
    BY <1>1, <2>0, <2>1 DEF IdInv, IdsAreUnique
  <2>2. ASSUME NEW e \in Card, NEW f \in Card, e = x, f # x, Placed(e)', Placed(f)',
               place'[e].player = place'[f].player
        PROVE  id'[e] # id'[f]
    <3>1. Placed(f) /\ place'[f].player = place[f].player /\ id'[f] = id[f]
      BY <2>2
    <3>2. CASE Placed(e) /\ place'[e].player = place[e].player /\ id'[e] = id[e]
      BY <2>2, <3>1, <3>2 DEF IdInv, IdsAreUnique
    <3>3. CASE nextCardId[place'[e].player] <= id'[e]
      <4>1. id[f] < nextCardId[place'[e].player] /\ place'[e].player \in Player
        BY <1>2, <1>4, <2>2, <3>1
      <4> QED BY <1>3, <3>1, <3>3, <4>1
    <3> QED BY <2>2, <3>2, <3>3
  <2> QED BY <2>0, <2>1, <2>2
<1> QED BY <1>5, <1>6 DEF IdInv, IdsBelow, IdsAreUnique

\* A deck is dealt under the ids 0, 1, ... of a player who has no card yet.
LEMMA SetupZonesIds ==
  ASSUME IdInv, CardInv', NEW S \in SUBSET Player,
         NEW holder \in [Card -> Player \cup {None}], SetupZones(S, holder),
         S \cap InPlay = {}
  PROVE  IdInv'
<1> DEFINE deckOf(c) == {d \in Card : holder[d] = holder[c]}
           pile(c) == IF Rank(c, deckOf(c)) < LibrarySize THEN "deck" ELSE "crypt"
<1>1. \A c \in Card : holder[c] \in S =>
         place'[c].player = holder[c] /\ id'[c] = Rank(c, deckOf(c))
  <2> SUFFICES ASSUME NEW c \in Card, holder[c] \in S
               PROVE  place'[c].player = holder[c] /\ id'[c] = Rank(c, deckOf(c))
    OBVIOUS
  <2>1. pile(c) \in Zone
    BY DEF Zone
  <2>2. place'[c] = At(holder[c], pile(c)) /\ id'[c] = Rank(c, deckOf(c))
    BY DEF SetupZones
  <2> HIDE DEF pile
  <2> QED BY <2>1, <2>2, PlaceType
<1>2. \A c \in Card : holder[c] \notin S => place'[c] = place[c] /\ id'[c] = id[c]
  BY DEF SetupZones
<1>3. \A c \in Card : Placed(c) => place[c].player \in Player \ S
  BY InPlayArePlayers DEF IdInv, CardInv, HoldersInPlay
<1>4. /\ \A p \in S : nextCardId'[p] = Cardinality({c \in Card : holder[c] = p})
      /\ \A p \in Player \ S : nextCardId'[p] = nextCardId[p]
  BY DEF SetupZones
<1>5. IdsBelow'
  <2> SUFFICES ASSUME NEW c \in Card, Placed(c)'
               PROVE  id'[c] < nextCardId'[place'[c].player]
    BY DEF IdsBelow
  <2>1. CASE holder[c] \in S
    <3>1. nextCardId'[place'[c].player] = Cardinality(deckOf(c))
      BY <1>1, <1>4, <2>1
    <3>2. deckOf(c) \in SUBSET Card /\ c \in deckOf(c)
      OBVIOUS
    <3>3. Rank(c, deckOf(c)) < Cardinality(deckOf(c))
      <4> HIDE DEF deckOf
      <4> QED BY <3>2, RankBelowSize
    <3> QED BY <1>1, <2>1, <3>1, <3>3
  <2>2. CASE holder[c] \notin S
    <3>1. place'[c] = place[c] /\ id'[c] = id[c]
      BY <1>2, <2>2
    <3>2. Placed(c)
      BY <3>1 DEF Placed
    <3> QED BY <1>3, <1>4, <3>1, <3>2 DEF IdInv, IdsBelow
  <2> QED BY <2>1, <2>2
<1>6. IdsAreUnique'
  <2> SUFFICES ASSUME NEW c \in Card, NEW d \in Card, c # d, Placed(c)',
                      place'[c].player = place'[d].player
               PROVE  id'[c] # id'[d]
    BY DEF IdsAreUnique
  <2>1. CASE holder[c] \in S /\ holder[d] \in S
    <3>1. holder[c] = holder[d]
      BY <1>1, <2>1
    <3>2. deckOf(c) = deckOf(d) /\ deckOf(c) \in SUBSET Card /\ c \in deckOf(c) /\ d \in deckOf(c)
      BY <3>1
    <3>3. Rank(c, deckOf(c)) # Rank(d, deckOf(c))
      <4> HIDE DEF deckOf
      <4> QED BY <3>2, RanksDiffer
    <3>4. id'[c] = Rank(c, deckOf(c)) /\ id'[d] = Rank(d, deckOf(d))
      BY <1>1, <2>1
    <3> HIDE DEF deckOf
    <3> QED BY <3>2, <3>3, <3>4
  <2>2. CASE holder[c] \notin S /\ holder[d] \notin S
    <3>1. place'[c] = place[c] /\ id'[c] = id[c] /\ place'[d] = place[d] /\ id'[d] = id[d]
      BY <1>2, <2>2
    <3>2. Placed(c)
      BY <3>1 DEF Placed
    <3> QED BY <3>1, <3>2 DEF IdInv, IdsAreUnique
  <2>3. CASE holder[c] \notin S /\ holder[d] \in S
    <3>1. place'[c] = place[c]
      BY <1>2, <2>3
    <3>2. Placed(c)
      BY <3>1 DEF Placed
    <3> QED BY <1>1, <1>3, <2>3, <3>1, <3>2
  <2>4. CASE holder[c] \in S /\ holder[d] \notin S
    <3>1. place'[d] = place[d] /\ place'[d].player = holder[c]
      BY <1>1, <1>2, <2>4
    <3>2. Placed(d)
      <4>1. place[d].player \in Player
        BY <2>4, <3>1
      <4> QED BY <4>1, CardsAssumption DEF Placed, Nowhere
    <3> QED BY <1>3, <2>4, <3>1, <3>2
  <2> QED BY <2>1, <2>2, <2>3, <2>4
<1> QED BY <1>5, <1>6 DEF IdInv

LEMMA MoveCardIds ==
  ASSUME IdInv, CardInv', NEW m \in Player, NEW c \in Card, NEW to \in Place,
         place[c] \in Place,
         place[c].player = m \/ to.player = m, Judge = {},
         NEW face \in BOOLEAN, NEW draws, NEW undoing,
         MoveCard(m, c, to, face, draws, undoing)
  PROVE  IdInv'
<1> DEFINE from == place[c]
           dies == from.zone # to.zone /\ kind[c] = "token"
           x == Arriving(c, dies)
           surfaces == dies /\ x # None
           renamed == x # None /\ Renamed(from, to, face)
           q == to.player
           next1 == IF surfaces THEN [nextCardId EXCEPT ![m] = @ + 1] ELSE nextCardId
           next2 == IF renamed THEN [next1 EXCEPT ![q] = @ + 1] ELSE next1
           newId == IF renamed THEN next1[q] ELSE IF surfaces THEN nextCardId[m] ELSE id[c]
<1>1. /\ \A d \in Card : place'[d] = IF d = x THEN to ELSE IF dies /\ d = c THEN Nowhere
                                     ELSE place[d]
      /\ \A d \in Card : id'[d] = IF d = x THEN newId ELSE IF dies /\ d = c THEN 0 ELSE id[d]
      /\ nextCardId' = next2
      /\ to.zone = "table" \/ from.player = q
  BY DEF MoveCard
<1>2. x = IF dies THEN stash[c] ELSE c
  BY DEF Arriving
<1>3. q \in Player /\ from # Nowhere /\ to # Nowhere
  BY NowhereIsNoPlace DEF Place
<1>4. ~renamed => from.player = q \/ x = None
  BY DEF Renamed
<1>5. dies => m = q
  BY <1>1 DEF IdInv, CardInv, TokensOnTable, OnTable
<1>6. nextCardId \in [Player -> Nat] /\ x \in Card \cup {None}
  BY <1>2 DEF IdInv, CardInv, TypeOK
<1> HIDE DEF x, renamed, dies
<1>7. \A p \in Player : nextCardId[p] <= nextCardId'[p]
  <2>1. next1 \in [Player -> Nat] /\ \A p \in Player : nextCardId[p] <= next1[p]
    BY <1>6
  <2> HIDE DEF next1
  <2>2. \A p \in Player : next1[p] <= next2[p]
    BY <1>3, <2>1
  <2>3. \A p \in Player : next2[p] \in Nat
    BY <1>3, <2>1
  <2> HIDE DEF next2
  <2> QED BY <1>1, <1>6, <2>1, <2>2, <2>3
<1>8. surfaces \/ renamed => nextCardId[q] <= newId /\ newId < next2[q]
  <2>1. CASE surfaces /\ renamed
    BY <1>3, <1>5, <1>6, <2>1
  <2>2. CASE surfaces /\ ~renamed
    BY <1>3, <1>5, <1>6, <2>2
  <2>3. CASE ~surfaces /\ renamed
    BY <1>3, <1>6, <2>3
  <2> QED BY <2>1, <2>2, <2>3
<1>9. ~surfaces /\ ~renamed /\ x # None => x = c /\ newId = id[c] /\ from.player = q
  BY <1>2, <1>4
<1> HIDE DEF newId, next2, surfaces, next1
<1>10. \A d \in Card : Placed(d)' =>
          \/ Placed(d) /\ place'[d].player = place[d].player /\ id'[d] = id[d]
          \/ /\ d = x
             /\ nextCardId[place'[d].player] <= id'[d]
             /\ id'[d] < nextCardId'[place'[d].player]
  <2> SUFFICES ASSUME NEW d \in Card, Placed(d)'
               PROVE  \/ Placed(d) /\ place'[d].player = place[d].player /\ id'[d] = id[d]
                      \/ /\ d = x
                         /\ nextCardId[place'[d].player] <= id'[d]
                         /\ id'[d] < nextCardId'[place'[d].player]
    OBVIOUS
  <2>1. CASE d # x
    <3>1. ~(dies /\ d = c)
      BY <1>1, <2>1 DEF Placed
    <3>2. place'[d] = place[d] /\ id'[d] = id[d]
      BY <1>1, <2>1, <3>1
    <3> QED BY <3>2 DEF Placed
  <2>2. CASE d = x
    <3>1. place'[d] = to /\ id'[d] = newId /\ x # None
      BY <1>1, <2>2, CardsAssumption
    <3>2. CASE surfaces \/ renamed
      BY <1>1, <1>8, <2>2, <3>1, <3>2
    <3>3. CASE ~surfaces /\ ~renamed
      BY <1>3, <1>9, <2>2, <3>1, <3>3 DEF Placed
    <3> QED BY <3>2, <3>3
  <2> QED BY <2>1, <2>2
<1> QED BY <1>7, <1>10, OneArrives

\* A token, alone or in place of the card c that it transforms.
LEMMA NewCardIds ==
  ASSUME IdInv, CardInv', NEW p \in Player, NEW n \in Card,
         nextCardId' = [nextCardId EXCEPT ![p] = @ + 1],
         place'[n] = At(p, "table"), id'[n] = nextCardId[p],
         \A d \in Card \ {n} : \/ place'[d] = Nowhere
                               \/ place'[d] = place[d] /\ id'[d] = id[d]
  PROVE  IdInv'
<1>1. nextCardId \in [Player -> Nat]
  BY DEF IdInv, CardInv, TypeOK
<1>2. \A q \in Player : nextCardId[q] <= nextCardId'[q]
  BY <1>1
<1>3. place'[n].player = p /\ nextCardId[p] <= id'[n] /\ id'[n] < nextCardId'[p]
  BY <1>1, PlaceType DEF Zone
<1>4. \A d \in Card : Placed(d)' =>
         \/ Placed(d) /\ place'[d].player = place[d].player /\ id'[d] = id[d]
         \/ /\ d = n
            /\ nextCardId[place'[d].player] <= id'[d]
            /\ id'[d] < nextCardId'[place'[d].player]
  BY <1>3 DEF Placed
<1> QED BY <1>2, <1>4, OneArrives

LEMMA IdStep ==
  ASSUME IdInv, [Next]_vars, Judge = {}
  PROVE  IdInv'
<1>0. CardInv /\ CardInv' /\ TypeOK
  BY CardStep DEF IdInv, CardInv
<1>1. ASSUME DoStartGame
      PROVE  IdInv'
  <2>1. seated \in SUBSET Player /\ SetupZones(seated, Deck) /\ seated \cap InPlay = {}
    BY <1>0, <1>1 DEF DoStartGame, TypeOK, InPlay
  <2>2. Deck \in [Card -> Player \cup {None}]
    BY CardsAssumption
  <2> QED BY <1>0, <2>1, <2>2, SetupZonesIds
<1>2. ASSUME NEW p \in Player, JoinGame(p)
      PROVE  IdInv'
  <2>1. UNCHANGED <<place, id>> /\ InPlay = {}
    BY <1>2 DEF JoinGame, cards, InPlay
  <2>2. \A c \in Card : ~Placed(c)'
    BY <1>0, <2>1 DEF CardInv, HoldersInPlay, Placed
  <2> QED BY <1>0, <2>2 DEF IdInv, IdsBelow, IdsAreUnique
<1>3. ASSUME NEW p \in Player, RemovePlayer(p) \/ CmdConcede(p)
      PROVE  IdInv'
  <2>1. PICK left : OutOfPlay(p, left)
    BY <1>3 DEF RemovePlayer, CmdConcede
  <2>2. \A c \in Card : place'[c] = Nowhere \/ (place'[c] = place[c] /\ id'[c] = id[c])
    BY <2>1 DEF OutOfPlay
  <2>3. nextCardId' = nextCardId
    BY <2>1 DEF OutOfPlay
  <2>4. \A q \in Player : nextCardId[q] <= nextCardId'[q]
    BY <1>0, <2>3 DEF TypeOK
  <2>5. \A c \in Card : Placed(c)' =>
           Placed(c) /\ place'[c].player = place[c].player /\ id'[c] = id[c]
    BY <2>2 DEF Placed
  <2> QED BY <1>0, <2>4, <2>5, OneArrives
<1>5. ASSUME NEW p \in Player, CmdUnconcede(p)
      PROVE  IdInv'
  <2> DEFINE holder(S) == [c \in Card |-> IF c \in S THEN p ELSE None]
  <2>1. \A S : holder(S) \in [Card -> Player \cup {None}]
    OBVIOUS
  <2>2. PICK S : SetupZones({p}, holder(S))
    BY <1>5 DEF CmdUnconcede
  <2>3. {p} \in SUBSET Player /\ {p} \cap InPlay = {}
    BY <1>5 DEF CmdUnconcede, InPlay
  <2> HIDE DEF holder
  <2> QED BY <1>0, <2>1, <2>2, <2>3, SetupZonesIds
<1>6. ASSUME NEW p \in Player, DrawCards(p) \/ DrawCryptCards(p)
      PROVE  IdInv'
  <2>1. PICK from \in Zone, to \in Zone : Draw(p, from, to)
    BY <1>6 DEF DrawCards, DrawCryptCards, Zone
  <2>2. PICK c \in On(p, from) :
           place' = [place EXCEPT ![c] = At(p, to)] /\ UNCHANGED <<id, nextCardId>>
    BY <2>1 DEF Draw
  <2>3. c \in Card /\ place[c] = At(p, from)
    BY <2>2 DEF On
  <2>4. At(p, to).player = p /\ At(p, from).player = p /\ At(p, from) # Nowhere
    BY PlaceType, NowhereIsNoPlace
  <2>5. \A d \in Card : place'[d] = IF d = c THEN At(p, to) ELSE place[d]
    BY <1>0, <2>2, <2>3 DEF TypeOK
  <2>6. \A d \in Card : Placed(d)' =>
           Placed(d) /\ place'[d].player = place[d].player /\ id'[d] = id[d]
    BY <2>2, <2>3, <2>4, <2>5 DEF Placed
  <2>7. \A q \in Player : nextCardId[q] <= nextCardId'[q]
    BY <1>0, <2>2 DEF TypeOK
  <2> QED BY <1>0, <2>6, <2>7, OneArrives
<1>7. ASSUME UNCHANGED <<place, id, nextCardId>>
      PROVE  IdInv'
  BY <1>0, <1>7 DEF IdInv, IdsBelow, IdsAreUnique, Placed
<1>8. ASSUME NEW p \in Player, CmdUndoDraw(p)
      PROVE  IdInv'
  <2> DEFINE list == lastDrawList[p]
             rest == [lastDrawList EXCEPT ![p] = SubSeq(list, 1, Len(list) - 1)]
  <2>1. \/ \E c \in On(p, "hand") : MoveCard(p, c, At(p, "deck"), FALSE, rest, TRUE)
        \/ UNCHANGED <<cards, nextCardId, arrows, grants, table>>
    BY <1>8 DEF CmdUndoDraw
  <2> HIDE DEF rest
  <2>2. At(p, "deck") \in Place /\ At(p, "hand") \in Place /\ At(p, "deck").player = p
    BY PlaceType DEF Zone
  <2>3. CASE \E c \in On(p, "hand") : MoveCard(p, c, At(p, "deck"), FALSE, rest, TRUE)
    <3>1. PICK c \in On(p, "hand") : MoveCard(p, c, At(p, "deck"), FALSE, rest, TRUE)
      BY <2>3
    <3>2. c \in Card /\ place[c] \in Place
      BY <2>2 DEF On
    <3>3. FALSE \in BOOLEAN
      OBVIOUS
    <3> QED BY <1>0, <2>2, <3>1, <3>2, <3>3, MoveCardIds
  <2>4. CASE UNCHANGED <<cards, nextCardId, arrows, grants, table>>
    BY <1>7, <2>4 DEF cards
  <2> QED BY <2>1, <2>3, <2>4
<1>9. ASSUME NEW p \in Player, CmdMoveCard(p)
      PROVE  IdInv'
  <2>1. PICK c \in Card, q \in InPlay, z \in MoveZone :
           /\ place[c].player \in Player
           /\ place[c].player = p \/ q = p
           /\ \E face \in IF z = "table" THEN Side ELSE {FALSE} :
                 MoveCard(p, c, At(q, z), face, lastDrawList, FALSE)
    BY <1>9 DEF CmdMoveCard
  <2>2. PICK face \in BOOLEAN : MoveCard(p, c, At(q, z), face, lastDrawList, FALSE)
    BY <2>1, CardsAssumption
  <2>3. At(q, z) \in Place /\ At(q, z).player = q
    BY <1>0, InPlayArePlayers, PlaceType, CardsAssumption
  <2>4. place[c] \in Place
    BY <1>0, <2>1, NowhereIsNoPlace DEF TypeOK
  <2> QED BY <1>0, <2>1, <2>2, <2>3, <2>4, MoveCardIds
<1>10. ASSUME NEW p \in Player,
              \/ CmdFlipCard(p) \/ CmdRevealCards(p) \/ CmdShuffle(p)
              \/ CmdCreateArrow(p) \/ CmdDeleteArrow(p) \/ CmdAttachCard(p)
       PROVE  IdInv'
  <2>1. UNCHANGED <<place, id, nextCardId>>
    BY <1>10 DEF CmdFlipCard, CmdRevealCards, CmdShuffle, CmdCreateArrow, CmdDeleteArrow,
                 CmdAttachCard, cards
  <2> QED BY <1>7, <2>1
<1>11. ASSUME NEW p \in Player, CmdCreateToken(p)
       PROVE  IdInv'
  <2> DEFINE n == NewCard
  <2>1. n \in Card /\ nextCardId' = [nextCardId EXCEPT ![p] = @ + 1]
    BY <1>11, NewCardIsFree DEF CmdCreateToken, NewToken
  <2>2. /\ place' = [place EXCEPT ![n] = At(p, "table")]
        /\ id' = [id EXCEPT ![n] = nextCardId[p]]
    BY <1>11 DEF CmdCreateToken
  <2> HIDE DEF n
  <2>3. /\ place'[n] = At(p, "table") /\ id'[n] = nextCardId[p]
        /\ \A d \in Card \ {n} : place'[d] = place[d] /\ id'[d] = id[d]
    BY <1>0, <2>1, <2>2 DEF TypeOK
  <2> QED BY <1>0, <2>1, <2>3, NewCardIds
<1>12. ASSUME NEW p \in Player, CmdTransform(p)
       PROVE  IdInv'
  <2> DEFINE n == NewCard
  <2>1. /\ n \in Card /\ nextCardId' = [nextCardId EXCEPT ![p] = @ + 1]
        /\ place[n] = Nowhere
    BY <1>12, NewCardIsFree DEF CmdTransform, NewToken
  <2>2. PICK z \in PublicZone : \E c \in On(p, z) :
           /\ place' = [place EXCEPT ![n] = At(p, "table"), ![c] = Nowhere]
           /\ id' = [d \in Card |-> IF d = n THEN nextCardId[p]
                                    ELSE IF d = c /\ Discards(c) THEN 0 ELSE id[d]]
    BY <1>12 DEF CmdTransform
  <2>3. PICK c \in On(p, z) :
           /\ place' = [place EXCEPT ![n] = At(p, "table"), ![c] = Nowhere]
           /\ id' = [d \in Card |-> IF d = n THEN nextCardId[p]
                                    ELSE IF d = c /\ Discards(c) THEN 0 ELSE id[d]]
    BY <2>2
  <2> HIDE DEF n
  <2>4. c \in Card /\ c # n
    <3>1. place[c] = At(p, z) /\ z \in Zone /\ c \in Card
      BY DEF On, PublicZone, Zone
    <3> QED BY <2>1, <3>1, PlaceType, NowhereIsNoPlace
  <2>5. /\ place'[n] = At(p, "table") /\ id'[n] = nextCardId[p]
        /\ \A d \in Card \ {n} : \/ place'[d] = Nowhere
                                 \/ place'[d] = place[d] /\ id'[d] = id[d]
    BY <1>0, <2>1, <2>3, <2>4 DEF TypeOK
  <2> QED BY <1>0, <2>1, <2>5, NewCardIds
<1>13. CASE UNCHANGED vars
  BY <1>7, <1>13 DEF vars, cards
<1> QED
  BY <1>1, <1>2, <1>3, <1>5, <1>6, <1>8, <1>9, <1>10, <1>11, <1>12, <1>13 DEF Next

\* Where nobody has the judge flag, no two cards of a player answer to the same
\* id: every command, which names a card by player, zone and id, means one card.
THEOREM IdsStayUnique ==
  ASSUME Judge = {}
  PROVE  Spec => []IdsAreUnique
<1>1. Init => IdInv
  <2> SUFFICES ASSUME Init PROVE IdInv
    OBVIOUS
  <2>1. CardInv
    BY InitCards
  <2>2. IdsBelow /\ IdsAreUnique
    BY DEF Init, IdsBelow, IdsAreUnique, Placed
  <2> QED BY <2>1, <2>2 DEF IdInv
<1>2. IdInv /\ [Next]_vars => IdInv'
  BY IdStep
<1>3. IdInv => IdsAreUnique
  BY DEF IdInv
<1> QED BY <1>1, <1>2, <1>3, PTL DEF Spec

-----------------------------------------------------------------------------
(* Attachments.                                                            *)

\* What is attached, or attached to, lies on a table; what does not, is neither.
LEMMA OffTable ==
  ASSUME CardInv, AttachmentsOnTable, NEW c \in Card, place[c].zone # "table"
  PROVE  parent[c] = None /\ \A d \in Card : parent[d] # c
BY CardsAssumption DEF CardInv, AttachmentsOnTable, OnTable

LEMMA NowhereIsNoTable == Nowhere.zone # "table"
BY CardsAssumption DEF Nowhere, Zone

\* Nothing that is attached, or attached to, leaves the table, and no attachment is new.
LEMMA FewerAttachments ==
  ASSUME CardInv, AttachmentsOnTable, TypeOK',
         \A c \in Card : parent'[c] \in {parent[c], None},
         \A c \in Card : parent'[c] # None =>
            place'[c].zone = "table" /\ place'[parent[c]].zone = "table"
  PROVE  AttachmentsOnTable'
<1> SUFFICES ASSUME NEW c \in Card, parent'[c] # None
             PROVE  /\ place'[c].zone = "table" /\ place'[parent'[c]].zone = "table"
                    /\ parent'[parent'[c]] = None
  BY DEF AttachmentsOnTable, OnTable
<1>1. parent'[c] = parent[c] /\ parent[c] \in Card /\ parent[parent[c]] = None
  BY DEF CardInv, TypeOK, AttachmentsOnTable
<1> QED BY <1>1

\* Attaching c to t, or, for t = None, detaching it.
LEMMA AttachFlat ==
  ASSUME CardInv, AttachmentsOnTable, TypeOK', NEW c \in Card, NEW t \in Card \cup {None},
         Attach(c, t), t # c, OnTable(c),
         \A d \in Card : place[d].zone = "table" => place'[d].zone = "table",
         t # None => place'[t].zone = "table" /\ parent[t] = None
  PROVE  AttachmentsOnTable'
<1>1. \A d \in Card : parent'[d] = IF d = c THEN t
                                   ELSE IF t # None /\ parent[d] = c THEN None ELSE parent[d]
  BY DEF Attach
<1>2. \A d \in Card : parent[d] # None =>
         /\ parent[d] \in Card /\ place[d].zone = "table" /\ place[parent[d]].zone = "table"
         /\ parent[parent[d]] = None
  BY DEF CardInv, TypeOK, AttachmentsOnTable, OnTable
<1> SUFFICES ASSUME NEW d \in Card, parent'[d] # None
             PROVE  /\ place'[d].zone = "table" /\ place'[parent'[d]].zone = "table"
                    /\ parent'[parent'[d]] = None
  BY DEF AttachmentsOnTable, OnTable
<1>3. CASE d = c
  <2>1. parent'[d] = t /\ t \in Card
    BY <1>1, <1>3
  <2>2. parent'[t] = None
    BY <1>1, <2>1, CardsAssumption
  <2> QED BY <1>3, <2>1, <2>2 DEF OnTable
<1>4. CASE d # c
  <2>1. parent'[d] = parent[d] /\ (t # None => parent[d] # c)
    BY <1>1, <1>4
  <2>2. /\ parent[d] \in Card /\ place[d].zone = "table" /\ place[parent[d]].zone = "table"
        /\ parent[parent[d]] = None
    BY <1>2, <2>1
  <2>3. parent'[parent[d]] = None
    BY <1>1, <2>1, <2>2
  <2> QED BY <2>1, <2>2, <2>3
<1> QED BY <1>3, <1>4

LEMMA MoveCardAttachments ==
  ASSUME CardInv, AttachmentsOnTable, TypeOK', NEW m \in Player, NEW c \in Card,
         NEW to \in Place, place[c] \in Place, NEW face, NEW draws, NEW undoing,
         MoveCard(m, c, to, face, draws, undoing)
  PROVE  AttachmentsOnTable'
<1> DEFINE crosses == place[c].zone # to.zone
           dies == crosses /\ kind[c] = "token"
           x == Arriving(c, dies)
<1>1. /\ \A d \in Card : place'[d] = IF d = x THEN to ELSE IF dies /\ d = c THEN Nowhere
                                     ELSE place[d]
      /\ \A d \in Card : parent'[d] = IF crosses /\ parent[d] = c THEN None ELSE parent[d]
      /\ parent[c] = None
  BY DEF MoveCard
<1>2. x = IF dies THEN stash[c] ELSE c
  BY DEF Arriving
<1>3. dies /\ x # None => x \in Card /\ place[x] = Nowhere
  BY <1>2 DEF CardInv, TypeOK, StashIsPlain, Placed
<1>4. \A d \in Card : parent'[d] \in {parent[d], None}
  BY <1>1
<1>5. \A d \in Card : d # c /\ place[d].zone = "table" => place'[d] = place[d]
  <2> SUFFICES ASSUME NEW d \in Card, d # c, place[d].zone = "table"
               PROVE  place'[d] = place[d]
    OBVIOUS
  <2>1. d # x
    <3>1. CASE dies
      BY <1>3, <3>1, NowhereIsNoTable, CardsAssumption
    <3>2. CASE ~dies
      BY <1>2, <3>2
    <3> QED BY <3>1, <3>2
  <2> HIDE DEF x, dies
  <2> QED BY <1>1, <2>1
<1>6. ~crosses => place'[c] = to
  BY <1>1, <1>2
<1>7. \A d \in Card : parent'[d] # None =>
         place'[d].zone = "table" /\ place'[parent[d]].zone = "table"
  <2> SUFFICES ASSUME NEW d \in Card, parent'[d] # None
               PROVE  place'[d].zone = "table" /\ place'[parent[d]].zone = "table"
    OBVIOUS
  <2>1. parent[d] # None /\ d # c /\ (crosses => parent[d] # c)
    BY <1>1
  <2>2. parent[d] \in Card /\ place[d].zone = "table" /\ place[parent[d]].zone = "table"
    BY <2>1 DEF CardInv, TypeOK, AttachmentsOnTable, OnTable
  <2>3. place'[d].zone = "table"
    BY <1>5, <2>1, <2>2
  <2>4. CASE parent[d] = c
    BY <1>6, <2>1, <2>2, <2>3, <2>4
  <2>5. CASE parent[d] # c
    BY <1>5, <2>2, <2>3, <2>5
  <2> QED BY <2>3, <2>4, <2>5
<1> QED BY <1>4, <1>7, FewerAttachments

LEMMA TransformAttachments ==
  ASSUME CardInv, AttachmentsOnTable, TypeOK', NEW p \in Player, CmdTransform(p)
  PROVE  AttachmentsOnTable'
<1> DEFINE n == NewCard
<1>1. n \in Card /\ place[n] = Nowhere
  BY NewCardIsFree DEF CmdTransform, NewToken
<1>2. PICK z \in PublicZone : \E c \in On(p, z) :
        /\ place' = [place EXCEPT ![n] = At(p, "table"), ![c] = Nowhere]
        /\ parent' = [d \in Card |-> IF d = n THEN parent[c] ELSE IF d = c THEN None
                                     ELSE IF parent[d] = c THEN n ELSE parent[d]]
  BY DEF CmdTransform
<1>3. PICK c \in On(p, z) :
        /\ place' = [place EXCEPT ![n] = At(p, "table"), ![c] = Nowhere]
        /\ parent' = [d \in Card |-> IF d = n THEN parent[c] ELSE IF d = c THEN None
                                     ELSE IF parent[d] = c THEN n ELSE parent[d]]
  BY <1>2
<1> HIDE DEF n
<1>4. c \in Card /\ c # n /\ At(p, "table").zone = "table"
  <2>1. c \in Card /\ place[c] = At(p, z) /\ z \in Zone
    BY DEF On, PublicZone, Zone
  <2> QED BY <1>1, <2>1, PlaceType, NowhereIsNoPlace DEF Zone
<1>5. \A d \in Card : place'[d] = IF d = n THEN At(p, "table") ELSE IF d = c THEN Nowhere
                                  ELSE place[d]
  BY <1>1, <1>3, <1>4 DEF CardInv, TypeOK
<1>6. \A d \in Card : parent'[d] = IF d = n THEN parent[c] ELSE IF d = c THEN None
                                   ELSE IF parent[d] = c THEN n ELSE parent[d]
  BY <1>3
<1>7. parent[n] = None /\ \A d \in Card : parent[d] # n
  BY <1>1, OffTable, NowhereIsNoTable
<1>8. \A d \in Card : parent[d] # None =>
         /\ parent[d] \in Card /\ place[d].zone = "table" /\ place[parent[d]].zone = "table"
         /\ parent[parent[d]] = None
  BY DEF CardInv, TypeOK, AttachmentsOnTable, OnTable
<1> SUFFICES ASSUME NEW d \in Card, parent'[d] # None
             PROVE  /\ place'[d].zone = "table" /\ place'[parent'[d]].zone = "table"
                    /\ parent'[parent'[d]] = None
  BY DEF AttachmentsOnTable, OnTable
<1>9. CASE d = n
  <2>1. parent'[d] = parent[c] /\ parent[c] # None
    BY <1>1, <1>6, <1>9
  <2>2. parent[c] \in Card /\ parent[c] # c /\ parent[c] # n
        /\ place[parent[c]].zone = "table" /\ parent[parent[c]] = None
    BY <1>4, <1>7, <1>8, <2>1
  <2>3. place'[parent[c]].zone = "table" /\ parent'[parent[c]] = None
    BY <1>4, <1>5, <1>6, <2>2, CardsAssumption
  <2> QED BY <1>4, <1>5, <1>9, <2>1, <2>3
<1>10. CASE d # n /\ parent[d] = c
  <2>1. d # c /\ parent'[d] = n /\ parent[c] = None /\ place[d].zone = "table"
    BY <1>4, <1>6, <1>8, <1>10, CardsAssumption
  <2>2. place'[n].zone = "table" /\ parent'[n] = None
    BY <1>1, <1>4, <1>5, <1>6, <2>1
  <2> QED BY <1>5, <1>10, <2>1, <2>2
<1>11. CASE d # n /\ parent[d] # c
  <2>1. d # c /\ parent'[d] = parent[d] /\ parent[d] # None
    BY <1>6, <1>11
  <2>2. /\ parent[d] \in Card /\ parent[d] # c /\ parent[d] # n /\ place[d].zone = "table"
        /\ place[parent[d]].zone = "table" /\ parent[parent[d]] = None
    BY <1>7, <1>8, <1>11, <2>1
  <2>3. place'[parent[d]].zone = "table" /\ parent'[parent[d]] = None
    BY <1>4, <1>5, <1>6, <2>2, CardsAssumption
  <2> QED BY <1>5, <1>11, <2>1, <2>2, <2>3
<1> QED BY <1>9, <1>10, <1>11

LEMMA AttachStep ==
  ASSUME CardInv, AttachmentsOnTable, [Next]_vars
  PROVE  AttachmentsOnTable'
<1>0. CardInv' /\ TypeOK'
  BY CardStep DEF CardInv
<1>1. \A c \in Card : parent[c] # None =>
         parent[c] \in Card /\ place[c].zone = "table" /\ place[parent[c]].zone = "table"
  BY DEF CardInv, TypeOK, AttachmentsOnTable, OnTable
<1>2. ASSUME parent' = parent, \A c \in Card : place[c].zone = "table" => place'[c] = place[c]
      PROVE  AttachmentsOnTable'
  BY <1>0, <1>1, <1>2, FewerAttachments
<1>3. ASSUME UNCHANGED <<place, parent>>
      PROVE  AttachmentsOnTable'
  BY <1>2, <1>3
<1>4. \A c \in Free : place[c].zone # "table"
  BY NowhereIsNoTable DEF Free
<1>5. ASSUME DoStartGame
      PROVE  AttachmentsOnTable'
  <2>1. parent' = parent /\ \A c \in Card : Deck[c] \notin seated => place'[c] = place[c]
    BY <1>5 DEF DoStartGame, SetupZones
  <2>2. \A c \in Card : place[c].zone # "table"
    BY <1>5, NowhereIsNoTable DEF DoStartGame, InPlay, CardInv, HoldersInPlay, Placed
  <2> QED BY <1>2, <2>1, <2>2
<1>6. ASSUME NEW p \in Player, RemovePlayer(p) \/ CmdConcede(p)
      PROVE  AttachmentsOnTable'
  <2>1. PICK left : OutOfPlay(p, left)
    BY <1>6 DEF RemovePlayer, CmdConcede
  <2> DEFINE dead == Cleared(IF Cardinality(left) <= 1 THEN Player ELSE {p})
  <2>2. /\ \A c \in Card : c \notin dead => place'[c] = place[c]
        /\ \A c \in Card : parent'[c] = IF c \in dead \/ parent[c] \in dead THEN None
                                        ELSE parent[c]
    BY <2>1 DEF OutOfPlay
  <2> HIDE DEF dead
  <2>3. \A c \in Card : parent'[c] # None =>
           place'[c].zone = "table" /\ place'[parent[c]].zone = "table"
    BY <1>1, <2>2
  <2>4. \A c \in Card : parent'[c] \in {parent[c], None}
    BY <2>2
  <2> QED BY <1>0, <2>3, <2>4, FewerAttachments
<1>7. ASSUME NEW p \in Player, CmdUnconcede(p)
      PROVE  AttachmentsOnTable'
  <2> DEFINE holder(S) == [c \in Card |-> IF c \in S THEN p ELSE None]
             fresh == Lowest(Free, Cardinality({c \in Card : Deck[c] = p}))
  <2>1. fresh \subseteq Free /\ SetupZones({p}, holder(fresh))
    BY <1>7 DEF CmdUnconcede, Lowest
  <2> HIDE DEF fresh
  <2>2. parent' = parent /\ \A c \in Card : c \notin fresh => place'[c] = place[c]
    BY <2>1, CardsAssumption DEF SetupZones
  <2> QED BY <1>2, <1>4, <2>1, <2>2
<1>8. ASSUME NEW p \in Player, DrawCards(p) \/ DrawCryptCards(p)
      PROVE  AttachmentsOnTable'
  <2>1. PICK from \in Zone \ {"table"}, to \in Zone : Draw(p, from, to)
    BY <1>8 DEF DrawCards, DrawCryptCards, Zone
  <2>2. PICK c \in On(p, from) : place' = [place EXCEPT ![c] = At(p, to)] /\ parent' = parent
    BY <2>1 DEF Draw
  <2>3. place[c].zone # "table"
    BY <2>2, PlaceType DEF On
  <2> QED BY <1>2, <2>2, <2>3 DEF CardInv, TypeOK
<1>9. ASSUME NEW p \in Player, CmdUndoDraw(p)
      PROVE  AttachmentsOnTable'
  <2> DEFINE list == lastDrawList[p]
             rest == [lastDrawList EXCEPT ![p] = SubSeq(list, 1, Len(list) - 1)]
  <2>1. \/ \E c \in On(p, "hand") : MoveCard(p, c, At(p, "deck"), FALSE, rest, TRUE)
        \/ UNCHANGED <<cards, nextCardId, arrows, grants, table>>
    BY <1>9 DEF CmdUndoDraw
  <2> HIDE DEF rest
  <2>2. At(p, "deck") \in Place /\ At(p, "hand") \in Place
    BY PlaceType DEF Zone
  <2>3. CASE \E c \in On(p, "hand") : MoveCard(p, c, At(p, "deck"), FALSE, rest, TRUE)
    <3>1. PICK c \in On(p, "hand") : MoveCard(p, c, At(p, "deck"), FALSE, rest, TRUE)
      BY <2>3
    <3>2. c \in Card /\ place[c] \in Place
      BY <2>2 DEF On
    <3> QED BY <1>0, <2>2, <3>1, <3>2, MoveCardAttachments
  <2>4. CASE UNCHANGED <<cards, nextCardId, arrows, grants, table>>
    BY <1>3, <2>4 DEF cards
  <2> QED BY <2>1, <2>3, <2>4
<1>10. ASSUME NEW p \in Player, CmdMoveCard(p)
       PROVE  AttachmentsOnTable'
  <2>1. PICK c \in Card, q \in InPlay, z \in MoveZone :
           /\ place[c].player \in Player
           /\ \E face \in IF z = "table" THEN Side ELSE {FALSE} :
                 MoveCard(p, c, At(q, z), face, lastDrawList, FALSE)
    BY <1>10 DEF CmdMoveCard
  <2>2. PICK face \in BOOLEAN : MoveCard(p, c, At(q, z), face, lastDrawList, FALSE)
    BY <2>1, CardsAssumption
  <2>3. At(q, z) \in Place
    BY InPlayArePlayers, PlaceType, CardsAssumption DEF CardInv
  <2>4. place[c] \in Place
    BY <2>1, NowhereIsNoPlace DEF CardInv, TypeOK
  <2> QED BY <1>0, <2>2, <2>3, <2>4, MoveCardAttachments
<1>11. ASSUME NEW p \in Player, CmdAttachCard(p)
       PROVE  AttachmentsOnTable'
  <2>1. PICK c \in On(p, "table"), t \in Card \cup {None} :
           Attach(c, t) /\ t # c /\ (t # None => OnTable(t) /\ parent[t] = None)
    BY <1>11, CardsAssumption DEF CmdAttachCard, On
  <2>2. c \in Card /\ OnTable(c) /\ place' = place
    BY <1>11, <2>1, PlaceType DEF CmdAttachCard, On, OnTable, Zone
  <2> QED BY <1>0, <2>1, <2>2, AttachFlat DEF OnTable
<1>12. ASSUME NEW p \in Player, CmdCreateToken(p)
       PROVE  AttachmentsOnTable'
  <2> DEFINE n == NewCard
  <2>1. n \in Card /\ place[n] = Nowhere
    BY <1>12, NewCardIsFree DEF CmdCreateToken, NewToken
  <2>2. /\ place' = [place EXCEPT ![n] = At(p, "table")]
        /\ parent' = parent \/ \E c \in On(p, "table") : Attach(c, n)
    BY <1>12 DEF CmdCreateToken
  <2> HIDE DEF n
  <2>3. /\ place'[n].zone = "table" /\ place[n].zone # "table" /\ parent[n] = None
        /\ \A d \in Card : place[d].zone = "table" => place'[d] = place[d]
    <3>1. place[n].zone # "table"
      BY <2>1, NowhereIsNoTable
    <3>2. place'[n] = At(p, "table") /\ \A d \in Card \ {n} : place'[d] = place[d]
      BY <2>1, <2>2 DEF CardInv, TypeOK
    <3> QED BY <2>1, <3>1, <3>2, OffTable, PlaceType DEF Zone
  <2>4. CASE parent' = parent
    BY <1>2, <2>3, <2>4
  <2>5. CASE \E c \in On(p, "table") : Attach(c, n)
    <3>1. PICK c \in On(p, "table") : Attach(c, n)
      BY <2>5
    <3>2. c \in Card /\ OnTable(c) /\ c # n
      BY <2>3, PlaceType DEF On, OnTable, Zone
    <3> QED BY <1>0, <2>1, <2>3, <3>1, <3>2, AttachFlat
  <2> QED BY <2>2, <2>4, <2>5
<1>13. ASSUME NEW p \in Player, CmdTransform(p)
       PROVE  AttachmentsOnTable'
  BY <1>0, <1>13, TransformAttachments
<1>14. ASSUME NEW p \in Player,
              \/ JoinGame(p) \/ CmdFlipCard(p) \/ CmdRevealCards(p) \/ CmdShuffle(p)
              \/ CmdCreateArrow(p) \/ CmdDeleteArrow(p)
       PROVE  AttachmentsOnTable'
  <2>1. UNCHANGED <<place, parent>>
    BY <1>14 DEF JoinGame, CmdFlipCard, CmdRevealCards, CmdShuffle, CmdCreateArrow,
                 CmdDeleteArrow, cards
  <2> QED BY <1>3, <2>1
<1>15. CASE UNCHANGED vars
  BY <1>3, <1>15 DEF vars, cards
<1> QED
  BY <1>5, <1>6, <1>7, <1>8, <1>9, <1>10, <1>11, <1>12, <1>13, <1>14, <1>15 DEF Next

\* Attachments join two cards on tables and are one level deep, whatever was
\* attached, moved, transformed, handed over or taken away with a player: the
\* comment at server_player.cpp:1169, for every game.
THEOREM AttachmentsStayFlat == Spec => []AttachmentsOnTable
<1>1. Init => CardInv /\ AttachmentsOnTable
  <2> SUFFICES ASSUME Init PROVE CardInv /\ AttachmentsOnTable
    OBVIOUS
  <2>1. CardInv
    BY InitCards
  <2>2. AttachmentsOnTable
    BY DEF Init, AttachmentsOnTable
  <2> QED BY <2>1, <2>2
<1>2. CardInv /\ AttachmentsOnTable /\ [Next]_vars => CardInv' /\ AttachmentsOnTable'
  BY CardStep, AttachStep
<1> QED BY <1>1, <1>2, PTL DEF Spec

-----------------------------------------------------------------------------
(* Arrows.                                                                 *)

LEMMA NowhereIsNotPublic == Nowhere.zone \notin PublicZone /\ "table" \in PublicZone
BY CardsAssumption DEF Nowhere, Zone, PublicZone

\* What the property says of each arrow.
LEMMA ArrowEnds ==
  ASSUME CardInv, ArrowsJoinPublicCards, NEW o \in Player, NEW a \in arrows[o]
  PROVE  /\ a.from \in Card /\ a.to \in Card \cup Player
         /\ place[a.from].zone \in PublicZone
         /\ a.to \in Card => place[a.to].zone \in PublicZone
         /\ a.to \notin Card => a.to \in seated
<1>1. a \in Arrow
  BY DEF CardInv, TypeOK
<1> QED BY <1>1 DEF Arrow, ArrowsJoinPublicCards, IsPublic

\* No arrow is new, and the cards that arrows still join stay where they are.
LEMMA FewerArrows ==
  ASSUME CardInv, ArrowsJoinPublicCards, seated \subseteq seated',
         \A o \in Player : arrows'[o] \subseteq arrows[o],
         \A o \in Player : \A a \in arrows'[o] :
            /\ place'[a.from] = place[a.from]
            /\ a.to \in Card => place'[a.to] = place[a.to]
  PROVE  ArrowsJoinPublicCards'
<1> SUFFICES ASSUME NEW o \in Player, NEW a \in arrows'[o]
             PROVE  /\ place'[a.from].zone \in PublicZone
                    /\ a.to \in Card => place'[a.to].zone \in PublicZone
                    /\ a.to \notin Card => a.to \in seated'
  BY DEF ArrowsJoinPublicCards, IsPublic
<1>1. a \in arrows[o]
  OBVIOUS
<1> QED BY <1>1, ArrowEnds

\* The same when every card in a public zone stays where it is.
LEMMA PublicCardsStay ==
  ASSUME CardInv, ArrowsJoinPublicCards, seated \subseteq seated',
         \A o \in Player : arrows'[o] \subseteq arrows[o],
         \A c \in Card : place[c].zone \in PublicZone => place'[c] = place[c]
  PROVE  ArrowsJoinPublicCards'
<1>1. \A o \in Player : \A a \in arrows'[o] :
         /\ place'[a.from] = place[a.from]
         /\ a.to \in Card => place'[a.to] = place[a.to]
  <2> SUFFICES ASSUME NEW o \in Player, NEW a \in arrows'[o]
               PROVE  /\ place'[a.from] = place[a.from]
                      /\ a.to \in Card => place'[a.to] = place[a.to]
    OBVIOUS
  <2>1. a \in arrows[o]
    OBVIOUS
  <2> QED BY <2>1, ArrowEnds
<1> QED BY <1>1, FewerArrows

LEMMA ArrowsWithoutAre ==
  ASSUME NEW c \in Card, NEW o \in Player
  PROVE  /\ ArrowsWithout(c)[o] \subseteq arrows[o]
         /\ \A a \in ArrowsWithout(c)[o] : a.from # c /\ a.to # c
BY DEF ArrowsWithout

LEMMA OutOfPlayArrows ==
  ASSUME CardInv, ArrowsJoinPublicCards, NEW p \in Player, NEW left, OutOfPlay(p, left),
         seated \ {p} \subseteq seated'
  PROVE  ArrowsJoinPublicCards'
<1> DEFINE stops == Cardinality(left) <= 1
           S == IF stops THEN Player ELSE {p}
           dead == Cleared(S)
<1>1. \A c \in Card : c \notin dead => place'[c] = place[c]
  BY DEF OutOfPlay
<1>2. \A o \in Player : \A a \in arrows'[o] :
         o \notin S /\ a \in arrows[o] /\ a \notin Related(o, p)
  <2>1. PICK lost \in Misread(p) :
           arrows' = [o \in Player |-> IF o \in S THEN {}
                         ELSE {a \in arrows[o] \ Related(o, p) : <<o, a>> \notin lost}]
    BY DEF OutOfPlay
  <2> HIDE DEF S
  <2> QED BY <2>1
<1> SUFFICES ASSUME NEW o \in Player, NEW a \in arrows'[o]
             PROVE  /\ place'[a.from].zone \in PublicZone
                    /\ a.to \in Card => place'[a.to].zone \in PublicZone
                    /\ a.to \notin Card => a.to \in seated'
  BY DEF ArrowsJoinPublicCards, IsPublic
<1>3. ~stops /\ S = {p} /\ a \in arrows[o]
  BY <1>2
<1>4. a.to # p /\ (a.to \in Card => place[a.to].player # p) /\ place[a.from].player # p
  BY <1>2, <1>3 DEF Related, PointsAt, StartsAt
<1>5. \A c \in Card : place[c].zone \in PublicZone /\ place[c].player # p => c \notin dead
  <2> SUFFICES ASSUME NEW c \in Card, place[c].zone \in PublicZone, place[c].player # p,
                      c \in dead
               PROVE  FALSE
    OBVIOUS
  <2>1. PICK d \in Card : stash[d] = c
    BY <1>3 DEF Cleared
  <2>2. place[c] = Nowhere
    BY <2>1, CardsAssumption DEF CardInv, StashIsPlain, Placed
  <2> QED BY <2>2, NowhereIsNotPublic
<1> HIDE DEF dead, S, stops
<1>6. /\ a.from \in Card /\ place[a.from].zone \in PublicZone
      /\ a.to \in Card => place[a.to].zone \in PublicZone
      /\ a.to \notin Card => a.to \in seated
  BY <1>3, ArrowEnds
<1>7. place'[a.from] = place[a.from] /\ (a.to \in Card => place'[a.to] = place[a.to])
  BY <1>1, <1>4, <1>5, <1>6
<1> QED BY <1>4, <1>6, <1>7

LEMMA MoveCardArrows ==
  ASSUME CardInv, ArrowsJoinPublicCards, NEW m \in Player, NEW c \in Card,
         NEW to \in Place, place[c] \in Place, NEW face, NEW draws, NEW undoing,
         MoveCard(m, c, to, face, draws, undoing)
  PROVE  ArrowsJoinPublicCards'
<1> DEFINE dies == place[c].zone # to.zone /\ kind[c] = "token"
           x == Arriving(c, dies)
<1>1. /\ \A d \in Card : place'[d] = IF d = x THEN to ELSE IF dies /\ d = c THEN Nowhere
                                     ELSE place[d]
      /\ arrows' = IF place[c] = to THEN arrows ELSE ArrowsWithout(c)
      /\ seated' = seated
  BY DEF MoveCard, table
<1>2. x = IF dies THEN stash[c] ELSE c
  BY DEF Arriving
<1>3. \A d \in Card : d # c /\ place[d].zone \in PublicZone => place'[d] = place[d]
  <2> SUFFICES ASSUME NEW d \in Card, d # c, place[d].zone \in PublicZone
               PROVE  place'[d] = place[d]
    OBVIOUS
  <2>1. d # x
    <3>1. CASE dies
      <4> SUFFICES ASSUME d = x PROVE FALSE
        OBVIOUS
      <4>1. place[d] = Nowhere
        BY <1>2, <3>1, CardsAssumption DEF CardInv, StashIsPlain, Placed
      <4> QED BY <4>1, NowhereIsNotPublic
    <3>2. CASE ~dies
      BY <1>2, <3>2
    <3> QED BY <3>1, <3>2
  <2> HIDE DEF x, dies
  <2> QED BY <1>1, <2>1
<1>4. CASE place[c] = to
  <2>1. place'[c] = place[c]
    BY <1>1, <1>2, <1>4
  <2> QED BY <1>1, <1>3, <1>4, <2>1, PublicCardsStay
<1>5. CASE place[c] # to
  <2>1. arrows' = ArrowsWithout(c)
    BY <1>1, <1>5
  <2>2. \A o \in Player : \A a \in arrows'[o] :
           /\ place'[a.from] = place[a.from]
           /\ a.to \in Card => place'[a.to] = place[a.to]
    <3> SUFFICES ASSUME NEW o \in Player, NEW a \in arrows'[o]
                 PROVE  /\ place'[a.from] = place[a.from]
                        /\ a.to \in Card => place'[a.to] = place[a.to]
      OBVIOUS
    <3>1. a \in arrows[o] /\ a.from # c /\ a.to # c
      BY <2>1, ArrowsWithoutAre
    <3>2. /\ a.from \in Card /\ place[a.from].zone \in PublicZone
          /\ a.to \in Card => place[a.to].zone \in PublicZone
      BY <3>1, ArrowEnds
    <3> QED BY <1>3, <3>1, <3>2
  <2>3. \A o \in Player : arrows'[o] \subseteq arrows[o]
    BY <2>1, ArrowsWithoutAre
  <2> QED BY <1>1, <2>2, <2>3, FewerArrows
<1> QED BY <1>4, <1>5

LEMMA TransformArrows ==
  ASSUME CardInv, ArrowsJoinPublicCards, NEW p \in Player, CmdTransform(p)
  PROVE  ArrowsJoinPublicCards'
<1> DEFINE n == NewCard
<1>1. n \in Card /\ place[n] = Nowhere /\ seated' = seated
  BY NewCardIsFree DEF CmdTransform, NewToken, table
<1>2. PICK z \in PublicZone : \E c \in On(p, z) :
        /\ place' = [place EXCEPT ![n] = At(p, "table"), ![c] = Nowhere]
        /\ arrows' = [o \in Player |->
              {[from |-> IF a.from = c THEN n ELSE a.from,
                to |-> IF a.to = c THEN n ELSE a.to] : a \in arrows[o]}]
  BY DEF CmdTransform
<1>3. PICK c \in On(p, z) :
        /\ place' = [place EXCEPT ![n] = At(p, "table"), ![c] = Nowhere]
        /\ arrows' = [o \in Player |->
              {[from |-> IF a.from = c THEN n ELSE a.from,
                to |-> IF a.to = c THEN n ELSE a.to] : a \in arrows[o]}]
  BY <1>2
<1> HIDE DEF n
<1>4. c \in Card /\ c # n /\ At(p, "table").zone = "table"
  <2>1. c \in Card /\ place[c] = At(p, z) /\ z \in Zone
    BY DEF On, PublicZone, Zone
  <2> QED BY <1>1, <2>1, PlaceType, NowhereIsNoPlace DEF Zone
<1>5. \A d \in Card : place'[d] = IF d = n THEN At(p, "table") ELSE IF d = c THEN Nowhere
                                  ELSE place[d]
  BY <1>1, <1>3, <1>4 DEF CardInv, TypeOK
<1> SUFFICES ASSUME NEW o \in Player, NEW b \in arrows'[o]
             PROVE  /\ place'[b.from].zone \in PublicZone
                    /\ b.to \in Card => place'[b.to].zone \in PublicZone
                    /\ b.to \notin Card => b.to \in seated'
  BY DEF ArrowsJoinPublicCards, IsPublic
<1>6. PICK a \in arrows[o] : b = [from |-> IF a.from = c THEN n ELSE a.from,
                                  to |-> IF a.to = c THEN n ELSE a.to]
  BY <1>3
<1>7. /\ b.from = IF a.from = c THEN n ELSE a.from
      /\ b.to = IF a.to = c THEN n ELSE a.to
  BY <1>6
<1>8. /\ a.from \in Card /\ place[a.from].zone \in PublicZone
      /\ a.to \in Card => place[a.to].zone \in PublicZone
      /\ a.to \notin Card => a.to \in seated
  BY ArrowEnds
<1>9. \A d \in Card : d # c /\ (d = n \/ place[d].zone \in PublicZone) =>
         place'[d].zone \in PublicZone
  BY <1>4, <1>5, NowhereIsNotPublic
<1>10. place'[b.from].zone \in PublicZone
  BY <1>1, <1>4, <1>7, <1>8, <1>9
<1>11. b.to \in Card => place'[b.to].zone \in PublicZone
  BY <1>1, <1>4, <1>7, <1>8, <1>9
<1>12. b.to \notin Card => b.to \in seated'
  BY <1>1, <1>4, <1>7, <1>8
<1> QED BY <1>10, <1>11, <1>12

LEMMA ArrowStep ==
  ASSUME CardInv, ArrowsJoinPublicCards, [Next]_vars
  PROVE  ArrowsJoinPublicCards'
<1>1. ASSUME UNCHANGED <<arrows, seated>>,
             \A c \in Card : place[c].zone \in PublicZone => place'[c] = place[c]
      PROVE  ArrowsJoinPublicCards'
  BY <1>1, PublicCardsStay
<1>2. \A c \in Free : place[c].zone \notin PublicZone
  BY NowhereIsNotPublic DEF Free
<1>3. ASSUME NEW c \in Card, NEW t, Attach(c, t), seated' = seated,
             \A d \in Card : place[d].zone \in PublicZone => place'[d] = place[d]
      PROVE  ArrowsJoinPublicCards'
  <2>1. \A o \in Player : arrows'[o] \subseteq arrows[o]
    BY <1>3, ArrowsWithoutAre DEF Attach
  <2> QED BY <1>3, <2>1, PublicCardsStay
<1>4. ASSUME DoStartGame
      PROVE  ArrowsJoinPublicCards'
  <2>1. UNCHANGED <<arrows, seated>>
    BY <1>4 DEF DoStartGame, SetupZones
  <2>2. \A c \in Card : place[c].zone \notin PublicZone
    BY <1>4, NowhereIsNotPublic DEF DoStartGame, InPlay, CardInv, HoldersInPlay, Placed
  <2> QED BY <1>1, <2>1, <2>2
<1>5. ASSUME NEW p \in Player, JoinGame(p)
      PROVE  ArrowsJoinPublicCards'
  <2>1. UNCHANGED <<arrows, place>> /\ seated \subseteq seated'
    BY <1>5 DEF JoinGame, cards
  <2> QED BY <2>1, PublicCardsStay
<1>6. ASSUME NEW p \in Player, RemovePlayer(p) \/ CmdConcede(p)
      PROVE  ArrowsJoinPublicCards'
  <2>1. PICK left : OutOfPlay(p, left)
    BY <1>6 DEF RemovePlayer, CmdConcede
  <2>2. seated \ {p} \subseteq seated'
    BY <1>6 DEF RemovePlayer, CmdConcede
  <2> QED BY <2>1, <2>2, OutOfPlayArrows
<1>7. ASSUME NEW p \in Player, CmdUnconcede(p)
      PROVE  ArrowsJoinPublicCards'
  <2> DEFINE holder(S) == [c \in Card |-> IF c \in S THEN p ELSE None]
             fresh == Lowest(Free, Cardinality({c \in Card : Deck[c] = p}))
  <2>1. fresh \subseteq Free /\ SetupZones({p}, holder(fresh)) /\ seated' = seated
    BY <1>7 DEF CmdUnconcede, Lowest
  <2> HIDE DEF fresh
  <2>2. arrows' = arrows /\ \A c \in Card : c \notin fresh => place'[c] = place[c]
    BY <2>1, CardsAssumption DEF SetupZones
  <2> QED BY <1>1, <1>2, <2>1, <2>2
<1>8. ASSUME NEW p \in Player, DrawCards(p) \/ DrawCryptCards(p)
      PROVE  ArrowsJoinPublicCards'
  <2>1. PICK from \in Zone \ PublicZone, to \in Zone : Draw(p, from, to)
    BY <1>8 DEF DrawCards, DrawCryptCards, Zone, PublicZone
  <2>2. PICK c \in On(p, from) :
           place' = [place EXCEPT ![c] = At(p, to)] /\ UNCHANGED <<arrows, seated>>
    BY <2>1 DEF Draw, table
  <2>3. place[c].zone \notin PublicZone
    BY <2>2, PlaceType DEF On
  <2> QED BY <1>1, <2>2, <2>3 DEF CardInv, TypeOK
<1>9. ASSUME NEW p \in Player, CmdUndoDraw(p)
      PROVE  ArrowsJoinPublicCards'
  <2> DEFINE list == lastDrawList[p]
             rest == [lastDrawList EXCEPT ![p] = SubSeq(list, 1, Len(list) - 1)]
  <2>1. \/ \E c \in On(p, "hand") : MoveCard(p, c, At(p, "deck"), FALSE, rest, TRUE)
        \/ UNCHANGED <<cards, nextCardId, arrows, grants, table>>
    BY <1>9 DEF CmdUndoDraw
  <2> HIDE DEF rest
  <2>2. At(p, "deck") \in Place /\ At(p, "hand") \in Place
    BY PlaceType DEF Zone
  <2>3. CASE \E c \in On(p, "hand") : MoveCard(p, c, At(p, "deck"), FALSE, rest, TRUE)
    <3>1. PICK c \in On(p, "hand") : MoveCard(p, c, At(p, "deck"), FALSE, rest, TRUE)
      BY <2>3
    <3>2. c \in Card /\ place[c] \in Place
      BY <2>2 DEF On
    <3> QED BY <2>2, <3>1, <3>2, MoveCardArrows
  <2>4. CASE UNCHANGED <<cards, nextCardId, arrows, grants, table>>
    BY <1>1, <2>4 DEF cards, table
  <2> QED BY <2>1, <2>3, <2>4
<1>10. ASSUME NEW p \in Player, CmdMoveCard(p)
       PROVE  ArrowsJoinPublicCards'
  <2>1. PICK c \in Card, q \in InPlay, z \in MoveZone :
           /\ place[c].player \in Player
           /\ \E face \in IF z = "table" THEN Side ELSE {FALSE} :
                 MoveCard(p, c, At(q, z), face, lastDrawList, FALSE)
    BY <1>10 DEF CmdMoveCard
  <2>2. PICK face \in BOOLEAN : MoveCard(p, c, At(q, z), face, lastDrawList, FALSE)
    BY <2>1, CardsAssumption
  <2>3. At(q, z) \in Place
    BY InPlayArePlayers, PlaceType, CardsAssumption DEF CardInv
  <2>4. place[c] \in Place
    BY <2>1, NowhereIsNoPlace DEF CardInv, TypeOK
  <2> QED BY <2>2, <2>3, <2>4, MoveCardArrows
<1>11. ASSUME NEW p \in Player, CmdAttachCard(p)
       PROVE  ArrowsJoinPublicCards'
  <2>1. PICK c \in On(p, "table"), t \in Card \cup {None} : Attach(c, t)
    BY <1>11 DEF CmdAttachCard
  <2>2. c \in Card /\ place' = place /\ seated' = seated
    BY <1>11 DEF CmdAttachCard, On, table
  <2> QED BY <1>3, <2>1, <2>2
<1>12. ASSUME NEW p \in Player, CmdCreateToken(p)
       PROVE  ArrowsJoinPublicCards'
  <2> DEFINE n == NewCard
  <2>1. n \in Card /\ place[n] = Nowhere /\ seated' = seated
    BY <1>12, NewCardIsFree DEF CmdCreateToken, NewToken, table
  <2>2. /\ place' = [place EXCEPT ![n] = At(p, "table")]
        /\ arrows' = arrows \/ \E c \in On(p, "table") : Attach(c, n)
    BY <1>12 DEF CmdCreateToken
  <2> HIDE DEF n
  <2>3. \A d \in Card : place[d].zone \in PublicZone => place'[d] = place[d]
    BY <2>1, <2>2, NowhereIsNotPublic DEF CardInv, TypeOK
  <2> QED BY <1>1, <1>3, <2>1, <2>2, <2>3 DEF On
<1>13. ASSUME NEW p \in Player, CmdTransform(p)
       PROVE  ArrowsJoinPublicCards'
  BY <1>13, TransformArrows
<1>14. ASSUME NEW p \in Player, CmdCreateArrow(p)
       PROVE  ArrowsJoinPublicCards'
  <2>1. PICK c \in Card, t \in Card \cup seated :
           /\ IsPublic(c) /\ (t \in Card => IsPublic(t))
           /\ arrows' = [arrows EXCEPT ![p] = @ \cup {[from |-> c, to |-> t]}]
    BY <1>14 DEF CmdCreateArrow
  <2>2. place' = place /\ seated' = seated
    BY <1>14 DEF CmdCreateArrow, cards, table
  <2> SUFFICES ASSUME NEW o \in Player, NEW a \in arrows'[o]
               PROVE  /\ place[a.from].zone \in PublicZone
                      /\ a.to \in Card => place[a.to].zone \in PublicZone
                      /\ a.to \notin Card => a.to \in seated
    BY <2>2 DEF ArrowsJoinPublicCards, IsPublic
  <2>3. CASE a \in arrows[o]
    BY <2>3, ArrowEnds
  <2>4. CASE a = [from |-> c, to |-> t]
    BY <2>1, <2>4 DEF IsPublic
  <2> QED BY <2>1, <2>3, <2>4 DEF CardInv, TypeOK
<1>15. ASSUME NEW p \in Player,
              \/ CmdFlipCard(p) \/ CmdRevealCards(p) \/ CmdShuffle(p) \/ CmdDeleteArrow(p)
       PROVE  ArrowsJoinPublicCards'
  <2>1. place' = place /\ seated' = seated
    BY <1>15 DEF CmdFlipCard, CmdRevealCards, CmdShuffle, CmdDeleteArrow, cards, table
  <2>2. \A o \in Player : arrows'[o] \subseteq arrows[o]
    BY <1>15 DEF CmdFlipCard, CmdRevealCards, CmdShuffle, CmdDeleteArrow, CardInv, TypeOK
  <2> QED BY <2>1, <2>2, PublicCardsStay
<1>16. CASE UNCHANGED vars
  BY <1>1, <1>16 DEF vars, cards, table
<1> QED
  BY <1>4, <1>5, <1>6, <1>7, <1>8, <1>9, <1>10, <1>11, <1>12, <1>13, <1>14, <1>15, <1>16
     DEF Next

\* No arrow outlives what it joins: its ends are cards in public zones, or a
\* player who is seated, whatever became of the cards and players in between and
\* whatever the freed arrow of removeArrowsRelatedToPlayer() is read as.
THEOREM ArrowsStayPublic == Spec => []ArrowsJoinPublicCards
<1>1. Init => CardInv /\ ArrowsJoinPublicCards
  <2> SUFFICES ASSUME Init PROVE CardInv /\ ArrowsJoinPublicCards
    OBVIOUS
  <2>1. CardInv
    BY InitCards
  <2>2. ArrowsJoinPublicCards
    BY DEF Init, ArrowsJoinPublicCards
  <2> QED BY <2>1, <2>2
<1>2. CardInv /\ ArrowsJoinPublicCards /\ [Next]_vars => CardInv' /\ ArrowsJoinPublicCards'
  BY CardStep, ArrowStep
<1> QED BY <1>1, <1>2, PTL DEF Spec

-----------------------------------------------------------------------------
(* No sequence of tokens swallows a card of a deck.                         *)

\* What makes it so: only cards that clients created have a card under them.
StashUnderCreated == \A c \in Card : stash[c] # None => kind[c] # "deck"

KeepInv == CardInv /\ StashUnderCreated

\* A step after which every card of a deck is where some card was.
Stays == \A c \in Card : Exists(c) /\ kind[c] = "deck" => Exists(c)'

\* The step of DeckCardsAreKept.
Kept ==
  \A c \in Card :
    (Exists(c) /\ kind[c] = "deck" /\ ~Exists(c)') =>
        \E p \in Player : c \in Cleared({p}) /\ p \notin InPlay'

LEMMA StashFacts ==
  ASSUME KeepInv, NEW c \in Card, stash[c] # None
  PROVE  /\ stash[c] \in Card /\ place[c] # Nowhere /\ stash[stash[c]] = None
         /\ kind[c] # "deck" /\ \A d \in Card : stash[d] = stash[c] => d = c
BY DEF KeepInv, CardInv, TypeOK, StashIsPlain, StashUnderCreated, Placed

LEMMA SetupZonesKeeps ==
  ASSUME KeepInv, NEW S \in SUBSET Player, NEW holder, SetupZones(S, holder)
  PROVE  StashUnderCreated' /\ Stays
<1>1. ASSUME NEW c \in Card, place[c] # Nowhere PROVE place'[c] # Nowhere
  <2>1. CASE holder[c] \in S
    <3>1. place'[c].player = holder[c]
      BY <2>1 DEF SetupZones, At
    <3> QED BY <2>1, <3>1, CardsAssumption DEF Nowhere
  <2>2. CASE holder[c] \notin S
    BY <1>1, <2>2 DEF SetupZones
  <2> QED BY <2>1, <2>2
<1>2. stash' = stash /\ kind' = kind
  BY DEF SetupZones
<1>3. Stays
  BY <1>1, <1>2 DEF Stays, Exists, Placed
<1> QED BY <1>2, <1>3 DEF StashUnderCreated, KeepInv

\* A card goes only with a player whose table is cleared.
LEMMA OutOfPlayKeeps ==
  ASSUME KeepInv, NEW p \in Player, NEW left, OutOfPlay(p, left),
         Cardinality(left) <= 1 \/ p \notin InPlay'
  PROVE  StashUnderCreated' /\ Kept
<1> DEFINE stops == Cardinality(left) <= 1
           S == IF stops THEN Player ELSE {p}
           dead == Cleared(S)
<1>1. /\ \A c \in Card : c \in dead => place'[c] = Nowhere /\ stash'[c] = None
      /\ \A c \in Card : c \notin dead =>
            place'[c] = place[c] /\ kind'[c] = kind[c] /\ stash'[c] = stash[c]
      /\ started' = (started /\ ~stops)
  BY DEF OutOfPlay
<1>2. StashUnderCreated'
  <2> HIDE DEF dead
  <2> QED BY <1>1 DEF StashUnderCreated, KeepInv
<1>3. ASSUME NEW c \in Card, Exists(c), ~Exists(c)'
      PROVE  \E q \in Player : c \in Cleared({q}) /\ q \notin InPlay'
  <2>1. place'[c] = Nowhere /\ \A d \in Card : stash'[d] # c
    BY <1>3 DEF Exists, Placed
  <2>2. \E q \in S : c \in Cleared({q})
    <3>1. CASE place[c] # Nowhere
      <4>1. c \in dead
        <5> HIDE DEF dead
        <5> QED BY <1>1, <2>1, <3>1
      <4> QED BY <4>1 DEF Cleared
    <3>2. CASE place[c] = Nowhere
      <4>1. PICK d \in Card : stash[d] = c
        BY <1>3, <3>2 DEF Exists, Placed
      <4>2. d \in dead
        <5> HIDE DEF dead
        <5> QED BY <1>1, <2>1, <4>1
      <4>3. stash[d] # None
        BY <4>1, CardsAssumption
      <4>4. \A e \in Card : stash[e] # d
        <5> SUFFICES ASSUME NEW e \in Card, stash[e] = d PROVE FALSE
          OBVIOUS
        <5>1. stash[e] # None
          BY CardsAssumption
        <5>2. stash[stash[e]] = None
          BY <5>1, StashFacts
        <5> QED BY <4>3, <5>2
      <4>5. place[d].player \in S
        BY <4>2, <4>4 DEF Cleared
      <4> QED BY <4>1, <4>5 DEF Cleared
    <3> QED BY <3>1, <3>2
  <2>3. PICK q \in S : c \in Cleared({q})
    BY <2>2
  <2>4. CASE stops
    BY <1>1, <2>3, <2>4 DEF InPlay
  <2>5. CASE ~stops
    BY <2>3, <2>5
  <2> QED BY <2>4, <2>5
<1> QED BY <1>2, <1>3 DEF Kept

LEMMA MoveCardKeeps ==
  ASSUME KeepInv, NEW m \in Player, NEW c \in Card, NEW to \in Place, place[c] \in Place,
         NEW face, NEW draws, NEW undoing,
         MoveCard(m, c, to, face, draws, undoing)
  PROVE  StashUnderCreated' /\ Stays
<1> DEFINE dies == place[c].zone # to.zone /\ kind[c] = "token"
           x == Arriving(c, dies)
<1>1. \A d \in Card :
         /\ place'[d] = IF d = x THEN to ELSE IF dies /\ d = c THEN Nowhere ELSE place[d]
         /\ kind'[d] = IF dies /\ d = c THEN "deck" ELSE kind[d]
         /\ stash'[d] = IF dies /\ d = c THEN None ELSE stash[d]
  BY DEF MoveCard
<1>2. x = (IF dies THEN stash[c] ELSE c) /\ (dies => kind[c] = "token")
  BY DEF Arriving
<1> HIDE DEF x, dies
<1>3. to # Nowhere
  BY NowhereIsNoPlace
<1>4. StashUnderCreated'
  BY <1>1 DEF StashUnderCreated, KeepInv
<1>5. ASSUME NEW d \in Card, Exists(d), kind[d] = "deck" PROVE Exists(d)'
  <2>1. CASE d = x
    BY <1>1, <1>3, <2>1 DEF Exists, Placed
  <2>2. CASE d # x /\ place[d] # Nowhere
    BY <1>1, <1>2, <1>5, <2>2 DEF Exists, Placed
  <2>3. CASE d # x /\ place[d] = Nowhere
    <3>1. PICK e \in Card : stash[e] = d
      BY <1>5, <2>3 DEF Exists, Placed
    <3>2. stash'[e] = d
      BY <1>1, <1>2, <2>3, <3>1
    <3> QED BY <3>2 DEF Exists
  <2> QED BY <2>1, <2>2, <2>3
<1> QED BY <1>4, <1>5 DEF Stays

LEMMA DrawKeeps ==
  ASSUME KeepInv, NEW p \in Player, NEW from \in Zone, NEW to \in Zone, Draw(p, from, to)
  PROVE  StashUnderCreated' /\ Stays
<1>1. PICK c \in Card : /\ place' = [place EXCEPT ![c] = At(p, to)]
                        /\ stash' = stash /\ kind' = kind
  BY DEF Draw, On
<1>2. At(p, to) # Nowhere
  BY PlaceType, NowhereIsNoPlace
<1>3. \A d \in Card : place[d] # Nowhere => place'[d] # Nowhere
  BY <1>1, <1>2 DEF KeepInv, CardInv, TypeOK
<1> QED BY <1>1, <1>3 DEF StashUnderCreated, Stays, Exists, Placed, KeepInv

LEMMA CreateTokenKeeps ==
  ASSUME KeepInv, NEW p \in Player, CmdCreateToken(p)
  PROVE  StashUnderCreated' /\ Stays
<1> DEFINE n == NewCard
<1>1. n \in Card
  BY NewCardIsFree DEF CmdCreateToken, NewToken
<1>2. PICK k \in {"token", "created"} :
        /\ place' = [place EXCEPT ![n] = At(p, "table")]
        /\ kind' = [kind EXCEPT ![n] = k]
        /\ stash' = stash
  BY DEF CmdCreateToken
<1> HIDE DEF n
<1>3. At(p, "table") # Nowhere
  BY PlaceType, NowhereIsNoPlace DEF Zone
<1>4. \A d \in Card : /\ place[d] # Nowhere => place'[d] # Nowhere
                      /\ kind'[d] = IF d = n THEN k ELSE kind[d]
  BY <1>1, <1>2, <1>3 DEF KeepInv, CardInv, TypeOK
<1>5. Stays
  BY <1>2, <1>4 DEF Stays, Exists, Placed
<1> QED BY <1>2, <1>4, <1>5 DEF StashUnderCreated, KeepInv

LEMMA TransformKeeps ==
  ASSUME KeepInv, NEW p \in Player, CmdTransform(p)
  PROVE  StashUnderCreated' /\ Stays
<1> DEFINE n == NewCard
<1>1. n \in Card /\ place[n] = Nowhere /\ \A d \in Card : stash[d] # n
  BY NewCardIsFree DEF CmdTransform, NewToken, KeepInv, CardInv
<1>2. PICK k \in {"token", "created"}, z \in PublicZone : \E c \in On(p, z) :
        /\ place' = [place EXCEPT ![n] = At(p, "table"), ![c] = Nowhere]
        /\ kind' = [d \in Card |-> IF d = n THEN k
                                   ELSE IF d = c /\ Discards(c) THEN "deck" ELSE kind[d]]
        /\ stash' = [stash EXCEPT ![c] = None, ![n] = IF Discards(c) THEN stash[c] ELSE c]
  BY DEF CmdTransform
<1>3. PICK c \in On(p, z) :
        /\ place' = [place EXCEPT ![n] = At(p, "table"), ![c] = Nowhere]
        /\ kind' = [d \in Card |-> IF d = n THEN k
                                   ELSE IF d = c /\ Discards(c) THEN "deck" ELSE kind[d]]
        /\ stash' = [stash EXCEPT ![c] = None, ![n] = IF Discards(c) THEN stash[c] ELSE c]
  BY <1>2
<1> HIDE DEF n
<1>4. c \in Card /\ c # n
  <2>1. c \in Card /\ place[c] = At(p, z) /\ z \in Zone
    BY DEF On, PublicZone, Zone
  <2> QED BY <1>1, <2>1, PlaceType, NowhereIsNoPlace
<1>5. At(p, "table") # Nowhere
  BY PlaceType, NowhereIsNoPlace DEF Zone
<1>6. \A d \in Card :
        /\ place'[d] = IF d = n THEN At(p, "table") ELSE IF d = c THEN Nowhere ELSE place[d]
        /\ kind'[d] = IF d = n THEN k ELSE IF d = c /\ Discards(c) THEN "deck" ELSE kind[d]
        /\ stash'[d] = IF d = n THEN (IF Discards(c) THEN stash[c] ELSE c)
                       ELSE IF d = c THEN None ELSE stash[d]
  BY <1>1, <1>3, <1>4 DEF KeepInv, CardInv, TypeOK
<1>7. StashUnderCreated'
  BY <1>6 DEF StashUnderCreated, KeepInv
<1>8. stash[n] = None
  BY <1>1, StashFacts
<1>9. ASSUME NEW d \in Card, Exists(d), kind[d] = "deck" PROVE Exists(d)'
  <2>1. CASE d = c
    <3>1. ~Discards(c)
      BY <1>9, <2>1 DEF Discards, KeepInv, StashUnderCreated
    <3>2. stash'[n] = d
      BY <1>1, <1>6, <2>1, <3>1
    <3> QED BY <1>1, <3>2 DEF Exists
  <2>2. CASE d # c /\ place[d] # Nowhere
    BY <1>5, <1>6, <2>2 DEF Exists, Placed
  <2>3. CASE d # c /\ place[d] = Nowhere
    <3>1. PICK e \in Card : stash[e] = d
      BY <1>9, <2>3 DEF Exists, Placed
    <3>2. CASE e = c
      <4>1. Discards(c)
        BY <3>1, <3>2, CardsAssumption DEF Discards
      <4>2. stash'[n] = d
        BY <1>1, <1>6, <3>1, <3>2, <4>1
      <4> QED BY <1>1, <4>2 DEF Exists
    <3>3. CASE e # c
      <4>1. e # n
        BY <1>8, <3>1, CardsAssumption
      <4>2. stash'[e] = d
        BY <1>6, <3>1, <3>3, <4>1
      <4> QED BY <4>2 DEF Exists
    <3> QED BY <3>2, <3>3
  <2> QED BY <2>1, <2>2, <2>3
<1> QED BY <1>7, <1>9 DEF Stays

LEMMA KeepStep ==
  ASSUME KeepInv, [Next]_vars
  PROVE  StashUnderCreated' /\ Kept
<1>0. Stays => Kept
  BY DEF Stays, Kept
<1>1. ASSUME UNCHANGED <<place, kind, stash>>
      PROVE  StashUnderCreated' /\ Stays
  BY <1>1 DEF StashUnderCreated, KeepInv, Stays, Exists, Placed
<1>2. CASE DoStartGame
  <2>1. seated \in SUBSET Player /\ SetupZones(seated, Deck)
    BY <1>2 DEF DoStartGame, KeepInv, CardInv, TypeOK
  <2> QED BY <1>0, <2>1, SetupZonesKeeps
<1>3. ASSUME NEW p \in Player,
             \/ JoinGame(p) \/ CmdFlipCard(p) \/ CmdRevealCards(p) \/ CmdShuffle(p)
             \/ CmdCreateArrow(p) \/ CmdDeleteArrow(p) \/ CmdAttachCard(p)
      PROVE  StashUnderCreated' /\ Kept
  <2>1. UNCHANGED <<place, kind, stash>>
    BY <1>3 DEF JoinGame, CmdFlipCard, CmdRevealCards, CmdShuffle, CmdCreateArrow,
                CmdDeleteArrow, CmdAttachCard, cards
  <2> QED BY <1>0, <1>1, <2>1
<1>4. ASSUME NEW p \in Player, RemovePlayer(p)
      PROVE  StashUnderCreated' /\ Kept
  <2>1. OutOfPlay(p, (seated \ conceded) \ {p}) /\ p \notin InPlay'
    BY <1>4 DEF RemovePlayer, InPlay
  <2> QED BY <2>1, OutOfPlayKeeps
<1>5. ASSUME NEW p \in Player, CmdConcede(p)
      PROVE  StashUnderCreated' /\ Kept
  <2> DEFINE left == InPlay \ {p}
             stops == Cardinality(left) <= 1
  <2>1. /\ OutOfPlay(p, left) /\ seated' = seated /\ p \in seated
        /\ conceded' = IF stops THEN {} ELSE (seated \ left) \cap seated'
    BY <1>5 DEF CmdConcede, OutOfPlay, OutOf, InPlay
  <2> HIDE DEF stops
  <2>2. stops \/ p \notin InPlay'
    BY <2>1 DEF InPlay
  <2> QED BY <2>1, <2>2, OutOfPlayKeeps DEF stops
<1>6. ASSUME NEW p \in Player, CmdUnconcede(p)
      PROVE  StashUnderCreated' /\ Kept
  <2>1. \E holder : SetupZones({p}, holder)
    BY <1>6 DEF CmdUnconcede
  <2>2. {p} \in SUBSET Player
    OBVIOUS
  <2> QED BY <1>0, <2>1, <2>2, SetupZonesKeeps
<1>7. ASSUME NEW p \in Player, DrawCards(p) \/ DrawCryptCards(p)
      PROVE  StashUnderCreated' /\ Kept
  <2>1. {"deck", "crypt", "hand", "table"} \subseteq Zone
    BY DEF Zone
  <2> QED BY <1>0, <1>7, <2>1, DrawKeeps DEF DrawCards, DrawCryptCards
<1>8. ASSUME NEW p \in Player, CmdUndoDraw(p)
      PROVE  StashUnderCreated' /\ Kept
  <2>1. \/ \E draws : \E c \in On(p, "hand") :
            MoveCard(p, c, At(p, "deck"), FALSE, draws, TRUE)
        \/ UNCHANGED cards
    BY <1>8 DEF CmdUndoDraw
  <2>2. At(p, "deck") \in Place /\ At(p, "hand") \in Place
    BY PlaceType DEF Zone
  <2>3. CASE \E draws : \E c \in On(p, "hand") :
            MoveCard(p, c, At(p, "deck"), FALSE, draws, TRUE)
    <3>1. PICK draws : \E c \in On(p, "hand") :
            MoveCard(p, c, At(p, "deck"), FALSE, draws, TRUE)
      BY <2>3
    <3>2. PICK c \in On(p, "hand") : MoveCard(p, c, At(p, "deck"), FALSE, draws, TRUE)
      BY <3>1
    <3>3. c \in Card /\ place[c] \in Place
      BY <2>2 DEF On
    <3> QED BY <1>0, <2>2, <3>2, <3>3, MoveCardKeeps
  <2>4. CASE UNCHANGED cards
    BY <1>0, <1>1, <2>4 DEF cards
  <2> QED BY <2>1, <2>3, <2>4
<1>9. ASSUME NEW p \in Player, CmdMoveCard(p)
      PROVE  StashUnderCreated' /\ Kept
  <2>1. PICK c \in Card, q \in InPlay, z \in MoveZone :
           /\ place[c].player \in Player
           /\ \E face : MoveCard(p, c, At(q, z), face, lastDrawList, FALSE)
    BY <1>9 DEF CmdMoveCard
  <2>2. PICK face : MoveCard(p, c, At(q, z), face, lastDrawList, FALSE)
    BY <2>1
  <2>3. At(q, z) \in Place
    BY InPlayArePlayers, PlaceType, CardsAssumption DEF KeepInv, CardInv
  <2>4. place[c] \in Place
    BY <2>1, NowhereIsNoPlace DEF KeepInv, CardInv, TypeOK
  <2> QED BY <1>0, <2>2, <2>3, <2>4, MoveCardKeeps
<1>10. ASSUME NEW p \in Player, CmdCreateToken(p) \/ CmdTransform(p)
       PROVE  StashUnderCreated' /\ Kept
  BY <1>0, <1>10, CreateTokenKeeps, TransformKeeps
<1>11. CASE UNCHANGED vars
  BY <1>0, <1>1, <1>11 DEF vars, cards
<1> QED BY <1>2, <1>3, <1>4, <1>5, <1>6, <1>7, <1>8, <1>9, <1>10, <1>11 DEF Next

\* A card that came out of a deck stays in a zone or under a card that does, in
\* every game, until the player at whose table it lies is out of play: tokens
\* made of it, and of those tokens, give it back.
THEOREM DeckCardsStay == Spec => DeckCardsAreKept
<1>1. Init => KeepInv
  BY InitCards DEF Init, KeepInv, StashUnderCreated
<1>2. KeepInv /\ [Next]_vars => KeepInv' /\ Kept
  BY CardStep, KeepStep DEF KeepInv
<1>3. Kept <=> \A c \in Card :
                 (Exists(c) /\ kind[c] = "deck" /\ ~Exists(c)') =>
                     \E p \in Player : c \in Cleared({p}) /\ p \notin InPlay'
  BY DEF Kept
<1> QED BY <1>1, <1>2, <1>3, PTL DEF Spec, DeckCardsAreKept

=============================================================================
