----------------------------- MODULE CardTable -----------------------------
(***************************************************************************)
(* The cards of a running game: which zone of which player every           *)
(* Server_Card is in, the ids by which clients name it, the attachments    *)
(* and arrows between cards, the cards kept under tokens, and the list     *)
(* from which a draw is undone (src/common/server_player.cpp,              *)
(* server_card.h, server_cardzone.cpp).                                    *)
(*                                                                         *)
(* gameMutex is held for the whole of a command, so every command is one   *)
(* action.  A refused command changes nothing and is not an action; the    *)
(* one exception, an undo that has already taken its entry off the list,   *)
(* is part of CmdUndoDraw.  Abstracted: coordinates and the order of cards *)
(* in a zone (a draw takes any card of the deck; a move to an occupied     *)
(* column may be refused, which is no action), and the attributes,         *)
(* counters and names of a card.  The zones "stack" and "rfg" behave like  *)
(* "ashheap" and are left to it.  A command that moves or draws several    *)
(* cards is the same commands for one card each.                           *)
(***************************************************************************)
EXTENDS Naturals, Sequences, FiniteSets

CONSTANTS Player,       \* players who may sit at the table
          Card,         \* Server_Card objects, numbered
          None,         \* no card, no player, no zone
          Deck,         \* Deck[c]: whose deck object c is made for at the start
          LibrarySize,  \* cards of a deck that go to "deck"; the others to "crypt"
          Judge,        \* players with the judge flag
          GrantZone,    \* zones that players reveal with write access
          MoveZone,     \* bound: zones that players move cards to
          Side,         \* bound: values that clients give to facedown
          MaxCardId,    \* bound: card ids each player hands out
          MaxArrows,    \* bound: arrows of each player
          MaxDraws      \* bound: length of lastDrawList

Zone == {"deck", "crypt", "hand", "table", "ashheap"}
PublicZone == {"table", "ashheap"}

ASSUME CardsAssumption ==
    /\ Card \subseteq Nat /\ IsFiniteSet(Card)
    /\ None \notin Card /\ None \notin Player /\ None \notin Zone
    /\ Card \cap Player = {}
    /\ Deck \in [Card -> Player \cup {None}]
    /\ LibrarySize \in Nat
    /\ Judge \subseteq Player
    /\ GrantZone \subseteq Zone /\ MoveZone \subseteq Zone /\ Side \subseteq BOOLEAN

VARIABLES place,         \* place[c]: the zone a card lies in, or Nowhere
          id,            \* Server_Card::id
          faceDown,      \* Server_Card::facedown
          kind,          \* "token": destroyOnZoneChange; "created": without it
          parent,        \* Server_Card::parentCard
          stash,         \* Server_Card::stashedCard
          nextCardId,    \* Server_Player::nextCardId
          lastDrawList,  \* Server_Player::lastDrawList
          arrows,        \* Server_Player::arrows
          grants,        \* Server_CardZone::playersWithWritePermission
          seated,        \* Server_Game::players
          conceded,      \* Server_Player::conceded
          started        \* Server_Game::gameStarted

cards == <<place, id, faceDown, kind, parent, stash>>
table == <<seated, conceded, started>>
vars == <<cards, nextCardId, lastDrawList, arrows, grants, table>>

At(p, z) == [player |-> p, zone |-> z]
Nowhere == [player |-> None, zone |-> None]
Place == [player : Player, zone : Zone]

Arrow == [from : Card, to : Card \cup Player]

InPlay == IF started THEN seated \ conceded ELSE {}

On(p, z) == {c \in Card : place[c] = At(p, z)}
OnTable(c) == place[c].zone = "table"
IsPublic(c) == place[c].zone \in PublicZone

\* An object is free when it lies nowhere and is kept under no other card.
Free == {c \in Card : place[c] = Nowhere /\ \A d \in Card : stash[d] # c}
Rank(c, S) == Cardinality({d \in S : d < c})
Lowest(S, n) == {c \in S : Rank(c, S) < n}
NewCard == CHOOSE c \in Free : TRUE

WithinIds(next) == \A p \in Player : next[p] <= MaxCardId[p]

----------------------------------------------------------------------------
\* setupZones() for the players of S; holder[c] is the one object c is made for.
SetupZones(S, holder) ==
    LET deckOf(c) == {d \in Card : holder[d] = holder[c]}
        pile(c) == IF Rank(c, deckOf(c)) < LibrarySize THEN "deck" ELSE "crypt"
    IN  /\ place' = [c \in Card |-> IF holder[c] \in S THEN At(holder[c], pile(c))
                                    ELSE place[c]]
        /\ id' = [c \in Card |-> IF holder[c] \in S THEN Rank(c, deckOf(c)) ELSE id[c]]
        /\ nextCardId' = [p \in Player |->
                             IF p \in S THEN Cardinality({c \in Card : holder[c] = p})
                             ELSE nextCardId[p]]
        /\ WithinIds(nextCardId')
        /\ UNCHANGED <<faceDown, kind, parent, stash, lastDrawList, arrows, grants>>

DoStartGame ==
    /\ ~started /\ seated = Player
    /\ started' = TRUE
    /\ SetupZones(seated, Deck)
    /\ UNCHANGED <<seated, conceded>>

JoinGame(p) ==
    /\ ~started /\ p \notin seated
    /\ seated' = seated \cup {p}
    /\ nextCardId' = [nextCardId EXCEPT ![p] = 0]
    /\ UNCHANGED <<cards, lastDrawList, arrows, grants, conceded, started>>

CmdUnconcede(p) ==
    /\ started /\ p \in conceded
    /\ LET size == Cardinality({c \in Card : Deck[c] = p})
           fresh == Lowest(Free, size)
       IN  /\ Cardinality(Free) >= size
           /\ SetupZones({p}, [c \in Card |-> IF c \in fresh THEN p ELSE None])
    /\ conceded' = conceded \ {p}
    /\ UNCHANGED <<seated, started>>

----------------------------------------------------------------------------
\* The cards deleted with the zones of the players of S.
Cleared(S) ==
    {c \in Card : \/ place[c].player \in S
                  \/ \E d \in Card : stash[d] = c /\ place[d].player \in S}

\* removeArrowsRelatedToPlayer(): an arrow is listed once for its target and
\* once for its start.
PointsAt_Player(a, p) == a.to = p   \* Mutant: arrows to his cards are forgotten.
PointsAt(a, p) == a.to = p \/ (a.to \in Card /\ place[a.to].player = p)
StartsAt(a, p) == place[a.from].player = p

Related(o, p) == {a \in arrows[o] : PointsAt(a, p) \/ StartsAt(a, p)}
Twice(o, p) == {a \in arrows[o] : PointsAt(a, p) /\ StartsAt(a, p)}

\* The second mention of an arrow reads its id from freed memory: it may be
\* the id of any other arrow of the same player, which is then removed too.
Misread(p) ==
    {lost \in SUBSET {l \in Player \X UNION {arrows[q] : q \in Player} :
                         Twice(l[1], p) # {} /\ l[2] \in arrows[l[1]] \ Related(l[1], p)} :
        \A o \in Player :
            Cardinality({l \in lost : l[1] = o}) <= Cardinality(Twice(o, p))}

\* Mutant: whoever has left counts as conceded.
OutOf_Leavers(left, remaining) == seated \ left

\* The conceded players among those who remain.
OutOf(left, remaining) == (seated \ left) \cap remaining

\* removeArrowsRelatedToPlayer(p), unattachCards(p) and clearZones(), followed
\* by stopGameIfFinished() for the contenders that are left.
OutOfPlay(p, left) ==
    LET stops == Cardinality(left) <= 1
        S == IF stops THEN Player ELSE {p}
        dead == Cleared(S)
    IN  /\ place' = [c \in Card |-> IF c \in dead THEN Nowhere ELSE place[c]]
        /\ id' = [c \in Card |-> IF c \in dead THEN 0 ELSE id[c]]
        /\ faceDown' = [c \in Card |-> c \notin dead /\ faceDown[c]]
        /\ kind' = [c \in Card |-> IF c \in dead THEN "deck" ELSE kind[c]]
        /\ parent' = [c \in Card |-> IF c \in dead \/ parent[c] \in dead THEN None
                                     ELSE parent[c]]
        /\ stash' = [c \in Card |-> IF c \in dead THEN None ELSE stash[c]]
        /\ \E lost \in Misread(p) :
              arrows' = [o \in Player |-> IF o \in S THEN {}
                            ELSE {a \in arrows[o] \ Related(o, p) : <<o, a>> \notin lost}]
        /\ lastDrawList' = [o \in Player |-> IF o \in S THEN <<>> ELSE lastDrawList[o]]
        /\ grants' = {g \in grants : g[1].player \notin S}
        /\ started' = (started /\ ~stops)
        /\ conceded' = IF stops THEN {} ELSE OutOf(left, seated')
        /\ UNCHANGED nextCardId

CmdConcede(p) ==
    /\ p \in InPlay
    /\ UNCHANGED seated
    /\ OutOfPlay(p, InPlay \ {p})

RemovePlayer(p) ==
    /\ p \in seated
    /\ seated' = seated \ {p}
    /\ OutOfPlay(p, (seated \ conceded) \ {p})

----------------------------------------------------------------------------
\* Draws.  The entry is appended whether the card goes to the hand or, from the
\* crypt, to the table.
Draw(p, from, to) ==
    \E c \in On(p, from) :
        /\ p \in InPlay
        /\ Len(lastDrawList[p]) < MaxDraws
        /\ place' = [place EXCEPT ![c] = At(p, to)]
        /\ lastDrawList' = [lastDrawList EXCEPT ![p] = Append(@, id[c])]
        /\ UNCHANGED <<id, faceDown, kind, parent, stash,
                       nextCardId, arrows, grants, table>>

DrawCards(p) == Draw(p, "deck", "hand")
DrawCryptCards(p) == Draw(p, "crypt", "table")

\* erase(begin, begin + index): what is left starts with the card itself.
FromLast(list, i) ==
    LET at == {n \in 1..Len(list) : list[n] = i}
    IN  IF at = {} THEN list
        ELSE SubSeq(list, CHOOSE n \in at : \A k \in at : k <= n, Len(list))

\* Mutant: what lay under a token goes with it.
Arriving_Lost(c, dies) == IF dies THEN None ELSE c

\* The card that arrives: what lay under a token, if anything, in its place.
Arriving(c, dies) == IF dies THEN stash[c] ELSE c

\* Mutant: the zones are compared by name, whosever they are.
Renamed_ByName(from, to, face) == face /\ from.zone # to.zone

\* A card that goes face down or to another player gets a new id, so that it
\* cannot be recognised, or taken for another.
Renamed(from, to, face) == (face /\ from # to) \/ from.player # to.player

ArrowsWithout(c) ==
    [o \in Player |-> {a \in arrows[o] : a.from # c /\ a.to # c}]

\* moveCard() by player m of the single card c; face is the card's new facedown
\* and draws the list with which an undo comes in.
MoveCard(m, c, to, face, draws, undoing) ==
    LET from == place[c]
        crosses == from.zone # to.zone
        dies == crosses /\ kind[c] = "token"
        x == Arriving(c, dies)
        surfaces == dies /\ x # None
        renamed == x # None /\ Renamed(from, to, face)
        next1 == IF surfaces THEN [nextCardId EXCEPT ![m] = @ + 1] ELSE nextCardId
        next2 == IF renamed THEN [next1 EXCEPT ![to.player] = @ + 1] ELSE next1
        newId == IF renamed THEN next1[to.player]
                 ELSE IF surfaces THEN nextCardId[m] ELSE id[c]
        gone(d) == dies /\ d = c
    IN  /\ to.zone = "table" \/ from.player = to.player \/ m \in Judge
        /\ parent[c] = None
        /\ place' = [d \in Card |-> IF d = x THEN to ELSE IF gone(d) THEN Nowhere ELSE place[d]]
        /\ id' = [d \in Card |-> IF d = x THEN newId ELSE IF gone(d) THEN 0 ELSE id[d]]
        /\ faceDown' = [d \in Card |-> IF d = x THEN face ELSE ~gone(d) /\ faceDown[d]]
        /\ kind' = [d \in Card |-> IF gone(d) THEN "deck" ELSE kind[d]]
        /\ parent' = [d \in Card |-> IF crosses /\ parent[d] = c THEN None ELSE parent[d]]
        /\ stash' = [d \in Card |-> IF gone(d) THEN None ELSE stash[d]]
        /\ arrows' = IF from = to THEN arrows ELSE ArrowsWithout(c)
        /\ nextCardId' = next2 /\ WithinIds(next2)
        /\ lastDrawList' =
              IF from.zone = "hand" /\ to.zone # "hand" /\ ~undoing
              THEN [draws EXCEPT ![m] = FromLast(@, id[c])] ELSE draws
        /\ UNCHANGED <<grants, table>>

\* Every entry is taken off the list first; a card that is not in the hand is an
\* error, and the entry is gone.
CmdUndoDraw(p) ==
    /\ p \in InPlay
    /\ lastDrawList[p] # <<>>
    /\ LET list == lastDrawList[p]
           rest == [lastDrawList EXCEPT ![p] = SubSeq(list, 1, Len(list) - 1)]
           drawn == {c \in On(p, "hand") : id[c] = list[Len(list)]}
       IN  \/ \E c \in drawn : MoveCard(p, c, At(p, "deck"), FALSE, rest, TRUE)
           \/ /\ drawn = {}
              /\ lastDrawList' = rest
              /\ UNCHANGED <<cards, nextCardId, arrows, grants, table>>

CmdMoveCard(m) ==
    /\ m \in InPlay
    /\ \E c \in Card, q \in InPlay, z \in MoveZone :
          LET p == place[c].player
          IN  /\ p \in Player
              /\ p = m \/ <<place[c], m>> \in grants \/ m \in Judge
              /\ p = m \/ q = m \/ m \in Judge
              /\ \E face \in IF z = "table" THEN Side ELSE {FALSE} :
                    MoveCard(m, c, At(q, z), face, lastDrawList, FALSE)

CmdFlipCard(p) ==
    /\ p \in InPlay
    /\ \E c \in On(p, "table") : \E side \in Side \ {faceDown[c]} :
          faceDown' = [faceDown EXCEPT ![c] = side]
    /\ UNCHANGED <<place, id, kind, parent, stash, nextCardId, lastDrawList,
                   arrows, grants, table>>

\* To one player or to all; access to an own zone is never asked for.  It stays
\* until the zone is shuffled with two or more cards in it.
CmdRevealCards(p) ==
    /\ p \in InPlay
    /\ \E z \in GrantZone, to \in {{q} : q \in seated} \cup {seated} :
          grants' = grants \cup {<<At(p, z), q>> : q \in to \ {p}}
    /\ UNCHANGED <<cards, nextCardId, lastDrawList, arrows, table>>

CmdShuffle(p) ==
    /\ p \in InPlay
    /\ Cardinality(On(p, "deck")) >= 2
    /\ grants' = {g \in grants : g[1] # At(p, "deck")}
    /\ UNCHANGED <<cards, nextCardId, lastDrawList, arrows, table>>

----------------------------------------------------------------------------
\* Mutant: the cards attached to the one being attached stay where they are.
Attach_Stacked(c, t) ==
    /\ arrows' = ArrowsWithout(c)
    /\ parent' = [parent EXCEPT ![c] = t]

\* What cmdAttachCard() does once its checks are passed; t = None detaches.
Attach(c, t) ==
    /\ arrows' = ArrowsWithout(c)
    /\ parent' = [d \in Card |-> IF d = c THEN t
                                 ELSE IF t # None /\ parent[d] = c THEN None
                                 ELSE parent[d]]

\* Clients do not attach a card to itself.
CmdAttachCard(p) ==
    /\ p \in InPlay
    /\ \E c \in On(p, "table") :
          \/ \E t \in Card \ {c} : OnTable(t) /\ parent[t] = None /\ Attach(c, t)
          \/ parent[c] # None /\ Attach(c, None)
    /\ UNCHANGED <<place, id, faceDown, kind, stash, nextCardId, lastDrawList, grants, table>>

\* cmdCreateToken(), always on the table, where clients create tokens.
NewToken(p) ==
    /\ p \in InPlay /\ Free # {}
    /\ nextCardId' = [nextCardId EXCEPT ![p] = @ + 1]
    /\ WithinIds(nextCardId')
    /\ UNCHANGED <<lastDrawList, grants, table>>

\* No target card, or ATTACH_TO: the target is attached to the new card c.
CmdCreateToken(p) ==
    /\ NewToken(p)
    /\ LET n == NewCard IN
       \E k \in {"token", "created"} :
          /\ place' = [place EXCEPT ![n] = At(p, "table")]
          /\ id' = [id EXCEPT ![n] = nextCardId[p]]
          /\ kind' = [kind EXCEPT ![n] = k]
          /\ UNCHANGED <<faceDown, stash>>
          /\ \/ UNCHANGED <<parent, arrows>>
             \/ \E c \in On(p, "table") : Attach(c, n)

\* Mutant: a token is kept like any card.
Discards_NoTokens(c) == stash[c] # None

\* setStashedCard(): only a plain card is kept.
Discards(c) == stash[c] # None \/ kind[c] = "token"

\* TRANSFORM_INTO: the new card takes the target's side up, parent, attachments
\* and arrows, and the target, or what lay under it, is stashed.
CmdTransform(p) ==
    /\ NewToken(p)
    /\ LET n == NewCard IN
       \E k \in {"token", "created"}, z \in PublicZone : \E c \in On(p, z) :
          LET deleted == Discards(c)
              moved(x) == IF x = c THEN n ELSE x
              value(f, new, blank) ==
                  [d \in Card |-> IF d = n THEN new
                                  ELSE IF d = c /\ deleted THEN blank ELSE f[d]]
          IN  /\ place' = [place EXCEPT ![n] = At(p, "table"), ![c] = Nowhere]
              /\ id' = value(id, nextCardId[p], 0)
              /\ kind' = value(kind, k, "deck")
              /\ faceDown' = value(faceDown, faceDown[c], FALSE)
              /\ parent' = [d \in Card |-> IF d = n THEN parent[c]
                                           ELSE IF d = c THEN None ELSE moved(parent[d])]
              /\ stash' = [stash EXCEPT ![c] = None,
                                        ![n] = IF deleted THEN stash[c] ELSE c]
              /\ arrows' = [o \in Player |->
                    {[from |-> moved(a.from), to |-> moved(a.to)] : a \in arrows[o]}]

\* Clients draw no arrow from a card to itself.
CmdCreateArrow(p) ==
    /\ p \in InPlay
    /\ Cardinality(arrows[p]) < MaxArrows[p]
    /\ \E c \in Card, t \in Card \cup seated :
          /\ IsPublic(c) /\ (t \in Card => IsPublic(t)) /\ t # c
          /\ [from |-> c, to |-> t] \notin arrows[p]
          /\ arrows' = [arrows EXCEPT ![p] = @ \cup {[from |-> c, to |-> t]}]
    /\ UNCHANGED <<cards, nextCardId, lastDrawList, grants, table>>

CmdDeleteArrow(p) ==
    /\ p \in InPlay
    /\ \E a \in arrows[p] : arrows' = [arrows EXCEPT ![p] = @ \ {a}]
    /\ UNCHANGED <<cards, nextCardId, lastDrawList, grants, table>>

----------------------------------------------------------------------------
Init ==
    /\ place = [c \in Card |-> Nowhere]
    /\ id = [c \in Card |-> 0]
    /\ faceDown = [c \in Card |-> FALSE]
    /\ kind = [c \in Card |-> "deck"]
    /\ parent = [c \in Card |-> None]
    /\ stash = [c \in Card |-> None]
    /\ nextCardId = [p \in Player |-> 0]
    /\ lastDrawList = [p \in Player |-> <<>>]
    /\ arrows = [p \in Player |-> {}]
    /\ grants = {}
    /\ seated = Player /\ conceded = {} /\ started = FALSE

Next ==
    \/ DoStartGame
    \/ \E p \in Player :
          \/ JoinGame(p) \/ RemovePlayer(p) \/ CmdConcede(p) \/ CmdUnconcede(p)
          \/ DrawCards(p) \/ DrawCryptCards(p) \/ CmdUndoDraw(p)
          \/ CmdMoveCard(p) \/ CmdFlipCard(p)
          \/ CmdRevealCards(p) \/ CmdShuffle(p)
          \/ CmdAttachCard(p) \/ CmdCreateToken(p) \/ CmdTransform(p)
          \/ CmdCreateArrow(p) \/ CmdDeleteArrow(p)

Spec == Init /\ [][Next]_vars

----------------------------------------------------------------------------
\* The shape of the state; lastDrawList holds ids that were handed out.
TypeOK ==
    /\ place \in [Card -> Place \cup {Nowhere}]
    /\ id \in [Card -> Nat]
    /\ faceDown \in [Card -> BOOLEAN]
    /\ kind \in [Card -> {"deck", "token", "created"}]
    /\ parent \in [Card -> Card \cup {None}]
    /\ stash \in [Card -> Card \cup {None}]
    /\ nextCardId \in [Player -> Nat]
    /\ lastDrawList \in [Player -> Seq(Nat)]
    /\ arrows \in [Player -> SUBSET Arrow]
    /\ grants \subseteq Place \X Player
    /\ seated \subseteq Player /\ conceded \subseteq seated /\ started \in BOOLEAN

Placed(c) == place[c] # Nowhere

\* Two cards in the zones of one player never answer to the same id, whatever
\* was drawn, turned over, stolen, transformed or brought back (getCard() and
\* every command name a card by player, zone and id).
IdsAreUnique ==
    \A c, d \in Card :
        (c # d /\ Placed(c) /\ place[c].player = place[d].player) => id[c] # id[d]

\* Attachments are one level deep, between cards on tables: the comment at
\* server_player.cpp:1169 ("enough to make sure cards don't get attached to a
\* card that is not on the table"), kept by every later move, transformation,
\* concession and departure.
AttachmentsOnTable ==
    \A c \in Card : parent[c] # None =>
        OnTable(c) /\ OnTable(parent[c]) /\ parent[parent[c]] = None

\* An arrow joins cards that lie face to all in public zones of players in play,
\* or points at a player who is seated: no arrow outlives what it joins.
ArrowsJoinPublicCards ==
    \A p \in Player : \A a \in arrows[p] :
        IsPublic(a.from) /\ (IF a.to \in Card THEN IsPublic(a.to) ELSE a.to \in seated)

\* server_card.h:186: "Stashed cards can't themselves have stashed cards, and
\* tokens can't be stashed."  And a stashed card lies under one placed card only.
StashIsPlain ==
    \A c \in Card : stash[c] # None =>
        /\ Placed(c) /\ ~Placed(stash[c])
        /\ kind[stash[c]] # "token" /\ stash[stash[c]] = None
        /\ \A d \in Card : stash[d] = stash[c] => d = c

\* What makes the two inductive: cards lie only with players in play, tokens only
\* on tables, and every id is one that the card's holder has handed out.
HoldersInPlay == \A c \in Card : Placed(c) => place[c].player \in InPlay
NobodyConcededYet == ~started => conceded = {}
TokensOnTable == \A c \in Card : kind[c] = "token" => OnTable(c)
IdsBelow == \A c \in Card : Placed(c) => id[c] < nextCardId[place[c].player]

CardInv == TypeOK /\ HoldersInPlay /\ NobodyConcededYet /\ TokensOnTable /\ StashIsPlain
IdInv == CardInv /\ IdsBelow /\ IdsAreUnique

\* A card that came out of a deck is in some zone or stashed until the player at
\* whose table it is goes out of play; no sequence of tokens swallows it.
Exists(c) == Placed(c) \/ \E d \in Card : stash[d] = c
DeckCardsAreKept ==
    [][\A c \in Card :
          (Exists(c) /\ kind[c] = "deck" /\ ~Exists(c)') =>
              \E p \in Player : c \in Cleared({p}) /\ p \notin InPlay']_vars

============================================================================
