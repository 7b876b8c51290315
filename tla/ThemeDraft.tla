----------------------------- MODULE ThemeDraft -----------------------------
(***************************************************************************)
(* Theme mode of drafts.ts: every player is dealt a private pack of         *)
(* different cards from an own theme (a cube), one pack a round, and takes  *)
(* one card of it.  A round is over when everybody who was dealt a pack has *)
(* picked.  An operator returns the set of tables it may lead to, as packs *)
(* are random.                                                             *)
(*                                                                         *)
(* deal[w][o] is the pack of round w as it was dealt to seat o; no row      *)
(* means an empty one.  Whoever chose the themes (host, players, chance),  *)
(* what counts is which seat has which.                                    *)
(***************************************************************************)
EXTENDS DraftTable

(* Mutant: a theme that just fills the deck will do.                       *)
RequiredForDeck == MainTarget

(* preflightThemes: is a theme large enough for the whole main phase?      *)
Required == IF Burn THEN MainTarget * PackSize ELSE MainTarget + PackSize - 1
Reach(pool) == Size([c \in DOMAIN pool |-> Least(pool[c], MaxCopies)])
LargeEnough(k) ==
    /\ Size(themes[k].main) >= Required
    /\ CopyLimit => Reach(themes[k].main) >= Required

(* assignThemes: who gets which theme.                                     *)
Assignments ==
    {a \in [Seats -> config.themes] : config.unique => IsInjective(a)}

(* What the theme of seat s still offers in this round: with burning,      *)
(* without what the seat was dealt before, otherwise without what it took.  *)
Used(t, s, c) ==
    IF Burn THEN SumFunction([v \in 1..(t.wave - 1) |-> t.deal[v][s][c]]) ELSE t.pool[s][c]
Candidates(t, s) ==
    {c \in Names : themes[t.theme[s]][Phase(t.wave)][c] > Used(t, s, c) /\ ~Capped(t, s, c)}

(* Different cards, as many as a pack has or the theme still offers.       *)
PacksFor(t, s) ==
    LET names == IF s \in t.finished THEN {} ELSE Candidates(t, s)
        size == Least(PackSize, Cardinality(names))
    IN  {[c \in Names |-> IF c \in chosen THEN 1 ELSE 0] : chosen \in kSubset(size, names)}

DealtTo(t) == {o \in Seats : t.deal[t.wave][o] # Empty}

(* openThemeRound for one seat: who finds the extra pool, or the only pool, *)
(* exhausted has finished.                                                 *)
DealPack(t, s) ==
    LET over == Phase(t.wave) = "extra" \/ ExtraSize = 0
    IN  {[t EXCEPT !.deal[t.wave][s] = pack,
                   !.packs[t.wave][s].cards = pack,
                   !.finished = IF over /\ pack = Empty THEN @ \cup {s} ELSE @]
         : pack \in PacksFor(t, s)}

OpenRound(t, w) ==
    LET bare == [t EXCEPT !.wave = w, !.picked = {},
                          !.deal = With(@, w, [o \in Seats |-> Empty]),
                          !.packs = With(@, w, [o \in Seats |-> [at |-> o, cards |-> Empty]])]
        dealt[i \in 0..N] ==
            IF i = 0 THEN {bare} ELSE UNION {DealPack(u, Joined[i]) : u \in dealt[i - 1]}
    IN  dealt[N]

(* Mutant: a round that nobody was dealt a pack in is waited for.          *)
RoundsOnce(t, w) == OpenRound(t, w)

(* settleThemeRound: rounds that deal nothing are passed over; a draft      *)
(* that finds no further pack is over.                                     *)
RoundsFrom(t, w) ==
    LET opened[v \in w..Waves] ==
            IF v = w THEN OpenRound(t, w)
            ELSE UNION {IF DealtTo(u) # {} THEN {u} ELSE OpenRound(u, v) : u \in opened[v - 1]}
    IN  {IF DealtTo(u) = {} THEN Complete(u) ELSE u : u \in opened[Waves]}

(* pickThemeCard: none when the call is refused.                           *)
TakeOwn(t, s, c) ==
    IF t.status # "active" \/ s \notin Waiting(t) \/ c \notin Legal(t, s) THEN {}
    ELSE LET u == Taken(t, s, c, Waves)
         IN  IF Cardinality(u.picked) < Cardinality(DealtTo(u)) THEN {u}
             ELSE IF u.wave >= Waves THEN {Complete(u)}
             ELSE RoundsFrom(u, u.wave + 1)

(* startThemeDraft.                                                        *)
StartedWith(t, assigned) ==
    IF \E s \in Seats : ~LargeEnough(assigned[s]) THEN {}
    ELSE RoundsFrom([t EXCEPT !.status = "active", !.theme = assigned], 1)
=============================================================================
