---------------------------- MODULE BoosterDraft ----------------------------
(***************************************************************************)
(* Booster mode of drafts.ts: packs go round the table, each seat takes one *)
(* card per step, and a copy cap swaps cards of a pack for undealt ones.    *)
(*                                                                         *)
(* Drafts without draft_deal rows (older than the deal table) are left out. *)
(* A transformer of the table returns the set of tables it may lead to: a   *)
(* swap draws its outgoing card at random.                                 *)
(***************************************************************************)
EXTENDS DraftTable

Alternate == config.alternate
Direction(w) == IF w % 2 = 0 /\ Alternate THEN -1 ELSE 1

-----------------------------------------------------------------------------
(* The deal.                                                               *)

BagOf(cards) == [c \in Names |-> Cardinality({i \in DOMAIN cards : cards[i] = c})]

(* Where the cards of wave w start, and how many of them each seat gets.   *)
WaveStart(deck, w) == Least(Len(deck), (w - 1) * N * PackSize)
PackCount(deck, w, o) ==
    LET rest == Least(Len(deck) - WaveStart(deck, w), N * PackSize)
    IN  rest \div N + (IF o < rest % N THEN 1 ELSE 0)
PackStart(deck, w, o) ==
    LET rest == Least(Len(deck) - WaveStart(deck, w), N * PackSize)
    IN  WaveStart(deck, w) + o * (rest \div N) + Least(o, rest % N)

Packs(main, extra) ==
    [w \in 1..Waves |-> [o \in Seats |->
        IF Phase(w) = "extra"
        THEN BagOf(SubSeq(extra, o * ExtraSize + 1, (o + 1) * ExtraSize))
        ELSE LET from == PackStart(main, w, o)
             IN  BagOf(SubSeq(main, from + 1, from + PackCount(main, w, o)))]]

Undealt(main, extra) ==
    SubSeq(main, WaveStart(main, MainRounds + 1) + 1, Len(main))
        \o SubSeq(extra, N * ExtraSize + 1, Len(extra))

-----------------------------------------------------------------------------
(* Swaps.                                                                  *)

(* Undealt cards of the current phase that the seat may still take.        *)
Remainder(t) ==
    {i \in DOMAIN t.undealt :
        ExtraSize > 0 => (t.undealt[i] \in ExtraNames <=> Phase(t.wave) = "extra")}
Replacements(t, s) == {i \in Remainder(t) : ~Capped(t, s, t.undealt[i])}

(* A pack with card in for card out.                                       *)
Traded(pack, out, in) ==
    [c \in Names |-> pack[c] - (IF c = out THEN 1 ELSE 0) + (IF c = in THEN 1 ELSE 0)]

(* Mutant: the card that leaves the pack is not returned to the pile.      *)
SwapAway(t, s) ==
    IF ~CopyLimit \/ PacksAt(t, s) = {} \/ Legal(t, s) # {} \/ Replacements(t, s) = {}
    THEN {t}
    ELSE LET i == Min(Replacements(t, s))
             o == PackAt(t, s)
             pack == t.packs[t.wave][o].cards
         IN  {[t EXCEPT
                 !.undealt = RemoveAt(@, i),
                 !.packs[t.wave][o].cards = Traded(pack, out, t.undealt[i])]
              : out \in InPack(t, s)}

(* prepareBoosterPack: a fully capped pack trades one of its cards for the *)
(* first undealt card its holder may take.                                 *)
Swap(t, s) ==
    IF ~CopyLimit \/ PacksAt(t, s) = {} \/ Legal(t, s) # {} \/ Replacements(t, s) = {}
    THEN {t}
    ELSE LET i == Min(Replacements(t, s))
             o == PackAt(t, s)
             pack == t.packs[t.wave][o].cards
         IN  {[t EXCEPT
                 !.undealt = Append(RemoveAt(@, i), out),
                 !.packs[t.wave][o].cards = Traded(pack, out, t.undealt[i])]
              : out \in InPack(t, s)}

-----------------------------------------------------------------------------
(* settleBoosterStep.                                                      *)

OpenWave(t, w) ==
    [t EXCEPT !.packs = With(@, w, [o \in Seats |-> [at |-> o, cards |-> t.deal[w][o]]]),
              !.wave = w, !.step = 1, !.picked = {}, !.passed = {}]

(* Cards of a name that nobody took, and all of them as a sequence.         *)
Unpicked(t, c) ==
    SumFunction([w \in DOMAIN t.packs |-> SumFunction([o \in Seats |-> t.packs[w][o].cards[c]])])
Leftovers(t) ==
    LET copies(c) == [j \in 1..Unpicked(t, c) |-> c]
    IN  FlattenSeq([i \in 1..Cardinality(Names) |-> copies(SetToSeq(Names)[i])])

(* Mutant: leftovers return to the pile and stay in their packs.           *)
FinishMainTwice(t) ==
    IF Phase(t.wave) = "extra" THEN t ELSE [t EXCEPT !.undealt = @ \o Leftovers(t)]

(* finishCappedMainPacks: what nobody took in the main waves goes back to  *)
(* the undealt pile, or is burned.                                         *)
FinishMain(t) ==
    IF Phase(t.wave) = "extra" THEN t
    ELSE [t EXCEPT
            !.packs = [w \in DOMAIN @ |-> [o \in Seats |-> [@[w][o] EXCEPT !.cards = Empty]]],
            !.undealt = IF Burn THEN @ ELSE @ \o Leftovers(t)]

(* Mutants: the seat number is not wrapped; an emptied pack stays.         *)
AdvanceUnwrapped(t) ==
    [t EXCEPT
        !.packs[t.wave] =
            IF t.step % PicksPerStep # 0 THEN @
            ELSE [o \in Seats |-> [@[o] EXCEPT !.at = @ + Direction(t.wave)]],
        !.step = @ + 1, !.picked = {}, !.passed = {}]
AdvanceFilled(t) ==
    [t EXCEPT
        !.packs[t.wave] =
            IF t.step % PicksPerStep # 0 THEN @
            ELSE [o \in Seats |-> IF @[o].cards = Empty THEN @[o]
                                  ELSE [@[o] EXCEPT !.at = (@ + Direction(t.wave)) % N]],
        !.step = @ + 1, !.picked = {}, !.passed = {}]

(* Every pack moves one seat once PicksPerStep picks have been made of it. *)
Advance(t) ==
    LET row(o) == t.packs[t.wave][o]
        turned == [o \in Seats |-> [row(o) EXCEPT !.at = (@ + Direction(t.wave)) % N]]
    IN  [t EXCEPT !.packs[t.wave] = IF t.step % PicksPerStep # 0 THEN @ ELSE turned,
                  !.step = @ + 1, !.picked = {}, !.passed = {}]

Rewind(t) == [t EXCEPT !.packs[t.wave] = [o \in Seats |-> [@[o] EXCEPT !.at = o]]]

Stop(t) == [t |-> t, idle |-> 0, repaired |-> FALSE, running |-> FALSE]
Fresh(t) == [t |-> t, idle |-> 0, repaired |-> FALSE, running |-> TRUE]

PassEmptyHanded(t) ==
    [t EXCEPT !.passed = @ \cup {s \in Drafting(t) \ Acted(t) : PacksAt(t, s) = {}}]

(* One round of the loop: the waves' end, a wait, a repair or a rotation.  *)
Round(x) ==
    LET t == PassEmptyHanded(x.t)
        idle == x.idle + 1
        stuck == idle > (N + 1) * PicksPerStep
        exhausted == \A o \in Seats : t.packs[t.wave][o].cards = Empty
        swept == IF t.wave = MainRounds THEN FinishMain(t) ELSE t
    IN  CASE Drafting(t) = {} /\ Phase(t.wave) = "main" /\ ExtraSize > 0 ->
                 Fresh(OpenWave(FinishMain(t), MainRounds + 1))
          [] Drafting(t) = {} /\ ~(Phase(t.wave) = "main" /\ ExtraSize > 0) ->
                 Stop(Complete(FinishMain(t)))
          [] Drafting(t) # {} /\ ~(Drafting(t) \subseteq Acted(t)) -> Stop(t)
          [] OTHER ->
                 IF stuck /\ ~x.repaired
                 THEN [Fresh(Rewind(t)) EXCEPT !.repaired = TRUE]
                 ELSE IF ~stuck /\ ~exhausted
                 THEN [x EXCEPT !.t = Advance(t), !.idle = idle]
                 ELSE IF t.wave >= Waves THEN Stop(Complete(swept))
                 ELSE Fresh(OpenWave(swept, t.wave + 1))

(* A call turns the table at most this often: a wave lasts one turn, or two *)
(* with a repair, before somebody can act or it ends.                      *)
LoopBound == Waves * (2 * (N + 1) * PicksPerStep + 3)

(* Exactly one state, kept in a set like every outcome.                    *)
Looped(t) ==
    LET loop[i \in 0..LoopBound] ==
            IF i = 0 THEN {Fresh(t)}
            ELSE {IF x.running THEN Round(x) ELSE x : x \in loop[i - 1]}
    IN  loop[LoopBound]

(* The loop asks every seat it waits for what that seat may take, in the   *)
(* order of joining, which swaps cards of fully capped packs.              *)
SwapFor(outcomes, s) ==
    UNION {IF t.status = "active" /\ s \in Waiting(t) THEN Swap(t, s) ELSE {t} : t \in outcomes}

Settle(t) ==
    IF t.status # "active" THEN {t}
    ELSE LET asked[i \in 0..N] ==
                 IF i = 0 THEN {x.t : x \in Looped(t)} ELSE SwapFor(asked[i - 1], Joined[i])
         IN  asked[N]

-----------------------------------------------------------------------------
(* pickCard.                                                               *)

CardsToDraft(t, s) == IF Phase(t.wave) = "extra" THEN Target(t, s) ELSE MainTarget + ExtraSize

(* Mutant: the swap is not repeated at the pick.                           *)
TakeAsShown(t, s, c) ==
    IF t.status # "active" \/ s \notin Waiting(t) \/ c \notin Options(t, s) THEN {}
    ELSE Settle(Taken(t, s, c, CardsToDraft(t, s)))

(* The tables after seat s took card c: none when the call is refused.     *)
TakePassed(t, s, c) ==
    IF t.status # "active" \/ s \notin Waiting(t) THEN {}
    ELSE UNION {Settle(Taken(u, s, c, CardsToDraft(u, s)))
                : u \in {u \in Swap(t, s) : c \in Options(u, s)}}

(* startDraft with shuffled pools.                                         *)
StartedFrom(t, main, extra) ==
    IF Len(main) = 0 \/ Len(extra) < N * ExtraSize THEN {}
    ELSE {OpenWave([t EXCEPT !.status = "active", !.deal = Packs(main, extra),
                             !.undealt = Undealt(main, extra)], 1)}
=============================================================================
