------------------------------- MODULE Draft -------------------------------
(***************************************************************************)
(* A draft from its start to its end (packages/shared/src/services/drafts.ts) *)
(* with the pick route of the web app and the worker's timer.  Every action *)
(* is one immediate transaction; which way of drafting it follows is in    *)
(* the table's mode.                                                       *)
(***************************************************************************)
EXTENDS BoosterDraft, ThemeDraft

(* The tables after seat s took card c: none when the call is refused.     *)
Take(t, s, c) == IF IsTheme THEN TakeOwn(t, s, c) ELSE TakePassed(t, s, c)

(* Mutant: nobody is made to take a card over the cap.                     *)
ExpiredUnforced(t) ==
    LET same(u) == u.status = "active" /\ u.wave = t.wave /\ u.step = t.step
        late(s) == s \notin t.finished \cup Acted(t)
        pick(u, s) ==
            IF late(s) /\ same(u) /\ s \in Waiting(u) /\ Legal(u, s) # {}
            THEN UNION {Take(u, s, c) : c \in Names}
            ELSE {u}
        picked[i \in 0..N] ==
            IF i = 0 THEN {t} ELSE UNION {pick(u, Joined[i]) : u \in picked[i - 1]}
    IN  IF IsTheme THEN picked[N] ELSE UNION {Settle(u) : u \in picked[N]}

(* expireCurrentPickStep: everyone the step still waits for takes a random  *)
(* card, until the step is over.                                           *)
Expired(t) ==
    LET same(u) == u.status = "active" /\ u.wave = t.wave /\ u.step = t.step
        late(s) == s \notin t.finished \cup Acted(t)
        pick(u, s) ==
            IF late(s) /\ same(u) /\ s \in Waiting(u) /\ Options(u, s) # {}
            THEN UNION {Take(u, s, c) : c \in Names}
            ELSE {u}
        picked[i \in 0..N] ==
            IF i = 0 THEN {t} ELSE UNION {pick(u, Joined[i]) : u \in picked[i - 1]}
    IN  IF IsTheme THEN picked[N] ELSE UNION {Settle(u) : u \in picked[N]}

-----------------------------------------------------------------------------
(* Actions.                                                                *)

(* A new step comes with a new deadline; a draft that ended has none.      *)
Commit(t) ==
    /\ table' = t /\ UNCHANGED <<config, themes, edits>>
    /\ due' = (due /\ t.status = "active" /\ <<t.wave, t.step>> = <<table.wave, table.step>>)

Init ==
    /\ config \in Tables /\ themes \in ThemePools(config)
    /\ table = Blank /\ edits = 0 /\ due = FALSE

Start ==
    /\ table.status = "pending"
    /\ \E t \in IF IsTheme THEN UNION {StartedWith(table, a) : a \in Assignments}
               ELSE UNION {StartedFrom(table, main, extra) :
                              main \in MainDecks(config), extra \in ExtraDecks(config)} : Commit(t)

(* Showing a seat its options swaps cards like settling does.              *)
View(s) ==
    /\ ~IsTheme /\ table.status = "active" /\ s \in Waiting(table)
    /\ table' \in Swap(table, s)
    /\ UNCHANGED <<config, themes, edits, due>>

(* recordManualPick: a late pick first lets the step expire, and is        *)
(* dropped when the expiry already took a card for this seat.              *)
Pick(s, c) ==
    /\ table.status = "active"
    /\ \E t \in IF due THEN Expired(table) ELSE {table} :
           IF s \in table.picked \/ Count(t, s) > Count(table, s) THEN Commit(t)
           ELSE \E u \in Take(t, s, c) : Commit(u)

(* The web route and the worker pick for bots without an expiry.           *)
BotPick(s, c) ==
    /\ s \in Bots
    /\ \E u \in Take(table, s, c) : Commit(u)

TimeUp ==
    /\ table.status = "active" /\ ~due
    /\ due' = TRUE
    /\ UNCHANGED <<config, table, themes, edits>>

(* The worker's tick finds the deadline passed.                            *)
Expire ==
    /\ table.status = "active" /\ due
    /\ \E t \in Expired(table) : Commit(t)

Cancel ==
    /\ table.status \in {"pending", "active"}
    /\ table' = [Blank EXCEPT !.status = "cancelled", !.wave = table.wave, !.step = table.step]
    /\ due' = FALSE /\ UNCHANGED <<config, themes, edits>>

(* The creator of a theme changes it, although a draft reads it round by    *)
(* round: a card is added, removed or has other copies ...                 *)
Edit(k, contents) ==
    /\ table.status = "active" /\ edits < config.maxEdits
    /\ themes' = [themes EXCEPT ![k] = contents]
    /\ edits' = edits + 1
    /\ UNCHANGED <<config, table, due>>

EditCard(k, pool, c, copies) ==
    themes[k][pool][c] # copies /\ Edit(k, [themes[k] EXCEPT ![pool][c] = copies])

(* ... or the theme is deleted: its cards are gone even when the row of the *)
(* theme stays, because a draft refers to it.                              *)
DeleteTheme(k) ==
    LET none == [c \in DOMAIN themes[k].main |-> 0]
    IN  Edit(k, [main |-> none, extra |-> none])

Next ==
    \/ Start
    \/ \E s \in Seats : View(s)
    \/ \E s \in Seats \ Bots, c \in Names : Pick(s, c)
    \/ \E s \in Bots, c \in Names : BotPick(s, c)
    \/ TimeUp
    \/ Expire
    \/ Cancel
    \/ \E k \in config.themes :
          \/ \E c \in MainNames, copies \in 0..MaxCopies : EditCard(k, "main", c, copies)
          \/ \E c \in ExtraNames, copies \in 0..MaxCopies : EditCard(k, "extra", c, copies)
          \/ DeleteTheme(k)

Spec == Init /\ [][Next]_vars

(* Time passes and the worker's timer ticks every second; nobody has to    *)
(* pick.                                                                   *)
FairSpec == Spec /\ WF_vars(TimeUp) /\ WF_vars(Expire)

-----------------------------------------------------------------------------
(* Properties.                                                             *)

Bag == [Names -> Nat]

(* The shape of the rows.                                                  *)
TypeOK ==
    /\ config \in Tables
    /\ themes \in [config.themes -> Theme] /\ edits \in 0..config.maxEdits
    /\ table.theme = << >> \/ table.theme \in Assignments
    /\ table.status \in {"pending", "active", "completed", "cancelled"}
    /\ table.wave \in 1..Waves /\ table.step \in Nat \ {0}
    /\ DOMAIN table.deal \subseteq 1..Waves
    /\ table.deal \in [DOMAIN table.deal -> [Seats -> Bag]]
    /\ DOMAIN table.packs \subseteq DOMAIN table.deal
    /\ table.packs \in [DOMAIN table.packs -> [Seats -> [at : Seats, cards : Bag]]]
    /\ table.undealt \in Seq(Names)
    /\ table.pool \in [Seats -> Bag] /\ table.main \in [Seats -> Nat]
    /\ {table.picked, table.passed, table.finished} \subseteq SUBSET Seats
    /\ due \in BOOLEAN

(* The rotation is a permutation: the packs of a wave sit at distinct      *)
(* seats, also after players finish early or drop empty packs              *)
(* (advanceSeatIndex, drafts.ts: "skipping seats would let two live packs  *)
(* converge on the same player").                                          *)
OnePackPerSeat ==
    \A w \in DOMAIN table.packs : \A o, q \in Seats :
        table.packs[w][o].at = table.packs[w][q].at => o = q

(* While a draft runs, the step waits for somebody, and only for seats that *)
(* have a card they may take: no full cap, dry theme or empty pack leaves   *)
(* it to the timer, or to nobody, to go on.  startDraft and every pick must *)
(* leave it so.                                                            *)
SomeoneCanAct ==
    table.status = "active" =>
        /\ Waiting(table) # {}
        /\ \A s \in Waiting(table) : Options(table, s) # {}

(* Swaps, leftovers and picks move cards and never make or lose one.       *)
Dealt(c) == SumFunction([w \in DOMAIN table.packs |->
                SumFunction([o \in Seats |-> table.deal[w][o][c]])])
OnTable(c) ==
    SumFunction([w \in DOMAIN table.packs |->
        SumFunction([o \in Seats |-> table.packs[w][o].cards[c]])])
    + SumFunction([s \in Seats |-> table.pool[s][c]])
    + Cardinality({i \in DOMAIN table.undealt : table.undealt[i] = c})

(* No step of a running draft changes how many cards of a name are in      *)
(* packs, pools and the undealt pile together, unless a wave is opened from *)
(* the deal or leftovers are burned.  A theme draft deals nobody more       *)
(* copies of a card than the theme has, counting what was burned, or else   *)
(* what was taken: a card that was passed over may come again.             *)
FromTheme(s, c) ==
    LET k == table.theme[s]
        shown == IF Burn THEN SumFunction([w \in DOMAIN table.deal |-> table.deal[w][s][c]])
                 ELSE table.pool[s][c] + table.packs[table.wave][s].cards[c]
    IN  shown <= Max({themes[k].main[c], themes[k].extra[c]})

CardsConserved ==
    [][ table.status = "active" /\ table'.status \in {"active", "completed"} =>
          /\ \A c \in Names :
                LET opened == Dealt(c)' - Dealt(c)
                IN  /\ OnTable(c)' <= OnTable(c) + opened
                    /\ ~Burn => OnTable(c)' = OnTable(c) + opened
          /\ IsTheme /\ edits' = 0 /\ table'.status = "active" =>
                \A s \in Seats, c \in Names : FromTheme(s, c)' ]_vars

(* A player is made to take a fourth copy only when neither the pack nor   *)
(* the undealt cards of the phase offer anything else (assertUnderCopyCap, *)
(* prepareBoosterPack), whatever the other players swapped meanwhile; in a *)
(* theme draft never, however the themes are changed.                      *)
Exceeds(s) == \E c \in Names : table'.pool[s][c] > Max({table.pool[s][c], MaxCopies})
ForcedOnlyWhenNothingElse ==
    [][ \A s \in Seats :
          (CopyLimit /\ Exceeds(s) /\ \A q \in Seats \ {s} : table'.pool[q] = table.pool[q]) =>
              /\ ~IsTheme
              /\ \A c \in InPack(table, s) : table.pool[s][c] >= MaxCopies
              /\ \A i \in DOMAIN table.undealt :
                    (ExtraSize > 0 /\ (table.undealt[i] \in MainNames <=> Phase(table.wave) = "extra"))
                    \/ table.pool[s][table.undealt[i]] >= MaxCopies ]_vars

(* reachableBoosterMainPicks (draft-size.ts): the totals the room shows to *)
(* the players while they draft, computed from the sizes of the packs: who  *)
(* holds a pack, what is left of it and what each seat has, step by step.   *)
ReachStep(x, w, k) ==
    LET taken == {o \in Seats : x.rest[o] > 0 /\ x.total[x.at[o]] < MainTarget}
    IN  [at |-> [o \in Seats |->
                    IF k % PicksPerStep = 0 THEN (x.at[o] + Direction(w)) % N ELSE x.at[o]],
         rest |-> [o \in Seats |-> x.rest[o] - (IF o \in taken THEN 1 ELSE 0)],
         total |-> [s \in Seats |-> x.total[s] + (IF \E o \in taken : x.at[o] = s THEN 1 ELSE 0)]]

(* No wave is longer: every pack visits a seat that still drafts each turn *)
(* of the table.                                                           *)
WaveSteps == N * (PackSize + PicksPerStep)

Unstarted(deal, w, total) ==
    [at |-> [o \in Seats |-> o], rest |-> [o \in Seats |-> Size(deal[w][o])], total |-> total]

(* Wave w, entered with these totals, after each of its steps: one state,  *)
(* kept in a set.                                                          *)
Walk(deal, w, total) ==
    LET walk[k \in 0..WaveSteps] ==
            IF k = 0 THEN {Unstarted(deal, w, total)} ELSE {ReachStep(x, w, k) : x \in walk[k - 1]}
    IN  walk

(* The totals after each wave.                                             *)
Totals(deal) ==
    LET after[w \in 0..MainRounds] ==
            IF w = 0 THEN {[s \in Seats |-> 0]}
            ELSE UNION {{x.total : x \in Walk(deal, w, total)[WaveSteps]} : total \in after[w - 1]}
    IN  after

Reachable == CHOOSE total \in Totals(table.deal)[MainRounds] : TRUE

(* The room's promise is kept: capped packs, swaps, forced picks and late  *)
(* players never change how many main cards a seat ends up with.           *)
MainTotalsAsShown ==
    (table.status = "completed" \/ (table.status = "active" /\ Phase(table.wave) = "extra")) =>
        \A s \in Seats : table.main[s] = Reachable[s]

(* Everybody gets a full extra deck, even when the main pool ran out: the   *)
(* extra phase counts from what a seat has, not from what was planned.     *)
ExtraFull ==
    table.status = "completed" => \A s \in Seats : Count(table, s) = table.main[s] + ExtraSize

(* The check at the start of a theme draft holds what its messages say: a   *)
(* theme that passes fills the main deck, whatever is dealt, burned and     *)
(* taken, and what the extra pool has is drafted to the last card.  A theme *)
(* that is changed meanwhile may run dry.                                  *)
ThemesSuffice ==
    table.status = "completed" /\ edits = 0 =>
        \A s \in Seats :
            LET extra == Least(ExtraSize, Size([c \in Names |->
                            LET copies == themes[table.theme[s]].extra[c]
                            IN  IF CopyLimit THEN Least(copies, MaxCopies) ELSE copies]))
            IN  /\ table.main[s] = MainTarget
                /\ Count(table, s) <= MainTarget + extra
                /\ ~Burn => Count(table, s) = MainTarget + extra

(* A draft ends with the totals that the room, or the check of its themes,  *)
(* promised.                                                               *)
TotalsAsShown == IF IsTheme THEN ThemesSuffice ELSE MainTotalsAsShown /\ ExtraFull

(* Without any pick by a player the draft still comes to its end, through  *)
(* empty packs, dry themes and themes that are changed or deleted.         *)
DraftEnds == table.status = "active" ~> table.status # "active"

=============================================================================
