----------------------------- MODULE DraftTable -----------------------------
(***************************************************************************)
(* The rows of a draft (packages/shared/src/services/drafts.ts) and what    *)
(* both ways of drafting read from them: packs that go round the table     *)
(* (BoosterDraft) and private packs from a theme (ThemeDraft).             *)
(*                                                                         *)
(* Abstractions: a card is its name, which is what the copy cap counts; the *)
(* cards of a pack are a bag, because nothing but the display uses their    *)
(* order; a shuffled deck is a sequence chosen at start; rows of passes and *)
(* picks are kept for the current step only, as no code reads older ones    *)
(* but for counts.                                                         *)
(***************************************************************************)
EXTENDS Integers, Sequences, FiniteSets, SequencesExt, FiniteSetsExt, Functions

CONSTANTS
    MainNames,      \* names of the main pool
    ExtraNames,     \* names of the separate extra deck pool
    Tables,         \* the configured tables a draft may be played at
    MainDecks(_),   \* booster: shuffled main pools a draft at a table may start with
    ExtraDecks(_),  \* booster: shuffled extra pools it may start with
    ThemePools(_)   \* theme: what the themes may hold when it starts

Table == [mode : {"booster", "theme"},
          n : Nat \ {0, 1},            \* number of seats
          joined : Seq(Nat),           \* the seats, in the order in which their players joined
          bots : SUBSET Nat,           \* seats played by the server
          mainTarget : Nat \ {0},      \* cardsPerPlayer
          packSize : Nat \ {0},        \* packSize, themePackSize
          extraSize : Nat,             \* extraDeckSize, 0 when the phase is disabled
          picksPerStep : {1, 2},
          copyLimit : BOOLEAN,         \* is the copy cap on?
          maxCopies : Nat \ {0},       \* MAX_COPIES_PER_PLAYER
          alternate : BOOLEAN,         \* alternatePassDirection
          burn : BOOLEAN,              \* burnUnpicked
          themes : SUBSET STRING,      \* allowedCubeIds
          unique : BOOLEAN,            \* uniqueThemes
          maxEdits : Nat]              \* bound: changes of the themes during the draft

Pool == [MainNames \cup ExtraNames -> Nat]
Theme == [main : Pool, extra : Pool]

(* A card is in one pool of a theme (the key of cube_cards), and without an *)
(* extra phase all that is drafted is in the main pool.                    *)
Filed(t, theme) ==
    \A c \in MainNames \cup ExtraNames :
        /\ theme.main[c] = 0 \/ theme.extra[c] = 0
        /\ t.extraSize = 0 /\ c \notin MainNames => theme.main[c] = 0

ASSUME NamesAssumption == IsFiniteSet(MainNames) /\ IsFiniteSet(ExtraNames)

ASSUME TableAssumption ==
    \A t \in Tables :
        /\ t \in Table
        /\ t.joined \in [1..t.n -> 0..(t.n - 1)] /\ Range(t.joined) = 0..(t.n - 1)
        /\ t.bots \subseteq 0..(t.n - 1)
        /\ MainDecks(t) \subseteq Seq(MainNames)
        /\ ExtraDecks(t) \subseteq IF t.extraSize > 0 THEN Seq(ExtraNames) ELSE {<< >>}
        /\ ThemePools(t) \subseteq [t.themes -> Theme]
        /\ \A p \in ThemePools(t), k \in t.themes : Filed(t, p[k])
        /\ t.mode = "theme" => t.packSize >= 2 /\ t.picksPerStep = 1
        /\ t.extraSize > 0 => MainNames \cap ExtraNames = {}

VARIABLES
    config,         \* the table of this draft
    table,          \* the rows of the draft, draft_deal among them
    themes,         \* the cards of its themes (cube_cards)
    edits,          \* how often those were changed since it started
    due             \* has pick_deadline_at passed?

vars == <<config, table, themes, edits, due>>

IsTheme == config.mode = "theme"
N == config.n
Seats == 0..(N - 1)
Joined == config.joined
Bots == config.bots
MainTarget == config.mainTarget
PackSize == config.packSize
ExtraSize == config.extraSize
PicksPerStep == config.picksPerStep
CopyLimit == config.copyLimit
MaxCopies == config.maxCopies
Burn == config.burn
Names == IF ExtraSize > 0 THEN MainNames \cup ExtraNames ELSE MainNames

-----------------------------------------------------------------------------
(* Rounds and phases: a booster wave deals PackSize cards to everybody, a  *)
(* theme round is one pick.                                                *)

Ceil(a, b) == (a + b - 1) \div b
Least(a, b) == IF a <= b THEN a ELSE b

MainRounds == IF IsTheme THEN MainTarget ELSE Ceil(MainTarget, PackSize)
Waves == MainRounds + (IF IsTheme THEN ExtraSize ELSE Least(ExtraSize, 1))
Phase(w) == IF w > MainRounds THEN "extra" ELSE "main"

(* Function f with x at w.                                                 *)
With(f, w, x) == [v \in DOMAIN f \cup {w} |-> IF v = w THEN x ELSE f[v]]

Empty == [c \in Names |-> 0]
Size(bag) == SumFunction(bag)
NamesIn(bag) == {c \in DOMAIN bag : bag[c] > 0}

-----------------------------------------------------------------------------
(* What a seat holds, what it may take and whom the step waits for.        *)

Count(t, s) == Size(t.pool[s])
Target(t, s) ==
    IF IsTheme THEN Waves
    ELSE IF Phase(t.wave) = "extra" THEN t.main[s] + ExtraSize ELSE MainTarget
Drafting(t) == {s \in Seats \ t.finished : Count(t, s) < Target(t, s)}
Acted(t) == t.picked \cup t.passed

PacksAt(t, s) ==
    {o \in Seats : t.packs[t.wave][o].at = s /\ t.packs[t.wave][o].cards # Empty}
PackAt(t, s) == Min(PacksAt(t, s))
InPack(t, s) == NamesIn(t.packs[t.wave][PackAt(t, s)].cards)
Waiting(t) == {s \in Drafting(t) \ Acted(t) : PacksAt(t, s) # {}}

Capped(t, s, c) == CopyLimit /\ t.pool[s][c] >= MaxCopies
Legal(t, s) == {c \in InPack(t, s) : ~Capped(t, s, c)}

(* A fully capped pack of a booster draft offers a forced pick.            *)
Options(t, s) == IF ~IsTheme /\ Legal(t, s) = {} THEN InPack(t, s) ELSE Legal(t, s)

-----------------------------------------------------------------------------
(* Rows that both kinds write.                                             *)

Complete(t) == [t EXCEPT !.status = "completed"]

(* Seat s takes card c from the pack in front of it and has drafted        *)
(* everything with its last card.                                          *)
Taken(t, s, c, last) ==
    [t EXCEPT !.packs[t.wave][PackAt(t, s)].cards[c] = @ - 1,
              !.pool[s][c] = @ + 1,
              !.main[s] = IF t.wave <= MainRounds THEN @ + 1 ELSE @,
              !.picked = @ \cup {s},
              !.finished = IF Count(t, s) + 1 >= last THEN @ \cup {s} ELSE @]

Blank ==
    [status |-> "pending", wave |-> 1, step |-> 1,
     theme |-> << >>, deal |-> << >>, packs |-> << >>, undealt |-> << >>,
     pool |-> [s \in Seats |-> Empty], main |-> [s \in Seats |-> 0],
     picked |-> {}, passed |-> {}, finished |-> {}]
=============================================================================
