----------------------------- MODULE DraftLobby -----------------------------
(***************************************************************************)
(* The lobby of one draft, from its creation to the start of the draft:     *)
(* draft-lobby.ts, draft-lobby-mutations.ts, the lobby part of drafts.ts,   *)
(* and the web routes that call them.  Every operation is one immediate     *)
(* transaction, and so one action.  The web app and the worker both tick;   *)
(* tick reads its candidates before its transaction and then all of it     *)
(* again inside, so that it is one action too.  Only a start without a     *)
(* revision takes two: the root POST remembers the revision it meets, asks *)
(* the catalog, and commits with what it remembered.                       *)
(*                                                                         *)
(* Abstractions: a hash is the value it is taken of; a token is the         *)
(* revision that armed it, as both are new each time; a cube is the state   *)
(* its cards are in; of the configuration there is what makes a setup       *)
(* differ: mode, target, cubes, assignments; of the catalog, whether it     *)
(* answers as it first did, differently, or with too few cards.  The host  *)
(* has one page open, as old as it may be.  Names, nudges, the feature flag *)
(* of themes and players of other guilds are left out.                     *)
(***************************************************************************)
EXTENDS Integers, FiniteSets

CONSTANTS
    Humans, Bots,   \* who may sit down
    Host,           \* the player of the user who made the draft
    Cubes,          \* cubes of the guild
    None,           \* no cube, no hash, no request
    Configs,        \* configurations the host may choose
    MaxRevision,    \* bound: what people do to the lobby
    MaxEdits,       \* bound: edits of cubes and of the catalog
    MaxFailures,    \* bound: ticks that throw
    MaxBehind       \* bound: what people do while a start request is under way

Players == Humans \cup Bots
Contents == {"full", "other", "short", "gone"}
Catalogs == Contents \ {"gone"}
Themes == [Players -> Cubes \cup {None}]
NoThemes == [p \in Players |-> None]

Config == [mode : {"booster", "random", "host_assigned", "player_pick"},
           target : Nat,            \* lobbySeats; 0: no target
           unique : BOOLEAN,        \* uniqueThemes
           cubes : SUBSET Cubes,    \* allowedCubeIds, or the source of a booster pool
           assigned : Themes]       \* themeAssignments

ASSUME LobbyAssumption ==
    /\ Host \in Humans /\ Humans \cap Bots = {} /\ IsFiniteSet(Players)
    /\ None \notin Cubes /\ IsFiniteSet(Cubes)
    /\ Configs \subseteq Config /\ \A c \in Configs : c.target \in {0} \cup 2..8
ASSUME BoundAssumption ==
    {MaxRevision, MaxEdits, MaxFailures, MaxBehind} \subseteq Nat

VARIABLES
    lobby,      \* the rows of the draft and of its players
    pools,      \* the cards of each cube
    catalog,    \* what the catalog makes of a booster draft's sets and names
    page,       \* what the host's page shows of it: [revision, token]
    fresh,      \* history: has nothing changed since the page was loaded?
    request,    \* a start request without a revision that is under way:
                \*   [revision, same], same the history that nothing has changed since
    agreed,     \* history: of the running countdown, the setup it was armed for, and
                \*   whether nothing has changed since: [setup, asShown]
    stopped,    \* history: did it stop or fail, and the host has not resumed it?
    edits, failures

vars == <<lobby, pools, catalog, page, fresh, request, agreed, stopped, edits, failures>>

-----------------------------------------------------------------------------
(* What the rows say.                                                      *)

NoStart == [kind |-> "none", token |-> 0, revision |-> 0, due |-> FALSE,
            force |-> FALSE, hash |-> None]

Counting(l) == l.start # NoStart
Joined(l) == Cardinality(l.joined)
Mode(l) == l.config.mode
IsTheme(l) == Mode(l) # "booster"
Exists(c) == pools[c] # "gone"
Allowed(l) == {c \in l.config.cubes : Exists(c)}

(* setupHash, acknowledgementHash, scheduleHash.  A cube's cards belong to  *)
(* the setup; the cards that sets and names stand for do not: "Catalog sync *)
(* may change resolved cards; preflight still validates those".            *)
Setup(l) ==
    [rules |-> [l.config EXCEPT !.assigned = NoThemes],
     pools |-> [c \in Cubes |-> IF c \in l.config.cubes THEN pools[c] ELSE "none"]]

OwnTheme(l, p) ==
    CASE Mode(l) = "host_assigned" -> l.config.assigned[p]
      [] Mode(l) = "player_pick" -> l.claims[p]
      [] OTHER -> None

Ack(l, p) == [setup |-> Setup(l), theme |-> OwnTheme(l, p)]

ScheduleHash(l) ==
    [setup |-> Setup(l),
     seats |-> IF Mode(l) = "player_pick" THEN l.joined ELSE {},
     themes |-> [p \in Players |-> OwnTheme(l, p)]]

ValidClaim(l, p) == l.claims[p] \in Allowed(l)

IsReady(l, p) ==
    \/ p \in Bots
    \/ /\ l.acks[p] = {Ack(l, p)}
       /\ Mode(l) = "player_pick" => ValidClaim(l, p)

AllReady(l) == \A p \in l.joined : IsReady(l, p)
ReadyToStart(l, kind) == \A p \in l.joined : IsReady(l, p) \/ (kind = "manual" /\ p = Host)
Unclaimed(l) == Mode(l) = "player_pick" /\ \E p \in l.joined \ Bots : ~ValidClaim(l, p)

Distinct(themes, S) == \A p, q \in S : p # q => themes[p] # themes[q]
Fits(c) == pools[c] \in {"full", "other"}

(* preflight finds no error.                                               *)
Sound(l) ==
    LET claimed == {p \in l.joined : l.claims[p] # None}
        assigned == {l.config.assigned[p] : p \in l.joined}
    IN  /\ Joined(l) >= 2
        /\ l.config.target # 0 => Joined(l) <= l.config.target
        /\ ~IsTheme(l) => catalog # "short" /\ \A c \in l.config.cubes : Exists(c)
        /\ IsTheme(l) =>
              /\ Allowed(l) # {}
              /\ l.config.unique => Cardinality(Allowed(l)) >= Joined(l)
        /\ Mode(l) = "host_assigned" =>
              /\ assigned \subseteq Allowed(l)
              /\ l.config.unique => Distinct(l.config.assigned, l.joined)
              /\ \A c \in assigned : Fits(c)
        /\ Mode(l) = "player_pick" =>
              /\ \A p \in claimed : ValidClaim(l, p)
              /\ l.config.unique => Distinct(l.claims, claimed)
        /\ Mode(l) \in {"player_pick", "random"} => \A c \in Allowed(l) : Fits(c)

(* autoStart.eligible                                                      *)
Eligible(l) ==
    /\ l.config.target # 0 /\ Joined(l) = l.config.target
    /\ AllReady(l) /\ Sound(l) /\ ~Unclaimed(l)

-----------------------------------------------------------------------------
(* What the operations do to the rows.                                     *)

(* invalidateDraftLobby                                                    *)
Invalidated(l) == [l EXCEPT !.start = NoStart, !.revision = @ + 1]

(* stopStart, and fail of tick                                             *)
Failed(l) == [Invalidated(l) EXCEPT !.held = l.auto]

(* clearDraftLobbyStart, terminal                                          *)
Closed(l, status) ==
    [Invalidated(l) EXCEPT !.status = status, !.auto = FALSE, !.held = FALSE]

(* arm                                                                     *)
Armed(l, kind, force) ==
    [l EXCEPT !.revision = @ + 1,
              !.start = [kind |-> kind, token |-> l.revision + 1, revision |-> l.revision + 1,
                         due |-> FALSE, force |-> force, hash |-> ScheduleHash(l)]]

WithoutSeatOnly(l, p) ==                     \* mutant: the claim stays behind
    [l EXCEPT !.joined = @ \ {p}, !.acks[p] = {}, !.config.assigned[p] = None]

(* removeSeat                                                              *)
Without(l, p) ==
    [l EXCEPT !.joined = @ \ {p}, !.claims[p] = None, !.acks[p] = {},
              !.config.assigned[p] = None]

AllUnready(l) == [l EXCEPT !.acks = [p \in Players |-> {}]]

Rules(config) == [config EXCEPT !.assigned = NoThemes]

(* draftConfigInvalidation: new rules clear every Ready, a new assignment   *)
(* that of its seat.                                                       *)
Reconfigured(l, config) ==
    [l EXCEPT !.config = config,
              !.acks = [p \in Players |->
                  IF \/ Rules(config) # Rules(l.config)
                     \/ p \in l.joined /\ config.assigned[p] # l.config.assigned[p]
                  THEN {} ELSE l.acks[p]]]

-----------------------------------------------------------------------------

(* What a page shows of the lobby, and what it sends back.                 *)
View(l) == <<l.joined, l.config, l.claims, l.acks>>
Page(l) == [revision |-> l.revision, token |-> l.start.token]

Init ==
    /\ \E config \in Configs :
          lobby = [status |-> "pending", joined |-> {Host}, config |-> config,
                   claims |-> NoThemes, acks |-> [p \in Players |-> {}], revision |-> 0,
                   auto |-> FALSE, held |-> FALSE, start |-> NoStart]
    /\ pools = [c \in Cubes |-> "full"] /\ catalog = "full"
    /\ page = Page(lobby) /\ fresh = TRUE /\ request = None
    /\ agreed = None /\ stopped = FALSE
    /\ edits = 0 /\ failures = 0

Pending == lobby.status = "pending"
Acts == /\ Pending /\ lobby.revision < MaxRevision
        /\ request # None => lobby.revision < request.revision + MaxBehind
Current == page.revision = lobby.revision

(* What everybody may still be looking at: the host's page, the start       *)
(* request, the countdown.  A new countdown was armed for what its host has *)
(* seen, or, when the program arms it, for what everybody is ready for.     *)
Watch(seen) ==
    LET same == View(lobby') = View(lobby)
    IN  /\ fresh' = (fresh /\ same)
        /\ agreed' =
              IF ~Counting(lobby') THEN None
              ELSE IF lobby'.start.token # lobby.start.token
              THEN [setup |-> Setup(lobby'), asShown |-> same /\ seen]
              ELSE [agreed EXCEPT !.asShown = @ /\ same]

Waits == request' = IF request = None THEN None
                    ELSE [request EXCEPT !.same = @ /\ View(lobby') = View(lobby)]

Outside == UNCHANGED <<pools, catalog, edits>>
Changes == Watch(TRUE) /\ Waits /\ UNCHANGED page /\ Outside
ByPeople == Acts /\ Changes /\ UNCHANGED <<stopped, failures>>

JoinQuietly(p) ==                            \* mutant: the lobby is not invalidated
    /\ p \notin lobby.joined
    /\ lobby.config.target # 0 => Joined(lobby) < lobby.config.target
    /\ lobby' = [lobby EXCEPT !.joined = @ \cup {p}]
    /\ ByPeople

(* join, join-bot                                                          *)
Join(p) ==
    /\ p \notin lobby.joined
    /\ lobby.config.target # 0 => Joined(lobby) < lobby.config.target
    /\ lobby' = Invalidated([lobby EXCEPT !.joined = @ \cup {p}])
    /\ ByPeople

(* leave, and removePlayer by the host                                     *)
Leave(p) ==
    /\ p \in lobby.joined
    /\ lobby' = Invalidated(Without(lobby, p))
    /\ ByPeople

(* setReady                                                                *)
SetReady(p) ==
    /\ p \in lobby.joined \ Bots
    /\ Mode(lobby) = "player_pick" => ValidClaim(lobby, p)
    /\ lobby.acks[p] # {Ack(lobby, p)}
    /\ lobby' = Invalidated([lobby EXCEPT !.acks[p] = {Ack(lobby, p)}])
    /\ ByPeople

SetUnready(p) ==
    /\ p \in lobby.joined \ Bots
    /\ lobby.acks[p] # {}
    /\ lobby' = Invalidated([lobby EXCEPT !.acks[p] = {}])
    /\ ByPeople

(* claim-cube: claim one, or release it                                    *)
Claim(p, c) ==
    /\ p \in lobby.joined \ Bots /\ Mode(lobby) = "player_pick"
    /\ c # None => /\ c \in Allowed(lobby)
                   /\ lobby.config.unique => \A q \in Players \ {p} : lobby.claims[q] # c
    /\ c # lobby.claims[p]
    /\ lobby' = Invalidated([lobby EXCEPT !.claims[p] = c, !.acks[p] = {}])
    /\ ByPeople

(* PUT of the configuration.  Its revision is compared when it arrives and   *)
(* again inside the transaction, but a page that sends none is given the    *)
(* revision of that moment: any page may configure, however old.           *)
Configure(config) ==
    /\ config.target # 0 => config.target >= Joined(lobby)
    /\ config.mode = "host_assigned" =>
          /\ \A p \in lobby.joined : config.assigned[p] \in {c \in config.cubes : Exists(c)}
          /\ config.unique => Distinct(config.assigned, lobby.joined)
    /\ lobby' = Invalidated(Reconfigured(lobby, config))
    /\ ByPeople

(* POST and DELETE of cubes                                                *)
AttachCube(c) ==
    /\ IsTheme(lobby) /\ Exists(c) /\ c \notin lobby.config.cubes
    /\ lobby' = Invalidated(AllUnready([lobby EXCEPT !.config.cubes = @ \cup {c}]))
    /\ ByPeople

DetachCube(c) ==
    /\ IsTheme(lobby)
    /\ \/ c \in lobby.config.cubes
       \/ (Exists(c) /\ \E p \in Players : c \in {lobby.claims[p], lobby.config.assigned[p]})
    /\ LET free(themes) == [p \in Players |-> IF themes[p] = c THEN None ELSE themes[p]]
       IN  lobby' = Invalidated(AllUnready(
                        [lobby EXCEPT !.config.cubes = @ \ {c},
                                      !.config.assigned = free(@), !.claims = free(@)]))
    /\ ByPeople

(* setVisibility                                                           *)
SetVisibility == lobby' = Invalidated(lobby) /\ ByPeople

(* Elsewhere: somebody edits or deletes a cube, or the catalog is synced.   *)
EditCube(c, x) ==
    /\ Pending /\ edits < MaxEdits
    /\ Exists(c) /\ x # pools[c]
    /\ x = "gone" => \A p \in Players : lobby.claims[p] # c
    /\ pools' = [pools EXCEPT ![c] = x]
    /\ edits' = edits + 1
    /\ UNCHANGED <<lobby, catalog, page, fresh, request, agreed, stopped, failures>>

SyncCatalog ==
    /\ Pending /\ edits < MaxEdits
    /\ \E x \in Catalogs \ {catalog} : catalog' = x
    /\ edits' = edits + 1
    /\ UNCHANGED <<lobby, pools, page, fresh, request, agreed, stopped, failures>>

-----------------------------------------------------------------------------
(* The countdown.                                                          *)

(* GET: the host's page is loaded again.                                   *)
Look ==
    /\ Pending /\ (page # Page(lobby) \/ ~fresh)
    /\ page' = Page(lobby) /\ fresh' = TRUE
    /\ UNCHANGED <<lobby, request, agreed, stopped, failures>> /\ Outside

(* scheduleStart; the same request again leaves the countdown as it is.     *)
SameSchedule(sent, force) ==
    /\ lobby.start.kind = "manual" /\ lobby.start.revision = lobby.revision
    /\ sent \in {lobby.revision, lobby.revision - 1}
    /\ lobby.start.force = force /\ lobby.start.hash = ScheduleHash(lobby)

Arms(sent, force) ==
    /\ Pending /\ ~SameSchedule(sent, force) /\ sent = lobby.revision
    /\ Sound(lobby)
    /\ force \/ (ReadyToStart(lobby, "manual") /\ ~Unclaimed(lobby))

Schedule(sent, force, seen) ==
    /\ Acts /\ Arms(sent, force)
    /\ lobby' = Armed(lobby, "manual", force)
    /\ stopped' = FALSE
    /\ Watch(seen)

(* POST of the start route: the revision is the one the page shows.         *)
ScheduleStart(force) ==
    /\ Schedule(page.revision, force, fresh)
    /\ Waits /\ UNCHANGED <<page, failures>> /\ Outside

(* POST of the root route without a revision (handleDraftStart): that of the *)
(* moment is captured, before the body is read and the catalog is asked.    *)
CaptureRevision ==
    /\ Pending /\ request = None
    /\ request' = [revision |-> lobby.revision, same |-> TRUE]
    /\ UNCHANGED <<lobby, page, fresh, agreed, stopped, failures>> /\ Outside

(* It arms a countdown if the lobby is still at that revision, and else does *)
(* nothing.                                                                *)
CommitCaptured(force) ==
    /\ request # None /\ request' = None
    /\ \/ Schedule(request.revision, force, request.same)
       \/ /\ ~Arms(request.revision, force)
          /\ UNCHANGED <<lobby, fresh, agreed, stopped>>
    /\ UNCHANGED <<page, failures>> /\ Outside

(* stopStart                                                               *)
StopKeepsAuto ==                             \* mutant: auto-start is not held
    /\ Acts /\ Counting(lobby) /\ page.token = lobby.start.token
    /\ lobby' = Invalidated(lobby)
    /\ stopped' = TRUE
    /\ Changes /\ UNCHANGED failures

StopStart ==
    /\ Acts /\ Counting(lobby) /\ page.token = lobby.start.token
    /\ lobby' = Failed(lobby)
    /\ stopped' = TRUE
    /\ Changes /\ UNCHANGED failures

(* setAutoStart                                                            *)
SetAutoStart(enabled, held) ==
    /\ Acts /\ Current /\ (held => enabled)
    /\ LET going == Counting(lobby) /\ ~(lobby.start.kind = "auto" /\ (~enabled \/ held))
           set == [lobby EXCEPT
                     !.revision = @ + 1, !.auto = enabled, !.held = held,
                     !.start = IF going THEN [@ EXCEPT !.revision = lobby.revision + 1]
                               ELSE NoStart]
       IN  lobby' = IF enabled /\ ~held /\ Eligible(set) /\ ~going
                    THEN Armed(set, "auto", FALSE) ELSE set
    /\ stopped' = (stopped /\ ~(enabled /\ ~held))
    /\ Changes /\ UNCHANGED failures

Elapse ==
    /\ Pending /\ Counting(lobby) /\ ~lobby.start.due
    /\ lobby' = [lobby EXCEPT !.start.due = TRUE]
    /\ UNCHANGED <<page, fresh, request, agreed, stopped, failures>> /\ Outside

(* tick: without a countdown one may be armed; one that has run out starts  *)
(* the draft, unless what it was armed for has changed.                    *)
Candidate(l) == l.status = "pending" /\ (Counting(l) \/ (l.auto /\ ~l.held))

TickArms(l) ==
    /\ l.config.target # 0 /\ Joined(l) = l.config.target /\ Joined(l) >= 2 /\ AllReady(l)
    /\ Eligible(l) \/ ~Sound(l)

CanStart(l) ==
    /\ l.start.revision = l.revision
    /\ l.start.hash = ScheduleHash(l)
    /\ Sound(l)
    /\ l.start.force \/ (ReadyToStart(l, l.start.kind) /\ ~Unclaimed(l))
    /\ l.start.kind = "auto" => l.auto /\ ~l.held /\ Eligible(l)

TickCalmly ==                                \* mutant: a start that cannot be is put off
    /\ Candidate(lobby)
    /\ \/ /\ ~Counting(lobby) /\ TickArms(lobby) /\ Eligible(lobby)
          /\ lobby' = Armed(lobby, "auto", FALSE) /\ stopped' = stopped
       \/ /\ Counting(lobby) /\ lobby.start.due /\ CanStart(lobby)
          /\ lobby' = Closed(lobby, "active") /\ stopped' = stopped
    /\ Changes /\ UNCHANGED failures

Tick ==
    /\ Candidate(lobby)
    /\ \/ /\ ~Counting(lobby) /\ TickArms(lobby)
          /\ lobby' = IF Eligible(lobby) THEN Armed(lobby, "auto", FALSE) ELSE Failed(lobby)
          /\ stopped' = (stopped \/ ~Eligible(lobby))
       \/ /\ Counting(lobby) /\ (lobby.start.due \/ lobby.start.revision # lobby.revision)
          /\ lobby' = IF CanStart(lobby) THEN Closed(lobby, "active") ELSE Failed(lobby)
          /\ stopped' = (stopped \/ ~CanStart(lobby))
    /\ Changes /\ UNCHANGED failures

(* The start, or the tick, throws: its writes are taken back.              *)
TickFails ==
    /\ Candidate(lobby) /\ failures < MaxFailures
    /\ lobby' = Failed(lobby)
    /\ failures' = failures + 1
    /\ stopped' = TRUE
    /\ Changes

(* cancel of a draft that has not started                                  *)
Cancel ==
    /\ lobby' = Closed([lobby EXCEPT !.claims = NoThemes], "cancelled")
    /\ ByPeople

-----------------------------------------------------------------------------

Next ==
    \/ \E p \in Players :
          \/ Join(p) \/ Leave(p) \/ SetReady(p) \/ SetUnready(p)
          \/ \E c \in Cubes \cup {None} : Claim(p, c)
    \/ \E config \in Configs : Configure(config)
    \/ \E c \in Cubes : \/ AttachCube(c) \/ DetachCube(c)
                        \/ \E x \in Contents : EditCube(c, x)
    \/ SetVisibility \/ SyncCatalog
    \/ Look
    \/ \E force \in BOOLEAN : ScheduleStart(force) \/ CommitCaptured(force)
    \/ CaptureRevision \/ StopStart
    \/ \E enabled, held \in BOOLEAN : SetAutoStart(enabled, held)
    \/ Elapse \/ Tick \/ TickFails \/ Cancel

Spec == Init /\ [][Next]_vars

(* Time passes, and the worker ticks.                                      *)
FairSpec == Spec /\ WF_vars(Elapse) /\ WF_vars(Tick)

-----------------------------------------------------------------------------
(* Properties.                                                             *)

Acks == [setup : [rules : Config, pools : [Cubes -> Contents \cup {"none"}]],
         theme : Cubes \cup {None}]

(* The shape of the rows: no seat, no claim, no Ready; a countdown is of    *)
(* the revision the lobby has, so that the check of tick never meets an old *)
(* one; and a lobby that is closed holds nothing that could start it.      *)
TypeOK ==
    /\ lobby.status \in {"pending", "active", "cancelled"}
    /\ lobby.joined \subseteq Players
    /\ lobby.config \in Config /\ lobby.claims \in Themes
    /\ lobby.revision \in Nat /\ lobby.auto \in BOOLEAN /\ lobby.held \in BOOLEAN
    /\ lobby.held => lobby.auto
    /\ lobby.config.target # 0 => Joined(lobby) <= lobby.config.target
    /\ \A p \in Players \ lobby.joined : lobby.claims[p] = None /\ lobby.acks[p] = {}
    /\ \A p \in Players : \A a \in lobby.acks[p] : a \in Acks /\ lobby.acks[p] = {a}
    /\ Counting(lobby) =>
          /\ Pending
          /\ lobby.start.kind \in {"manual", "auto"}
          /\ lobby.start.revision = lobby.revision /\ lobby.start.token \in 1..lobby.revision
    /\ ~Pending => ~lobby.auto
    /\ pools \in [Cubes -> Contents] /\ catalog \in Catalogs
    /\ page.revision \in 0..lobby.revision /\ fresh \in BOOLEAN /\ stopped \in BOOLEAN
    /\ request # None => request.revision \in 0..lobby.revision /\ request.same \in BOOLEAN

(* A draft starts with the rules and the cube pools that its countdown was  *)
(* armed for, and with the roster, rules, themes and Ready marks of that    *)
(* moment, which are those that the host's page showed when they pressed    *)
(* Start, those that everybody was ready for, or, when the start request    *)
(* carried no revision, those it met on arrival: a host with an old page    *)
(* may never have seen these.  Unless the host forced it, every player but  *)
(* the host is ready for exactly that.  The cards that a booster draft's    *)
(* sets and names stand for may have changed; they are still enough.        *)
StartsAsAgreed ==
    [][ Pending /\ lobby'.status = "active" =>
          /\ agreed.asShown /\ agreed.setup = Setup(lobby)
          /\ IsTheme(lobby) \/ catalog # "short"
          /\ \A p \in lobby.joined :
                \/ lobby.start.force \/ p \in Bots
                \/ p = Host /\ lobby.start.kind = "manual"
                \/ lobby.acks[p] = {Ack(lobby, p)} ]_vars

(* Stop means stop, and so does a start that failed: no tick arms the lobby *)
(* again, and no draft begins, before the host asks for it anew.  The page  *)
(* says: "Held. It waits until the host resumes it."                       *)
StopHolds == stopped => ~Counting(lobby) /\ lobby.status # "active"

(* A countdown comes to its end, and a full lobby with everybody ready      *)
(* starts, is held, or is no longer that, once people leave it alone.      *)
LobbyMovesOn ==
    (Pending /\ Counting(lobby) ~> ~(Pending /\ Counting(lobby))) /\
    (Pending /\ lobby.auto /\ ~lobby.held /\ Eligible(lobby)
        ~> ~(Pending /\ lobby.auto /\ ~lobby.held /\ Eligible(lobby)))
=============================================================================
