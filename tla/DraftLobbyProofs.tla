--------------------------- MODULE DraftLobbyProofs ---------------------------
(***************************************************************************)
(* Proofs about DraftLobby for every lobby: any people, bots, cubes and     *)
(* configurations, any number of changes, edits and failed ticks.          *)
(***************************************************************************)
EXTENDS DraftLobby, FiniteSetTheorems, TLAPS

Setups == [rules : Config, pools : [Cubes -> Contents \cup {"none"}]]

Starts == [kind : {"none", "manual", "auto"}, token : Nat, revision : Nat, due : BOOLEAN,
           force : BOOLEAN,
           hash : {None} \cup [setup : Setups, seats : SUBSET Players, themes : Themes]]

Row == [status : {"pending", "active", "cancelled"}, joined : SUBSET Players, config : Config,
        claims : Themes, acks : [Players -> SUBSET Acks], revision : Nat,
        auto : BOOLEAN, held : BOOLEAN, start : Starts]

(* The part of TypeOK that is about the seats of a lobby.                  *)
SeatsOK(l) ==
    /\ l.config.target # 0 => Joined(l) <= l.config.target
    /\ \A p \in Players \ l.joined : l.claims[p] = None /\ l.acks[p] = {}
    /\ \A p \in Players : \A a \in l.acks[p] : l.acks[p] = {a}

(* The part that is about its countdown.                                   *)
CountdownOK(l) ==
    /\ l.held => l.auto
    /\ l.start # NoStart =>
          /\ l.status = "pending" /\ l.start.kind \in {"manual", "auto"}
          /\ l.start.revision = l.revision /\ l.start.token \in 1..l.revision
    /\ l.status # "pending" => ~l.auto

RowsOK ==
    /\ lobby \in Row /\ SeatsOK(lobby) /\ CountdownOK(lobby)
    /\ pools \in [Cubes -> Contents] /\ catalog \in Catalogs
    /\ page.revision \in 0..lobby.revision /\ fresh \in BOOLEAN /\ stopped \in BOOLEAN
    /\ request \in {None} \cup [revision : Nat, same : BOOLEAN]
    /\ request # None => request.revision <= lobby.revision

(* A lobby that was stopped has nothing that could start it: neither a      *)
(* countdown nor an auto-start that is not held.                           *)
StopIsHeld ==
    stopped => lobby.start = NoStart /\ lobby.status # "active" /\ (lobby.auto => lobby.held)

(* Every change of what the page shows comes with a new revision.          *)
PageIsCurrent == page.revision = lobby.revision => fresh

(* So a captured revision that is still the lobby's stands for what the     *)
(* start request met when it arrived.                                      *)
RequestIsCurrent == request # None /\ request.revision = lobby.revision => request.same

(* The hash of a running countdown is that of the setup it was armed for,   *)
(* and the lobby still looks as it did then.                               *)
CountdownIsAgreed ==
    lobby.start # NoStart => agreed = [setup |-> lobby.start.hash.setup, asShown |-> TRUE]

(* The inductive invariant.                                                *)
IInv == RowsOK /\ StopIsHeld /\ PageIsCurrent /\ RequestIsCurrent /\ CountdownIsAgreed

-----------------------------------------------------------------------------
(* What the operators of the model return.                                 *)

LEMMA NoStartTyped ==
  NoStart \in Starts /\ NoThemes \in Themes
BY DEF NoStart, Starts, NoThemes, Themes

(* Nobody may be left to count when the lobby is empty.                    *)
LEMMA JoinedIsFinite ==
  ASSUME NEW S \in SUBSET Players
  PROVE  /\ IsFiniteSet(S) /\ Cardinality(S) \in Nat
         /\ \A p \in Players : Cardinality(S \ {p}) <= Cardinality(S)
         /\ \A p \in Players \ S : Cardinality(S \cup {p}) = Cardinality(S) + 1
<1>1. IsFiniteSet(S)
  BY LobbyAssumption, FS_Subset DEF LobbyAssumption
<1> QED BY <1>1, FS_CardinalityType, FS_AddElement, FS_RemoveElement, FS_Subset

LEMMA HashTyped ==
  ASSUME NEW l \in Row, pools \in [Cubes -> Contents]
  PROVE  /\ Setup(l) \in Setups /\ ScheduleHash(l).setup = Setup(l)
         /\ ScheduleHash(l) \in [setup : Setups, seats : SUBSET Players, themes : Themes]
         /\ \A p \in Players : Ack(l, p) \in Acks /\ Ack(l, p).setup = Setup(l)
<1>1. Setup(l) \in Setups
  BY NoStartTyped DEF Setup, Setups, Row, Config, Themes
<1>2. \A p \in Players : OwnTheme(l, p) \in Cubes \cup {None}
  BY DEF OwnTheme, Row, Config, Themes
<1>3. \A p \in Players : Ack(l, p) \in Acks
  BY <1>1, <1>2 DEF Ack, Acks, Setups
<1> QED BY <1>1, <1>2, <1>3 DEF ScheduleHash, Ack, Themes, Row

LEMMA InvalidatedTyped ==
  ASSUME NEW l \in Row
  PROVE  /\ Invalidated(l) \in Row /\ Invalidated(l).start = NoStart
         /\ Invalidated(l) = [l EXCEPT !.start = NoStart, !.revision = l.revision + 1]
         /\ Failed(l) \in Row /\ Failed(l).start = NoStart
         /\ Failed(l) = [l EXCEPT !.start = NoStart, !.revision = l.revision + 1, !.held = l.auto]
         /\ \A s \in {"active", "cancelled"} :
               /\ Closed(l, s) \in Row
               /\ Closed(l, s) = [l EXCEPT !.start = NoStart, !.revision = l.revision + 1,
                                   !.status = s, !.auto = FALSE, !.held = FALSE]
<1>1. Invalidated(l) = [l EXCEPT !.start = NoStart, !.revision = l.revision + 1]
  BY DEF Invalidated
<1>2. Invalidated(l) \in Row
  <2>1. l.revision + 1 \in Nat
    BY DEF Row
  <2> QED BY <1>1, <2>1, NoStartTyped DEF Row
<1>3. /\ Failed(l) = [l EXCEPT !.start = NoStart, !.revision = l.revision + 1, !.held = l.auto]
      /\ Failed(l) \in Row
  BY <1>1, <1>2 DEF Failed, Row
<1>4. \A s \in {"active", "cancelled"} :
        /\ Closed(l, s) \in Row
        /\ Closed(l, s) = [l EXCEPT !.start = NoStart, !.revision = l.revision + 1,
                            !.status = s, !.auto = FALSE, !.held = FALSE]
  BY <1>1, <1>2 DEF Closed, Row
<1> QED BY <1>1, <1>2, <1>3, <1>4 DEF Row

LEMMA ArmedTyped ==
  ASSUME NEW l \in Row, NEW kind \in {"manual", "auto"}, NEW force \in BOOLEAN,
         pools \in [Cubes -> Contents]
  PROVE  /\ Armed(l, kind, force) \in Row
         /\ Armed(l, kind, force) =
              [l EXCEPT !.revision = l.revision + 1,
                        !.start = [kind |-> kind, token |-> l.revision + 1,
                                   revision |-> l.revision + 1, due |-> FALSE,
                                   force |-> force, hash |-> ScheduleHash(l)]]
<1>1. [kind |-> kind, token |-> l.revision + 1, revision |-> l.revision + 1, due |-> FALSE,
       force |-> force, hash |-> ScheduleHash(l)] \in Starts
  BY HashTyped DEF Starts, Row
<1>2. l.revision + 1 \in Nat
  BY DEF Row
<1>3. Armed(l, kind, force) =
        [l EXCEPT !.revision = l.revision + 1,
                  !.start = [kind |-> kind, token |-> l.revision + 1,
                             revision |-> l.revision + 1, due |-> FALSE,
                             force |-> force, hash |-> ScheduleHash(l)]]
  BY DEF Armed
<1> QED BY <1>1, <1>2, <1>3 DEF Row

LEMMA IInvHolds ==
  ASSUME IInv
  PROVE  TypeOK /\ StopHolds
<1>1. \A p \in Players : \A a \in lobby.acks[p] : a \in Acks
  BY DEF IInv, RowsOK, Row
<1> QED BY <1>1 DEF IInv, RowsOK, Row, SeatsOK, CountdownOK, StopIsHeld, TypeOK, StopHolds,
                   Pending, Counting, Acks, Setups

-----------------------------------------------------------------------------
(* What may happen to a countdown: it stops, is armed, or runs on.         *)

(* Nobody has counted a token that the lobby has yet to give out.          *)
LEMMA TokenIsOld ==
  ASSUME IInv
  PROVE  lobby.start.token \in 0..lobby.revision /\ lobby.revision \in Nat
BY DEF IInv, RowsOK, CountdownOK, Row, NoStart

(* Most steps keep the invariant and start no draft.                       *)
Keeps == IInv' /\ (lobby'.status = "active" => lobby.status = "active")

(* A start request under way keeps the revision it met, or is answered.    *)
RequestKept ==
    request' # None =>
        /\ request # None /\ request' \in [revision : Nat, same : BOOLEAN]
        /\ request'.revision = request.revision

LEMMA RequestWaits ==
  ASSUME IInv, Waits
  PROVE  RequestKept /\ (View(lobby') = View(lobby) => request' = request)
<1>1. CASE request = None
  BY <1>1 DEF Waits, RequestKept
<1>2. CASE request # None
  <2>1. request \in [revision : Nat, same : BOOLEAN]
    BY <1>2 DEF IInv, RowsOK
  <2> DEFINE still == request.same /\ View(lobby') = View(lobby)
  <2>2. request' = [request EXCEPT !.same = still] /\ still \in BOOLEAN
    BY <1>2, <2>1 DEF Waits
  <2>3. View(lobby') = View(lobby) => still = request.same
    BY <2>1
  <2> HIDE DEF still
  <2> QED BY <1>2, <2>1, <2>2, <2>3 DEF RequestKept
<1> QED BY <1>1, <1>2

(* Once the lobby has a later revision, it is refused.                     *)
LEMMA RequestIsBehind ==
  ASSUME IInv, RequestKept, lobby'.revision \in Nat, lobby'.revision > lobby.revision
  PROVE  /\ RequestIsCurrent'
         /\ request' \in {None} \cup [revision : Nat, same : BOOLEAN]
         /\ request' # None => request'.revision <= lobby'.revision
<1>1. lobby.revision \in Nat /\ (request # None => request.revision <= lobby.revision)
  BY DEF IInv, RowsOK, Row
<1> QED BY <1>1 DEF RequestKept, RequestIsCurrent

LEMMA StoppingKeeps ==
  ASSUME IInv, lobby' \in Row, SeatsOK(lobby'),
         lobby'.start = NoStart, lobby'.revision > lobby.revision,
         lobby'.held => lobby'.auto, lobby'.status # "pending" => ~lobby'.auto,
         pools' \in [Cubes -> Contents], catalog' \in Catalogs, page' = page,
         fresh' \in BOOLEAN, stopped' \in BOOLEAN, RequestKept,
         stopped' => lobby'.status # "active" /\ (lobby'.auto => lobby'.held)
  PROVE  IInv'
<1>1. page'.revision \in 0..lobby'.revision /\ page'.revision # lobby'.revision
  BY DEF IInv, RowsOK, Row
<1>2. RowsOK' /\ RequestIsCurrent'
  BY <1>1, RequestIsBehind DEF RowsOK, CountdownOK, Row
<1> QED BY <1>1, <1>2 DEF IInv, StopIsHeld, PageIsCurrent, RequestIsCurrent,
            CountdownIsAgreed

LEMMA ArmingKeeps ==
  ASSUME IInv, NEW seen, seen = TRUE, Watch(seen), RequestKept,
         NEW l \in Row, NEW kind \in {"manual", "auto"}, NEW force \in BOOLEAN,
         lobby' = Armed(l, kind, force),
         l.status = "pending", l.revision >= lobby.revision, l.held => l.auto,
         l.joined = lobby.joined, l.config = lobby.config,
         l.claims = lobby.claims, l.acks = lobby.acks,
         pools' = pools, catalog' = catalog, page' = page, stopped' = FALSE
  PROVE  Keeps
<1> DEFINE start == [kind |-> kind, token |-> l.revision + 1, revision |-> l.revision + 1,
                     due |-> FALSE, force |-> force, hash |-> ScheduleHash(l)]
<1>1. /\ lobby' \in Row /\ lobby'.start = start /\ lobby'.revision = l.revision + 1
      /\ lobby'.status = "pending" /\ lobby'.held = l.held /\ lobby'.auto = l.auto
      /\ lobby'.joined = lobby.joined /\ lobby'.config = lobby.config
      /\ lobby'.claims = lobby.claims /\ lobby'.acks = lobby.acks
  <2>1. pools \in [Cubes -> Contents]
    BY DEF IInv, RowsOK
  <2>2. lobby' \in Row
    BY <2>1, ArmedTyped
  <2>3. lobby' = [l EXCEPT !.revision = l.revision + 1, !.start = start]
    BY <2>1, ArmedTyped
  <2> HIDE DEF start
  <2> QED BY <2>2, <2>3 DEF Row
<1>2. start # NoStart /\ start.token = l.revision + 1 /\ start.revision = l.revision + 1
      /\ start.kind = kind /\ start.hash.setup = Setup(l)
  BY HashTyped DEF NoStart, IInv, RowsOK
<1>3. l.revision \in Nat /\ lobby.revision \in Nat /\ page.revision \in 0..lobby.revision
  BY DEF IInv, RowsOK, Row
<1> HIDE DEF start
<1>4. SeatsOK(lobby') /\ CountdownOK(lobby')
  <2>1. SeatsOK(lobby')
    BY <1>1 DEF IInv, RowsOK, SeatsOK, Joined
  <2> QED BY <1>1, <1>2, <1>3, <2>1 DEF CountdownOK
<1>5. page'.revision \in 0..lobby'.revision /\ page'.revision # lobby'.revision
  BY <1>1, <1>3
<1>6. fresh' = fresh
  BY <1>1 DEF Watch, View, IInv, RowsOK
<1>7. agreed' = [setup |-> start.hash.setup, asShown |-> TRUE]
  <2>1. lobby'.start.token # lobby.start.token
    BY <1>1, <1>2, <1>3, TokenIsOld
  <2>2. Setup(lobby') = Setup(l)
    BY <1>1 DEF Setup
  <2>3. View(lobby') = View(lobby)
    BY <1>1 DEF View
  <2> QED BY <1>1, <1>2, <2>1, <2>2, <2>3 DEF Watch, Counting
<1>8. /\ RequestIsCurrent'
      /\ request' \in {None} \cup [revision : Nat, same : BOOLEAN]
      /\ request' # None => request'.revision <= lobby'.revision
  <2>1. lobby'.revision \in Nat /\ lobby'.revision > lobby.revision
    BY <1>1, <1>3
  <2> QED BY <2>1, RequestIsBehind
<1>9. IInv'
  BY <1>1, <1>4, <1>5, <1>6, <1>7, <1>8
     DEF IInv, RowsOK, StopIsHeld, PageIsCurrent, RequestIsCurrent,
            CountdownIsAgreed
<1> QED BY <1>1, <1>9 DEF Keeps

LEMMA RunningOnKeeps ==
  ASSUME IInv, lobby' \in Row,
         lobby.start # NoStart, lobby'.start # NoStart,
         lobby'.start.kind = lobby.start.kind, lobby'.start.token = lobby.start.token,
         lobby'.start.hash = lobby.start.hash, lobby'.start.revision = lobby'.revision,
         lobby'.revision >= lobby.revision, lobby'.status = lobby.status,
         lobby'.held => lobby'.auto,
         lobby'.joined = lobby.joined, lobby'.config = lobby.config,
         lobby'.claims = lobby.claims, lobby'.acks = lobby.acks,
         fresh' = fresh, request' = request, agreed' = agreed, stopped' = FALSE,
         pools' = pools, catalog' = catalog, page' = page
  PROVE  Keeps
<1>1. lobby'.revision \in Nat /\ lobby.revision \in Nat /\ page.revision \in 0..lobby.revision
      /\ lobby.status = "pending"
  BY DEF IInv, RowsOK, CountdownOK, Row
<1>2. SeatsOK(lobby')
  BY DEF IInv, RowsOK, SeatsOK, Joined
<1>3. CountdownOK(lobby')
  BY <1>1 DEF IInv, RowsOK, CountdownOK
<1>4. page'.revision \in 0..lobby'.revision /\ PageIsCurrent' /\ RequestIsCurrent'
      /\ (request' # None => request'.revision <= lobby'.revision)
  <2>1. request \in {None} \cup [revision : Nat, same : BOOLEAN]
        /\ (request # None => request.revision <= lobby.revision)
    BY DEF IInv, RowsOK
  <2> QED BY <1>1, <2>1 DEF IInv, PageIsCurrent, RequestIsCurrent
<1>5. StopIsHeld' /\ CountdownIsAgreed'
  BY DEF IInv, StopIsHeld, CountdownIsAgreed
<1>6. RowsOK'
  BY <1>2, <1>3, <1>4 DEF IInv, RowsOK
<1> QED BY <1>4, <1>5, <1>6 DEF IInv, Keeps

-----------------------------------------------------------------------------
(* What people do to the seats and the rules.                              *)

LEMMA ChangeKeeps ==
  ASSUME IInv, ByPeople, NEW l \in Row, SeatsOK(l), lobby' = Invalidated(l),
         l.status = lobby.status, l.revision = lobby.revision,
         l.auto = lobby.auto, l.held = lobby.held
  PROVE  Keeps
<1>1. lobby' = [l EXCEPT !.start = NoStart, !.revision = l.revision + 1] /\ lobby' \in Row
  BY InvalidatedTyped
<1>2. /\ lobby'.start = NoStart /\ lobby'.revision = l.revision + 1
      /\ lobby'.status = l.status /\ lobby'.auto = l.auto /\ lobby'.held = l.held
      /\ lobby'.joined = l.joined /\ lobby'.config = l.config
      /\ lobby'.claims = l.claims /\ lobby'.acks = l.acks
  BY <1>1 DEF Row
<1>3. SeatsOK(lobby')
  BY <1>2 DEF SeatsOK, Joined
<1>4. lobby'.revision > lobby.revision
  BY <1>2 DEF Row
<1>5. /\ pools' = pools /\ catalog' = catalog /\ page' = page /\ stopped' = stopped
      /\ fresh' \in BOOLEAN
      /\ RequestKept
  BY RequestWaits DEF ByPeople, Changes, Outside, Watch
<1>6. CountdownOK(lobby) /\ StopIsHeld
  BY DEF IInv, RowsOK
<1>7. stopped \in BOOLEAN /\ pools \in [Cubes -> Contents] /\ catalog \in Catalogs
  BY DEF IInv, RowsOK
<1> QED BY <1>1, <1>2, <1>3, <1>4, <1>5, <1>6, <1>7, StoppingKeeps DEF CountdownOK, StopIsHeld, Keeps

LEMMA JoinKeeps ==
  ASSUME IInv, NEW p \in Players, Join(p)
  PROVE  Keeps
<1> DEFINE l == [lobby EXCEPT !.joined = @ \cup {p}]
<1>1. lobby \in Row /\ SeatsOK(lobby) /\ ByPeople /\ p \notin lobby.joined
  BY DEF IInv, RowsOK, Join
<1>2. /\ l \in Row /\ l.joined = lobby.joined \cup {p}
      /\ l.config = lobby.config /\ l.claims = lobby.claims /\ l.acks = lobby.acks
      /\ l.status = lobby.status /\ l.revision = lobby.revision
      /\ l.auto = lobby.auto /\ l.held = lobby.held
  BY <1>1 DEF Row
<1>3. Cardinality(lobby.joined) \in Nat /\ Cardinality(l.joined) = Cardinality(lobby.joined) + 1
  BY <1>1, <1>2, JoinedIsFinite DEF Row
<1>4. l.config.target \in Nat /\ (l.config.target # 0 => Cardinality(lobby.joined) < l.config.target)
  BY <1>1, <1>2 DEF Join, Joined, Row, Config
<1>5. lobby' = Invalidated(l)
  BY DEF Join
<1> HIDE DEF l
<1>6. SeatsOK(l)
  BY <1>1, <1>2, <1>3, <1>4 DEF SeatsOK, Joined
<1> QED BY <1>1, <1>2, <1>5, <1>6, ChangeKeeps

LEMMA LeaveKeeps ==
  ASSUME IInv, NEW p \in Players, Leave(p)
  PROVE  Keeps
<1> DEFINE l == Without(lobby, p)
<1>1. lobby \in Row /\ SeatsOK(lobby) /\ ByPeople /\ lobby' = Invalidated(l)
  BY DEF IInv, RowsOK, Leave
<1>2. /\ l \in Row /\ l.joined = lobby.joined \ {p}
      /\ l.config.target = lobby.config.target /\ l.claims = [lobby.claims EXCEPT ![p] = None]
      /\ l.acks = [lobby.acks EXCEPT ![p] = {}]
      /\ l.status = lobby.status /\ l.revision = lobby.revision
      /\ l.auto = lobby.auto /\ l.held = lobby.held
  BY <1>1 DEF Without, Row, Config, Themes
<1>3. /\ Cardinality(lobby.joined) \in Nat /\ Cardinality(l.joined) \in Nat
      /\ Cardinality(l.joined) <= Cardinality(lobby.joined)
  BY <1>1, <1>2, JoinedIsFinite DEF Row
<1> HIDE DEF l
<1>4. l.config.target # 0 => Cardinality(l.joined) <= l.config.target
  BY <1>1, <1>2, <1>3 DEF SeatsOK, Joined, Row, Config
<1>5. SeatsOK(l)
  BY <1>1, <1>2, <1>4 DEF SeatsOK, Joined, Row, Themes
<1> QED BY <1>1, <1>2, <1>5, ChangeKeeps

(* A change of one seat that keeps who sits where.                         *)
LEMMA ReadyKeeps ==
  ASSUME IInv, NEW p \in lobby.joined, NEW ready \in SUBSET Acks,
         \A a \in ready : ready = {a},
         lobby' = Invalidated([lobby EXCEPT !.acks[p] = ready]), ByPeople
  PROVE  Keeps
<1> DEFINE l == [lobby EXCEPT !.acks[p] = ready]
<1>1. lobby \in Row /\ SeatsOK(lobby) /\ p \in Players
  BY DEF IInv, RowsOK, Row
<1>2. /\ l \in Row /\ l.acks = [lobby.acks EXCEPT ![p] = ready] /\ l.joined = lobby.joined
      /\ l.config = lobby.config /\ l.claims = lobby.claims
      /\ l.status = lobby.status /\ l.revision = lobby.revision
      /\ l.auto = lobby.auto /\ l.held = lobby.held
  BY <1>1 DEF Row
<1> HIDE DEF l
<1>3. SeatsOK(l)
  BY <1>1, <1>2 DEF SeatsOK, Joined, Row
<1> QED BY <1>1, <1>2, <1>3, ChangeKeeps DEF l

LEMMA ClaimKeeps ==
  ASSUME IInv, NEW p \in Players, NEW c \in Cubes \cup {None}, Claim(p, c)
  PROVE  Keeps
<1> DEFINE l == [lobby EXCEPT !.claims[p] = c, !.acks[p] = {}]
<1>1. /\ lobby \in Row /\ SeatsOK(lobby) /\ p \in lobby.joined /\ ByPeople
      /\ lobby' = Invalidated(l)
  BY DEF IInv, RowsOK, Claim
<1>2. /\ l \in Row /\ l.acks = [lobby.acks EXCEPT ![p] = {}] /\ l.joined = lobby.joined
      /\ l.config = lobby.config /\ l.claims = [lobby.claims EXCEPT ![p] = c]
      /\ l.status = lobby.status /\ l.revision = lobby.revision
      /\ l.auto = lobby.auto /\ l.held = lobby.held
  BY <1>1 DEF Row, Themes
<1> HIDE DEF l
<1>3. SeatsOK(l)
  BY <1>1, <1>2 DEF SeatsOK, Joined, Row, Themes
<1> QED BY <1>1, <1>2, <1>3, ChangeKeeps

LEMMA ConfigureKeeps ==
  ASSUME IInv, NEW config \in Configs, Configure(config)
  PROVE  Keeps
<1> DEFINE l == Reconfigured(lobby, config)
<1>1. /\ lobby \in Row /\ SeatsOK(lobby) /\ ByPeople /\ lobby' = Invalidated(l)
      /\ config \in Config /\ config.target \in Nat
      /\ (config.target # 0 => config.target >= Joined(lobby))
  BY LobbyAssumption DEF IInv, RowsOK, Configure, LobbyAssumption, Config
<1>2. /\ l.joined = lobby.joined /\ l.config = config /\ l.claims = lobby.claims
      /\ l.status = lobby.status /\ l.revision = lobby.revision
      /\ l.auto = lobby.auto /\ l.held = lobby.held
      /\ \A p \in Players : l.acks[p] \in {{}, lobby.acks[p]}
      /\ l \in Row
  BY <1>1 DEF Reconfigured, Row
<1>3. Cardinality(lobby.joined) \in Nat
  BY <1>1, JoinedIsFinite DEF Row
<1> HIDE DEF l
<1>4. SeatsOK(l)
  BY <1>1, <1>2, <1>3 DEF SeatsOK, Joined, Row
<1> QED BY <1>1, <1>2, <1>4, ChangeKeeps

(* A cube comes or goes, and everybody has to press Ready again.           *)
LEMMA CubesKeep ==
  ASSUME IInv, NEW l \in Row, ByPeople, lobby' = Invalidated(AllUnready(l)),
         l.joined = lobby.joined, l.config.target = lobby.config.target,
         \A p \in Players : l.claims[p] \in {None, lobby.claims[p]},
         l.status = lobby.status, l.revision = lobby.revision,
         l.auto = lobby.auto, l.held = lobby.held
  PROVE  Keeps
<1> DEFINE m == AllUnready(l)
<1>1. /\ m \in Row /\ m.joined = l.joined /\ m.config = l.config /\ m.claims = l.claims
      /\ m.acks = [p \in Players |-> {}]
      /\ m.status = l.status /\ m.revision = l.revision /\ m.auto = l.auto /\ m.held = l.held
  BY DEF AllUnready, Row
<1>2. lobby \in Row /\ SeatsOK(lobby)
  BY DEF IInv, RowsOK
<1> HIDE DEF m
<1>3. SeatsOK(m)
  BY <1>1, <1>2 DEF SeatsOK, Joined
<1> QED BY <1>1, <1>3, ChangeKeeps DEF m

LEMMA AttachKeeps ==
  ASSUME IInv, NEW c \in Cubes, AttachCube(c)
  PROVE  Keeps
<1> DEFINE l == [lobby EXCEPT !.config.cubes = @ \cup {c}]
<1>1. lobby \in Row /\ ByPeople /\ lobby' = Invalidated(AllUnready(l))
  BY DEF IInv, RowsOK, AttachCube
<1>2. /\ l \in Row /\ l.joined = lobby.joined /\ l.config.target = lobby.config.target
      /\ l.claims = lobby.claims /\ l.status = lobby.status /\ l.revision = lobby.revision
      /\ l.auto = lobby.auto /\ l.held = lobby.held
  BY <1>1 DEF Row, Config
<1> HIDE DEF l
<1> QED BY <1>1, <1>2, CubesKeep

LEMMA DetachKeeps ==
  ASSUME IInv, NEW c \in Cubes, DetachCube(c)
  PROVE  Keeps
<1> DEFINE free(themes) == [p \in Players |-> IF themes[p] = c THEN None ELSE themes[p]]
           l == [lobby EXCEPT !.config.cubes = @ \ {c},
                              !.config.assigned = free(@), !.claims = free(@)]
<1>1. lobby \in Row /\ ByPeople /\ lobby' = Invalidated(AllUnready(l))
  BY DEF IInv, RowsOK, DetachCube
<1>2. \A themes \in Themes : free(themes) \in Themes
  BY DEF Themes
<1>3. lobby.claims \in Themes /\ lobby.config.assigned \in Themes
  BY <1>1 DEF Row, Config
<1>4. free(lobby.claims) \in Themes /\ free(lobby.config.assigned) \in Themes
  BY <1>2, <1>3
<1>5. \A p \in Players : free(lobby.claims)[p] \in {None, lobby.claims[p]}
  OBVIOUS
<1> HIDE DEF free
<1>6. /\ l \in Row /\ l.joined = lobby.joined /\ l.config.target = lobby.config.target
      /\ l.claims = free(lobby.claims) /\ l.status = lobby.status /\ l.revision = lobby.revision
      /\ l.auto = lobby.auto /\ l.held = lobby.held
  BY <1>1, <1>4 DEF Row, Config
<1> HIDE DEF l
<1> QED BY <1>1, <1>5, <1>6, CubesKeep

LEMMA CancelKeeps ==
  ASSUME IInv, Cancel
  PROVE  Keeps
<1> DEFINE l == [lobby EXCEPT !.claims = NoThemes]
<1>1. lobby \in Row /\ SeatsOK(lobby) /\ ByPeople /\ lobby' = Closed(l, "cancelled")
  BY DEF IInv, RowsOK, Cancel
<1>2. /\ l \in Row /\ l.joined = lobby.joined /\ l.config = lobby.config /\ l.acks = lobby.acks
      /\ l.revision = lobby.revision /\ \A p \in Players : l.claims[p] = None
  BY <1>1, NoStartTyped DEF Row, NoThemes
<1> HIDE DEF l
<1>3. /\ lobby' \in Row
      /\ lobby' = [l EXCEPT !.start = NoStart, !.revision = l.revision + 1,
                             !.status = "cancelled", !.auto = FALSE, !.held = FALSE]
  BY <1>1, <1>2, InvalidatedTyped
<1>4. /\ lobby'.start = NoStart /\ lobby'.revision = l.revision + 1 /\ lobby'.status = "cancelled"
      /\ ~lobby'.auto /\ ~lobby'.held /\ lobby'.joined = l.joined /\ lobby'.config = l.config
      /\ lobby'.claims = l.claims /\ lobby'.acks = l.acks /\ l.revision \in Nat
  BY <1>2, <1>3 DEF Row
<1>5. SeatsOK(lobby')
  BY <1>1, <1>2, <1>4 DEF SeatsOK, Joined
<1>6. /\ pools' = pools /\ catalog' = catalog /\ page' = page /\ stopped' = stopped
      /\ fresh' \in BOOLEAN
      /\ RequestKept
  BY <1>1, RequestWaits DEF ByPeople, Changes, Outside, Watch
<1>7. stopped \in BOOLEAN /\ pools \in [Cubes -> Contents] /\ catalog \in Catalogs
  BY DEF IInv, RowsOK
<1> QED BY <1>2, <1>3, <1>4, <1>5, <1>6, <1>7, StoppingKeeps DEF Keeps

(* The host looks, somebody edits a cube, or the catalog is synced.        *)
LEMMA ElsewhereKeeps ==
  ASSUME IInv, lobby' = lobby, agreed' = agreed, stopped' = stopped,
         pools' \in [Cubes -> Contents], catalog' \in Catalogs,
         \/ page' = page /\ fresh' = fresh
         \/ page' = Page(lobby) /\ fresh' = TRUE,
         request' \in {None, request, [revision |-> lobby.revision, same |-> TRUE]}
  PROVE  Keeps
<1>1. lobby.revision \in Nat
  BY DEF IInv, RowsOK, Row
<1>2. page'.revision \in 0..lobby.revision /\ fresh' \in BOOLEAN
  <2>1. page.revision \in 0..lobby.revision /\ fresh \in BOOLEAN
    BY DEF IInv, RowsOK
  <2>2. Page(lobby).revision \in 0..lobby.revision
    BY <1>1 DEF Page
  <2>3. CASE page' = page /\ fresh' = fresh
    BY <2>1, <2>3
  <2>4. CASE page' = Page(lobby) /\ fresh' = TRUE
    BY <2>2, <2>4
  <2> QED BY <2>3, <2>4
<1>3. PageIsCurrent' /\ RequestIsCurrent'
  BY DEF IInv, PageIsCurrent, RequestIsCurrent
<1>4. RowsOK'
  <2>1. /\ request' \in {None} \cup [revision : Nat, same : BOOLEAN]
        /\ request' # None => request'.revision <= lobby.revision
    <3>1. /\ request \in {None} \cup [revision : Nat, same : BOOLEAN]
          /\ request # None => request.revision <= lobby.revision
      BY DEF IInv, RowsOK
    <3>2. CASE request' = [revision |-> lobby.revision, same |-> TRUE]
      BY <1>1, <3>2
    <3>3. CASE request' \in {None, request}
      BY <3>1, <3>3
    <3> QED BY <3>2, <3>3
  <2>2. SeatsOK(lobby)' /\ CountdownOK(lobby)'
    BY DEF IInv, RowsOK, SeatsOK, CountdownOK, Joined
  <2> QED BY <1>2, <2>1, <2>2 DEF IInv, RowsOK
<1> QED BY <1>3, <1>4 DEF IInv, StopIsHeld, CountdownIsAgreed, Keeps

-----------------------------------------------------------------------------
(* The countdown.                                                          *)

(* What a start was armed for is what its sender had seen.                 *)
LEMMA ArmingByHandKeeps ==
  ASSUME IInv, RequestKept, NEW sent, NEW force \in BOOLEAN, NEW seen,
         Schedule(sent, force, seen), sent = lobby.revision => seen = TRUE,
         page' = page, Outside
  PROVE  Keeps
<1>1. lobby \in Row /\ lobby.status = "pending" /\ (lobby.held => lobby.auto)
  BY DEF IInv, RowsOK, CountdownOK, Schedule, Acts, Pending
<1>2. /\ lobby' = Armed(lobby, "manual", force) /\ Watch(seen) /\ stopped' = FALSE
      /\ pools' = pools /\ catalog' = catalog /\ seen = TRUE
  BY DEF Schedule, Arms, Outside
<1>3. lobby.revision >= lobby.revision
  BY <1>1 DEF Row
<1> QED BY <1>1, <1>2, <1>3, ArmingKeeps

LEMMA ScheduleKeeps ==
  ASSUME IInv, NEW force \in BOOLEAN, ScheduleStart(force)
  PROVE  Keeps
<1>1. page.revision = lobby.revision => fresh = TRUE
  BY DEF IInv, RowsOK, PageIsCurrent
<1> QED BY <1>1, ArmingByHandKeeps, RequestWaits DEF ScheduleStart

LEMMA CommitKeeps ==
  ASSUME IInv, NEW force \in BOOLEAN, CommitCaptured(force)
  PROVE  Keeps
<1>1. request # None /\ request' = None /\ RequestKept
      /\ Outside /\ page' = page
  BY DEF CommitCaptured, RequestKept
<1>2. request.revision = lobby.revision => request.same = TRUE
  BY <1>1 DEF IInv, RowsOK, RequestIsCurrent
<1>3. CASE Schedule(request.revision, force, request.same)
  BY <1>1, <1>2, <1>3, ArmingByHandKeeps
<1>4. CASE UNCHANGED <<lobby, fresh, agreed, stopped>>
  BY <1>1, <1>4, ElsewhereKeeps DEF Outside, IInv, RowsOK
<1> QED BY <1>3, <1>4 DEF CommitCaptured

(* A stop, and a start that failed.                                        *)
LEMMA FailingKeeps ==
  ASSUME IInv, lobby' = Failed(lobby), lobby.status = "pending", stopped' = TRUE,
         Changes
  PROVE  Keeps
<1>1. lobby \in Row /\ SeatsOK(lobby) /\ CountdownOK(lobby)
  BY DEF IInv, RowsOK
<1>2. /\ lobby' \in Row
      /\ lobby' = [lobby EXCEPT !.start = NoStart, !.revision = lobby.revision + 1,
                                 !.held = lobby.auto]
  BY <1>1, InvalidatedTyped
<1>3. /\ lobby'.start = NoStart /\ lobby'.revision = lobby.revision + 1
      /\ lobby'.status = lobby.status /\ lobby'.auto = lobby.auto /\ lobby'.held = lobby.auto
      /\ lobby'.joined = lobby.joined /\ lobby'.config = lobby.config
      /\ lobby'.claims = lobby.claims /\ lobby'.acks = lobby.acks /\ lobby.revision \in Nat
  BY <1>1, <1>2 DEF Row
<1>4. SeatsOK(lobby')
  BY <1>1, <1>3 DEF SeatsOK, Joined
<1>5. /\ pools' \in [Cubes -> Contents] /\ catalog' \in Catalogs /\ fresh' \in BOOLEAN
      /\ page' = page /\ RequestKept
  BY RequestWaits DEF Changes, Outside, Watch, IInv, RowsOK
<1> QED BY <1>2, <1>3, <1>4, <1>5, StoppingKeeps DEF Keeps

LEMMA SetAutoKeeps ==
  ASSUME IInv, NEW enabled \in BOOLEAN, NEW held \in BOOLEAN, SetAutoStart(enabled, held)
  PROVE  Keeps
<1> DEFINE going == Counting(lobby) /\ ~(lobby.start.kind = "auto" /\ (~enabled \/ held))
           start == IF going THEN [lobby.start EXCEPT !.revision = lobby.revision + 1] ELSE NoStart
           set == [lobby EXCEPT !.revision = @ + 1, !.auto = enabled, !.held = held, !.start = start]
           arms == enabled /\ ~held /\ Eligible(set) /\ ~going
<1>1. /\ lobby \in Row /\ SeatsOK(lobby) /\ lobby.status = "pending" /\ (held => enabled)
      /\ lobby' = (IF arms THEN Armed(set, "auto", FALSE) ELSE set)
      /\ stopped' = (stopped /\ ~(enabled /\ ~held))
      /\ Watch(TRUE) /\ page' = page /\ pools' = pools /\ catalog' = catalog
      /\ RequestKept /\ (View(lobby') = View(lobby) => request' = request)
  BY RequestWaits DEF IInv, RowsOK, SetAutoStart, Acts, Pending, Changes, Outside
<1>2. lobby.revision \in Nat /\ lobby.revision + 1 \in Nat /\ lobby.start \in Starts
  BY <1>1 DEF Row
<1>3. /\ start \in Starts
      /\ going => start.kind = lobby.start.kind /\ start.token = lobby.start.token
                  /\ start.hash = lobby.start.hash /\ start.revision = lobby.revision + 1
  BY <1>2, NoStartTyped DEF Starts
<1> HIDE DEF start
<1>4. /\ set \in Row /\ set.revision = lobby.revision + 1 /\ set.auto = enabled /\ set.held = held
      /\ set.start = start /\ set.status = "pending" /\ set.joined = lobby.joined
      /\ set.config = lobby.config /\ set.claims = lobby.claims /\ set.acks = lobby.acks
  BY <1>1, <1>2, <1>3 DEF Row
<1>5. set.revision >= lobby.revision /\ set.revision > lobby.revision
  BY <1>2, <1>4
<1> HIDE DEF set
<1>6. CASE arms
  <2>1. lobby' = Armed(set, "auto", FALSE) /\ stopped' = FALSE
    BY <1>1, <1>6
  <2> QED BY <1>1, <1>4, <1>5, <2>1, ArmingKeeps
<1>7. CASE ~arms /\ going
  <2>1. lobby' = set /\ View(lobby') = View(lobby) /\ Counting(lobby)
    BY <1>1, <1>4, <1>7 DEF View
  <2>2. lobby.start # NoStart /\ lobby.start.kind \in {"manual", "auto"}
    BY <2>1 DEF Counting, IInv, RowsOK, CountdownOK
  <2>3. start # NoStart /\ start.token = lobby.start.token
    BY <1>3, <1>7, <2>2 DEF NoStart
  <2>4. fresh' = fresh /\ agreed' = agreed
    <3>1. agreed = [setup |-> lobby.start.hash.setup, asShown |-> TRUE]
      BY <2>2 DEF IInv, CountdownIsAgreed
    <3>2. agreed' = [agreed EXCEPT !.asShown = @ /\ TRUE]
      BY <1>1, <1>4, <2>1, <2>3 DEF Watch, Counting
    <3>3. fresh' = (fresh /\ TRUE) /\ fresh \in BOOLEAN
      BY <1>1, <2>1 DEF Watch, IInv, RowsOK
    <3> QED BY <3>1, <3>2, <3>3
  <2>5. stopped' = FALSE
    BY <1>1, <2>2 DEF IInv, StopIsHeld, RowsOK
  <2> QED BY <1>1, <1>3, <1>4, <1>5, <1>7, <2>1, <2>2, <2>3, <2>4, <2>5, RunningOnKeeps
<1>8. CASE ~arms /\ ~going
  <2>1. lobby' = set /\ start = NoStart
    BY <1>1, <1>8 DEF start
  <2>2. SeatsOK(lobby')
    <3>1. SeatsOK(set)
      BY <1>1, <1>4 DEF SeatsOK, Joined
    <3> QED BY <2>1, <3>1
  <2>3. fresh' \in BOOLEAN /\ stopped' \in BOOLEAN /\ pools' \in [Cubes -> Contents]
        /\ catalog' \in Catalogs
    BY <1>1 DEF Watch, IInv, RowsOK
  <2>4. stopped' => lobby'.status # "active" /\ (lobby'.auto => lobby'.held)
    BY <1>1, <1>4, <2>1
  <2> QED BY <1>1, <1>4, <1>5, <2>1, <2>2, <2>3, <2>4, StoppingKeeps DEF Keeps
<1> QED BY <1>6, <1>7, <1>8

LEMMA ElapseKeeps ==
  ASSUME IInv, Elapse
  PROVE  Keeps
<1> DEFINE start == [lobby.start EXCEPT !.due = TRUE]
<1>1. /\ lobby \in Row /\ CountdownOK(lobby) /\ lobby.start # NoStart
      /\ lobby' = [lobby EXCEPT !.start = start]
      /\ page' = page /\ fresh' = fresh /\ agreed' = agreed /\ stopped' = stopped
      /\ request' = request
      /\ pools' = pools /\ catalog' = catalog
  BY DEF IInv, RowsOK, Elapse, Counting, Outside
<1>2. /\ start \in Starts /\ start.kind = lobby.start.kind /\ start.token = lobby.start.token
      /\ start.hash = lobby.start.hash /\ start.revision = lobby.start.revision
  BY <1>1 DEF Row, Starts
<1> HIDE DEF start
<1>3. /\ lobby' \in Row /\ lobby'.start = start /\ lobby'.revision = lobby.revision
      /\ lobby'.status = lobby.status /\ lobby'.auto = lobby.auto /\ lobby'.held = lobby.held
      /\ lobby'.joined = lobby.joined /\ lobby'.config = lobby.config
      /\ lobby'.claims = lobby.claims /\ lobby'.acks = lobby.acks
  BY <1>1, <1>2 DEF Row
<1>4. start # NoStart /\ start.revision = lobby.revision /\ (lobby.held => lobby.auto)
  BY <1>1, <1>2 DEF CountdownOK, NoStart
<1>5. stopped' = FALSE /\ lobby'.revision >= lobby.revision
  BY <1>1, <1>3 DEF IInv, StopIsHeld, RowsOK, Row
<1> QED BY <1>1, <1>2, <1>3, <1>4, <1>5, RunningOnKeeps

LEMMA TickKeeps ==
  ASSUME IInv, Tick
  PROVE  IInv' /\ (lobby'.status = "active" => Counting(lobby) /\ CanStart(lobby))
<1>1. /\ lobby \in Row /\ SeatsOK(lobby) /\ CountdownOK(lobby) /\ lobby.status = "pending"
      /\ Changes /\ Watch(TRUE) /\ page' = page /\ pools' = pools /\ catalog' = catalog
      /\ RequestKept
  BY RequestWaits DEF IInv, RowsOK, Tick, Candidate, Changes, Outside
<1>2. stopped = FALSE
  BY DEF IInv, StopIsHeld, RowsOK, Tick, Candidate, Counting
<1>3. CASE lobby' = Failed(lobby) /\ stopped' = TRUE
  BY <1>1, <1>3, FailingKeeps DEF Keeps
<1>4. CASE lobby' = Armed(lobby, "auto", FALSE) /\ stopped' = FALSE
  <2>1. lobby.revision >= lobby.revision
    BY <1>1 DEF Row
  <2> QED BY <1>1, <1>4, <2>1, ArmingKeeps DEF CountdownOK, Keeps
<1>5. CASE lobby' = Closed(lobby, "active") /\ stopped' = FALSE /\ Counting(lobby) /\ CanStart(lobby)
  <2>1. /\ lobby' \in Row
        /\ lobby' = [lobby EXCEPT !.start = NoStart, !.revision = lobby.revision + 1,
                                   !.status = "active", !.auto = FALSE, !.held = FALSE]
    BY <1>1, <1>5, InvalidatedTyped
  <2>2. /\ lobby'.start = NoStart /\ lobby'.revision = lobby.revision + 1
        /\ ~lobby'.auto /\ ~lobby'.held /\ lobby'.joined = lobby.joined
        /\ lobby'.config = lobby.config /\ lobby'.claims = lobby.claims
        /\ lobby'.acks = lobby.acks /\ lobby.revision \in Nat
    BY <1>1, <2>1 DEF Row
  <2>3. SeatsOK(lobby')
    BY <1>1, <2>2 DEF SeatsOK, Joined
  <2>4. pools' \in [Cubes -> Contents] /\ catalog' \in Catalogs /\ fresh' \in BOOLEAN
    BY <1>1 DEF Watch, IInv, RowsOK
  <2>5. lobby'.revision > lobby.revision
    BY <2>2
  <2> QED BY <1>1, <1>5, <2>1, <2>2, <2>3, <2>4, <2>5, StoppingKeeps
<1> QED BY <1>2, <1>3, <1>4, <1>5 DEF Tick

-----------------------------------------------------------------------------
(* The theorems.                                                           *)

LEMMA InitKeeps == Init => IInv
<1> SUFFICES ASSUME Init PROVE IInv
  OBVIOUS
<1>1. PICK config \in Configs :
        lobby = [status |-> "pending", joined |-> {Host}, config |-> config,
                 claims |-> NoThemes, acks |-> [p \in Players |-> {}], revision |-> 0,
                 auto |-> FALSE, held |-> FALSE, start |-> NoStart]
  BY DEF Init
<1>2. config \in Config /\ config.target \in Nat /\ (config.target # 0 => config.target >= 2)
  BY LobbyAssumption DEF LobbyAssumption, Config
<1>3. Host \in Players /\ Cardinality({Host}) = 1
  BY LobbyAssumption, FS_Singleton DEF LobbyAssumption, Players
<1>4. lobby \in Row
  BY <1>1, <1>2, <1>3, NoStartTyped DEF Row
<1>5. SeatsOK(lobby) /\ CountdownOK(lobby)
  BY <1>1, <1>2, <1>3 DEF SeatsOK, CountdownOK, Joined, NoThemes
<1>6. /\ pools \in [Cubes -> Contents] /\ catalog \in Catalogs
      /\ page.revision \in 0..lobby.revision /\ fresh = TRUE /\ stopped = FALSE
      /\ request = None
  BY <1>1 DEF Init, Contents, Catalogs, Page
<1> QED BY <1>1, <1>4, <1>5, <1>6
        DEF IInv, RowsOK, StopIsHeld, PageIsCurrent, RequestIsCurrent,
            CountdownIsAgreed

(* Every step but a tick.                                                  *)
LEMMA OthersKeep ==
  ASSUME IInv, [Next]_vars, ~Tick
  PROVE  Keeps
<1>1. lobby \in Row /\ SeatsOK(lobby) /\ pools \in [Cubes -> Contents] /\ catalog \in Catalogs
  BY DEF IInv, RowsOK
<1>2. ASSUME NEW p \in Players, SetReady(p) \/ SetUnready(p)
      PROVE  Keeps
  <2>1. p \in lobby.joined /\ ByPeople
    BY <1>2 DEF SetReady, SetUnready
  <2>2. CASE SetReady(p)
    <3>1. Ack(lobby, p) \in Acks
      BY <1>1, HashTyped
    <3> QED BY <2>1, <2>2, <3>1, ReadyKeeps DEF SetReady
  <2>3. CASE SetUnready(p)
    BY <2>1, <2>3, ReadyKeeps DEF SetUnready
  <2> QED BY <1>2, <2>2, <2>3
<1>3. CASE SetVisibility
  BY <1>1, <1>3, ChangeKeeps DEF SetVisibility
<1>4. ASSUME NEW c \in Cubes, NEW x \in Contents, EditCube(c, x)
      PROVE  Keeps
  BY <1>1, <1>4, ElsewhereKeeps DEF EditCube
<1>5. CASE SyncCatalog
  BY <1>1, <1>5, ElsewhereKeeps DEF SyncCatalog
<1>6. CASE Look \/ CaptureRevision
  BY <1>1, <1>6, ElsewhereKeeps DEF Look, CaptureRevision, Outside
<1>7. CASE StopStart
  BY <1>7, FailingKeeps DEF StopStart, Acts, Pending
<1>8. CASE TickFails
  BY <1>8, FailingKeeps DEF TickFails, Candidate
<1>9. CASE UNCHANGED vars
  BY <1>1, <1>9, ElsewhereKeeps DEF vars
<1> QED BY <1>2, <1>3, <1>4, <1>5, <1>6, <1>7, <1>8, <1>9,
           JoinKeeps, LeaveKeeps, ClaimKeeps, ConfigureKeeps, AttachKeeps, DetachKeeps,
           ScheduleKeeps, CommitKeeps, SetAutoKeeps, ElapseKeeps, CancelKeeps DEF Next

LEMMA NextKeeps == IInv /\ [Next]_vars => IInv'
BY OthersKeep, TickKeeps DEF Keeps

LEMMA AlwaysIInv == Spec => []IInv
BY InitKeeps, NextKeeps, PTL DEF Spec

(* The rows of a lobby keep their shape, and a running countdown is always  *)
(* of the revision the lobby has (invalidateDraftLobby in every change).    *)
THEOREM LobbyTypeCorrect == Spec => []TypeOK
<1>1. IInv => TypeOK
  BY IInvHolds
<1> QED BY <1>1, AlwaysIInv, PTL

(* After Stop, or after a start that failed, nothing but the host's request *)
(* arms a countdown or starts the draft (stopStart, fail of tick).         *)
THEOREM StopAlwaysHolds == Spec => []StopHolds
<1>1. IInv => StopHolds
  BY IInvHolds
<1> QED BY <1>1, AlwaysIInv, PTL

(* No lobby ever starts a draft but with the seats, rules, themes and cube  *)
(* pools that its countdown was armed for, and with everybody ready for     *)
(* them (tick against every change of the lobby and of its cubes).  A host  *)
(* had seen seats, rules and themes when they pressed Start, unless their   *)
(* request carried no revision: then they are those it met on arrival.  Of  *)
(* the catalog's cards it says only that there are enough.                 *)
THEOREM DraftsStartAsAgreed == Spec => StartsAsAgreed
<1> DEFINE Agreed ==
      Pending /\ lobby'.status = "active" =>
          /\ agreed.asShown /\ agreed.setup = Setup(lobby)
          /\ IsTheme(lobby) \/ catalog # "short"
          /\ \A p \in lobby.joined :
                \/ lobby.start.force \/ p \in Bots
                \/ p = Host /\ lobby.start.kind = "manual"
                \/ lobby.acks[p] = {Ack(lobby, p)}
<1>1. ASSUME IInv, [Next]_vars PROVE [Agreed]_vars
  <2> SUFFICES ASSUME Pending, lobby'.status = "active" PROVE Agreed
    BY DEF Pending
  <2>1. lobby \in Row /\ SeatsOK(lobby) /\ lobby.status = "pending" /\ pools \in [Cubes -> Contents]
    BY <1>1 DEF IInv, RowsOK, Pending
  <2>2. Tick
    BY <1>1, <2>1, OthersKeep DEF Keeps
  <2>3. Counting(lobby) /\ CanStart(lobby)
    BY <1>1, <2>2, TickKeeps
  <2>4. agreed = [setup |-> lobby.start.hash.setup, asShown |-> TRUE]
    BY <1>1, <2>3 DEF IInv, CountdownIsAgreed, Counting
  <2>5. lobby.start.hash.setup = Setup(lobby)
    BY <2>1, <2>3, HashTyped DEF CanStart
  <2>6. ASSUME NEW p \in lobby.joined
        PROVE  \/ lobby.start.force \/ p \in Bots
               \/ p = Host /\ lobby.start.kind = "manual"
               \/ lobby.acks[p] = {Ack(lobby, p)}
    BY <2>3 DEF CanStart, ReadyToStart, IsReady
  <2>7. IsTheme(lobby) \/ catalog # "short"
    BY <2>3 DEF CanStart, Sound
  <2> QED BY <2>4, <2>5, <2>6, <2>7
<1> QED BY <1>1, AlwaysIInv, PTL DEF Spec, StartsAsAgreed

=============================================================================
