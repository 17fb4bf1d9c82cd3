---------------------------- MODULE ClientProofs -----------------------------
(***************************************************************************)
(* Theorems of the web client: of Workspace, for any repositories, any     *)
(* number of handlers, picks and status requests, and, at the end, of      *)
(* EntityDetails, for any selections and panes.                            *)
(*                                                                         *)
(* Since a repository was picked the two copies of the selection agree:    *)
(* what a late answer compares itself with is then what is shown.          *)
(***************************************************************************)
EXTENDS Workspace, EntityDetails, TLAPS

(* Between its start and its end a handler has its repository, but for one *)
(* that is still bringing it; so has each poll, which a handler starts as  *)
(* it ends.                                                                *)
Busy == {"bringing", "triggering", "generating", "proposing", "scoring"}

Typed ==
  /\ repositoryId \in Repositories \union {None}
  /\ activeRepositoryRef \in Repositories \union {None}
  /\ shown \in [Panes -> Repositories \union {None}]
  /\ loading \in BOOLEAN /\ listing \in BOOLEAN /\ analyzing \in BOOLEAN /\ picked \in BOOLEAN
  /\ proposal \in Handlers \union {None} /\ safety \in Handlers \union {None}
  /\ pollingRef \in Handlers \union {None}
  /\ of \in [Handlers -> Repositories \union {None}]
  /\ at \in [Handlers -> HandlerPCs]
  /\ poll \in [Handlers -> PollPCs]
  /\ polls \in [Handlers -> 0..MaxPolls]
  /\ loads \in [Repositories -> Nat]
  /\ picks \in 0..MaxPicks

Owners ==
  \A h \in Handlers :
    /\ at[h] \in {"triggering", "generating", "proposing", "scoring", "abandoned"} => of[h] # None
    /\ poll[h] # "none" => of[h] # None /\ at[h] = "done"
    /\ h \in {proposal, safety} => of[h] # None /\ at[h] \in {"scoring", "done", "abandoned"}

(* The selection is what continuations act for.                            *)
Agreed == picked => activeRepositoryRef = repositoryId

Spinning == loading => \E h \in Handlers : at[h] \in Busy \union {"abandoned"}

(* The inductive invariant.                                                *)
IInv ==
  /\ Typed /\ Owners /\ Agreed /\ SelectionIsShown /\ Spinning
  /\ analyzing => shown["status"] # None

(* The part of it about the panes.                                         *)
Screen ==
  /\ SelectionIsShown
  /\ analyzing => shown["status"] # None
------------------------------------------------------------------------------
LEMMA Kinds ==
  /\ "status" \in Panes /\ None \notin Repositories /\ None \notin Handlers
  /\ MaxPolls \in Nat /\ MaxPolls >= 1 /\ MaxPicks \in Nat
  /\ Listed \subseteq Repositories /\ Brought \subseteq Repositories
BY IdentityAssumption, BoundsAssumption DEF Panes, Repositories

(* Panes that are filled for the active repository are filled for the      *)
(* selected one.                                                           *)
LEMMA ShowIsShown ==
  ASSUME IInv, NEW id \in Repositories, activeRepositoryRef = id,
         NEW ps \in SUBSET Panes, Show(id, ps),
         UNCHANGED <<repositoryId, picked, of>>
  PROVE  /\ shown' \in [Panes -> Repositories \union {None}] /\ analyzing' \in BOOLEAN
         /\ proposal' = proposal /\ safety' = safety
         /\ Screen'
<1>1. /\ shown' = [p \in Panes |-> IF p \in ps THEN id ELSE shown[p]]
      /\ analyzing' \in IF "status" \in ps THEN BOOLEAN ELSE {analyzing}
      /\ proposal' = proposal /\ safety' = safety
  BY DEF Show
<1>2. shown' \in [Panes -> Repositories \union {None}] /\ analyzing' \in BOOLEAN
  BY <1>1 DEF IInv, Typed
<1>3. analyzing' => shown'["status"] # None
  BY <1>1, Kinds DEF IInv
<1>4. ASSUME picked'
      PROVE  /\ \A p \in Panes : shown'[p] \in {None, repositoryId'}
             /\ \A h \in {proposal', safety'} \ {None} : of'[h] = repositoryId'
  <2>1. id = repositoryId
    BY <1>4 DEF IInv, Agreed
  <2>2. /\ \A p \in Panes : shown[p] \in {None, repositoryId}
        /\ \A h \in {proposal, safety} \ {None} : of[h] = repositoryId
    BY <1>4 DEF IInv, SelectionIsShown
  <2> QED BY <1>1, <2>1, <2>2
<1>5. SelectionIsShown'
  BY <1>4 DEF SelectionIsShown
<1> QED BY <1>1, <1>2, <1>3, <1>5 DEF Screen

LEMMA PanesStay ==
  ASSUME IInv, UNCHANGED <<shown, analyzing, proposal, safety, repositoryId>>,
         picked' => picked,
         \A h \in {proposal, safety} \ {None} : of'[h] = of[h]
  PROVE  Screen'
BY DEF IInv, Screen, SelectionIsShown

LEMMA LoadedIsShown ==
  ASSUME IInv, NEW id \in Repositories, Loaded(id),
         UNCHANGED <<activeRepositoryRef, repositoryId, picked, of>>
  PROVE  /\ shown' \in [Panes -> Repositories \union {None}] /\ analyzing' \in BOOLEAN
         /\ proposal' = proposal /\ safety' = safety
         /\ Screen'
<1>1. CASE activeRepositoryRef = id
  BY <1>1, ShowIsShown DEF Loaded
<1>2. CASE activeRepositoryRef # id
  <2>1. UNCHANGED <<shown, analyzing, proposal, safety>>
    BY <1>2 DEF Loaded, panes
  <2> QED BY <2>1, PanesStay DEF IInv, Typed
<1> QED BY <1>1, <1>2

(* A poll is stopped by clearing its timer.                                *)
LEMMA StoppedPolls ==
  ASSUME IInv
  PROVE  /\ Stopped \in [Handlers -> PollPCs]
         /\ \A h \in Handlers : Stopped[h] = "none" <=> poll[h] = "none"
<1>1. "ended" \in PollPCs
  BY DEF PollPCs
<1> QED BY <1>1, Kinds DEF Stopped, IInv, Typed

(* A selected repository is the active one.                                *)
LEMMA SetRepositorySays ==
  ASSUME IInv, NEW id \in Repositories \union {None}, SetRepository(id)
  PROVE  /\ repositoryId' = id /\ activeRepositoryRef' = id
         /\ loads' \in [Repositories -> Nat]
BY DEF SetRepository, IInv, Typed
------------------------------------------------------------------------------
LEMMA ListArrivesSafe ==
  ASSUME IInv, ListArrives
  PROVE  IInv'
<1>1. /\ listing' = FALSE
      /\ UNCHANGED <<picks, picked, shown, analyzing, proposal, safety, loading, of, at,
                     poll, polls, pollingRef>>
  BY DEF ListArrives, panes, polling
<1>2. CASE UNCHANGED <<repositoryId, activeRepositoryRef, loads>>
  <2>1. Typed' /\ Owners' /\ Agreed' /\ Spinning'
    BY <1>1, <1>2 DEF IInv, Typed, Owners, Agreed, Spinning
  <2>2. Screen'
    BY <1>1, <1>2, PanesStay
  <2> QED BY <2>1, <2>2 DEF IInv, Screen
<1>3. CASE activeRepositoryRef = None /\ \E r \in Listed : SetRepository(r)
  <2>1. PICK r \in Repositories : SetRepository(r)
    BY <1>3, Kinds
  <2>2. repositoryId' = r /\ activeRepositoryRef' = r /\ loads' \in [Repositories -> Nat]
    BY <2>1, SetRepositorySays
  <2>3. Typed' /\ Owners' /\ Agreed' /\ Spinning'
    BY <1>1, <2>2 DEF IInv, Typed, Owners, Agreed, Spinning
  <2>4. picked => proposal = None /\ safety = None /\ \A p \in Panes : shown[p] = None
    <3>1. picked => repositoryId = None
      BY <1>3 DEF IInv, Agreed
    <3>2. \A h \in {proposal, safety} \ {None} : of[h] # None
      BY DEF IInv, Owners, Typed
    <3> QED BY <3>1, <3>2 DEF IInv, SelectionIsShown
  <2>5. SelectionIsShown'
    BY <1>1, <2>4 DEF SelectionIsShown
  <2>6. analyzing' => shown'["status"] # None
    BY <1>1 DEF IInv
  <2> QED BY <2>3, <2>5, <2>6 DEF IInv
<1> QED BY <1>2, <1>3 DEF ListArrives

LEMMA PickSafe ==
  ASSUME IInv, Pick
  PROVE  IInv'
<1>1. /\ picks < MaxPicks /\ picks' = picks + 1 /\ picked' = TRUE
      /\ poll' = Stopped /\ pollingRef' = None
      /\ shown' = [p \in Panes |-> None] /\ analyzing' = FALSE
      /\ proposal' = None /\ safety' = None
      /\ UNCHANGED <<loading, listing, of, at, polls>>
  BY DEF Pick, EmptyPanes
<1>2. PICK id \in Repositories \union {None} : SetRepository(id)
  <2>1. Offered \subseteq Repositories \union {None}
    BY Kinds DEF Offered, IInv, Typed
  <2> QED BY <2>1 DEF Pick
<1>3. repositoryId' = id /\ activeRepositoryRef' = id /\ loads' \in [Repositories -> Nat]
  BY <1>2, SetRepositorySays
<1>4. Typed'
  <2>1. picks' \in 0..MaxPicks
    BY <1>1, Kinds DEF IInv, Typed
  <2> QED BY <1>1, <1>3, <2>1, StoppedPolls DEF IInv, Typed
<1>5. Owners'
  BY <1>1, StoppedPolls, Kinds DEF IInv, Owners
<1>6. Agreed' /\ Spinning' /\ SelectionIsShown'
  BY <1>1, <1>3 DEF IInv, Agreed, Spinning, SelectionIsShown
<1> QED BY <1>1, <1>4, <1>5, <1>6 DEF IInv

LEMMA LoadReturnsSafe ==
  ASSUME IInv, NEW id \in Repositories, LoadReturns(id)
  PROVE  IInv'
<1>1. /\ loads[id] > 0 /\ loads' = [loads EXCEPT ![id] = loads[id] - 1] /\ Loaded(id)
      /\ UNCHANGED <<repositoryId, activeRepositoryRef, picks, picked, loading, listing,
                     of, at, poll, polls, pollingRef>>
  BY DEF LoadReturns, selection, polling
<1>2. /\ shown' \in [Panes -> Repositories \union {None}] /\ analyzing' \in BOOLEAN
      /\ proposal' = proposal /\ safety' = safety /\ Screen'
  BY <1>1, LoadedIsShown
<1>3. loads' \in [Repositories -> Nat]
  BY <1>1 DEF IInv, Typed
<1>4. Typed' /\ Owners' /\ Agreed' /\ Spinning'
  BY <1>1, <1>2, <1>3 DEF IInv, Typed, Owners, Agreed, Spinning
<1> QED BY <1>2, <1>4 DEF IInv, Screen
------------------------------------------------------------------------------
(* A poll moves on.                                                        *)
LEMMA PollMoves ==
  ASSUME IInv, NEW h \in Handlers, poll[h] # "none",
         NEW pc \in PollPCs \ {"none"}, PollGoto(h, pc),
         pollingRef' \in Handlers \union {None}, polls' \in [Handlers -> 0..MaxPolls],
         UNCHANGED <<selection, loading, listing, of, at, loads>>,
         shown' \in [Panes -> Repositories \union {None}], analyzing' \in BOOLEAN,
         proposal' = proposal, safety' = safety, Screen'
  PROVE  IInv'
<1>1. UNCHANGED <<repositoryId, activeRepositoryRef, picks, picked, loading, listing, of, at, loads>>
  BY DEF selection
<1>2. poll' \in [Handlers -> PollPCs] /\ poll' = [poll EXCEPT ![h] = pc]
  BY DEF PollGoto, IInv, Typed
<1>3. Typed'
  BY <1>1, <1>2 DEF IInv, Typed
<1>4. Owners'
  BY <1>1, <1>2 DEF IInv, Typed, Owners
<1>5. Agreed' /\ Spinning'
  BY <1>1 DEF IInv, Agreed, Spinning
<1> QED BY <1>3, <1>4, <1>5 DEF IInv, Screen

LEMMA PollStepSafe ==
  ASSUME IInv, NEW h \in Handlers, PollStep(h)
  PROVE  IInv'
<1> DEFINE Kept == UNCHANGED <<shown, analyzing, proposal, safety>>
<1>1. /\ poll[h] \in {"fetching", "refreshing", "listing", "waiting"}
      /\ UNCHANGED <<selection, loading, listing, of, at, loads>>
      /\ UNCHANGED <<repositoryId, activeRepositoryRef, picked, of>>
  BY DEF PollStep, StatusReturns, RefreshReturns, ListReturns, TimerFires, selection
<1>2. of[h] \in Repositories
  BY <1>1 DEF IInv, Owners, Typed
<1>3. /\ {"ended", "waiting", "fetching", "refreshing", "listing"} \subseteq PollPCs \ {"none"}
      /\ pollingRef \in Handlers \union {None} /\ polls \in [Handlers -> 0..MaxPolls]
      /\ shown \in [Panes -> Repositories \union {None}] /\ analyzing \in BOOLEAN
  BY DEF PollPCs, IInv, Typed
<1>4. Kept => Screen'
  BY <1>1, PanesStay
<1>5. ASSUME StatusReturns(h) PROVE IInv'
  <2>1. polls' = polls
    BY <1>5 DEF StatusReturns
  <2>2. CASE PollGoto(h, "ended") /\ Kept /\ pollingRef' = pollingRef
    BY <1>1, <1>3, <1>4, <2>1, <2>2, PollMoves
  <2>3. CASE activeRepositoryRef = of[h] /\ Retry(h) /\ (Show(of[h], {"status"}) \/ Kept)
    <3>1. PollGoto(h, "waiting") /\ pollingRef' = h
      BY <2>3 DEF Retry
    <3>2. CASE Show(of[h], {"status"})
      <4>1. /\ shown' \in [Panes -> Repositories \union {None}] /\ analyzing' \in BOOLEAN
            /\ proposal' = proposal /\ safety' = safety /\ Screen'
        BY <1>1, <1>2, <2>3, <3>2, Kinds, ShowIsShown
      <4> QED BY <1>1, <1>3, <2>1, <3>1, <4>1, PollMoves
    <3>3. CASE Kept
      BY <1>1, <1>3, <1>4, <2>1, <3>1, <3>3, PollMoves
    <3> QED BY <2>3, <3>2, <3>3
  <2>4. CASE /\ activeRepositoryRef = of[h] /\ PollGoto(h, "refreshing") /\ pollingRef' = None
             /\ Show(of[h], {"status"})
    <3>1. /\ shown' \in [Panes -> Repositories \union {None}] /\ analyzing' \in BOOLEAN
          /\ proposal' = proposal /\ safety' = safety /\ Screen'
      BY <1>1, <1>2, <2>4, Kinds, ShowIsShown
    <3> QED BY <1>1, <1>3, <2>1, <2>4, <3>1, PollMoves
  <2> QED BY <1>5, <2>2, <2>3, <2>4 DEF StatusReturns, panes
<1>6. ASSUME RefreshReturns(h) PROVE IInv'
  <2>1. polls' = polls /\ pollingRef' = pollingRef /\ Loaded(of[h])
        /\ (PollGoto(h, "listing") \/ PollGoto(h, "ended"))
    BY <1>6 DEF RefreshReturns
  <2>2. /\ shown' \in [Panes -> Repositories \union {None}] /\ analyzing' \in BOOLEAN
        /\ proposal' = proposal /\ safety' = safety /\ Screen'
    BY <1>1, <1>2, <2>1, LoadedIsShown
  <2> QED BY <1>1, <1>3, <2>1, <2>2, PollMoves
<1>7. ASSUME ListReturns(h) PROVE IInv'
  <2>1. /\ polls' = polls /\ Kept
        /\ \/ PollGoto(h, "ended") /\ pollingRef' = pollingRef
           \/ PollGoto(h, "waiting") /\ pollingRef' = h
    BY <1>7 DEF ListReturns, Retry, panes
  <2> QED BY <1>1, <1>3, <1>4, <2>1, PollMoves
<1>8. ASSUME TimerFires(h) PROVE IInv'
  <2>1. /\ Kept /\ (PollGoto(h, "ended") \/ PollGoto(h, "fetching"))
        /\ pollingRef' \in Handlers \union {None}
        /\ \/ polls' = polls
           \/ polls[h] < MaxPolls /\ polls' = [polls EXCEPT ![h] = polls[h] + 1]
    BY <1>3, <1>8 DEF TimerFires, panes
  <2>2. polls' \in [Handlers -> 0..MaxPolls]
    BY <1>3, <2>1, Kinds
  <2> QED BY <1>1, <1>3, <1>4, <2>1, <2>2, PollMoves
<1> QED BY <1>5, <1>6, <1>7, <1>8 DEF PollStep
------------------------------------------------------------------------------
(* A handler starts, for the selected repository or for one to be brought. *)
LEMMA StartSafe ==
  ASSUME IInv, NEW h \in Handlers, NEW id \in Repositories \union {None},
         NEW pc \in Busy, id = None => pc = "bringing", Start(h, id, pc),
         UNCHANGED <<selection, shown, analyzing, listing, polling, loads>>,
         \/ UNCHANGED <<proposal, safety>>
         \/ proposal' = None /\ safety' = None
  PROVE  IInv'
<1>1. /\ at[h] = "idle" /\ of' = [of EXCEPT ![h] = id] /\ at' = [at EXCEPT ![h] = pc]
      /\ loading' = TRUE /\ pc \in HandlerPCs
      /\ UNCHANGED <<repositoryId, activeRepositoryRef, picks, picked, shown, analyzing,
                     listing, poll, polls, pollingRef, loads>>
  BY DEF Start, Goto, selection, polling, Busy, HandlerPCs
<1>2. h \notin {proposal, safety} /\ poll[h] = "none"
  BY <1>1 DEF IInv, Owners
<1>3. Typed'
  BY <1>1 DEF IInv, Typed
<1>4. at'[h] = pc /\ of'[h] = id /\ \A g \in Handlers \ {h} : at'[g] = at[g] /\ of'[g] = of[g]
  BY <1>1 DEF IInv, Typed
<1>5. Owners'
  <2> SUFFICES ASSUME NEW g \in Handlers
               PROVE  /\ at'[g] \in {"triggering", "generating", "proposing", "scoring", "abandoned"} =>
                           of'[g] # None
                      /\ poll'[g] # "none" => of'[g] # None /\ at'[g] = "done"
                      /\ g \in {proposal', safety'} =>
                           of'[g] # None /\ at'[g] \in {"scoring", "done", "abandoned"}
    BY DEF Owners
  <2>1. g \in {proposal', safety'} => g \in {proposal, safety}
    BY Kinds
  <2>2. CASE g = h
    BY <1>1, <1>2, <1>4, <2>1, <2>2
  <2>3. CASE g # h
    BY <1>1, <1>4, <2>1, <2>3 DEF IInv, Owners
  <2> QED BY <2>2, <2>3
<1>6. Spinning'
  BY <1>4 DEF Spinning
<1>7. Screen'
  <2>1. CASE UNCHANGED <<proposal, safety>>
    BY <1>1, <1>2, <1>4, <2>1, PanesStay DEF IInv, Typed
  <2>2. CASE proposal' = None /\ safety' = None
    BY <1>1, <2>2 DEF IInv, Screen, SelectionIsShown
  <2> QED BY <2>1, <2>2
<1> QED BY <1>1, <1>3, <1>5, <1>6, <1>7 DEF IInv, Agreed, Screen

(* A handler that has been answered goes on, ends, or finds its repository *)
(* left; where the spinner stops, it may stop too early, never too late.   *)
LEMMA HandlerMoves ==
  ASSUME IInv, NEW h \in Handlers, at[h] \in {"triggering", "generating", "proposing", "scoring"},
         \/ Goto(h, "done") /\ loading' = FALSE
         \/ Goto(h, "scoring") /\ loading' = loading
         \/ Goto(h, "abandoned") /\ loading' = loading,
         UNCHANGED <<selection, listing, of, polling, loads>>,
         shown' \in [Panes -> Repositories \union {None}], analyzing' \in BOOLEAN,
         proposal' \in {proposal, h}, safety' \in {safety, h},
         Screen'
  PROVE  IInv'
<1>1. UNCHANGED <<repositoryId, activeRepositoryRef, picks, picked,
                  listing, of, poll, polls, pollingRef, loads>>
  BY DEF selection, polling
<1>2. PICK pc \in {"done", "scoring", "abandoned"} : at' = [at EXCEPT ![h] = pc]
  BY DEF Goto
<1>3. pc \in HandlerPCs /\ of[h] # None /\ poll[h] = "none"
  BY DEF HandlerPCs, IInv, Owners
<1>4. loading' = FALSE \/ loading' = loading
  OBVIOUS
<1>5. loading' \in BOOLEAN
  BY <1>4 DEF IInv, Typed
<1>6. Typed'
  BY <1>1, <1>2, <1>3, <1>5 DEF IInv, Typed
<1>7. at'[h] = pc /\ \A g \in Handlers \ {h} : at'[g] = at[g]
  BY <1>2 DEF IInv, Typed
<1>8. Owners'
  <2> SUFFICES ASSUME NEW g \in Handlers
               PROVE  /\ at'[g] \in {"triggering", "generating", "proposing", "scoring", "abandoned"} =>
                           of'[g] # None
                      /\ poll'[g] # "none" => of'[g] # None /\ at'[g] = "done"
                      /\ g \in {proposal', safety'} =>
                           of'[g] # None /\ at'[g] \in {"scoring", "done", "abandoned"}
    BY DEF Owners
  <2>1. CASE g = h
    BY <1>1, <1>3, <1>7, <2>1
  <2>2. CASE g # h
    BY <1>1, <1>7, <2>2 DEF IInv, Owners
  <2> QED BY <2>1, <2>2
<1>9. Spinning'
  <2>1. CASE Goto(h, "done") /\ loading' = FALSE
    BY <2>1 DEF Spinning
  <2>2. CASE Goto(h, "scoring") \/ Goto(h, "abandoned")
    <3>1. at'[h] \in {"scoring", "abandoned"}
      BY <2>2 DEF Goto, IInv, Typed
    <3> QED BY <3>1 DEF Spinning, Busy
  <2> QED BY <2>1, <2>2
<1> QED BY <1>1, <1>6, <1>8, <1>9 DEF IInv, Agreed, Screen

LEMMA BringReturnsSafe ==
  ASSUME IInv, NEW h \in Handlers, BringReturns(h)
  PROVE  IInv'
<1>1. /\ at[h] = "bringing"
      /\ UNCHANGED <<picks, shown, analyzing, proposal, safety, listing, poll, polls, pollingRef>>
  BY DEF BringReturns, panes, polling
<1>2. h \notin {proposal, safety} /\ poll[h] = "none"
  BY <1>1 DEF IInv, Owners
<1>3. CASE /\ \E r \in Brought : of' = [of EXCEPT ![h] = r] /\ SetRepository(r)
           /\ Goto(h, "triggering") /\ picked' = FALSE /\ loading' = loading
  <2>1. PICK r \in Repositories : of' = [of EXCEPT ![h] = r] /\ SetRepository(r)
    BY <1>3, Kinds
  <2>2. /\ repositoryId' = r /\ activeRepositoryRef' = r /\ loads' \in [Repositories -> Nat]
        /\ at' = [at EXCEPT ![h] = "triggering"] /\ "triggering" \in HandlerPCs
    BY <1>3, <2>1, SetRepositorySays DEF Goto, HandlerPCs
  <2>3. Typed'
    BY <1>1, <1>3, <2>1, <2>2 DEF IInv, Typed
  <2>4. /\ at'[h] = "triggering" /\ of'[h] = r /\ r # None
        /\ \A g \in Handlers \ {h} : at'[g] = at[g] /\ of'[g] = of[g]
    BY <2>1, <2>2, Kinds DEF IInv, Typed
  <2>5. Owners'
    BY <1>1, <1>2, <2>4 DEF IInv, Owners
  <2>6. Spinning'
    BY <2>4 DEF Spinning, Busy
  <2>7. Agreed' /\ SelectionIsShown' /\ (analyzing' => shown'["status"] # None)
    BY <1>1, <1>3 DEF IInv, Agreed, SelectionIsShown
  <2> QED BY <2>3, <2>5, <2>6, <2>7 DEF IInv
<1>4. CASE Finish(h) /\ UNCHANGED <<of, repositoryId, activeRepositoryRef, loads, picked>>
  <2>1. at' = [at EXCEPT ![h] = "done"] /\ loading' = FALSE /\ "done" \in HandlerPCs
    BY <1>4 DEF Finish, Goto, HandlerPCs
  <2>2. Typed'
    BY <1>1, <1>4, <2>1 DEF IInv, Typed
  <2>3. at'[h] = "done" /\ \A g \in Handlers \ {h} : at'[g] = at[g]
    BY <2>1 DEF IInv, Typed
  <2>4. Owners'
    BY <1>1, <1>2, <1>4, <2>3 DEF IInv, Owners
  <2>5. Spinning' /\ Agreed'
    BY <1>4, <2>1 DEF IInv, Spinning, Agreed
  <2>6. Screen'
    BY <1>1, <1>4, PanesStay
  <2> QED BY <2>2, <2>4, <2>5, <2>6 DEF IInv, Screen
<1> QED BY <1>3, <1>4 DEF BringReturns

(* A poll that starts makes its own repository the active one, and the     *)
(* panes are those of a pick only where that one is still selected.        *)
LEMMA TriggerReturnsSafe ==
  ASSUME IInv, NEW h \in Handlers, TriggerReturns(h)
  PROVE  IInv'
<1>1. /\ at[h] = "triggering" /\ Goto(h, "done") /\ loading' = FALSE
      /\ UNCHANGED <<repositoryId, picks, shown, analyzing, proposal, safety, listing, of, loads>>
  BY DEF TriggerReturns, Finish, panes
<1>2. at' = [at EXCEPT ![h] = "done"] /\ "done" \in HandlerPCs
  BY <1>1 DEF Goto, HandlerPCs
<1>3. at'[h] = "done" /\ \A g \in Handlers \ {h} : at'[g] = at[g]
  BY <1>2 DEF IInv, Typed
<1>4. h \notin {proposal, safety} /\ poll[h] = "none" /\ of[h] # None /\ of[h] \in Repositories
  BY <1>1 DEF IInv, Owners, Typed
<1>5. CASE UNCHANGED <<activeRepositoryRef, picked, polling>>
  <2>1. UNCHANGED <<activeRepositoryRef, picked, poll, polls, pollingRef>>
    BY <1>5 DEF polling
  <2>2. Typed'
    BY <1>1, <1>2, <2>1 DEF IInv, Typed
  <2>3. Owners'
    BY <1>1, <1>3, <1>4, <2>1 DEF IInv, Owners
  <2>4. Screen'
    BY <1>1, <2>1, PanesStay
  <2> QED BY <1>1, <2>1, <2>2, <2>3, <2>4 DEF IInv, Agreed, Spinning, Screen
<1>6. CASE StartLivePolling(h)
  <2>1. /\ activeRepositoryRef' = of[h] /\ picked' = (picked /\ repositoryId = of[h])
        /\ poll' = [Stopped EXCEPT ![h] = "fetching"] /\ polls' = [polls EXCEPT ![h] = 1]
        /\ pollingRef' = None /\ "fetching" \in PollPCs
    BY <1>6 DEF StartLivePolling, PollPCs
  <2>2. poll' \in [Handlers -> PollPCs] /\ polls' \in [Handlers -> 0..MaxPolls]
    <3>1. 1 \in 0..MaxPolls
      BY Kinds
    <3> QED BY <2>1, <3>1, StoppedPolls DEF IInv, Typed
  <2>3. picked' \in BOOLEAN
    BY <2>1 DEF IInv, Typed
  <2>4. Typed'
    BY <1>1, <1>2, <1>4, <2>1, <2>2, <2>3 DEF IInv, Typed
  <2>5. \A g \in Handlers \ {h} : poll'[g] # "none" => poll[g] # "none"
    BY <2>1, StoppedPolls
  <2>6. Owners'
    BY <1>1, <1>3, <1>4, <2>5 DEF IInv, Owners
  <2>7. Agreed' /\ Spinning'
    BY <1>1, <2>1 DEF Agreed, Spinning
  <2>8. Screen'
    BY <1>1, <2>1, PanesStay
  <2> QED BY <2>4, <2>6, <2>7, <2>8 DEF IInv, Screen
<1> QED BY <1>5, <1>6 DEF TriggerReturns

LEMMA HandlerReturnsSafe ==
  ASSUME IInv, NEW h \in Handlers, HandlerReturns(h)
  PROVE  IInv'
<1> DEFINE Moves ==
             \/ Goto(h, "done") /\ loading' = FALSE
             \/ Goto(h, "scoring") /\ loading' = loading
             \/ Goto(h, "abandoned") /\ loading' = loading
<1>1. CASE BringReturns(h) \/ TriggerReturns(h)
  BY <1>1, BringReturnsSafe, TriggerReturnsSafe
<1>2. FinishIfActive(h) => Moves
  BY DEF FinishIfActive, Finish
<1>3. shown \in [Panes -> Repositories \union {None}] /\ analyzing \in BOOLEAN
  BY DEF IInv, Typed
<1>4. at[h] \in {"generating", "proposing", "scoring"} => of[h] \in Repositories
  BY DEF IInv, Typed, Owners
<1>5. ASSUME GenerateReturns(h) PROVE IInv'
  <2>1. /\ at[h] = "generating" /\ Moves
        /\ UNCHANGED <<selection, listing, of, polling, loads>>
        /\ UNCHANGED <<repositoryId, picked>>
    BY <1>2, <1>5 DEF GenerateReturns, selection
  <2>2. CASE activeRepositoryRef = of[h] /\ Show(of[h], {"tests"})
    <3>1. {"tests"} \in SUBSET Panes
      BY DEF Panes
    <3>2. /\ shown' \in [Panes -> Repositories \union {None}] /\ analyzing' \in BOOLEAN
          /\ proposal' = proposal /\ safety' = safety /\ Screen'
      BY <1>4, <2>1, <2>2, <3>1, ShowIsShown
    <3> QED BY <2>1, <3>2, HandlerMoves
  <2>3. CASE UNCHANGED panes
    <3>1. UNCHANGED <<shown, analyzing, proposal, safety>>
      BY <2>3 DEF panes
    <3>2. Screen'
      BY <2>1, <3>1, PanesStay
    <3> QED BY <1>3, <2>1, <3>1, <3>2, HandlerMoves
  <2> QED BY <1>5, <2>2, <2>3 DEF GenerateReturns
<1>6. ASSUME ProposeReturns(h) \/ ScoreReturns(h) PROVE IInv'
  <2>1. /\ at[h] \in {"proposing", "scoring"} /\ Moves
        /\ UNCHANGED <<selection, listing, of, polling, loads, shown, analyzing>>
        /\ UNCHANGED <<repositoryId, picked, activeRepositoryRef>>
        /\ proposal' \in {proposal, h} /\ safety' \in {safety, h}
        /\ UNCHANGED <<proposal, safety>> \/ activeRepositoryRef = of[h]
    BY <1>2, <1>6 DEF ProposeReturns, ScoreReturns, selection
  <2>2. Screen'
    <3>1. CASE UNCHANGED <<proposal, safety>>
      BY <2>1, <3>1, PanesStay
    <3>2. CASE activeRepositoryRef = of[h]
      <4>1. picked => of[h] = repositoryId
        BY <3>2 DEF IInv, Agreed
      <4>2. SelectionIsShown'
        BY <2>1, <4>1 DEF IInv, SelectionIsShown
      <4> QED BY <2>1, <4>2 DEF IInv, Screen
    <3> QED BY <2>1, <3>1, <3>2
  <2> QED BY <1>3, <2>1, <2>2, HandlerMoves
<1> QED BY <1>1, <1>5, <1>6 DEF HandlerReturns

LEMMA UserStepSafe ==
  ASSUME IInv, UserStep
  PROVE  IInv'
<1>1. CASE Pick
  BY <1>1, PickSafe
<1>2. ASSUME NEW h \in Handlers,
             StartBring(h) \/ StartTrigger(h) \/ StartGenerate(h) \/ StartPropose(h)
      PROVE  IInv'
  <2>1. /\ UNCHANGED <<selection, shown, analyzing, listing, polling, loads>>
        /\ UNCHANGED <<proposal, safety>> \/ (proposal' = None /\ safety' = None)
        /\ \/ Start(h, None, "bringing")
           \/ repositoryId # None /\ \E pc \in Busy : Start(h, repositoryId, pc)
    BY <1>2 DEF StartBring, StartTrigger, StartGenerate, StartPropose, panes, Busy
  <2>2. "bringing" \in Busy /\ repositoryId \in Repositories \union {None}
    BY DEF Busy, IInv, Typed
  <2>3. CASE Start(h, None, "bringing")
    BY <2>1, <2>2, <2>3, StartSafe
  <2>4. CASE repositoryId # None /\ \E pc \in Busy : Start(h, repositoryId, pc)
    <3>1. PICK pc \in Busy : Start(h, repositoryId, pc)
      BY <2>4
    <3> QED BY <2>1, <2>2, <2>4, <3>1, StartSafe
  <2> QED BY <2>1, <2>3, <2>4
<1> QED BY <1>1, <1>2 DEF UserStep
------------------------------------------------------------------------------
LEMMA InitSafe == Init => IInv
<1> SUFFICES ASSUME Init PROVE IInv
  OBVIOUS
<1>1. "idle" \in HandlerPCs /\ "none" \in PollPCs /\ 0 \in 0..MaxPolls /\ 0 \in 0..MaxPicks
  BY Kinds DEF HandlerPCs, PollPCs
<1>2. Typed
  BY <1>1 DEF Init, Typed
<1>3. Owners
  BY Kinds DEF Init, Owners
<1>4. Agreed /\ SelectionIsShown /\ Spinning
  BY DEF Init, Agreed, SelectionIsShown, Spinning
<1> QED BY <1>2, <1>3, <1>4 DEF Init, IInv

LEMMA NextSafe == IInv /\ [Next]_vars => IInv'
<1> SUFFICES ASSUME IInv, [Next]_vars PROVE IInv'
  OBVIOUS
<1>1. CASE UserStep \/ ListArrives
  BY <1>1, UserStepSafe, ListArrivesSafe
<1>2. CASE \E r \in Repositories : LoadReturns(r)
  BY <1>2, LoadReturnsSafe
<1>3. CASE \E h \in Handlers : HandlerReturns(h) \/ PollStep(h)
  BY <1>3, HandlerReturnsSafe, PollStepSafe
<1>4. CASE UNCHANGED vars
  <2>1. UNCHANGED <<repositoryId, activeRepositoryRef, picks, picked, shown, analyzing, proposal,
                    safety, loading, listing, of, at, poll, polls, pollingRef, loads>>
    BY <1>4 DEF vars, selection, panes, polling
  <2> QED BY <2>1 DEF IInv, Typed, Owners, Agreed, SelectionIsShown, Spinning
<1> QED BY <1>1, <1>2, <1>3, <1>4 DEF Next

(* Every state of the page has the invariant.                              *)
THEOREM InvariantHolds == Spec => []IInv
<1>1. Init => IInv
  BY InitSafe
<1>2. IInv /\ [Next]_vars => IInv'
  BY NextSafe
<1> QED BY <1>1, <1>2, PTL DEF Spec

(* Every variable has its type, and a status that is shown as running is   *)
(* that of a repository.                                                   *)
THEOREM TypeCorrect == Spec => []TypeOK
<1>1. IInv => TypeOK
  BY DEF IInv, Typed, TypeOK
<1> QED BY <1>1, InvariantHolds, PTL

(* From the pick of a repository the panes are its own, however late the   *)
(* answers for another one come (App.tsx:48-65, 159-180).                  *)
THEOREM ScreenIsAlwaysOfTheSelection == Spec => []ScreenIsOfTheSelection
<1>1. IInv => ScreenIsOfTheSelection
  BY DEF IInv, Typed, TypeOK, ScreenIsOfTheSelection
<1> QED BY <1>1, InvariantHolds, PTL

(* When no handler is at work the spinner is off, but for a generation or  *)
(* a proposal whose repository was left (App.tsx:175-295).                 *)
THEOREM SpinnerAlwaysStops == Spec => []SpinnerStops
<1>1. ASSUME IInv PROVE SpinnerStops
  BY <1>1 DEF IInv, Spinning, SpinnerStops, Idle, Busy
<1> QED BY <1>1, InvariantHolds, PTL
------------------------------------------------------------------------------
(* The explanation tab.                                                    *)
(*                                                                         *)
(* What a call has returned is a function of where it waits: the answer of *)
(* the request it waits for, once there is one.  A call waits for its own  *)
(* request until that one is answered well, and then for the one that was  *)
(* the latest.                                                             *)

(* The selections that have been made.                                     *)
Made == 1 .. newest

(* What a request was answered, as a call returns it.                      *)
Outcome(n, p) ==
  IF request[n][p] = "flying" THEN Pending ELSE Answer(request[n][p], n)

(* Where each call waits, and what it returned.                            *)
Told ==
  \A n \in Made, p \in DetailPanes :
    /\ request[n][p] # "none"
    /\ awaits[n][p] \in n .. newest
    /\ request[n][p] # "ok" => awaits[n][p] = n
    /\ got[n][p] = Outcome(awaits[n][p], p)

(* Nothing has happened to a selection that has not been made.             *)
Unmade ==
  \A n \in Selections \ Made, p \in DetailPanes :
    request[n][p] = "none" /\ awaits[n][p] = 0 /\ got[n][p] = Pending

(* A selection is applied when its calls are settled, and the spinner is   *)
(* on for the newest one only.                                             *)
Awaited ==
  /\ \A n \in applied : Settled(n)
  /\ loadingExplanation => newest \in Selections \ applied

(* What is displayed before the first selection, and after the newest one  *)
(* was applied, the older one having been superseded in time.              *)
Current ==
  /\ newest = 0 => \A p \in DetailPanes : displayed[p] = 0
  /\ Unmixed /\ newest \in applied => \A p \in DetailPanes : displayed[p] = newest

(* The inductive invariant.                                                *)
DetailsIInv == DetailsTypeOK /\ Told /\ Unmade /\ Awaited /\ Current

(* Selections are numbers, and no outcome of a failure is one.             *)
LEMMA OutcomesApart ==
  /\ MaxSelections \in Nat /\ Selections = 1 .. MaxSelections
  /\ Pending # Nothing
  /\ \A n \in Nat : n # Pending /\ n # Nothing
<1>1. {Pending, Nothing} \intersect Nat = {}
  BY OutcomesAssumption
<1> QED BY <1>1, SelectionsAssumption, OutcomesAssumption DEF Selections

(* Only a selection that was made can be settled or have a request.        *)
LEMMA OnlyMade ==
  ASSUME DetailsIInv, NEW n \in Selections
  PROVE  /\ Settled(n) => n \in Made
         /\ \A p \in DetailPanes : request[n][p] # "none" => n \in Made
BY PanesAssumption DEF DetailsIInv, Unmade, Settled

(* A selection whose requests are all answered is settled.                 *)
LEMMA AnsweredIsSettled ==
  ASSUME DetailsIInv, NEW n \in Made,
         \A m \in Selections, p \in DetailPanes : request[m][p] # "flying"
  PROVE  Settled(n)
<1> SUFFICES ASSUME NEW p \in DetailPanes PROVE got[n][p] # Pending
  BY DEF Settled
<1>1. got[n][p] = Outcome(awaits[n][p], p) /\ awaits[n][p] \in n .. newest
  BY DEF DetailsIInv, Told
<1>2. awaits[n][p] \in Selections /\ awaits[n][p] \in Nat
  BY <1>1, OutcomesApart DEF DetailsIInv, DetailsTypeOK, Made
<1> QED BY <1>1, <1>2, OutcomesApart DEF Outcome, Answer

(* Of two selections of which the first was superseded in time, a call     *)
(* that has returned has returned the newest one's answer.                 *)
LEMMA UnmixedReturns ==
  ASSUME DetailsIInv, Unmixed, NEW n \in Made, NEW p \in DetailPanes, got[n][p] # Pending
  PROVE  got[n][p] = newest
<1> DEFINE a == awaits[n][p]
<1>1. a \in n .. newest /\ got[n][p] = Outcome(a, p) /\ request[n][p] # "none"
  BY DEF DetailsIInv, Told
<1>2. newest \in Nat /\ n \in Selections /\ a \in Selections /\ a \in Nat
  BY <1>1, OutcomesApart DEF DetailsIInv, DetailsTypeOK, Made
<1>3. request[a][p] # "flying" /\ request[a][p] # "failed" /\ request[n][p] # "failed"
  BY <1>1, <1>2 DEF Outcome, Unmixed
<1>4. request[a][p] = "ok"
  <2>1. request[a][p] # "none" /\ request[a][p] \in {"none", "flying", "ok", "failed"}
    BY <1>1, <1>2 DEF DetailsIInv, DetailsTypeOK, Told, Made
  <2> QED BY <2>1, <1>3
<1>5. got[n][p] = a
  BY <1>1, <1>4 DEF Outcome, Answer
<1>6. a = newest
  <2>1. CASE n = newest
    BY <2>1, <1>1, <1>2
  <2>2. CASE n # newest
    <3>1. n = 1 /\ newest = 2
      BY <2>2, <1>2 DEF Made, Unmixed
    <3>2. a # n
      BY <3>1, <1>2, <1>4 DEF Unmixed
    <3> QED BY <3>1, <3>2, <1>1
  <2> QED BY <2>1, <2>2
<1> QED BY <1>5, <1>6

(* Nothing is selected at first.                                           *)
LEMMA DetailsInitSafe == DetailsInit => DetailsIInv
<1> SUFFICES ASSUME DetailsInit PROVE DetailsIInv
  OBVIOUS
<1>1. DetailsTypeOK
  <2>1. /\ request \in [Selections -> [DetailPanes -> {"none", "flying", "ok", "failed"}]]
        /\ got \in [Selections -> [DetailPanes -> Selections \union {Pending, Nothing}]]
    BY DEF DetailsInit
  <2>2. 0 \in 0..MaxSelections
    BY OutcomesApart
  <2>3. /\ awaits \in [Selections -> [DetailPanes -> 0..MaxSelections]]
        /\ displayed \in [DetailPanes -> 0..MaxSelections]
    BY <2>2 DEF DetailsInit
  <2> QED BY <2>1, <2>2, <2>3 DEF DetailsInit, DetailsTypeOK
<1>2. Made = {} /\ Told
  BY DEF DetailsInit, Made, Told
<1>3. Unmade /\ Awaited /\ Current
  BY OutcomesApart DEF DetailsInit, Unmade, Awaited, Current
<1> QED BY <1>1, <1>2, <1>3 DEF DetailsIInv

(* A selection supersedes the one before, whose calls wait on.             *)
LEMMA SelectSafe ==
  ASSUME DetailsIInv, Select
  PROVE  DetailsIInv'
<1> DEFINE k == newest'
<1>1. newest \in Nat /\ k = newest + 1 /\ k \in Selections /\ k \in Nat /\ k \notin Made
  BY OutcomesApart DEF Select, DetailsIInv, DetailsTypeOK, Made
<1>2. /\ request' = [request EXCEPT ![k] = [p \in DetailPanes |-> "flying"]]
      /\ awaits' = [awaits EXCEPT ![k] = [p \in DetailPanes |-> k]]
      /\ UNCHANGED <<got, displayed, applied>> /\ loadingExplanation' = TRUE
  BY DEF Select
<1>3. \A n \in Selections, p \in DetailPanes :
        /\ request'[n][p] = IF n = k THEN "flying" ELSE request[n][p]
        /\ awaits'[n][p] = IF n = k THEN k ELSE awaits[n][p]
        /\ got'[n][p] = got[n][p]
  BY <1>1, <1>2 DEF DetailsIInv, DetailsTypeOK
<1>4. DetailsTypeOK'
  <2>1. [p \in DetailPanes |-> "flying"] \in [DetailPanes -> {"none", "flying", "ok", "failed"}]
    OBVIOUS
  <2>2. [p \in DetailPanes |-> k] \in [DetailPanes -> 0..MaxSelections] /\ k \in 0..MaxSelections
    BY <1>1, OutcomesApart
  <2>3. /\ request \in [Selections -> [DetailPanes -> {"none", "flying", "ok", "failed"}]]
        /\ awaits \in [Selections -> [DetailPanes -> 0..MaxSelections]]
    BY DEF DetailsIInv, DetailsTypeOK
  <2>4. request' \in [Selections -> [DetailPanes -> {"none", "flying", "ok", "failed"}]]
    BY <1>1, <1>2, <2>1, <2>3
  <2>5. awaits' \in [Selections -> [DetailPanes -> 0..MaxSelections]]
    BY <1>1, <1>2, <2>2, <2>3
  <2> QED BY <2>2, <2>4, <2>5, <1>2 DEF DetailsIInv, DetailsTypeOK
<1>5. Made' = Made \union {k} /\ Made \subseteq Selections
  BY <1>1, OutcomesApart DEF Made
<1>6. Told'
  <2> SUFFICES ASSUME NEW n \in Made', NEW p \in DetailPanes
               PROVE  /\ request'[n][p] # "none"
                      /\ awaits'[n][p] \in n .. k
                      /\ request'[n][p] # "ok" => awaits'[n][p] = n
                      /\ got'[n][p] = Outcome(awaits[n][p], p)'
    BY DEF Told
  <2>1. CASE n = k
    <3>1. k \in Selections \ Made
      BY <1>1
    <3>2. got[k][p] = Pending
      BY <3>1 DEF DetailsIInv, Unmade
    <3>3. request'[k][p] = "flying" /\ awaits'[k][p] = k /\ got'[k][p] = Pending
      BY <1>1, <1>3, <3>2
    <3>4. Outcome(awaits[n][p], p)' = Pending
      BY <2>1, <3>3 DEF Outcome
    <3> QED BY <2>1, <3>3, <3>4, <1>1
  <2>2. CASE n # k
    <3>1. n \in Made /\ n \in Selections
      BY <2>2, <1>5
    <3>2. /\ request[n][p] # "none" /\ awaits[n][p] \in n .. newest
          /\ request[n][p] # "ok" => awaits[n][p] = n
          /\ got[n][p] = Outcome(awaits[n][p], p)
      BY <3>1 DEF DetailsIInv, Told
    <3>3. awaits[n][p] \in Selections /\ awaits[n][p] # k /\ awaits[n][p] \in n .. k
      BY <3>1, <3>2, <1>1, OutcomesApart DEF Made
    <3>4. /\ request'[n][p] = request[n][p] /\ awaits'[n][p] = awaits[n][p]
          /\ got'[n][p] = got[n][p]
          /\ request'[awaits[n][p]][p] = request[awaits[n][p]][p]
      BY <1>3, <2>2, <3>1, <3>3
    <3>5. Outcome(awaits[n][p], p)' = Outcome(awaits[n][p], p)
      BY <3>4 DEF Outcome, Answer
    <3> QED BY <3>2, <3>3, <3>4, <3>5
  <2> QED BY <2>1, <2>2
<1>7. Unmade'
  <2> SUFFICES ASSUME NEW n \in Selections \ Made', NEW p \in DetailPanes
               PROVE  request'[n][p] = "none" /\ awaits'[n][p] = 0 /\ got'[n][p] = Pending
    BY DEF Unmade
  <2>1. n # k /\ n \in Selections \ Made
    BY <1>5
  <2>2. request[n][p] = "none" /\ awaits[n][p] = 0 /\ got[n][p] = Pending
    BY <2>1 DEF DetailsIInv, Unmade
  <2> QED BY <2>1, <2>2, <1>3
<1>8. k \notin applied
  <2>1. ~ Settled(k)
    BY <1>1, OnlyMade
  <2> QED BY <2>1 DEF DetailsIInv, Awaited
<1>9. Awaited' /\ Current'
  BY <1>1, <1>2, <1>8 DEF DetailsIInv, Awaited, Current, Settled
<1> QED BY <1>4, <1>6, <1>7, <1>9 DEF DetailsIInv

(* An answer reaches every call that waits for it; its own call turns to   *)
(* the latest request if it has been superseded.                           *)
LEMMA RespondSafe ==
  ASSUME DetailsIInv, NEW n \in Selections, NEW p \in DetailPanes, Respond(n, p)
  PROVE  DetailsIInv'
<1>1. PICK outcome \in {"ok", "failed"} :
        /\ request' = [request EXCEPT ![n][p] = outcome]
        /\ got' = [m \in Selections |->
                     IF awaits[m][p] = n /\ got[m][p] = Pending
                     THEN [got[m] EXCEPT ![p] = Returned(m, p, n, outcome)]
                     ELSE got[m]]
        /\ awaits' = [awaits EXCEPT ![n][p] = IF outcome = "ok" THEN newest ELSE n]
  BY DEF Respond
<1>2. request[n][p] = "flying" /\ UNCHANGED <<newest, displayed, applied, loadingExplanation>>
  BY DEF Respond
<1>3. /\ request \in [Selections -> [DetailPanes -> {"none", "flying", "ok", "failed"}]]
      /\ awaits \in [Selections -> [DetailPanes -> 0..MaxSelections]]
      /\ got \in [Selections -> [DetailPanes -> Selections \union {Pending, Nothing}]]
      /\ newest \in Nat /\ newest \in 0..MaxSelections
  BY OutcomesApart DEF DetailsIInv, DetailsTypeOK
<1>4. n \in Made /\ Made' = Made /\ Made \subseteq Selections /\ newest \in Made
  <2>1. n \in Made
    BY <1>2, OnlyMade
  <2> QED BY <2>1, <1>2, <1>3, OutcomesApart DEF Made
<1>5. awaits[n][p] = n /\ got[n][p] = Pending
  BY <1>2, <1>4 DEF DetailsIInv, Told, Outcome
<1>6. \A m \in Selections, q \in DetailPanes :
        /\ request'[m][q] = IF m = n /\ q = p THEN outcome ELSE request[m][q]
        /\ awaits'[m][q] = IF m = n /\ q = p THEN (IF outcome = "ok" THEN newest ELSE n)
                          ELSE awaits[m][q]
        /\ got'[m][q] = IF awaits[m][p] = n /\ got[m][p] = Pending /\ q = p
                       THEN Returned(m, p, n, outcome) ELSE got[m][q]
  BY <1>1, <1>3
<1>7. \A m \in Selections : Returned(m, p, n, outcome) \in Selections \union {Pending, Nothing}
  BY <1>4 DEF Returned, Answer
<1>8. DetailsTypeOK'
  <2>1. request' \in [Selections -> [DetailPanes -> {"none", "flying", "ok", "failed"}]]
    BY <1>1, <1>3
  <2>2. newest \in 0..MaxSelections /\ n \in 0..MaxSelections
    BY <1>3, OutcomesApart
  <2>3. awaits' \in [Selections -> [DetailPanes -> 0..MaxSelections]]
    BY <1>1, <1>3, <2>2
  <2>4. got' \in [Selections -> [DetailPanes -> Selections \union {Pending, Nothing}]]
    BY <1>1, <1>3, <1>7
  <2> QED BY <1>2, <2>1, <2>3, <2>4 DEF DetailsIInv, DetailsTypeOK
<1>9. Told'
  <2> SUFFICES ASSUME NEW m \in Made, NEW q \in DetailPanes
               PROVE  /\ request'[m][q] # "none"
                      /\ awaits'[m][q] \in m .. newest
                      /\ request'[m][q] # "ok" => awaits'[m][q] = m
                      /\ got'[m][q] = Outcome(awaits[m][q], q)'
    BY <1>2, <1>4 DEF Told
  <2> DEFINE a == awaits[m][q]
  <2>1. /\ request[m][q] # "none" /\ a \in m .. newest
        /\ request[m][q] # "ok" => a = m
        /\ got[m][q] = Outcome(a, q)
    BY DEF DetailsIInv, Told
  <2>2. m \in Selections /\ m \in Nat /\ a \in Selections
    BY <2>1, <1>3, <1>4, OutcomesApart DEF Made
  <2>3. CASE q # p
    <3>1. /\ request'[m][q] = request[m][q] /\ awaits'[m][q] = a /\ got'[m][q] = got[m][q]
          /\ request'[a][q] = request[a][q]
      BY <2>2, <2>3, <1>6
    <3> QED BY <3>1, <2>1 DEF Outcome, Answer
  <2>4. CASE q = p /\ m = n
    <3>1. request'[n][p] = outcome /\ got'[n][p] = Returned(n, p, n, outcome)
      BY <1>5, <1>6
    <3>2. CASE outcome = "failed"
      <4>1. awaits'[n][p] = n /\ got'[n][p] = Answer(outcome, n)
        BY <3>1, <3>2, <1>6 DEF Returned
      <4> QED BY <4>1, <3>1, <3>2, <2>4, <2>1, <1>5 DEF Outcome
    <3>3. CASE outcome = "ok" /\ n = newest
      <4>1. awaits'[n][p] = n /\ got'[n][p] = Answer(outcome, n)
        BY <3>1, <3>3, <1>6 DEF Returned
      <4> QED BY <4>1, <3>1, <3>3, <2>4, <2>1, <1>5 DEF Outcome
    <3>4. CASE outcome = "ok" /\ n # newest
      <4>1. awaits'[n][p] = newest /\ request'[newest][p] = request[newest][p]
        BY <3>4, <1>4, <1>6
      <4>2. got'[n][p] = IF request[newest][p] = "flying" THEN Pending
                         ELSE Answer(request[newest][p], newest)
        BY <3>1, <3>4 DEF Returned
      <4> QED BY <4>1, <4>2, <3>1, <3>4, <2>4, <2>1, <2>2, <1>3 DEF Outcome, Answer
    <3> QED BY <3>2, <3>3, <3>4
  <2>5. CASE q = p /\ m # n /\ a = n
    <3>1. got[m][p] = Pending
      BY <2>1, <2>5, <1>2 DEF Outcome
    <3>2. got'[m][p] = Answer(outcome, n)
      BY <3>1, <2>2, <2>5, <1>6 DEF Returned
    <3>3. request'[m][p] = request[m][p] /\ awaits'[m][p] = n /\ request'[n][p] = outcome
      BY <2>2, <2>5, <1>6
    <3> QED BY <3>2, <3>3, <2>1, <2>5 DEF Outcome
  <2>6. CASE q = p /\ m # n /\ a # n
    <3>1. /\ request'[m][p] = request[m][p] /\ awaits'[m][p] = a /\ got'[m][p] = got[m][p]
          /\ request'[a][p] = request[a][p]
      BY <2>2, <2>6, <1>6
    <3> QED BY <3>1, <2>1, <2>6 DEF Outcome, Answer
  <2> QED BY <2>3, <2>4, <2>5, <2>6
<1>10. Unmade'
  <2> SUFFICES ASSUME NEW m \in Selections \ Made, NEW q \in DetailPanes
               PROVE  request'[m][q] = "none" /\ awaits'[m][q] = 0 /\ got'[m][q] = Pending
    BY <1>4 DEF Unmade
  <2>1. \A r \in DetailPanes : request[m][r] = "none" /\ awaits[m][r] = 0 /\ got[m][r] = Pending
    BY DEF DetailsIInv, Unmade
  <2>2. m # n /\ n # 0
    BY <1>4, OutcomesApart
  <2> QED BY <2>1, <2>2, <1>6
<1>11. \A m \in Selections : Settled(m) => Settled(m)'
  BY <1>6 DEF Settled
<1>12. Awaited'
  BY <1>2, <1>11 DEF DetailsIInv, DetailsTypeOK, Awaited
<1>13. Unmixed' => Unmixed
  <2> SUFFICES ASSUME Unmixed', NEW m \in Selections, NEW q \in DetailPanes
               PROVE  /\ request[m][q] # "failed"
                      /\ m < newest => request[m][q] # "ok" \/ awaits[m][q] # m
    BY <1>2 DEF Unmixed
  <2>1. /\ request'[m][q] # "failed"
        /\ m < newest => request'[m][q] # "ok" \/ awaits'[m][q] # m
    BY <1>2 DEF Unmixed
  <2> QED BY <2>1, <1>2, <1>6
<1>14. Current'
  BY <1>2, <1>13 DEF DetailsIInv, Current
<1> QED BY <1>8, <1>9, <1>10, <1>12, <1>14 DEF DetailsIInv

(* A settled selection is shown, but for the panes whose call failed.      *)
LEMMA ApplySafe ==
  ASSUME DetailsIInv, NEW n \in Selections, Apply(n)
  PROVE  DetailsIInv'
<1>1. /\ Settled(n) /\ applied' = applied \union {n} /\ loadingExplanation' = FALSE
      /\ displayed' = [p \in DetailPanes |-> IF got[n][p] = Nothing THEN displayed[p] ELSE got[n][p]]
      /\ UNCHANGED <<newest, request, awaits, got>>
  BY DEF Apply
<1>2. n \in Made /\ newest \in Nat /\ newest # 0
  <2>1. n \in Made
    BY <1>1, OnlyMade
  <2> QED BY <2>1, OutcomesApart DEF DetailsIInv, DetailsTypeOK, Made
<1>3. \A p \in DetailPanes : got[n][p] # Pending
  BY <1>1 DEF Settled
<1>4. DetailsTypeOK'
  <2>1. \A p \in DetailPanes : displayed[p] \in 0..MaxSelections
    BY DEF DetailsIInv, DetailsTypeOK
  <2>2. \A p \in DetailPanes : got[n][p] \in Selections \union {Pending, Nothing}
    BY DEF DetailsIInv, DetailsTypeOK
  <2>3. \A p \in DetailPanes : got[n][p] # Nothing => got[n][p] \in 0..MaxSelections
    BY <1>3, <2>2, OutcomesApart
  <2>4. displayed' \in [DetailPanes -> 0..MaxSelections]
    BY <1>1, <2>1, <2>3
  <2> QED BY <1>1, <2>4 DEF DetailsIInv, DetailsTypeOK
<1>5. Told' /\ Unmade' /\ Awaited'
  BY <1>1 DEF DetailsIInv, Told, Unmade, Awaited, Made, Outcome, Answer, Settled
<1>6. Current'
  <2> SUFFICES ASSUME Unmixed, newest \in applied \union {n}, NEW p \in DetailPanes
               PROVE  displayed'[p] = newest
    BY <1>1, <1>2 DEF Current, Unmixed
  <2>1. got[n][p] = newest /\ newest # Nothing
    BY <1>2, <1>3, UnmixedReturns, OutcomesApart
  <2> QED BY <2>1, <1>1
<1> QED BY <1>4, <1>5, <1>6 DEF DetailsIInv

LEMMA DetailsNextSafe == DetailsIInv /\ [DetailsNext]_detailVars => DetailsIInv'
<1> SUFFICES ASSUME DetailsIInv, [DetailsNext]_detailVars PROVE DetailsIInv'
  OBVIOUS
<1>1. CASE Select
  BY <1>1, SelectSafe
<1>2. CASE \E n \in Selections : Apply(n) \/ \E p \in DetailPanes : Respond(n, p)
  BY <1>2, ApplySafe, RespondSafe
<1>3. CASE UNCHANGED detailVars
  BY <1>3 DEF detailVars, DetailsIInv, DetailsTypeOK, Told, Unmade, Awaited, Current, Unmixed,
              Made, Outcome, Answer, Settled
<1> QED BY <1>1, <1>2, <1>3 DEF DetailsNext

(* Every state of the explanation tab has the invariant.                   *)
THEOREM DetailsInvariantHolds == DetailsSpec => []DetailsIInv
BY DetailsInitSafe, DetailsNextSafe, PTL DEF DetailsSpec

(* When all is quiet the spinner is off, however many selections there     *)
(* were; and of two of which the first was superseded in time, the second  *)
(* is shown whole (ExplanationTab.tsx:59-83, api.ts:236-246).              *)
THEOREM PaneIsAlwaysCurrent == DetailsSpec => []PaneIsCurrent
<1>1. ASSUME DetailsIInv PROVE PaneIsCurrent
  <2>1. ASSUME Quiet, newest # 0 PROVE newest \in applied
    <3>1. newest \in Made /\ newest \in Selections
      BY <1>1, <2>1, OutcomesApart DEF DetailsIInv, DetailsTypeOK, Made
    <3>2. Settled(newest)
      BY <1>1, <2>1, <3>1, AnsweredIsSettled DEF Quiet
    <3> QED BY <2>1, <3>1, <3>2 DEF Quiet, Due
  <2>2. SpinnerIsOff
    BY <1>1, <2>1, OutcomesApart DEF DetailsIInv, Awaited, SpinnerIsOff
  <2>3. SupersededIsNotShown
    BY <1>1, <2>1 DEF DetailsIInv, Current, SupersededIsNotShown, NewestIsShown
  <2> QED BY <1>1, <2>2, <2>3 DEF DetailsIInv, PaneIsCurrent
<1> QED BY <1>1, DetailsInvariantHolds, PTL
==============================================================================
