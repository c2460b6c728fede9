---------------------------- MODULE AppShellProofs ----------------------------
(***************************************************************************)
(* Proofs about UserDirectory and AppShell, for any directory of at most   *)
(* MAX_DIRECTORY_PAGES pages, any number of overlapping walks, and any     *)
(* routes and releases.  A walk of a server that keeps its word has found  *)
(* exactly the pages before its cursor, which is why neither of its guards *)
(* ever stops it; and while a view that needs the directory is mounted,    *)
(* its effect is still due, or the directory is there, or on its way, or   *)
(* known to have failed.                                                   *)
(*                                                                         *)
(* Then about Overlays and Select, for any lists of options and number of  *)
(* toasts: the dropdown's highlight, the hosts over the bus, and the trap  *)
(* that keeps Tab in the topmost dialog.                                   *)
(***************************************************************************)
EXTENDS AppShell, Overlays, FiniteSetTheorems, SequenceTheorems,
        WellFoundedInduction, TLAPS

(* A walk at page c has found, counted and seen what lies before c. *)
WalkAt(walk, c) ==
    /\ walk.cursor = c
    /\ walk.pageCount = c - 1
    /\ walk.consumed = 2..c
    /\ walk.found = SubSeq(Directory, 1, c - 1)

(* The inductive invariant of the directory, should the server keep to its  *)
(* listing.                                                                 *)
DirectoryIInv ==
    /\ DOMAIN walks = Walk
    /\ honest =>
          /\ users \in {<<>>, Directory}
          /\ usersError # "internal"
          /\ \A w \in Walk : walks[w] # NoWalk =>
                \E c \in 1..Len(Directory) : WalkAt(walks[w], c)

(* A view that needs the directory is mounted. *)
NeedsUsers == types = "ready" /\ route.view \in {"root", "list", "detail"}

(* The directory is there, on its way, or has failed. *)
UsersSettled == users = Directory \/ loadingUsers \/ usersError # "none"

MountedInv == honest /\ NeedsUsers => UsersSettled \/ "view" \in due.fetchers

----------------------------------------------------------------------------
(* The pages before c and the page at c are the pages before c + 1. *)
LEMMA NextPage ==
  ASSUME NEW c \in 1..Len(Directory)
  PROVE  SubSeq(Directory, 1, c - 1) \o <<Directory[c]>> = SubSeq(Directory, 1, c)
BY DirectoryAssumption, SubSeqRecursiveSecond

LEMMA WholeDirectory == SubSeq(Directory, 1, Len(Directory)) = Directory
BY DirectoryAssumption, SubSeqFull

(* Nothing is found, counted or seen before the first page. *)
LEMMA NewWalkAt == WalkAt(NewWalk, 1)
<1>1. SubSeq(Directory, 1, 0) = <<>>
  BY SubSeqEmpty
<1>2. 2..1 = {}
  OBVIOUS
<1> QED BY <1>1, <1>2 DEF WalkAt, NewWalk

(* What the mounting of views does to the directory. *)
LEMMA StartWalksStep ==
  ASSUME DirectoryIInv, NEW ws \in SUBSET Walk, StartWalks(ws)
  PROVE  DirectoryIInv' /\ (UsersSettled => UsersSettled') /\ (ws # {} => UsersSettled')
<1>1. DirectoryIInv'
  <2>1. DOMAIN walks' = Walk
    BY DEF StartWalks
  <2>2. honest' = honest /\ users' = users /\ usersError' \in {usersError, "none"}
    BY DEF StartWalks
  <2>3. ASSUME honest, NEW w \in Walk, walks'[w] # NoWalk
        PROVE  \E c \in 1..Len(Directory) : WalkAt(walks'[w], c)
    <3>1. CASE w \in ws
      <4>1. walks'[w] = NewWalk
        BY <3>1 DEF StartWalks
      <4>2. 1 \in 1..Len(Directory)
        BY DirectoryAssumption
      <4> QED BY <4>1, <4>2, NewWalkAt
    <3>2. CASE w \notin ws
      BY <2>3, <3>2 DEF StartWalks, DirectoryIInv
    <3> QED BY <3>1, <3>2
  <2>4. WalkAt(NewWalk, 1)' = WalkAt(NewWalk, 1)
    BY DEF WalkAt, NewWalk
  <2> QED BY <2>1, <2>2, <2>3 DEF DirectoryIInv, WalkAt
<1>2. (UsersSettled => UsersSettled') /\ (ws # {} => UsersSettled')
  BY DEF StartWalks, UsersSettled
<1> QED BY <1>1, <1>2

(* A step of one walk: a page of the listing, or a failed request. *)
LEMMA StepWalkStep ==
  ASSUME DirectoryIInv, NEW w \in Walk, StepWalk(w)
  PROVE  DirectoryIInv' /\ (honest => (UsersSettled => UsersSettled'))
<1>1. DOMAIN walks' = Walk /\ honest' = honest
  BY DEF StepWalk, TakePage, Finish, DirectoryIInv
<1>2. ASSUME honest, Finish(w, <<>>, "request")
      PROVE  DirectoryIInv' /\ (UsersSettled => UsersSettled')
  BY <1>1, <1>2 DEF Finish, DirectoryIInv, UsersSettled, WalkAt
<1>3. ASSUME honest, NEW page \in Pages(walks[w].cursor), TakePage(w, page)
      PROVE  DirectoryIInv' /\ (UsersSettled => UsersSettled')
  <2>1. PICK c \in 1..Len(Directory) : WalkAt(walks[w], c)
    BY <1>3 DEF StepWalk, DirectoryIInv
  <2>2. /\ page.items = <<Directory[c]>>
        /\ page.next = IF c = Len(Directory) THEN 0 ELSE c + 1
    BY <1>3, <2>1 DEF Pages, WalkAt
  <2>3. Accumulate(w, page) = SubSeq(Directory, 1, c)
    BY <2>1, <2>2, NextPage DEF Accumulate, WalkAt
  <2>4. CASE c = Len(Directory)
    <3>1. page.next = 0
      BY <2>2, <2>4
    <3>2. Finish(w, Directory, "none")
      BY <1>3, <2>3, <2>4, <3>1, WholeDirectory DEF TakePage
    <3> QED BY <1>1, <1>3, <3>2 DEF Finish, DirectoryIInv, UsersSettled, WalkAt
  <2>5. CASE c # Len(Directory)
    <3>1. page.next = c + 1 /\ c + 1 \in 1..Len(Directory) /\ c + 1 \notin {0}
      BY <2>2, <2>5, DirectoryAssumption
    <3>2. c + 1 \notin walks[w].consumed
      BY <2>1 DEF WalkAt
    <3>3. Carry(w, page) = [consumed |-> 2..(c + 1), pageCount |-> c]
      <4>1. walks[w].consumed \cup {page.next} = 2..(c + 1)
        BY <2>1, <3>1 DEF WalkAt
      <4>2. walks[w].pageCount + 1 = c
        BY <2>1 DEF WalkAt
      <4> QED BY <4>1, <4>2 DEF Carry
    <3>4. ~Outrun(c)
      BY <2>5, DirectoryAssumption DEF Outrun
    <3>5. /\ walks' = [walks EXCEPT ![w] =
                [cursor |-> c + 1, found |-> SubSeq(Directory, 1, c),
                 consumed |-> 2..(c + 1), pageCount |-> c]]
          /\ UNCHANGED <<users, loadingUsers, usersError>>
      <4>1. Carry(w, page).pageCount = c /\ Carry(w, page).consumed = 2..(c + 1)
        BY <3>3
      <4>2. ~(page.next \in walks[w].consumed \/ Outrun(Carry(w, page).pageCount))
        BY <3>1, <3>2, <3>4, <4>1
      <4>3. page.next # 0
        BY <3>1
      <4>4. /\ walks' = [walks EXCEPT ![w] =
                  [cursor |-> page.next, found |-> Accumulate(w, page),
                   consumed |-> Carry(w, page).consumed,
                   pageCount |-> Carry(w, page).pageCount]]
            /\ UNCHANGED <<users, loadingUsers, usersError>>
        BY <1>3, <4>2, <4>3 DEF TakePage
      <4> QED BY <2>3, <3>1, <4>1, <4>4
    <3>6. WalkAt([cursor |-> c + 1, found |-> SubSeq(Directory, 1, c),
                  consumed |-> 2..(c + 1), pageCount |-> c], c + 1)
      BY DEF WalkAt
    <3>7. WalkAt(walks'[w], c + 1)
      BY <3>5, <3>6 DEF DirectoryIInv
    <3>8. \A v \in Walk \ {w} : walks'[v] = walks[v]
      BY <3>5 DEF DirectoryIInv
    <3> QED BY <1>1, <1>3, <3>1, <3>5, <3>7, <3>8 DEF DirectoryIInv, UsersSettled, WalkAt
  <2> QED BY <2>4, <2>5
<1> QED BY <1>1, <1>2, <1>3 DEF StepWalk, DirectoryIInv

----------------------------------------------------------------------------
(* The effects that are due are of no other components. *)
EffectsInv == due.fetchers \in SUBSET {"view", "drawer"}

LEMMA EffectsStart == Init => EffectsInv
BY DEF Init, EffectsInv, NoEffects

LEMMA EffectsStep == EffectsInv /\ [Next]_vars => EffectsInv'
<1> SUFFICES ASSUME EffectsInv, [Next]_vars PROVE EffectsInv'
  OBVIOUS
<1>1. ASSUME NEW r, NEW s, Mount(r, s) PROVE EffectsInv'
  <2>1. due'.fetchers = Fetchers(r, s)
    BY <1>1 DEF Mount
  <2> QED BY <2>1 DEF EffectsInv, Fetchers
<1>2. CASE RunEffects
  BY <1>2 DEF RunEffects, EffectsInv, NoEffects
<1>3. ASSUME due' = due PROVE EffectsInv'
  BY <1>3 DEF EffectsInv
<1>4. CASE Next /\ ~RunEffects
  BY <1>1, <1>3, <1>4 DEF Next, Walking, shellVars, Go, AnswerTask, RetryUsers, Redirect,
     StartLoad, RetryTypes, BeginLoad, StepLoad, TypesFail, TypesArrive, Deploy
<1>5. CASE UNCHANGED vars
  BY <1>3, <1>5 DEF vars, shellVars
<1> QED BY <1>2, <1>4, <1>5

(* The effects of what has rendered run.  If they are those of a view that  *)
(* needs the directory, a walk begins.                                      *)
LEMMA RunEffectsStep ==
  ASSUME DirectoryIInv, EffectsInv, MountedInv, RunEffects
  PROVE  DirectoryIInv' /\ MountedInv'
<1>1. PICK ws \in SUBSET Walk :
         Cardinality(ws) = Cardinality(due.fetchers) /\ StartWalks(ws)
  BY DEF RunEffects
<1>2. "view" \in due.fetchers => ws # {}
  <2>2. IsFiniteSet({"view", "drawer"})
    <3>1. IsFiniteSet({"view"}) /\ IsFiniteSet({"drawer"})
      BY FS_Singleton
    <3>2. {"view", "drawer"} = {"view"} \cup {"drawer"}
      OBVIOUS
    <3> QED BY ZenonT(60), <3>1, <3>2, FS_Union
  <2>3. IsFiniteSet(due.fetchers)
    BY <2>2, FS_Subset DEF EffectsInv
  <2>4. "view" \in due.fetchers => Cardinality(due.fetchers) # 0
    BY <2>3, FS_EmptySet
  <2>5. ws = {} => Cardinality(ws) = 0
    BY FS_EmptySet
  <2> QED BY <1>1, <2>4, <2>5
<1>3. DirectoryIInv' /\ (UsersSettled => UsersSettled') /\ (ws # {} => UsersSettled')
  BY <1>1, StartWalksStep
<1>4. UNCHANGED <<honest, types, route>>
  BY <1>1 DEF RunEffects, StartWalks
<1> QED BY <1>2, <1>3, <1>4 DEF MountedInv, NeedsUsers

(* At the start no view is mounted, and nothing is walked. *)
LEMMA DirectoryStart == Init => DirectoryIInv /\ MountedInv
<1>1. Init => DirectoryIInv
  BY DEF Init, DirectoryInit, DirectoryIInv, WalkAt
<1>2. Init => MountedInv
  BY DEF Init, MountedInv, NeedsUsers
<1> QED BY <1>1, <1>2

(* A step that leaves the stores' directory and the mounted views alone. *)
LEMMA DirectoryFrame ==
  ASSUME DirectoryIInv, MountedInv, UNCHANGED <<directoryVars, due>>,
         NeedsUsers' => NeedsUsers
  PROVE  DirectoryIInv' /\ MountedInv'
<1>1. DirectoryIInv'
  BY DEF DirectoryIInv, directoryVars, WalkAt
<1>2. MountedInv'
  BY DEF MountedInv, UsersSettled, directoryVars
<1> QED BY <1>1, <1>2

(* The views of another address render: the directory stays as it is.       *)
LEMMA MountStep ==
  ASSUME DirectoryIInv, NEW r, NEW s, Mount(r, s), UNCHANGED directoryVars
  PROVE  /\ DirectoryIInv' /\ honest' = honest
         /\ UsersSettled => UsersSettled'
         /\ "view" \in Fetchers(r, s) => "view" \in due'.fetchers
<1>1. DirectoryIInv' /\ honest' = honest
  BY DEF DirectoryIInv, directoryVars, WalkAt
<1>2. UsersSettled => UsersSettled'
  BY DEF UsersSettled, directoryVars
<1>3. due'.fetchers = Fetchers(r, s)
  BY DEF Mount
<1> QED BY <1>1, <1>2, <1>3

(* Whoever goes to a list or to the root from elsewhere will start a walk.  *)
LEMMA GoStep ==
  ASSUME DirectoryIInv, MountedInv, NEW s \in Routes, Go(s)
  PROVE  DirectoryIInv' /\ MountedInv'
<1>1. /\ types = "ready" /\ types' = types /\ s # route /\ route' = s
      /\ Mount(route, s) /\ UNCHANGED directoryVars /\ due = NoEffects
  BY DEF Go
<1>2. DirectoryIInv' /\ honest' = honest /\ (UsersSettled => UsersSettled')
      /\ ("view" \in Fetchers(route, s) => "view" \in due'.fetchers)
  BY <1>1, MountStep
<1>3. ASSUME honest', NeedsUsers'
      PROVE  UsersSettled' \/ "view" \in due'.fetchers
  <2>1. CASE NeedsUsers /\ honest
    BY <1>1, <1>2, <2>1 DEF MountedInv, NoEffects
  <2>2. CASE ~NeedsUsers
    <3>1. "view" \in Fetchers(route, s)
      BY <1>1, <1>3, <2>2 DEF NeedsUsers, Fetchers, Listing
    <3> QED BY <1>2, <3>1
  <2> QED BY <1>2, <1>3, <2>1, <2>2
<1> QED BY <1>2, <1>3 DEF MountedInv

(* An old link lands on a list or at the root: a walk is due.               *)
LEMMA RedirectStep ==
  ASSUME DirectoryIInv, MountedInv, Redirect
  PROVE  DirectoryIInv' /\ MountedInv'
<1>1. route.view = "legacy"
  BY DEF Redirect
<1>2. PICK s \in Landing : route' = s /\ Mount(route, s) /\ UNCHANGED directoryVars
  BY DEF Redirect
<1>3. s.view \in {"root", "detail"}
  BY DEF Landing, Root, At
<1>4. "view" \in Fetchers(route, s)
  BY <1>1, <1>3 DEF Fetchers, Listing
<1> QED BY <1>2, <1>4, MountStep DEF MountedInv

(* The types arrive: the gate mounts everything anew. *)
LEMMA StepLoadStep ==
  ASSUME DirectoryIInv, MountedInv, StepLoad
  PROVE  DirectoryIInv' /\ MountedInv'
<1>1. ASSUME NEW r \in releases, TypesArrive(r)
      PROVE  DirectoryIInv' /\ MountedInv'
  <2>1. Mount(route, route) /\ route' = route /\ UNCHANGED directoryVars
    BY <1>1 DEF TypesArrive, StepLoad
  <2>2. NeedsUsers' => "view" \in Fetchers(route, route)
    BY <2>1 DEF NeedsUsers, Fetchers, Listing
  <2> QED BY <2>1, <2>2, MountStep DEF MountedInv
<1>2. ASSUME UNCHANGED <<directoryVars, due>>, types' # "ready"
      PROVE  DirectoryIInv' /\ MountedInv'
  BY <1>2, DirectoryFrame DEF NeedsUsers
<1> QED BY <1>1, <1>2 DEF StepLoad, TypesFail

(* The directory's invariant, over every step of the shell. *)
LEMMA DirectoryStep ==
  DirectoryIInv /\ EffectsInv /\ MountedInv /\ [Next]_vars => DirectoryIInv' /\ MountedInv'
<1> SUFFICES ASSUME DirectoryIInv, EffectsInv, MountedInv, [Next]_vars
             PROVE  DirectoryIInv' /\ MountedInv'
  OBVIOUS
<1>1. ASSUME NEW w \in Walk, Walking(w)
      PROVE  DirectoryIInv' /\ MountedInv'
  <2>1. StepWalk(w) /\ UNCHANGED <<types, route, due>> /\ honest' = honest
    BY <1>1 DEF Walking, shellVars, StepWalk
  <2> QED BY <2>1, StepWalkStep DEF MountedInv, NeedsUsers
<1>2. CASE RetryUsers
  <2>1. PICK w \in Walk : StartWalks({w})
    BY <1>2 DEF RetryUsers
  <2>2. DirectoryIInv' /\ UsersSettled'
    BY <2>1, StartWalksStep
  <2> QED BY <2>2 DEF MountedInv
<1>3. ASSUME NEW f \in fetches, AnswerTask(f)
      PROVE  DirectoryIInv' /\ MountedInv'
  BY <1>3, DirectoryFrame DEF AnswerTask, NeedsUsers
<1>4. CASE StartLoad
  BY <1>4, DirectoryFrame DEF StartLoad, BeginLoad, NeedsUsers
<1>5. CASE RetryTypes
  BY <1>5, DirectoryFrame DEF RetryTypes, BeginLoad, NeedsUsers
<1>6. CASE Deploy
  BY <1>6, DirectoryFrame DEF Deploy, NeedsUsers
<1>7. CASE UNCHANGED vars
  BY <1>7, DirectoryFrame DEF vars, shellVars, NeedsUsers
<1> QED BY <1>1, <1>2, <1>3, <1>4, <1>5, <1>6, <1>7, GoStep, RedirectStep, StepLoadStep,
           RunEffectsStep DEF Next

LEMMA DirectoryInvariant == Spec => [](DirectoryIInv /\ MountedInv)
BY DirectoryStart, DirectoryStep, EffectsStart, EffectsStep, PTL DEF Spec

(* "A truncated directory would make some assignee simply unpickable":      *)
(* however many walks overlap, the store holds all users in order or none,  *)
(* and the guards against a lying server never fail an honest one's walk.   *)
THEOREM ShellDirectorySound == Spec => []DirectorySound
<1>1. DirectoryIInv => DirectorySound
  BY DEF DirectoryIInv, DirectorySound
<1> QED BY <1>1, DirectoryInvariant, PTL

(* A user is called unknown only if the directory does not have the user,   *)
(* however walks overlap, fail or are retried, once the effects of the      *)
(* views on the screen have run.                                            *)
THEOREM ShellUnknownIsUnknown == Spec => []UnknownIsUnknown
<1>1. MountedInv => UnknownIsUnknown
  BY DEF MountedInv, NeedsUsers, UsersSettled, UnknownIsUnknown, ToldUnknown, Listing, Known,
         NoEffects
<1> QED BY <1>1, DirectoryInvariant, PTL

----------------------------------------------------------------------------
(* The dropdown.  Its highlight is an index into a list that changes under  *)
(* it; only the effect that has run since makes the index fit again, so     *)
(* what holds in between is that it is an index at all.                     *)
SelectIInv ==
    /\ options \in OptionLists
    /\ activeIndex \in Int /\ activeIndex >= -1
    /\ clamped => activeIndex < Len(options)

(* A list of options has a length, and an option sits at an index of it. *)
LEMMA OptionsAreListed ==
  ASSUME SelectIInv
  PROVE  /\ Len(options) \in Nat /\ DOMAIN options = 1..Len(options)
         /\ Contains(options, value) => IndexOf(value) \in 0..(Len(options) - 1)
<1>1. Len(options) \in Nat /\ DOMAIN options = 1..Len(options)
  BY SelectAssumption DEF SelectIInv
<1>2. ASSUME Contains(options, value) PROVE IndexOf(value) \in 0..(Len(options) - 1)
  <2>1. \E i \in DOMAIN options : options[i] = value
    BY <1>1, <1>2 DEF Contains
  <2>2. (CHOOSE i \in DOMAIN options : options[i] = value) \in 1..Len(options)
    BY <1>1, <2>1
  <2> QED
    BY <1>1, <2>2 DEF IndexOf
<1> QED
  BY <1>1, <1>2

(* Clamping makes an index of the list, or -1 where it is empty. *)
LEMMA Clamped ==
  ASSUME NEW i \in Int, NEW n \in Nat
  PROVE  ClampIndex(i, n) \in -1..(n - 1)
BY DEF ClampIndex

(* A highlight that is set is in the list. *)
LEMMA Highlight ==
  ASSUME SelectIInv, NEW i \in -1..(Len(options) - 1), activeIndex' = i,
         UNCHANGED <<options, clamped>>
  PROVE  SelectIInv'
BY OptionsAreListed DEF SelectIInv

(* The panel opens at the value that is picked, or at the first option. *)
LEMMA OpenPanelStep ==
  ASSUME SelectIInv, OpenPanel
  PROVE  SelectIInv'
<1>1. Len(options) \in Nat
  BY OptionsAreListed
<1>2. ClampIndex(0, Len(options)) \in -1..(Len(options) - 1)
  BY <1>1, Clamped
<1>3. activeIndex' \in -1..(Len(options) - 1) /\ UNCHANGED <<options, clamped>>
  BY <1>1, <1>2, OptionsAreListed DEF OpenPanel
<1> QED
  BY <1>3, Highlight

(* The panel closes. *)
LEMMA ClosePanelStep ==
  ASSUME SelectIInv, ClosePanel
  PROVE  SelectIInv'
BY DEF ClosePanel, SelectIInv

(* An option is picked. *)
LEMMA PickStep ==
  ASSUME SelectIInv, NEW i, Pick(i)
  PROVE  SelectIInv'
BY DEF Pick, SelectIInv

(* A key on the trigger. *)
LEMMA SelectKeyStep ==
  ASSUME SelectIInv, SelectKey
  PROVE  SelectIInv'
<1>1. Len(options) \in Nat /\ activeIndex \in Int
  BY OptionsAreListed DEF SelectIInv
<1>2. CASE OpenPanel
  BY <1>2, OpenPanelStep
<1>3. ASSUME NEW i \in Int, SetActive(ClampIndex(i, Len(options)))
      PROVE  SelectIInv'
  <2>1. ClampIndex(i, Len(options)) \in -1..(Len(options) - 1)
    BY <1>1, <1>3, Clamped
  <2> QED
    BY <1>3, <2>1, Highlight DEF SetActive
<1>4. CASE SetActive(Len(options) - 1)
  <2>1. Len(options) - 1 \in -1..(Len(options) - 1)
    BY <1>1
  <2> QED
    BY <1>4, <2>1, Highlight DEF SetActive
<1>5. CASE Pick(activeIndex)
  BY <1>5, PickStep
<1>6. \/ OpenPanel \/ Pick(activeIndex) \/ SetActive(Len(options) - 1)
      \/ \E step \in {-1, 1} : SetActive(ClampIndex(activeIndex + step, Len(options)))
      \/ SetActive(ClampIndex(0, Len(options)))
  BY DEF SelectKey
<1>7. \A step \in {-1, 1} : activeIndex + step \in Int
  BY <1>1
<1> QED
  BY <1>2, <1>3, <1>4, <1>5, <1>6, <1>7

(* The mouse, on the trigger or on an option. *)
LEMMA SelectMouseStep ==
  ASSUME SelectIInv, SelectMouse
  PROVE  SelectIInv'
<1>1. Len(options) \in Nat
  BY OptionsAreListed
<1>2. CASE OpenPanel \/ ClosePanel
  BY <1>2, OpenPanelStep, ClosePanelStep
<1>3. ASSUME NEW i \in 0..(Len(options) - 1), SetActive(i) \/ Pick(i)
      PROVE  SelectIInv'
  <2>1. i \in -1..(Len(options) - 1)
    BY <1>1
  <2> QED
    BY <1>3, <2>1, Highlight, PickStep DEF SetActive
<1> QED
  BY <1>2, <1>3 DEF SelectMouse

(* The options change, the effect that follows, and the rest. *)
LEMMA OptionsStep ==
  ASSUME SelectIInv, NewOptions \/ Reclamp \/ Disable \/ Remount \/ UNCHANGED selectVars
  PROVE  SelectIInv'
<1>1. Len(options) \in Nat /\ activeIndex \in Int
  BY OptionsAreListed DEF SelectIInv
<1>2. CASE NewOptions
  BY <1>2 DEF NewOptions, SelectIInv
<1>3. CASE Reclamp
  <2>1. ClampIndex(activeIndex, Len(options)) \in -1..(Len(options) - 1)
    BY <1>1, Clamped
  <2>2. activeIndex' \in -1..(Len(options) - 1) /\ options' = options
    BY <1>1, <1>3, <2>1 DEF Reclamp, SelectIInv
  <2> QED
    BY <1>1, <2>2 DEF SelectIInv
<1>4. CASE Disable
  BY <1>4 DEF Disable, SelectIInv
<1>5. CASE Remount
  BY <1>1, <1>5 DEF Remount, SelectIInv
<1>6. CASE UNCHANGED selectVars
  BY <1>6 DEF selectVars, SelectIInv
<1> QED
  BY <1>2, <1>3, <1>4, <1>5, <1>6

(* Whatever opens or closes a layer leaves the dropdown or mounts another. *)
LEMMA LayersSelect ==
  ASSUME NEW d, NEW m, Layers(d, m)
  PROVE  Remount \/ UNCHANGED selectVars
BY DEF Layers

(* No step of the page leaves the highlight on an option there is not. *)
LEMMA SelectStep == SelectIInv /\ [OverlaysNext]_pageVars => SelectIInv'
<1> SUFFICES ASSUME SelectIInv, [OverlaysNext]_pageVars PROVE SelectIInv'
  OBVIOUS
<1>1. CASE ToggleDrawer \/ OpenModal \/ CloseModal \/ Escape \/ UnmountLayout
  <2>1. \E d, m : Layers(d, m)
    BY <1>1 DEF ToggleDrawer, OpenModal, CloseModal, Escape, UnmountLayout
  <2> QED
    BY <2>1, LayersSelect, OptionsStep
<1>2. CASE Created
  BY <1>2, LayersSelect, OptionsStep DEF Created, selectVars
<1>3. CASE UseSelect
  BY <1>3, SelectKeyStep, SelectMouseStep, OptionsStep DEF UseSelect
<1>4. CASE Focus \/ \E back \in BOOLEAN : Tab(back)
  BY <1>4, ClosePanelStep DEF Focus, Tab
<1>5. CASE \/ Emit \/ Submit \/ NotCreated \/ MountLayout
           \/ \E n \in Toast : Expire(n) \/ Dismiss(n)
           \/ UNCHANGED pageVars
  <2>1. UNCHANGED selectVars
    BY <1>5 DEF Emit, Submit, NotCreated, MountLayout, Expire, Dismiss, pageVars
  <2> QED
    BY <2>1, OptionsStep
<1> QED
  BY <1>1, <1>2, <1>3, <1>4, <1>5 DEF OverlaysNext

(* The highlighted option exists whenever the effects have run: whatever    *)
(* lists the store holds, and whichever layer the dropdown is in.           *)
THEOREM OverlaysActiveOption == OverlaysSpec => []ActiveOptionExists
<1>1. OverlaysInit => SelectIInv
  BY SelectAssumption DEF OverlaysInit, SelectInit, SelectIInv
<1>2. SelectIInv => ActiveOptionExists
  BY OptionsAreListed DEF SelectIInv, ActiveOptionExists
<1> QED
  BY <1>1, <1>2, SelectStep, PTL DEF OverlaysSpec

----------------------------------------------------------------------------
(* The hosts over the bus.  A toast that is shown has its timer running,    *)
(* which is all that fairness needs to take it away.                        *)
HostsIInv ==
    /\ handlers = [h \in Hosts |-> IF mounted THEN 1 ELSE 0]
    /\ mounted \in BOOLEAN
    /\ toasts \subseteq timers

LEMMA HostsStep == HostsIInv /\ [OverlaysNext]_pageVars => HostsIInv'
<1> SUFFICES ASSUME HostsIInv, [OverlaysNext]_pageVars PROVE HostsIInv'
  OBVIOUS
<1>1. CASE \/ ToggleDrawer \/ OpenModal \/ CloseModal \/ Escape \/ UseSelect \/ Focus
           \/ Submit \/ Created \/ NotCreated \/ UNCHANGED pageVars
           \/ \E back \in BOOLEAN : Tab(back)
  <2>1. UNCHANGED <<mounted, handlers, toasts, timers>>
    BY <1>1 DEF ToggleDrawer, OpenModal, CloseModal, Escape, UseSelect, Focus, Tab,
                Submit, Created, NotCreated, pageVars, overlayVars
  <2> QED
    BY <2>1 DEF HostsIInv
<1>2. CASE Emit \/ \E n \in Toast : Expire(n) \/ Dismiss(n)
  <2>1. UNCHANGED <<mounted, handlers>> /\ toasts' \subseteq timers'
    BY <1>2 DEF Emit, Show, Expire, Dismiss, HostsIInv
  <2> QED
    BY <2>1 DEF HostsIInv
<1>3. CASE MountLayout
  <2>1. /\ ~mounted /\ mounted' = TRUE /\ UNCHANGED <<toasts, timers>>
        /\ \/ handlers' = Subscribed(handlers)
           \/ handlers' = Subscribed(TornDown(Subscribed(handlers)))
    BY <1>3 DEF MountLayout
  <2>2. handlers' = [h \in Hosts |-> 1]
    BY <2>1 DEF Subscribed, TornDown, HostsIInv
  <2> QED
    BY <2>1, <2>2 DEF HostsIInv
<1>4. CASE UnmountLayout
  BY <1>4 DEF UnmountLayout, TornDown, HostsIInv
<1> QED
  BY <1>1, <1>2, <1>3, <1>4 DEF OverlaysNext

(* The part of HostsServe that is about every state: after any number of    *)
(* reloads, and under StrictMode, a host that is mounted hears each event   *)
(* once and one that is not hears none; and no toast is shown without the   *)
(* timer that takes it away.                                                *)
THEOREM OverlaysHosts == OverlaysSpec => [](OneHandlerPerHost /\ toasts \subseteq timers)
<1>1. OverlaysInit => HostsIInv
  BY DEF OverlaysInit, HostsIInv
<1>2. HostsIInv => OneHandlerPerHost /\ toasts \subseteq timers
  BY DEF HostsIInv, OneHandlerPerHost
<1> QED
  BY <1>1, <1>2, HostsStep, PTL DEF OverlaysSpec

----------------------------------------------------------------------------
(* The focus trap. *)
Spot == [layer : {"page", "drawer", "modal"}, at : 0..Last3]

(* A spot has a rank among all of the page. *)
LEMMA RankIs ==
  ASSUME NEW p \in Spot
  PROVE  Rank(p) \in 0..9
BY DEF Spot, Rank, Last3

(* A nonempty set of naturals has a least element. *)
LEMMA WellOrdering ==
  ASSUME NEW S \in SUBSET Nat, S # {}
  PROVE  \E m \in S : \A n \in S : m <= n
<1> DEFINE R == OpToRel(<, Nat)
<1>1. IsWellFoundedOn(R, Nat)
  BY NatLessThanWellFounded
<1>2. \A a, b \in Nat : a < b <=> <<a, b>> \in R
  BY DEF OpToRel
<1> HIDE DEF R
<1>3. PICK m \in S : \A y \in S : ~(<<y, m>> \in R)
  BY <1>1, WFMin
<1>4. \A n \in S : m \in Nat /\ n \in Nat /\ ~(n < m)
  BY <1>2, <1>3
<1>5. \A n \in S : m <= n
  BY <1>4
<1> QED
  BY <1>5

(* Of some controls one is the first in the direction of the key. *)
LEMMA NearestExists ==
  ASSUME NEW S \in SUBSET Spot, S # {}, NEW back \in BOOLEAN,
         \A p, q \in S : Rank(p) = Rank(q) => p = q
  PROVE  \E p \in S : \A q \in S \ {p} : Beyond(q, p, back)
<1> DEFINE Far(p) == IF back THEN 9 - Rank(p) ELSE Rank(p)
           Fars == {Far(p) : p \in S}
<1>1. \A p \in S : Far(p) \in Nat /\ Rank(p) \in 0..9
  BY RankIs
<1>2. Fars \in SUBSET Nat /\ Fars # {}
  BY <1>1
<1>3. PICK m \in Fars : \A n \in Fars : m <= n
  <2> HIDE DEF Fars
  <2> QED
    BY <1>2, WellOrdering
<1>4. PICK p \in S : m = Far(p)
  BY <1>3
<1>5. ASSUME NEW q \in S \ {p} PROVE Beyond(q, p, back)
  <2>1. Far(p) <= Far(q)
    BY <1>3, <1>4
  <2>2. Rank(q) # Rank(p)
    BY <1>4, <1>5
  <2>3. Rank(p) \in 0..9 /\ Rank(q) \in 0..9
    BY <1>1, <1>5
  <2> QED
    BY <2>1, <2>2, <2>3 DEF Beyond
<1> QED
  BY <1>5

(* The browser's own move goes to the first control ahead, if there is one. *)
Ahead(back) == {p \in Tabbable : Beyond(p, focus, back)}

LEMMA DefaultIs ==
  ASSUME NEW back \in BOOLEAN
  PROVE  IF Ahead(back) = {} THEN Default(back) = Place("page", 0)
         ELSE /\ Default(back) \in Ahead(back)
              /\ \A q \in Ahead(back) \ {Default(back)} : Beyond(q, Default(back), back)
<1>1. CASE Ahead(back) = {}
  BY <1>1 DEF Ahead, Default
<1>2. CASE Ahead(back) # {}
  <2> DEFINE next == CHOOSE p \in Ahead(back) :
                        \A q \in Ahead(back) \ {p} : Beyond(q, p, back)
  <2>1. /\ Ahead(back) \in SUBSET Spot
        /\ \A p, q \in Ahead(back) : Rank(p) = Rank(q) => p = q
    BY DEF Ahead, Tabbable, Spot, Rank, Last3
  <2>2. \E p \in Ahead(back) : \A q \in Ahead(back) \ {p} : Beyond(q, p, back)
    BY <1>2, <2>1, NearestExists
  <2>3. next \in Ahead(back) /\ \A q \in Ahead(back) \ {next} : Beyond(q, next, back)
    BY <2>2
  <2>4. Default(back) = next
    BY <1>2 DEF Ahead, Default
  <2> HIDE DEF next
  <2> QED
    BY <1>2, <2>3, <2>4
<1> QED
  BY <1>1, <1>2

(* From a spot with a control of its own layer ahead it stays in that       *)
(* layer: nothing of another layer lies between.                            *)
LEMMA DefaultStays ==
  ASSUME focus \in Spot, NEW back \in BOOLEAN,
         NEW p \in Ahead(back), p.layer = focus.layer, focus.at # 0
  PROVE  Default(back).layer = focus.layer
<1>1. PICK next : next = Default(back)
  OBVIOUS
<1>2. /\ next \in Ahead(back)
      /\ next = p \/ Beyond(p, next, back)
  BY <1>1, DefaultIs
<1>3. /\ next \in Spot /\ next.at \in 1..3 /\ p \in Spot /\ p.at \in 1..3
      /\ Beyond(next, focus, back)
  BY <1>2 DEF Ahead, Tabbable, Spot, Last3
<1>4. next.layer = focus.layer
  BY <1>2, <1>3 DEF Beyond, Rank, Spot, Last3
<1> QED
  BY <1>1, <1>4

(* A dialog whose listener catches the Tab is the one that has the focus.   *)
LEMMA CatchesItsOwn ==
  ASSUME NEW layer, NEW back, Cycled(layer, back) # 0
  PROVE  /\ focus.layer = layer
         /\ Cycled(layer, back) \in {1, Last3}
BY DEF Cycled, Place

(* Where Tab leads: a dialog that catches it keeps it. *)
LEMMA TabLeads ==
  ASSUME focus \in Spot, NEW back \in BOOLEAN, Tab(back)
  PROVE  \/ \E layer \in {"drawer", "modal"} : Cycled(layer, back) # 0
            /\ focus' \in Spot /\ focus'.layer = focus.layer
         \/ /\ focus' = Default(back)
            /\ drawer => Cycled("drawer", back) = 0
            /\ modal # Nothing => Cycled("modal", back) = 0
<1> DEFINE open == {l \in {"drawer", "modal"} : IF l = "drawer" THEN drawer ELSE modal # Nothing}
           catching == {l \in open : Cycled(l, back) # 0}
           l == CHOOSE l \in catching : TRUE
           i == Cycled(l, back)
<1>1. focus' = IF catching = {} THEN Default(back)
               ELSE IF Enabled(l, i) THEN Place(l, i) ELSE focus
  BY DEF Tab
<1>2. CASE catching = {}
  <2>1. focus' = Default(back)
    BY <1>1, <1>2
  <2>2. \A k \in open : Cycled(k, back) = 0
    BY <1>2
  <2> QED
    BY <2>1, <2>2
<1>3. CASE catching # {}
  <2>1. l \in catching
    BY <1>3
  <2>2. l \in {"drawer", "modal"} /\ i # 0
    BY <2>1
  <2>3. focus.layer = l /\ i \in {1, Last3}
    BY <2>2, CatchesItsOwn
  <2>4. focus' = Place(l, i) \/ focus' = focus
    BY <1>1, <1>3
  <2>5. Place(l, i) \in Spot /\ Place(l, i).layer = l
    BY <2>2, <2>3 DEF Place, Spot, Last3
  <2>6. Cycled(l, back) # 0
    BY <2>1
  <2> HIDE DEF l, i
  <2> QED
    BY <2>2, <2>3, <2>4, <2>5, <2>6
<1> QED
  BY <1>2, <1>3

(* The focus is always on a spot of the page. *)
FocusIInv == focus \in Spot

LEMMA FocusStep == FocusIInv /\ [OverlaysNext]_pageVars => FocusIInv'
<1> SUFFICES ASSUME focus \in Spot, [OverlaysNext]_pageVars PROVE focus' \in Spot
  BY DEF FocusIInv
<1>1. \A layer \in {"page", "drawer", "modal"} : \A i \in 0..Last3 : Place(layer, i) \in Spot
  BY DEF Place, Spot
<1>2. \A d, m : Layers(d, m) => focus' \in Spot
  BY <1>1 DEF Layers, Last3
<1>3. CASE ToggleDrawer \/ OpenModal \/ CloseModal \/ Escape \/ UnmountLayout
  <2>1. \E d, m : Layers(d, m)
    BY <1>3 DEF ToggleDrawer, OpenModal, CloseModal, Escape, UnmountLayout
  <2> QED
    BY <1>2, <2>1
<1>4. CASE Created
  BY <1>2, <1>4 DEF Created
<1>5. CASE Focus
  BY <1>1, <1>5 DEF Focus, Top
<1>6. ASSUME NEW back \in BOOLEAN, Tab(back) PROVE focus' \in Spot
  <2>1. Default(back) \in Spot
    <3>1. Default(back) = Place("page", 0) \/ Default(back) \in Ahead(back)
      BY DefaultIs
    <3>2. Ahead(back) \subseteq Spot
      BY DEF Ahead, Tabbable, Spot, Last3
    <3> QED
      BY <1>1, <3>1, <3>2 DEF Last3
  <2> QED
    BY <1>6, <2>1, TabLeads
<1>7. CASE \/ Emit \/ Submit \/ NotCreated \/ MountLayout \/ UseSelect
           \/ \E n \in Toast : Expire(n) \/ Dismiss(n)
           \/ UNCHANGED pageVars
  BY <1>7 DEF Emit, Submit, NotCreated, MountLayout, UseSelect, Expire, Dismiss,
              pageVars, overlayVars
<1> QED
  BY <1>3, <1>4, <1>5, <1>6, <1>7 DEF OverlaysNext

(* "Keeps Tab/Shift+Tab cycling inside dialog", where its first and last    *)
(* control are enabled: from within the topmost dialog no Tab leads out of  *)
(* it, whatever lies behind and whichever listener hears the key first.     *)
THEOREM OverlaysTrap == OverlaysSpec => TrapHolds
<1>1. OverlaysInit => FocusIInv
  BY DEF OverlaysInit, Place, Spot, Last3, FocusIInv
<1>2. ASSUME focus \in Spot, NEW back \in BOOLEAN, Tab(back), Top # "page",
             Inside(Top), Enabled(Top, Last3)
      PROVE  focus'.layer = Top
  <2>1. /\ focus.layer = Top /\ focus.at \in 1..Last3 /\ Top \in {"drawer", "modal"}
        /\ Top = "drawer" => drawer
        /\ Top = "modal" => modal # Nothing
    BY <1>2 DEF Inside, Top, Spot, Last3
  <2>2. focus = Place(Top, focus.at)
    BY <1>2, <2>1 DEF Spot, Place
  <2>3. CASE focus' = Default(back) /\ Cycled(Top, back) = 0
    <3> DEFINE p == Place(Top, IF back THEN 1 ELSE Last3)
    <3>1. IF back THEN focus.at # 1 ELSE focus.at # Last3
      BY <1>2, <2>2, <2>3 DEF Cycled, Last3
    <3>2. Enabled(Top, 1)
      BY DEF Enabled
    <3>3. p \in Tabbable
      BY <1>2, <2>1, <3>2 DEF Tabbable, Place, Last3
    <3>4. Beyond(p, focus, back)
      BY <1>2, <2>1, <3>1 DEF Beyond, Rank, Place, Last3
    <3>5. p \in Ahead(back) /\ p.layer = focus.layer
      BY <2>1, <3>3, <3>4 DEF Ahead, Place
    <3> HIDE DEF p
    <3>6. Default(back).layer = focus.layer
      BY <1>2, <2>1, <3>5, DefaultStays DEF Last3
    <3> QED
      BY <2>1, <2>3, <3>6
  <2> QED
    BY <1>2, <2>1, <2>3, TabLeads
<1>3. FocusIInv /\ [OverlaysNext]_pageVars =>
        [(\E back \in BOOLEAN : Tab(back)) /\ Top # "page" /\ Inside(Top) /\ Enabled(Top, Last3)
           => focus'.layer = Top]_pageVars
  BY <1>2 DEF FocusIInv
<1> QED
  BY <1>1, <1>3, FocusStep, PTL DEF OverlaysSpec, TrapHolds
=============================================================================
