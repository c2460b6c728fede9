------------------------------ MODULE Overlays ------------------------------
(***************************************************************************)
(* What lies over the page: the drawer of a task, the one modal, toasts.   *)
(* ToastHost and ModalHost hear of both through the event bus and live in  *)
(* AppLayout, which the gate unmounts and mounts.  Keys go to the focused  *)
(* control first and then to every dialog's listener on the document.  The *)
(* dropdown is the one of the topmost layer.                               *)
(***************************************************************************)
EXTENDS Select

CONSTANTS
    Toast,         \* bound: toasts of a behaviour
    Nothing        \* no modal

VARIABLES
    mounted,       \* AppLayout is
    handlers,      \* handlers[h]: subscriptions of host h on the bus
    drawer,        \* the drawer is open
    modal,         \* activeModal: "confirm", "create" or Nothing
    creating,      \* a createTask is in flight
    focus,         \* [layer, at]: the dialog itself is 0, its controls 1, 2, 3
    toasts,        \* toasts shown
    timers,        \* toasts whose timer runs
    emitted        \* toasts so far

overlayVars == <<mounted, handlers, drawer, modal, creating, focus, toasts, timers, emitted>>

pageVars == <<selectVars, overlayVars>>

Hosts == {"toast", "modal"}

Last3 == 3

(* The topmost layer.  Controls of a dialog: its close button, a dropdown   *)
(* (the cancel button of a confirmation), and its main button.              *)
Top == CASE modal # Nothing -> "modal"
         [] modal = Nothing /\ drawer -> "drawer"
         [] OTHER -> "page"

Place(layer, i) == [layer |-> layer, at |-> i]

HasSelect == modal # "confirm"

----------------------------------------------------------------------------
(* Whatever opens or closes a layer: a dialog that mounts takes the focus,  *)
(* one that leaves drops it on the page's body.                             *)
Layers(d, m) ==
    LET opens == (d /\ ~drawer) \/ (m # Nothing /\ m # modal)
        gone == (focus.layer = "drawer" /\ ~d) \/ (focus.layer = "modal" /\ m # modal)
    IN  /\ drawer' = d /\ modal' = m
        /\ focus' = CASE opens -> Place(IF m # Nothing THEN "modal" ELSE "drawer", 0)
                      [] ~opens /\ gone -> Place("page", 0)
                      [] OTHER -> focus
        /\ IF d = drawer /\ m = modal THEN UNCHANGED selectVars ELSE Remount

(* A row, the close button, the backdrop, or the browser's back button. *)
ToggleDrawer ==
    /\ mounted
    /\ Layers(~drawer, modal)
    /\ UNCHANGED <<mounted, handlers, creating, toasts, timers, emitted>>

(* modal:open: handleCloseClick of the drawer, or the list's create button. *)
OpenModal ==
    /\ mounted /\ modal = Nothing /\ handlers["modal"] > 0
    /\ Layers(drawer, IF drawer THEN "confirm" ELSE "create")
    /\ UNCHANGED <<mounted, handlers, creating, toasts, timers, emitted>>

(* Its buttons, its close button, its backdrop. *)
CloseModal ==
    /\ mounted /\ modal # Nothing
    /\ Layers(drawer, Nothing)
    /\ UNCHANGED <<mounted, handlers, creating, toasts, timers, emitted>>

(* Every dialog's listener hears Escape, and the dropdown's own trigger.    *)
Escape ==
    /\ mounted /\ Top # "page"
    /\ Layers(FALSE, Nothing)
    /\ UNCHANGED <<mounted, handlers, creating, toasts, timers, emitted>>

UseSelect ==
    /\ mounted /\ HasSelect
    /\ \/ focus.layer = Top /\ focus.at = 2 /\ SelectKey
       \/ SelectMouse \/ NewOptions \/ Reclamp \/ Disable
    /\ UNCHANGED overlayVars

(* CreateTaskForm's and the drawer's main buttons are disabled at times;    *)
(* the trap's selector finds them all the same.                             *)
Enabled(layer, i) ==
    /\ i = 3 => /\ layer = "modal" /\ modal = "create" => value # NoValue /\ ~disabled
                /\ layer = "drawer" => ~disabled
    /\ i = 2 /\ layer = Top /\ HasSelect => ~disabled

(* Another control gets the focus, by the mouse. *)
Focus ==
    /\ mounted
    /\ \E i \in 0..Last3 : Enabled(Top, i) /\ focus' = Place(Top, i)
    /\ ClosePanel
    /\ UNCHANGED <<mounted, handlers, drawer, modal, creating, toasts, timers, emitted>>

----------------------------------------------------------------------------
(* The controls a browser's Tab stops at. *)
Tabbable ==
    {p \in [layer : {"page", "drawer", "modal"}, at : 1..Last3] :
        /\ p.layer = "drawer" => drawer
        /\ p.layer = "modal" => modal # Nothing
        /\ Enabled(p.layer, p.at)}

Rank(p) == CASE p.layer = "page" -> p.at [] p.layer = "drawer" -> 3 + p.at [] OTHER -> 6 + p.at

(* p comes after q in the direction of the key. *)
Beyond(p, q, back) == IF back THEN Rank(p) < Rank(q) ELSE Rank(p) > Rank(q)

(* The browser's own move, over the whole page in order. *)
Default(back) ==
    LET beyond == {p \in Tabbable : Beyond(p, focus, back)}
    IN  IF beyond = {} THEN Place("page", 0)
        ELSE CHOOSE p \in beyond : \A q \in beyond \ {p} : Beyond(q, p, back)

(* Fault: only the first control is guarded. *)
CycledBackOnly(layer, back) == IF back /\ focus = Place(layer, 1) THEN Last3 ELSE 0

(* cycleFocusWithinDialog: the control that gets the focus, 0 for none.     *)
Cycled(layer, back) ==
    CASE back /\ focus = Place(layer, 1) -> Last3
      [] ~back /\ focus = Place(layer, Last3) -> 1
      [] OTHER -> 0

(* Both dialogs' listeners run; focusing a disabled control does nothing.   *)
Tab(back) ==
    /\ mounted
    /\ LET open == {l \in {"drawer", "modal"} :
                      IF l = "drawer" THEN drawer ELSE modal # Nothing}
           catching == {l \in open : Cycled(l, back) # 0}
       IN  focus' = IF catching = {} THEN Default(back)
                    ELSE LET l == CHOOSE l \in catching : TRUE
                             i == Cycled(l, back)
                         IN  IF Enabled(l, i) THEN Place(l, i) ELSE focus
    /\ ClosePanel
    /\ UNCHANGED <<mounted, handlers, drawer, modal, creating, toasts, timers, emitted>>

----------------------------------------------------------------------------
(* Fault: one timer serves all toasts that come while it runs. *)
ShowOneTimer ==
    /\ toasts' = toasts \cup {emitted + 1}
    /\ timers' = IF timers = {} THEN {emitted + 1} ELSE timers

(* toast:show: each subscription shows the toast and sets its timer. *)
Show ==
    IF mounted /\ handlers["toast"] > 0
    THEN toasts' = toasts \cup {emitted + 1} /\ timers' = timers \cup {emitted + 1}
    ELSE UNCHANGED <<toasts, timers>>

Emit ==
    /\ emitted + 1 \in Toast
    /\ emitted' = emitted + 1
    /\ Show
    /\ UNCHANGED <<selectVars, mounted, handlers, drawer, modal, creating, focus>>

Expire(n) ==
    /\ n \in timers
    /\ timers' = timers \ {n} /\ toasts' = toasts \ {n}
    /\ UNCHANGED <<selectVars, mounted, handlers, drawer, modal, creating, focus, emitted>>

Dismiss(n) ==
    /\ n \in toasts
    /\ toasts' = toasts \ {n}
    /\ UNCHANGED <<selectVars, mounted, handlers, drawer, modal, creating, focus, timers, emitted>>

Submit ==
    /\ mounted /\ modal = "create" /\ ~creating
    /\ value # NoValue /\ ~disabled
    /\ creating' = TRUE
    /\ UNCHANGED <<selectVars, mounted, handlers, drawer, modal, focus, toasts, timers, emitted>>

(* The task is created: modal:close closes whatever modal is open by then.  *)
Created ==
    /\ creating /\ creating' = FALSE
    /\ IF mounted THEN Layers(drawer, Nothing) ELSE UNCHANGED <<selectVars, drawer, modal, focus>>
    /\ UNCHANGED <<mounted, handlers, toasts, timers, emitted>>

(* It is refused: the form keeps what was picked. *)
NotCreated ==
    /\ creating /\ creating' = FALSE
    /\ UNCHANGED <<selectVars, mounted, handlers, drawer, modal, focus, toasts, timers, emitted>>

----------------------------------------------------------------------------
(* Fault: nothing is unsubscribed. *)
TornDownNever(counts) == counts

(* useBus: a component that leaves takes its subscriptions with it. *)
TornDown(counts) == [h \in Hosts |-> 0]

(* ToastHost would subscribe again whenever its translator changed, which   *)
(* with the one static locale it never does.                                *)
Subscribed(counts) == [h \in Hosts |-> counts[h] + 1]

(* AppLayout mounts; under StrictMode effects run, are undone, run again.   *)
MountLayout ==
    /\ ~mounted /\ mounted' = TRUE
    /\ \/ handlers' = Subscribed(handlers)
       \/ handlers' = Subscribed(TornDown(Subscribed(handlers)))
    /\ UNCHANGED <<selectVars, drawer, modal, creating, focus, toasts, timers, emitted>>

(* The gate's types load again: all of the layout goes.  Timers run on.     *)
UnmountLayout ==
    /\ mounted /\ mounted' = FALSE
    /\ handlers' = TornDown(handlers)
    /\ Layers(FALSE, Nothing)
    /\ toasts' = {}
    /\ UNCHANGED <<creating, timers, emitted>>

OverlaysInit ==
    /\ SelectInit
    /\ mounted = FALSE /\ handlers = [h \in Hosts |-> 0]
    /\ drawer = FALSE /\ modal = Nothing /\ creating = FALSE
    /\ focus = Place("page", 0)
    /\ toasts = {} /\ timers = {} /\ emitted = 0

OverlaysNext ==
    \/ ToggleDrawer \/ OpenModal \/ CloseModal \/ Escape \/ UseSelect \/ Focus
    \/ \E back \in BOOLEAN : Tab(back)
    \/ Emit \/ \E n \in Toast : Expire(n) \/ Dismiss(n)
    \/ Submit \/ Created \/ NotCreated
    \/ MountLayout \/ UnmountLayout

(* A timer that is set fires. *)
OverlaysSpec == OverlaysInit /\ [][OverlaysNext]_pageVars /\ \A n \in Toast : WF_pageVars(Expire(n))

----------------------------------------------------------------------------
(* Every toast leaves by itself, however many come at once, and whatever    *)
(* is dismissed by hand or unmounted in between.                            *)
ToastsLeave == \A n \in Toast : n \in toasts ~> n \notin toasts

(* "the subscription is torn down automatically on unmount": each host that *)
(* is mounted hears every event once, one that is not hears none, after any *)
(* number of reloads and under StrictMode.                                  *)
OneHandlerPerHost ==
    \A h \in Hosts : handlers[h] = (IF mounted THEN 1 ELSE 0)

(* The hosts over the bus: no event is shown twice or by a host that left,  *)
(* and what is shown leaves.                                                *)
HostsServe == []OneHandlerPerHost /\ ToastsLeave

Inside(layer) == focus.layer = layer /\ focus.at # 0

(* From a control of the topmost dialog, whose first and last control are   *)
(* enabled, no Tab leads into what lies behind it, though the listener of a *)
(* drawer below runs as well.                                               *)
TrapHolds ==
    [][(\E back \in BOOLEAN : Tab(back)) /\ Top # "page" /\ Inside(Top) /\ Enabled(Top, Last3)
         => focus'.layer = Top]_pageVars

(* "Keeps Tab/Shift+Tab cycling inside dialog", unconditionally.            *)
TrapAlwaysHolds ==
    [][(\E back \in BOOLEAN : Tab(back)) /\ focus.layer = Top => focus'.layer = Top]_pageVars

(* Escape on a dialog leaves the one below it open. *)
EscapeClosesOne ==
    [][mounted' /\ modal # Nothing /\ modal' = Nothing => drawer' = drawer]_pageVars

(* The answer to a creation closes no other modal. *)
AnswerClosesOwn ==
    [][creating /\ ~creating' /\ modal' # modal => modal = "create"]_pageVars
=============================================================================
