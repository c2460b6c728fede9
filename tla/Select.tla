------------------------------- MODULE Select -------------------------------
(***************************************************************************)
(* The dropdown of the client (shared/components/Select): a trigger that   *)
(* keeps the focus, and a panel whose active option is an index, 0 for the *)
(* first, into options that are live store data: they change under it.     *)
(***************************************************************************)
EXTENDS Integers, SequencesExt

CONSTANTS
    OptionLists,   \* bound: lists the store may hold, without duplicates
    NoValue        \* nothing is picked

(* A list of options is an array. *)
ASSUME SelectAssumption == \A list \in OptionLists : list \in Seq(ToSet(list))

VARIABLES
    options,
    value,         \* of the form, or NoValue
    disabled,
    isOpen,
    activeIndex,
    clamped        \* the effect on options has run since they last changed

selectVars == <<options, value, disabled, isOpen, activeIndex, clamped>>

----------------------------------------------------------------------------
(* Fault: the length is taken for an index. *)
ClampIndexToLength(index, length) ==
    CASE length = 0 -> -1
      [] length # 0 /\ index < 0 -> 0
      [] length # 0 /\ index > length -> length
      [] OTHER -> index

ClampIndex(index, length) ==
    CASE length = 0 -> -1
      [] length # 0 /\ index < 0 -> 0
      [] length # 0 /\ index >= length -> length - 1
      [] OTHER -> index

IndexOf(v) == (CHOOSE i \in DOMAIN options : options[i] = v) - 1

OpenPanel ==
    /\ ~disabled
    /\ activeIndex' = IF Contains(options, value) THEN IndexOf(value)
                      ELSE ClampIndex(0, Len(options))
    /\ isOpen' = TRUE
    /\ UNCHANGED <<options, value, disabled, clamped>>

ClosePanel ==
    /\ isOpen' = FALSE
    /\ UNCHANGED <<options, value, disabled, activeIndex, clamped>>

SetActive(i) ==
    /\ activeIndex' = i
    /\ UNCHANGED <<options, value, disabled, isOpen, clamped>>

Pick(i) ==
    /\ value' = options[i + 1]
    /\ isOpen' = FALSE
    /\ UNCHANGED <<options, disabled, activeIndex, clamped>>

(* Keys on the trigger; Escape is the panel's only while it is open. *)
SelectKey ==
    /\ ~disabled
    /\ \/ ~isOpen /\ OpenPanel
       \/ /\ isOpen
          /\ \/ \E step \in {-1, 1} : SetActive(ClampIndex(activeIndex + step, Len(options)))
             \/ SetActive(ClampIndex(0, Len(options)))
             \/ SetActive(Len(options) - 1)
             \/ activeIndex \in 0 .. Len(options) - 1 /\ Pick(activeIndex)

(* The mouse: the trigger, hovering over an option, clicking one. A panel   *)
(* that is open stays usable when its trigger becomes disabled.             *)
SelectMouse ==
    \/ ~disabled /\ (IF isOpen THEN ClosePanel ELSE OpenPanel)
    \/ isOpen /\ \E i \in 0 .. Len(options) - 1 : SetActive(i) \/ Pick(i)

(* Fault: a highlight that is gone is only noticed at the next key. *)
ReclampNever ==
    /\ ~clamped /\ clamped' = TRUE
    /\ UNCHANGED <<options, value, disabled, isOpen, activeIndex>>

(* The effect on options. *)
Reclamp ==
    /\ ~clamped /\ clamped' = TRUE
    /\ activeIndex' = IF activeIndex < 0 THEN activeIndex ELSE ClampIndex(activeIndex, Len(options))
    /\ UNCHANGED <<options, value, disabled, isOpen>>

NewOptions ==
    /\ options' \in OptionLists \ {options}
    /\ clamped' = FALSE
    /\ UNCHANGED <<value, disabled, isOpen, activeIndex>>

(* The store's isLoading flag comes and goes. *)
Disable ==
    /\ disabled' = ~disabled
    /\ UNCHANGED <<options, value, isOpen, activeIndex, clamped>>

(* Another dropdown mounts in its place. *)
Remount ==
    /\ value' = NoValue /\ isOpen' = FALSE /\ activeIndex' = -1 /\ clamped' = TRUE
    /\ UNCHANGED <<options, disabled>>

SelectInit ==
    /\ options \in OptionLists /\ disabled \in BOOLEAN
    /\ value = NoValue /\ isOpen = FALSE /\ activeIndex = -1 /\ clamped = TRUE

----------------------------------------------------------------------------
(* The highlighted option exists whenever the effects have run, though      *)
(* options shrink, empty and fill up while the panel is open.               *)
ActiveOptionExists ==
    clamped => activeIndex \in -1 .. Len(options) - 1

(* A disabled dropdown keeps its value. *)
DisabledKeepsValue == [][value' # value /\ value' # NoValue => ~disabled]_selectVars
=============================================================================
