--------------------------- MODULE FieldValidator ---------------------------
(***************************************************************************)
(* FieldValidatorService: a submitted payload against the fields that the  *)
(* target status requires.                                                 *)
(*                                                                         *)
(* A text is a sequence of characters of three classes, all that the       *)
(* sanitizer tells apart: "x" visible, "w" whitespace, "c" control.  A     *)
(* submitted value is a text, a finite number, or of another shape (null,  *)
(* an object, an overflowing number, ...).  A payload is a sequence of     *)
(* [key, padded, value], in the order of Object.keys; padded tells that    *)
(* the key came with whitespace around it.  A descriptor is                *)
(* [key, fieldType, maxLength, pattern] for a text, or                     *)
(* [key, fieldType, min, max].  A pattern is "none", "solid" (visible      *)
(* characters only, as ^[A-Z0-9-]+$ is) or "counts" (any characters, but   *)
(* two of them at least, as ^.{2,}$ has it): the second tells a text from  *)
(* a sanitized one by its blanks, the third by its length.                 *)
(***************************************************************************)
EXTENDS Integers, SequencesExt

Visible(text) == {i \in DOMAIN text : text[i] = "x"}

(* The elements of a set of numbers, lowest first. *)
Ascending(S) ==
    CHOOSE s \in [1..Cardinality(S) -> S] :
        \A i, j \in 1..Cardinality(S) : i < j => s[i] < s[j]

(* The characters of a text at some of its places, in order. *)
CharactersAt(text, places) ==
    [k \in 1..Cardinality(places) |-> text[Ascending(places)[k]]]

(* Whitespace that follows a visible character, controls between them aside.*)
Separates(text, i) ==
    text[i] = "w" /\ \E h \in 1..i-1 : text[h] = "x" /\ \A g \in h+1..i-1 : text[g] = "c"

(* Fault: whitespace is collapsed, not trimmed. *)
SanitizeUntrimmed(text) ==
    CharactersAt(text, {i \in DOMAIN text :
        \/ text[i] = "x" \/ Separates(text, i)
        \/ text[i] = "w" /\ \A g \in 1..i-1 : text[g] = "c"})

(* sanitizeString: control characters go, whitespace within becomes one     *)
(* space, whitespace around goes.                                           *)
Sanitize(text) ==
    CharactersAt(text, {i \in DOMAIN text :
        text[i] = "x" \/ (Separates(text, i) /\ \E j \in Visible(text) : j > i)})

Pattern == {"none", "solid", "counts"}

(* new RegExp(pattern).test(text), whichever text it is asked about. *)
Matches(d, text) ==
    /\ d.pattern = "solid" => Visible(text) = DOMAIN text
    /\ d.pattern = "counts" => Len(text) >= 2

Missing == [kind |-> "missing"]

Invalid == [kind |-> "invalid"]

Valid(stored) == [kind |-> "valid", stored |-> stored]

EvaluateString(d, value) ==
    IF value.type # "text" THEN Invalid
    ELSE LET text == Sanitize(value.text)
         IN  IF text = <<>> THEN Missing
             ELSE IF Len(text) > d.maxLength \/ ~Matches(d, text) THEN Invalid
             ELSE Valid([value EXCEPT !.text = text])

EvaluateNumber(d, value) ==
    IF value.type = "number" /\ d.min <= value.number /\ value.number <= d.max
    THEN Valid(value) ELSE Invalid

(* splitSubmittedFields: of the keys that trim to a descriptor's, the last  *)
(* one counts.                                                              *)
Submitted(payload, key) == {i \in DOMAIN payload : payload[i].key = key}

UnknownKeys(payload, descriptors) ==
    {i \in DOMAIN payload : \A d \in descriptors : payload[i].key # d.key}

Evaluate(d, payload) ==
    IF Submitted(payload, d.key) = {} THEN Missing
    ELSE LET value == payload[Max(Submitted(payload, d.key))].value
         IN  IF d.fieldType = "string" THEN EvaluateString(d, value)
             ELSE EvaluateNumber(d, value)

RawKey(entry) == <<entry.key, entry.padded>>

(* Fault: the first problem is reported alone. *)
ReportFirst(payload, descriptors) ==
    LET bad == {d \in descriptors : Evaluate(d, payload).kind # "valid"}
    IN  IF bad = {} THEN {RawKey(payload[i]) : i \in UnknownKeys(payload, descriptors)}
        ELSE {<<(CHOOSE d \in bad : TRUE).key, FALSE>>}

(* MissingRequiredFieldsException names missing and invalid fields by their *)
(* key, unknown ones as they were submitted, all at once.                   *)
Report(payload, descriptors) ==
    {<<d.key, FALSE>> : d \in {e \in descriptors : Evaluate(e, payload).kind # "valid"}}
    \cup {RawKey(payload[i]) : i \in UnknownKeys(payload, descriptors)}

Accepts(payload, descriptors) == Report(payload, descriptors) = {}

SanitizedFields(payload, descriptors) ==
    [key \in {d.key : d \in descriptors} |->
        Evaluate(CHOOSE d \in descriptors : d.key = key, payload).stored]
==============================================================================
