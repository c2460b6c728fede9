----------------------------- MODULE AdvanceForm -----------------------------
(***************************************************************************)
(* One task moved forward through the drawer's form (TaskDetailView,       *)
(* DynamicFieldsForm), or by a script that sends payloads of its own; the  *)
(* service's validator and error responses; the form's reaction to them.   *)
(* Meanwhile other clients move the task, and the form hears of it.        *)
(***************************************************************************)
EXTENDS FieldValidator, ApiErrors

CONSTANTS
    FinalStatus,
    Fields,        \* Fields[s]: the descriptors of status s
    Texts,         \* bound: what a user types
    Payloads,      \* bound: what a script submits
    Good(_),       \* Good(d): some acceptable value of descriptor d
    MaxMoves,      \* bound: moves of other clients
    Idle           \* "no call in flight"

Keys(descriptors) == {d.key : d \in descriptors}

Text(t) == [type |-> "text", text |-> t]

Entry(d) == [key |-> d.key, padded |-> FALSE, value |-> Good(d)]

Char == {"x", "w", "c"}

Descriptor(d) ==
    \/ d.fieldType = "string" /\ d.maxLength \in Nat /\ d.pattern \in Pattern
    \/ d.fieldType = "number" /\ d.min \in Int /\ d.max \in Int

Value(v) ==
    /\ v.type = "text" => v = Text(v.text) /\ v.text \in Seq(Char)
    /\ v.type = "number" => v.number \in Int

(* The registry's own checks: no key twice in a type. *)
ASSUME FormAssumption ==
    /\ FinalStatus \in Nat \ {0}
    /\ \A s \in 2..FinalStatus :
          /\ IsFiniteSet(Fields[s])
          /\ \A d \in Fields[s] :
                /\ Descriptor(d)
                /\ Value(Good(d)) /\ Evaluate(d, <<Entry(d)>>) = Valid(Good(d))
                /\ \A u \in 2..FinalStatus : \A e \in Fields[u] : d.key = e.key => d = e
    /\ Texts \subseteq Seq(Char)
    /\ \A p \in Payloads : p \in Seq(Range(p)) /\ \A i \in DOMAIN p : Value(p[i].value)

VARIABLES
    client,        \* "form" or "script"; it never changes
    server,        \* the persisted task: [status, isClosed, fields]
    seen,          \* the status of the client's copy
    values,        \* customFieldValues: typed keys to texts
    highlight,     \* missingFieldKeys
    error,         \* the store's error, with its cause and the status it was at
    call,          \* the call in flight
    round,         \* the script's submissions so far
    moves

vars == <<client, server, seen, values, highlight, error, call, round, moves>>

NextFields(status) == IF status < FinalStatus THEN Fields[status + 1] ELSE {}

(* No ApiError has the code 0. *)
NoError == [code |-> 0, status |-> 0, named |-> {}, network |-> FALSE]

NoValues == [k \in {} |-> <<>>]

(* { ...old, ...new } *)
Overwritten(old, new) ==
    [k \in DOMAIN new \cup DOMAIN old |-> IF k \in DOMAIN new THEN new[k] ELSE old[k]]

----------------------------------------------------------------------------
(* What the form knows of a field.                                          *)

(* Fault: a field of blanks counts as filled. *)
BlankUntrimmed(t) == t = <<>>

Blank(t) == \A i \in DOMAIN t : t[i] = "w"

ValueOf(vals, key) == IF key \in DOMAIN vals THEN vals[key] ELSE <<>>

GetMissingRequiredFieldKeys(descriptors, vals) ==
    {d.key : d \in {e \in descriptors : Blank(ValueOf(vals, e.key))}}

(* isStringFormatInvalid: the pattern is tested on the text as it is typed. *)
(* The range of a number is shown likewise; no text that a number input     *)
(* holds is out of it here.                                                 *)
FormatError(d, t) == d.fieldType = "string" /\ ~Blank(t) /\ ~Matches(d, t)

(* maxLength of the input; a number input holds any numeral. *)
Typable(d, t) == d.fieldType = "string" => Len(t) <= d.maxLength

----------------------------------------------------------------------------
Call(payload) ==
    [kind |-> "change", expected |-> seen, payload |-> payload,
     done |-> FALSE, status |-> 0, cause |-> NoError, answer |-> NoError]

Type(d, t) ==
    /\ client = "form"
    /\ call = Idle
    /\ d \in NextFields(seen) /\ Typable(d, t)
    /\ values' = [k \in DOMAIN values \cup {d.key} |-> IF k = d.key THEN t ELSE values[k]]
    /\ UNCHANGED <<client, server, seen, highlight, error, call, round, moves>>

Formed(vals) ==
    [i \in 1..Cardinality(DOMAIN vals) |->
        LET key == SetToSeq(DOMAIN vals)[i]
        IN  [key |-> key, padded |-> FALSE, value |-> Text(vals[key])]]

(* submitAdvance: missing fields are shown, else every value goes out.  The *)
(* call clears the error, and the highlight follows an error that changes.  *)
SubmitAdvance ==
    /\ client = "form"
    /\ call = Idle
    /\ seen < FinalStatus
    /\ LET missing == GetMissingRequiredFieldKeys(NextFields(seen), values)
       IN  IF missing # {}
           THEN highlight' = missing /\ UNCHANGED <<error, call>>
           ELSE /\ call' = Call(Formed(values))
                /\ error' = NoError
                /\ highlight' = IF error = NoError THEN highlight ELSE {}
    /\ UNCHANGED <<client, server, seen, values, round, moves>>

(* A client of the API that reports its payload as it likes, at the final   *)
(* status too.                                                              *)
Script(payload) ==
    /\ client = "script"
    /\ call = Idle /\ round = 0
    /\ call' = Call(payload)
    /\ round' = 1
    /\ UNCHANGED <<client, server, seen, values, highlight, error, moves>>

(* Of the keys a refusal names, the known ones are given a good value. *)
Known(named, descriptors) == {d \in descriptors : <<d.key, FALSE>> \in named}

Correction(e, named, known) ==
    IF RawKey(e) \in named THEN Entry(CHOOSE d \in known : d.key = e.key) ELSE e

(* It corrects what the refusal names: keys not known are dropped, the      *)
(* others set, where they were or at the end.                               *)
Corrected(payload, named, descriptors) ==
    LET known == Known(named, descriptors)
        kept == Ascending({i \in DOMAIN payload :
                    RawKey(payload[i]) \notin named \/ payload[i].key \in Keys(known)})
        absent == SetToSeq({d \in known : \A i \in DOMAIN payload :
                                RawKey(payload[i]) # <<d.key, FALSE>>})
    IN  [i \in DOMAIN kept |-> Correction(payload[kept[i]], named, known)]
        \o [i \in DOMAIN absent |-> Entry(absent[i])]

----------------------------------------------------------------------------
Answer(cause) ==
    /\ call' = [call EXCEPT !.done = TRUE, !.cause = cause,
                            !.answer = ToApiError(ToResponse(cause))]
    /\ UNCHANGED server

Current == ~server.isClosed /\ server.status = call.expected

(* changeStatus, its checks in their order: the task is open, at the        *)
(* status expected, and has a next one; the fields; the assignee, whom the  *)
(* form takes from the directory and a script makes up.                     *)
Refuse ==
    LET named == Report(call.payload, NextFields(call.expected))
    IN  \/ server.isClosed /\ Answer(App(40900, {}))
        \/ ~server.isClosed /\ ~Current /\ Answer(App(40901, {}))
        \/ Current /\ server.status = FinalStatus /\ Answer(App(42202, {}))
        \/ /\ Current /\ server.status < FinalStatus
           /\ \/ named # {} /\ Answer(App(42203, named))
              \/ named = {} /\ client = "script" /\ Answer(App(42201, {}))

Acceptable ==
    /\ Current /\ server.status < FinalStatus
    /\ Accepts(call.payload, NextFields(call.expected))

(* What the transaction leaves when it commits. *)
Advanced ==
    [server EXCEPT !.status = @ + 1,
        !.fields = Overwritten(@, SanitizedFields(call.payload, NextFields(call.expected)))]

Accept ==
    /\ Acceptable
    /\ server' = Advanced
    /\ call' = [call EXCEPT !.done = TRUE, !.status = server.status + 1]

(* The caller is told of a failure, and the change it asked for was not     *)
(* made, or was: what is lost may be the request or the answer.             *)
Unsettled(cause, answer) ==
    /\ call' = [call EXCEPT !.done = TRUE, !.cause = cause, !.answer = answer]
    /\ \/ UNCHANGED server
       \/ call.kind = "change" /\ Acceptable /\ server' = Advanced

(* The guard, the body parser, or a failure no one expected, that of the    *)
(* connection at COMMIT included.                                           *)
Accident ==
    \/ \E f \in {Framework(429), Framework(413)} : Answer(f)
    \/ Unsettled(Other, ToApiError(ToResponse(Other)))

Lost == [by |-> "nobody", status |-> 0, code |-> 0, named |-> {}]

Gateway == [by |-> "gateway", status |-> 502, code |-> 0, named |-> {}]

(* The request or the answer is lost, or comes after the client's timeout; *)
(* or a gateway answers.                                                   *)
Lose == Unsettled(Lost, NetworkError)

Garble == Unsettled(Gateway, ToApiError(Garbled(Gateway.status)))

Serve ==
    /\ call # Idle /\ ~call.done
    /\ \/ call.kind = "change" /\ (Refuse \/ Accept \/ Accident)
       \/ /\ call.kind = "read"
          /\ call' = [call EXCEPT !.done = TRUE, !.status = server.status]
          /\ UNCHANGED server
       \/ Lose
       \/ Garble
    /\ UNCHANGED <<client, seen, values, highlight, error, round, moves>>

----------------------------------------------------------------------------
(* Fault: what was typed outlives the status it was typed for. *)
SeeKeepingValues(status) ==
    /\ seen' = status
    /\ highlight' = IF status = seen THEN highlight ELSE {}
    /\ UNCHANGED values

(* The copy is replaced; an effect clears the form if the status changed. *)
See(status) ==
    /\ seen' = status
    /\ values' = IF status = seen THEN values ELSE NoValues
    /\ highlight' = IF status = seen THEN highlight ELSE {}

TakeAnswer ==
    /\ call # Idle /\ call.done /\ call.answer = NoError
    /\ See(call.status)
    /\ call' = Idle
    /\ UNCHANGED <<client, server, error, round, moves>>

(* A conflict reads the task again, which clears the error at once. *)
TakeConflict ==
    /\ call # Idle /\ call.done /\ call.answer # NoError /\ call.answer.code = 40901
    /\ call' = [Call(<<>>) EXCEPT !.kind = "read"]
    /\ UNCHANGED <<client, server, seen, values, highlight, error, round, moves>>

TakeError ==
    /\ call # Idle /\ call.done /\ call.answer # NoError /\ call.answer.code # 40901
    /\ error' = [api |-> call.answer, cause |-> call.cause, at |-> call.expected]
    /\ highlight' = {k[1] : k \in call.answer.named}
    /\ IF client = "script" /\ round = 1 /\ call.answer.code = 42203
       THEN /\ call' = [Call(Corrected(call.payload, call.answer.named,
                                       NextFields(call.expected)))
                            EXCEPT !.expected = call.expected]
            /\ round' = 2
       ELSE call' = Idle /\ UNCHANGED round
    /\ UNCHANGED <<client, server, seen, values, moves>>

(* Another client moves or closes the task. *)
OtherClient ==
    /\ moves < MaxMoves /\ ~server.isClosed
    /\ moves' = moves + 1
    /\ \/ /\ server.status < FinalStatus
          /\ server' = [server EXCEPT !.status = @ + 1,
                !.fields = Overwritten(@, [k \in Keys(NextFields(server.status)) |->
                    Good(CHOOSE d \in NextFields(server.status) : d.key = k)])]
       \/ server.status > 1 /\ server' = [server EXCEPT !.status = @ - 1]
       \/ server.status = FinalStatus /\ server' = [server EXCEPT !.isClosed = TRUE]
    /\ UNCHANGED <<client, seen, values, highlight, error, call, round>>

(* The event of the latest change arrives, or a script reads the task. *)
Hear ==
    /\ seen # server.status
    /\ See(server.status)
    /\ UNCHANGED <<client, server, error, call, round, moves>>

Init ==
    /\ client \in {"form", "script"}
    /\ server = [status |-> 1, isClosed |-> FALSE, fields |-> NoValues]
    /\ seen = 1 /\ values = NoValues /\ highlight = {}
    /\ error = NoError /\ call = Idle /\ round = 0 /\ moves = 0

Next ==
    \/ \E d \in NextFields(seen), t \in Texts : Type(d, t)
    \/ SubmitAdvance
    \/ \E p \in Payloads : Script(p)
    \/ Serve \/ TakeAnswer \/ TakeConflict \/ TakeError
    \/ OtherClient \/ Hear

Spec == Init /\ [][Next]_vars

----------------------------------------------------------------------------
InFlight == call # Idle /\ call.kind = "change"

Clean(d, value) ==
    IF d.fieldType = "number"
    THEN value.type = "number" /\ value.number \in d.min..d.max
    ELSE /\ value.type = "text"
         /\ Len(value.text) \in 1..d.maxLength
         /\ Matches(d, value.text)
         /\ value.text[1] = "x" /\ Last(value.text) = "x"
         /\ \A i \in DOMAIN value.text :
               value.text[i] = "x" \/ (value.text[i] = "w" /\ value.text[i - 1] = "x")

(* Whoever submitted, whatever the payload: a task at a status holds every  *)
(* field required on the way there, and each stored value is sanitized and  *)
(* within its descriptor's constraints.                                     *)
StoredFieldsClean ==
    \A s \in 2..server.status : \A d \in Fields[s] :
        d.key \in DOMAIN server.fields /\ Clean(d, server.fields[d.key])

(* "this returns everything wrong at once": a client that corrects exactly  *)
(* the keys a refusal names is not refused for its fields again, if no two  *)
(* keys of its payload trim to the same one.                                *)
NoTwins(payload) ==
    \A i, j \in DOMAIN payload : payload[i].key = payload[j].key => i = j

OneRoundTrip ==
    (round = 2 /\ InFlight /\ NoTwins(call.payload)) =>
        Accepts(call.payload, NextFields(call.expected))

(* ... without that condition. *)
OneRoundTripAlways ==
    (round = 2 /\ InFlight) => Accepts(call.payload, NextFields(call.expected))

(* The fields the validator refuses though the form shows no error on them  *)
(* and their text hides no control character.                               *)
Silent(payload, descriptors) ==
    {d \in descriptors :
        /\ Evaluate(d, payload).kind # "valid"
        /\ \A i \in Submitted(payload, d.key) : LET t == payload[i].value.text IN
              ~Contains(t, "c") /\ ~FormatError(d, t)}

(* The form and the validator agree: whatever the validator refuses, the    *)
(* form showed an error on that very field, control characters aside.       *)
QuietFormAccepted ==
    (client = "form" /\ InFlight) =>
        /\ UnknownKeys(call.payload, NextFields(call.expected)) = {}
        /\ Silent(call.payload, NextFields(call.expected)) = {}

(* ... as far as its text fields go.                                        *)
QuietPatternsAccepted ==
    (client = "form" /\ InFlight) =>
        /\ UnknownKeys(call.payload, NextFields(call.expected)) = {}
        /\ \A d \in Silent(call.payload, NextFields(call.expected)) : d.fieldType = "number"

(* ... and as far as their patterns do not count characters, which the form *)
(* counts before and the validator after the text is sanitized.             *)
QuietTextFormAccepted ==
    (client = "form" /\ InFlight) =>
        /\ UnknownKeys(call.payload, NextFields(call.expected)) = {}
        /\ \A d \in Silent(call.payload, NextFields(call.expected)) :
              d.fieldType = "number" \/ d.pattern = "counts"

(* A refusal of the fields can be acted on: while the task stays at its     *)
(* status, every field the refusal names is one that the form shows.        *)
RefusalActionable ==
    (client = "form" /\ error # NoError /\ error.at = seen) =>
        {k[1] : k \in error.api.named} \subseteq Keys(NextFields(seen))

(* The text a user reads tells the cause: a refusal by the service's own    *)
(* rules or its throttle is never the generic text, and a failure of        *)
(* anything else is never reported as a refusal.                            *)
TextTellsCause ==
    error # NoError =>
        LET text == ErrorText(error.api)
        IN  /\ error.cause = Lost => text = "network"
            /\ error.cause \in {Gateway, Framework(413), Other} => text = "generic"
            /\ error.cause = Framework(429) => text = "too-many-requests"
            /\ error.cause.by = "app" => text \notin {"generic", "network"}
==============================================================================
