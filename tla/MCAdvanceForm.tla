--------------------------- MODULE MCAdvanceForm ---------------------------
(***************************************************************************)
(* AdvanceForm on a type of three statuses: status 2 requires a text with  *)
(* a pattern and a number, status 3 two texts, one of them with a pattern  *)
(* that counts.  Texts take every class of character at either end and     *)
(* within; payloads take keys that are padded, doubled, unknown or of      *)
(* another status.                                                         *)
(***************************************************************************)
EXTENDS AdvanceForm

TextField(key, pattern) ==
    [key |-> key, fieldType |-> "string", maxLength |-> 3, pattern |-> pattern]

NumberField(key) == [key |-> key, fieldType |-> "number", min |-> 1, max |-> 2]

MCFields == <<{}, {TextField("f2", "solid"), NumberField("g2")},
              {TextField("f3", "none"), TextField("g3", "counts")}>>

MCTexts == {<<>>, <<"w">>, <<"c">>, <<"x">>, <<"w", "x">>, <<"x", "c">>, <<"x", "w", "x">>}

MCGood(d) == IF d.fieldType = "number" THEN [type |-> "number", number |-> 1]
             ELSE Text(<<"x", "x">>)

Junk == [type |-> "junk"]

ScriptValues ==
    {Text(t) : t \in {<<"w", "c">>, <<"x", "x", "x", "x">>, <<"w", "x", "w">>,
                      <<"x", "w", "w", "x">>, <<"w", "x", "x", "x">>}}
    \cup {Junk, [type |-> "number", number |-> 2], [type |-> "number", number |-> 3]}

Entries == {[key |-> k, padded |-> p, value |-> v] :
              k \in {"f2", "g2", "f3"}, p \in BOOLEAN, v \in ScriptValues}

MCPayloads ==
    LET two == {<<d, e>> : d \in Entries, e \in {f \in Entries : f.key = "f2" \/ ~f.padded}}
    IN  {<<>>} \cup {<<e>> : e \in Entries}
        \cup {p \in two : RawKey(p[1]) # RawKey(p[2])}

(* Payloads whose keys trim to the same one. *)
TwinPayloads == {p \in MCPayloads : ~NoTwins(p)}
==============================================================================
