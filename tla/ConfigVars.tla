----------------------------- MODULE ConfigVars -----------------------------
(***************************************************************************)
(* ui/web/src/lib/configvars.ts: how the variables of a config scope become*)
(* editable rows and rows become variables again.  A key is a number, in   *)
(* the order in which the editor sorts keys, and 0 stands for a key whose  *)
(* text is blank.  Texts are the tokens below: enough for each type to     *)
(* have texts it accepts and texts it does not, two texts that mean the    *)
(* same, and a numeral beyond what a double can hold.                      *)
(***************************************************************************)
EXTENDS Integers, Sequences, SequencesExt, FiniteSets

Huge == "99..9"

Text == {"", "0", "1", "01", Huge, "true", "false", "null", "x"}

Blank == 0

\* Number(s); blank text is zero.
NaN == "NaN"
Infinity == "Infinity"
Number(s) == CASE s \in {"", "0"} -> "0" [] s \in {"1", "01"} -> "1"
               [] s = Huge -> Infinity [] OTHER -> NaN

\* Does strToTypedValue(type, s) return?
Accepts(type, s) == CASE type = "int"   -> s \in {"0", "1", "01", Huge}
                      [] type = "float" -> Number(s) # NaN
                      [] type = "json"  -> s \in {"0", "1", Huge, "true", "false", "null"}
                      [] OTHER          -> TRUE

strToTypedValue(type, s) ==
    [type |-> type,
     value |-> CASE type \in {"int", "float"} -> Number(s)
                 [] type = "bool" -> IF s = "true" THEN "true" ELSE "false"
                 [] type = "json" -> IF s = Huge THEN Infinity ELSE s
                 [] OTHER -> s]

VarType == {"string", "int", "float", "bool", "json", "bytes"}

\* A null where the type is not json, under which null is a value like others.
Null == "(null)"

\* JSON.stringify, on the way to the server: JSON has no Infinity.
Wire(tv) == IF tv.value # Infinity THEN tv
            ELSE [tv EXCEPT !.value = IF tv.type = "json" THEN "null" ELSE Null]

\* What editors post, and what TypedValue.Validate lets pass besides: a null,
\* whatever the type.
Value == {Wire(strToTypedValue(p[1], p[2])) :
              p \in {p \in VarType \X Text : Accepts(p[1], p[2])}}
         \union {[type |-> t, value |-> Null] : t \in VarType \ {"json"}}

\* A value is named by the text that JSON.stringify or String give for it.
tvToStr(tv) == IF tv.value = Null THEN "" ELSE tv.value

\* A finite set of numbers in increasing order.
Sorted(S) == CHOOSE q \in [1..Cardinality(S) -> S] :
                 Range(q) = S /\ \A i, j \in DOMAIN q : i < j => q[i] < q[j]

\* The elements of s at the places P, in their order.
At(s, P) == [i \in 1..Cardinality(P) |-> s[Sorted(P)[i]]]

Own(rows, k) == At(rows, {i \in 1..Len(rows) : rows[i].key = k})

\* The ids of rows come from one counter, nextRowId: from is its value.
varsToRows(vars, from) ==
    LET ks == Sorted(DOMAIN vars)
    IN [i \in 1..Len(ks) |-> [id |-> from + i - 1, key |-> ks[i],
                              type |-> vars[ks[i]].type, val |-> tvToStr(vars[ks[i]])]]

Keys(rows) == {rows[i].key : i \in 1..Len(rows)} \ {Blank}

\* rowsToVars(rows) throws when one of the rows has a text its type rejects.
Throws(rows) == \E i \in 1..Len(rows) : /\ rows[i].key # Blank
                                        /\ ~Accepts(rows[i].type, rows[i].val)

\* Of several rows with the same key the last one counts.
rowsToVars(rows) ==
    [k \in Keys(rows) |->
        LET r == Last(Own(rows, k))
        IN strToTypedValue(r.type, r.val)]

\* The same as the server gets them.
Posted(rows) == [k \in Keys(rows) |-> Wire(rowsToVars(rows)[k])]

\* Mutant of rowsSignature: the type is not part of it.
SignatureWithoutType(rows) ==
    [k \in Keys(rows) |->
        LET own == Own(rows, k)
        IN [i \in 1..Len(own) |-> own[i].val]]

\* Sorting by key is stable: rows with the same key keep their order.
rowsSignature(rows) ==
    [k \in Keys(rows) |->
        LET own == Own(rows, k)
        IN [i \in 1..Len(own) |-> <<own[i].type, own[i].val>>]]
=============================================================================
