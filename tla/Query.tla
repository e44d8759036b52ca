-------------------------------- MODULE Query --------------------------------
(***************************************************************************)
(* The QUERY command of tinycache, from the raw request to the JSON reply: *)
(* the security middleware (query/middleware.rs), the token parser of     *)
(* process_valid_requests (requests/requests.rs) and the aggregation       *)
(* pipeline `aggregate` with its filter `apply_filter` (query/query.rs).  *)
(*                                                                         *)
(* One query is modelled, over the JSON documents of one database.  The   *)
(* documents do not change while it runs: `aggregate` holds the cache's   *)
(* read lock from the first shard read to its return, and every write of  *)
(* db.rs takes that lock for writing.                                     *)
(*                                                                         *)
(* Data abstraction.  A document is an object over the fields Fields; a   *)
(* field holds a JSON scalar or is missing (Absent).  A scalar is a       *)
(* record: an integer or a float number ("int", "float": serde_json keeps *)
(* 30 and 30.0 apart, and they are not == to each other), a string        *)
(* ("str", whose text is either a number of Nums, i.e. a string that      *)
(* parse::<f64>() accepts, or a word of Words, which it refuses) or null. *)
(* Numbers are small integers, on which f64 arithmetic is exact.  A field *)
(* token of the query is a JSON pointer when it is in DOMAIN Pointer;    *)
(* any other token (e.g. "#age") makes doc.pointer() return None.          *)
(***************************************************************************)
EXTENDS Integers, Sequences, SequencesExt, FiniteSets, TLC

CONSTANTS
    Keys,            \* keys of the database's entries
    Fields,          \* fields of the JSON documents
    Nums,            \* numbers that occur (as JSON numbers or numeric text)
    Numeral,         \* text -> number, for the texts that parse as a number
    Words,           \* texts that are not numbers
    Absent,          \* a field that a document does not have
    NotJson,         \* an entry whose value is not DataValue::Json
    Pointer,         \* field token -> field, for the tokens that are pointers
    Unhash,          \* "#f" token -> the token "f" (trim_start_matches('#'))
    AscTokens,       \* tokens whose lowercase form is "asc"
    DescTokens,      \* tokens whose lowercase form is "desc"
    DbRefTokens,     \* tokens whose lowercase form contains "db:"
    SuspectTokens,   \* tokens containing ; -- /* */ or ..
    Inputs           \* the token sequences after "QUERY" that a client sends

VARIABLES
    items,     \* key -> the document stored there, or NotJson
    tokens,    \* the tokens not parsed yet (rest[i..])
    ops,       \* parsed operations, then the ones aggregate has not run yet
    data,      \* filtered_data: the working set
    result,    \* the result object: key -> value
    phase,     \* "check", "parse", "collect", "run", "done"
    response   \* "none", "ok" or an error tag

vars == <<items, tokens, ops, data, result, phase, response>>

-----------------------------------------------------------------------------
(* JSON values *)

IntNum(n)   == [type |-> "int", v |-> n, text |-> ""]
FloatNum(n) == [type |-> "float", v |-> n, text |-> ""]
Text(x)     == [type |-> "str", v |-> 0, text |-> x]
Null        == [type |-> "null", v |-> 0, text |-> ""]

Scalars ==
    {IntNum(n) : n \in Nums} \cup {FloatNum(n) : n \in Nums}
      \cup {Text(x) : x \in DOMAIN Numeral \cup Words} \cup {Null}

Docs == [Fields -> Scalars \cup {Absent}]

\* doc.pointer(token)
Lookup(d, t) == IF t \in DOMAIN Pointer THEN d[Pointer[t]] ELSE Absent

\* value.as_f64() is Some
IsNumber(v) == v # Absent /\ v.type \in {"int", "float"}

\* value.as_str().and_then(|s| s.parse::<f64>().ok()) is Some
IsNumericText(v) == v # Absent /\ v.type = "str" /\ v.text \in DOMAIN Numeral

\* the number a numeric text or a JSON number stands for
NumberOf(v) == IF v.type = "str" THEN Numeral[v.text] ELSE v.v

\* the values at token t of the documents of s, missing ones skipped
ValuesAt(s, t) ==
    LET has == SelectSeq(s, LAMBDA d : Lookup(d, t) # Absent)
    IN  [i \in 1..Len(has) |-> Lookup(has[i], t)]

\* the numbers that SUM, AVG, MIN, MAX, MEDIAN and STDDEV take at token t
Coerced(s, t) ==
    LET txt == SelectSeq(s, LAMBDA d : IsNumericText(Lookup(d, t)))
    IN  [i \in 1..Len(txt) |-> NumberOf(Lookup(txt[i], t))]

Total(s) == FoldLeft(LAMBDA a, b : a + b, 0, s)

Smallest(S) == CHOOSE x \in S : \A y \in S : x <= y
Largest(S)  == CHOOSE x \in S : \A y \in S : x >= y

\* the result of a stable sort of s under the strict order Less
StableSort(s, Less(_, _)) ==
    CHOOSE r \in {[i \in 1..Len(s) |-> s[p[i]]] : p \in Permutations(1..Len(s))} :
        \E p \in Permutations(1..Len(s)) :
            /\ r = [i \in 1..Len(s) |-> s[p[i]]]
            /\ \A i, j \in 1..Len(s) :
                  i < j => /\ ~Less(s[p[j]], s[p[i]])
                           /\ ~Less(s[p[i]], s[p[j]]) => p[i] < p[j]

\* every reordering of s
Reorderings(s) == {[i \in 1..Len(s) |-> s[p[i]]] : p \in Permutations(1..Len(s))}

Take(s, n) == SubSeq(s, 1, IF n < Len(s) THEN n ELSE Len(s))

-----------------------------------------------------------------------------
(* apply_filter.  The parser turns the FILTER value into a float when it *)
(* parses as f64 and into a string otherwise, never into an array, so     *)
(* in, notin and between are always false from a QUERY.  contains,        *)
(* startsWith, endsWith, regex and like look into the text of strings,    *)
(* which this model does not have; they are not among the inputs.         *)
apply_filter(d, c) ==
    LET fv == Lookup(d, c.field)
        cmp(OP(_, _)) == IsNumber(fv) /\ IsNumber(c.val) /\ OP(fv.v, c.val.v)
        holds ==
            [eq |-> fv = c.val, neq |-> fv # c.val,
             gt  |-> cmp(LAMBDA a, b : a > b),  lt  |-> cmp(LAMBDA a, b : a < b),
             gte |-> cmp(LAMBDA a, b : a >= b), lte |-> cmp(LAMBDA a, b : a <= b),
             in |-> FALSE, notin |-> FALSE, between |-> FALSE,
             exists |-> TRUE, notexists |-> FALSE, isnull |-> fv = Null]
    IN  IF fv = Absent THEN c.op = "notexists"
        ELSE c.op \in DOMAIN holds /\ holds[c.op]


-----------------------------------------------------------------------------
(* The parser: one step per operation, as in the while loop over rest. *)

\* the keywords of the operations taking one field, with their operation
\* and the error tag of a missing field
FieldOps ==
    [SUM |-> "Sum", AVG |-> "Average", GROUPBY |-> "GroupBy", MIN |-> "Min",
     MAX |-> "Max", DISCTICT |-> "Distinct", MEDIAN |-> "Median",
     STDDEV |-> "StdDev"]
FieldErr ==
    [SUM |-> "MISSING_FIELD_FOR_SUM", AVG |-> "MISSING_FIELD_FOR_AVERAGE",
     GROUPBY |-> "MISSING_FIELD_FOR_GROUPBY", MIN |-> "MISSING_FIELD_FOR_MIN",
     MAX |-> "MISSING_FIELD_FOR_MAX", DISCTICT |-> "MISSING_FIELD_FOR_DISTINCT",
     MEDIAN |-> "MISSING_FIELD_FOR_MEDIAN", STDDEV |-> "MISSING_FIELD_FOR_STDDEV"]
RankedErr ==
    [TOPN |-> <<"INVALID_N_VALUE_FOR_TOPN", "MISSING_PARAMETERS_FOR_TOPN">>,
     BOTTOMN |-> <<"INVALID_N_VALUE_FOR_BOTTOMN", "MISSING_RAPAMETERS_FOR_BOTTOM">>]

Keywords ==
    DOMAIN FieldOps \cup DOMAIN RankedErr \cup {"COUNT", "FILTER", "SORT", "JOIN"}

Fail(tag) ==
    /\ response' = tag
    /\ phase' = "done"
    /\ UNCHANGED <<items, tokens, ops, data, result>>

Push(op, used) ==
    /\ ops' = Append(ops, op)
    /\ tokens' = SubSeq(tokens, used + 1, Len(tokens))
    /\ UNCHANGED <<items, data, result, phase, response>>

\* query_security_middleware: the raw query may not name a database or
\* hold characters of an injection
Middleware ==
    /\ phase = "check"
    /\ \/ /\ \E i \in 1..Len(tokens) : tokens[i] \in DbRefTokens
          /\ Fail("Invalid query: database references not allowed")
       \/ /\ \A i \in 1..Len(tokens) : tokens[i] \notin DbRefTokens
          /\ \E i \in 1..Len(tokens) : tokens[i] \in SuspectTokens
          /\ Fail("Invalid query: suspicious characters detected")
       \/ /\ \A i \in 1..Len(tokens) : tokens[i] \notin DbRefTokens \cup SuspectTokens
          /\ phase' = "parse"
          /\ UNCHANGED <<items, tokens, ops, data, result, response>>

\* QUERY with nothing after it
ParseEmpty ==
    /\ phase = "parse" /\ tokens = <<>> /\ ops = <<>>
    /\ Fail("MISSING_OPERATIONS")

ParseCount ==
    /\ phase = "parse" /\ tokens # <<>> /\ Head(tokens) = "COUNT"
    /\ Push([kind |-> "Count"], 1)

\* SUM, AVG, GROUPBY, MIN, MAX, DISCTICT, MEDIAN, STDDEV <field>
ParseField ==
    /\ phase = "parse" /\ tokens # <<>> /\ Head(tokens) \in DOMAIN FieldOps
    /\ IF Len(tokens) >= 2
       THEN Push([kind |-> FieldOps[Head(tokens)], field |-> tokens[2]], 2)
       ELSE Fail(FieldErr[Head(tokens)])

\* FILTER <field> <operator> <value>: the value is a float if it parses
ParseFilter ==
    /\ phase = "parse" /\ tokens # <<>> /\ Head(tokens) = "FILTER"
    /\ IF Len(tokens) >= 4
       THEN Push([kind |-> "Filter", field |-> tokens[2], op |-> tokens[3],
                  val |-> IF tokens[4] \in DOMAIN Numeral THEN FloatNum(Numeral[tokens[4]])
                          ELSE Text(tokens[4])], 4)
       ELSE Fail("INVALID_FILTER_FORMAT")

\* TOPN / BOTTOMN <n> <field>: n must parse as usize
ParseRanked ==
    /\ phase = "parse" /\ tokens # <<>> /\ Head(tokens) \in DOMAIN RankedErr
    /\ IF Len(tokens) >= 3
       THEN IF tokens[2] \in DOMAIN Numeral
            THEN Push([kind |-> IF Head(tokens) = "TOPN" THEN "TopN" ELSE "BottomN",
                       field |-> tokens[3], n |-> Numeral[tokens[2]]], 3)
            ELSE Fail(RankedErr[Head(tokens)][1])
       ELSE Fail(RankedErr[Head(tokens)][2])

\* SORT <field> asc|desc: the only operation that strips a leading '#'
ParseSort ==
    /\ phase = "parse" /\ tokens # <<>> /\ Head(tokens) = "SORT"
    /\ IF Len(tokens) >= 3
       THEN IF tokens[3] \in AscTokens \cup DescTokens
            THEN Push([kind |-> "Sort",
                       field |-> IF tokens[2] \in DOMAIN Unhash
                                 THEN Unhash[tokens[2]] ELSE tokens[2],
                       descending |-> tokens[3] \in DescTokens], 3)
            ELSE Fail("INVALID_SORT_DIRECTION_USE_ASC_OR_DESC")
       ELSE Fail("MISSING_PARAMETERS_FOR_SORT")

\* JOIN <source_key> <source_field> <target_field>
ParseJoin ==
    /\ phase = "parse" /\ tokens # <<>> /\ Head(tokens) = "JOIN"
    /\ IF Len(tokens) >= 4
       THEN Push([kind |-> "Join", source_key |-> tokens[2],
                  source_field |-> tokens[3], target_field |-> tokens[4]], 4)
       ELSE Fail("MISSING_PARAMETERS_FOR_JOIN")

ParseUnknown ==
    /\ phase = "parse" /\ tokens # <<>> /\ Head(tokens) \notin Keywords
    /\ Fail("UNKNOWN_OPERATION")

\* all tokens parsed: aggregate is called
ParseDone ==
    /\ phase = "parse" /\ tokens = <<>> /\ ops # <<>>
    /\ phase' = "collect"
    /\ UNCHANGED <<items, tokens, ops, data, result, response>>
-----------------------------------------------------------------------------
(* aggregate: the documents are collected, then one step per operation. *)

\* the digits of a number
Digits(n) == CHOOSE x \in DOMAIN Numeral : Numeral[x] = n

\* GROUPBY's key: the string of the value.  A number prints as its
\* digits, so the number 3 and the text "3" fall into the same group; a
\* float prints with ".0" (the flag point)
GroupKey(v) ==
    CASE v.type = "str"   -> [digits |-> v.text, point |-> FALSE]
      [] v.type = "int"   -> [digits |-> Digits(v.v), point |-> FALSE]
      [] v.type = "float" -> [digits |-> Digits(v.v), point |-> TRUE]
      [] v.type = "null"  -> [digits |-> "null", point |-> FALSE]

\* SORT's comparison: numbers by value; otherwise by the JSON text, in
\* which a string ('"') comes before a number (a digit) before null
SortRank(v) == CASE v.type = "str" -> 0 [] v.type = "null" -> 2 [] OTHER -> 1
TextKey(v) == IF v.text \in DOMAIN Numeral THEN Numeral[v.text] ELSE 1000
SortLess(a, b) ==
    IF IsNumber(a) /\ IsNumber(b) THEN a.v < b.v
    ELSE \/ SortRank(a) < SortRank(b)
         \/ SortRank(a) = 0 /\ SortRank(b) = 0 /\ TextKey(a) < TextKey(b)

\* the value SORT compares: the field, or null when it is missing
SortValue(d, t) == IF Lookup(d, t) = Absent THEN Null ELSE Lookup(d, t)

\* TOPN and BOTTOMN: numbers compare descending, anything else compares
\* Equal to everything; with such values the order is not a total order
\* and slice::sort_by may return any arrangement
RankedOrders(s) ==
    IF \A i \in 1..Len(s) : IsNumber(s[i])
    THEN {StableSort(s, LAMBDA a, b : a.v > b.v)}
    ELSE Reorderings(s)

Put(k, v) == result' = (k :> v) @@ result

Current == Head(ops)

Step(kind) == phase = "run" /\ ops # <<>> /\ Current.kind = kind

Collect ==
    /\ phase = "collect"
    /\ \E order \in SetToSeqs({k \in Keys : items[k] # NotJson}) :
          data' = [i \in 1..Len(order) |-> items[order[i]]]
    /\ phase' = "run"
    /\ UNCHANGED <<items, tokens, ops, result, response>>

RunFilter ==
    /\ Step("Filter")
    /\ data' = SelectSeq(data, LAMBDA d : apply_filter(d, Current))
    /\ ops' = Tail(ops)
    /\ UNCHANGED <<items, tokens, result, phase, response>>

RunCount ==
    /\ Step("Count")
    /\ Put(<<"count">>, Len(data))
    /\ ops' = Tail(ops)
    /\ UNCHANGED <<items, tokens, data, phase, response>>

RunSum ==
    /\ Step("Sum")
    /\ Put(<<"sum", Current.field>>, Total(Coerced(data, Current.field)))
    /\ ops' = Tail(ops)
    /\ UNCHANGED <<items, tokens, data, phase, response>>

\* the average as the exact quotient sum / len; nothing when no value
RunAverage ==
    /\ Step("Average")
    /\ LET vs == Coerced(data, Current.field)
       IN  IF vs = <<>> THEN UNCHANGED result
           ELSE Put(<<"avg", Current.field>>, [num |-> Total(vs), den |-> Len(vs)])
    /\ ops' = Tail(ops)
    /\ UNCHANGED <<items, tokens, data, phase, response>>

\* the groups in HashMap order, which is arbitrary: a set
RunGroupBy ==
    /\ Step("GroupBy")
    /\ LET vs == ValuesAt(data, Current.field)
           keys == {GroupKey(vs[i]) : i \in 1..Len(vs)}
       IN  Put(<<"groups_by", Current.field>>,
               {[value |-> g,
                 count |-> Cardinality({i \in 1..Len(vs) : GroupKey(vs[i]) = g})]
                : g \in keys})
    /\ ops' = Tail(ops)
    /\ UNCHANGED <<items, tokens, data, phase, response>>

RunMin ==
    /\ Step("Min")
    /\ LET vs == Coerced(data, Current.field)
       IN  IF vs = <<>> THEN UNCHANGED result
           ELSE Put(<<"min", Current.field>>, Smallest(ToSet(vs)))
    /\ ops' = Tail(ops)
    /\ UNCHANGED <<items, tokens, data, phase, response>>

RunMax ==
    /\ Step("Max")
    /\ LET vs == Coerced(data, Current.field)
       IN  IF vs = <<>> THEN UNCHANGED result
           ELSE Put(<<"max", Current.field>>, Largest(ToSet(vs)))
    /\ ops' = Tail(ops)
    /\ UNCHANGED <<items, tokens, data, phase, response>>

\* the distinct values in HashSet order, which is arbitrary: a set
RunDistinct ==
    /\ Step("Distinct")
    /\ Put(<<"distinct", Current.field>>, ToSet(ValuesAt(data, Current.field)))
    /\ ops' = Tail(ops)
    /\ UNCHANGED <<items, tokens, data, phase, response>>

RunTopN ==
    /\ Step("TopN")
    /\ \E sorted \in RankedOrders(ValuesAt(data, Current.field)) :
          Put(<<"top", Current.n, Current.field>>, Take(sorted, Current.n))
    /\ ops' = Tail(ops)
    /\ UNCHANGED <<items, tokens, data, phase, response>>

\* the same descending sort as TOPN, then the first n
RunBottomN ==
    /\ Step("BottomN")
    /\ \E sorted \in RankedOrders(ValuesAt(data, Current.field)) :
          Put(<<"bottom", Current.n, Current.field>>, Take(sorted, Current.n))
    /\ ops' = Tail(ops)
    /\ UNCHANGED <<items, tokens, data, phase, response>>

\* the median as a quotient: the middle value, or the two middles over 2
RunMedian ==
    /\ Step("Median")
    /\ LET vs  == StableSort(Coerced(data, Current.field), LAMBDA a, b : a < b)
           mid == Len(vs) \div 2
       IN  IF vs = <<>> THEN UNCHANGED result
           ELSE Put(<<"median", Current.field>>,
                    IF Len(vs) % 2 = 0 THEN [num |-> vs[mid] + vs[mid + 1], den |-> 2]
                    ELSE [num |-> vs[mid + 1], den |-> 1])
    /\ ops' = Tail(ops)
    /\ UNCHANGED <<items, tokens, data, phase, response>>

\* the sample variance as the quotient (n*S2 - S1^2) / (n*(n-1)), for more
\* than one value; the code reports its square root
RunStdDev ==
    /\ Step("StdDev")
    /\ LET vs == Coerced(data, Current.field)
           n  == Len(vs)
       IN  IF n <= 1 THEN UNCHANGED result
           ELSE Put(<<"stddev", Current.field>>,
                    [num |-> n * Total([i \in 1..n |-> vs[i] * vs[i]]) - Total(vs) * Total(vs),
                     den |-> n * (n - 1)])
    /\ ops' = Tail(ops)
    /\ UNCHANGED <<items, tokens, data, phase, response>>

\* the working set itself is sorted (stable; desc reverses the comparison)
RunSort ==
    /\ Step("Sort")
    /\ LET t == Current.field
           less(a, b) == IF Current.descending
                         THEN SortLess(SortValue(b, t), SortValue(a, t))
                         ELSE SortLess(SortValue(a, t), SortValue(b, t))
       IN  data' = StableSort(data, less)
    /\ Put(<<"sorted_data">>, data')
    /\ ops' = Tail(ops)
    /\ UNCHANGED <<items, tokens, phase, response>>

\* a left join that keeps only the matched documents: each document whose
\* target field equals the source field of the document stored at
\* source_key is merged with it (the source's fields win)
RunJoin ==
    /\ Step("Join")
    /\ LET src == Current.source_key
           matches(d) ==
               /\ src \in Keys /\ items[src] # NotJson
               /\ Lookup(d, Current.target_field) # Absent
               /\ Lookup(items[src], Current.source_field) = Lookup(d, Current.target_field)
           merge(d) == [f \in Fields |-> IF items[src][f] # Absent THEN items[src][f] ELSE d[f]]
           kept == SelectSeq(data, matches)
       IN  data' = [i \in 1..Len(kept) |-> merge(kept[i])]
    /\ Put(<<"joined_data">>, data')
    /\ ops' = Tail(ops)
    /\ UNCHANGED <<items, tokens, phase, response>>

\* the loop is over: the reply is the result object
Finish ==
    /\ phase = "run" /\ ops = <<>>
    /\ response' = "ok"
    /\ phase' = "done"
    /\ UNCHANGED <<items, tokens, ops, data, result>>

-----------------------------------------------------------------------------

Init ==
    /\ items \in [Keys -> Docs \cup {NotJson}]
    /\ tokens \in Inputs
    /\ ops = <<>>
    /\ data = <<>>
    /\ result = [k \in {} |-> 0]
    /\ phase = "check"
    /\ response = "none"

Next ==
    \/ Middleware
    \/ ParseEmpty \/ ParseCount \/ ParseField \/ ParseFilter \/ ParseRanked
    \/ ParseSort \/ ParseJoin \/ ParseUnknown \/ ParseDone
    \/ Collect
    \/ RunFilter \/ RunCount \/ RunSum \/ RunAverage \/ RunGroupBy \/ RunMin
    \/ RunMax \/ RunDistinct \/ RunTopN \/ RunBottomN \/ RunMedian
    \/ RunStdDev \/ RunSort \/ RunJoin \/ Finish

Spec == Init /\ [][Next]_vars
-----------------------------------------------------------------------------

\* the numbers at token t of the documents of s: JSON numbers, and strings
\* that hold a number
NumbersAt(s, t) ==
    LET vs == SelectSeq(ValuesAt(s, t), LAMBDA v : IsNumber(v) \/ IsNumericText(v))
    IN  [i \in 1..Len(vs) |-> NumberOf(vs[i])]

\* SUM adds up the numeric values of its field over the working set, as
\* acceptance test 4 of the specification expects (docs {"age":20},
\* {"age":30}, {"age":40}; FILTER /age gte 30 COUNT SUM /age gives sum 70)
\* and the module documentation of query.rs says ("Sums numeric values of
\* a field").  The SUM arm of aggregate reads values only through
\* as_str().parse::<f64>().
SumAddsNumbers ==
    [][Step("Sum") =>
         result'[<<"sum", Current.field>>] = Total(NumbersAt(data, Current.field))]_vars

=============================================================================
