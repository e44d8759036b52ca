------------------------------- MODULE MCQuery -------------------------------
(***************************************************************************)
(* Query over two entries with one field.  The inputs are queries of the  *)
(* specification's examples and of every operation, well formed or not.  *)
(***************************************************************************)
EXTENDS Query

MCKeys == {"k1", "k2"}
MCFields == {"age"}
MCNums == {2, 3}
MCNumeral == "2" :> 2 @@ "3" :> 3
MCWords == {"w"}
MCPointer == "/age" :> "age"
MCUnhash == "#age" :> "age"

MCInputs ==
    { <<"FILTER", "/age", "gte", "3", "COUNT", "SUM", "/age">>,
      <<"SUM", "/age">>, <<"SUM", "#age">>, <<"AVG", "/age">>,
      <<"MIN", "/age", "MAX", "/age">>, <<"MEDIAN", "/age", "STDDEV", "/age">>,
      <<"GROUPBY", "/age">>, <<"DISCTICT", "/age">>, <<"DISTINCT", "/age">>,
      <<"TOPN", "2", "/age", "BOTTOMN", "2", "/age">>, <<"TOPN", "w", "/age">>,
      <<"BOTTOMN", "2">>, <<"SORT", "/age", "desc">>, <<"SORT", "#age", "asc">>,
      <<"SORT", "/age", "up">>, <<"JOIN", "k1", "/age", "/age">>,
      <<"FILTER", "/age", "eq", "3">>, <<"FILTER", "/age", "neq", "w">>,
      <<"FILTER", "/age", "isnull", "x", "COUNT">>, <<"FILTER", "/age", "in", "3">>,
      <<"FILTER", "/age", "notexists", "x">>, <<"FILTER", "/age">>,
      <<"COUNT", "db:other">>, <<"COUNT", "x;">>, <<>>, <<"SUM">> }

=============================================================================
