------------------------------ MODULE MCSeries ------------------------------
(* UserStates with four metrics; two of them have one raw fingerprint,     *)
(* and share a mutex with the second mapped one; that of a third is one    *)
(* of those reserved for mapping.                                          *)
EXTENDS UserStates, TLC

MCMetrics == {"a1", "a2", "a3", "b"}
MCMetricName == ("a1" :> "a" @@ "a2" :> "a" @@ "b" :> "b" @@ "a3" :> "a")
MCPairs ==
  ("a1" :> {<<"name", "a">>, <<"l", "1">>} @@ "a2" :> {<<"name", "a">>, <<"l", "2">>} @@
   "b" :> {<<"name", "b">>, <<"l", "1">>} @@ "a3" :> {<<"name", "a">>})
MCFastFingerprint == ("a1" :> 10 @@ "a2" :> 10 @@ "b" :> 11 @@ "a3" :> 3)
MCOffered == <<{"a1"}, {"a2", "b"}, {"a1", "a2", "a3"}>>
MCMutex == (1 :> 1 @@ 2 :> 0 @@ 10 :> 0 @@ 11 :> 1 @@ 3 :> 2)
MCWanted == {<<"name", "a">>}
Symmetric == Permutations(Pushers)
====
