------------------------- MODULE MCInventoryFiles -------------------------
(* Instances of InventoryFiles for TLC: two files and three requests, the   *)
(* third of which looks a host up or is one more PUT.                       *)
EXTENDS InventoryFiles

CONSTANTS r1, r2, r3

Request(k, f, ls) == [kind |-> k, file |-> f, lines |-> ls, group |-> "g", target |-> "existing"]

Put1   == Request("put", "a", <<Sec("g"), Host("x"), Host("y")>>)
Put2   == Request("put", "a", <<Sec("h")>>)
Post1  == Request("post", "b", <<Sec("g"), Host("x"), Host("y")>>)
Delete1 == Request("delete", "a", <<>>)
Purge  == Request("delete_hosts", "a", <<Host("x")>>)
Add1   == Request("add", "a", <<Host("y")>>)
Add2   == [Request("add", "b", <<Host("z")>>) EXCEPT !.target = "new"]
Lookup == Request("load", "a", <<>>)
Renew  == Request("reload", "a", <<>>)

Writers == {Put1, Put2, Post1, Delete1, Purge, Add1, Add2}

MCNames    == {"a", "b"}
MCSorted   == [S \in SUBSET MCNames |-> SelectSeq(<<"a", "b">>, LAMBDA f : f \in S)]
MCLower    == ("g" :> "g") @@ ("G" :> "g") @@ ("h" :> "h")
MCContents == {("a" :> <<Sec("g"), Host("x")>>), ("a" :> <<Sec("h"), Host("x"), Host("z")>>),
               ("a" :> <<Sec("h"), Host("x"), Sec("G")>>),
               ("a" :> <<Sec("h"), Host("x")>>) @@ ("b" :> <<Sec("g"), Host("x")>>)}
MCScenarios ==
  {(r1 :> x) @@ (r2 :> y) @@ (r3 :> Lookup) : x \in Writers, y \in Writers}
    \cup {(r1 :> Put1) @@ (r2 :> Put2) @@ (r3 :> z) : z \in {Put1, Put2, Renew}}
=============================================================================
