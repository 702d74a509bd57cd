--------------------------- MODULE MCScriptFiles ---------------------------
(* Instances of ScriptFiles for TLC: four requests about one file, of which *)
(* two or three run it.                                                     *)
EXTENDS ScriptFiles, TLC

CONSTANTS r1, r2, r3, r4

Save(k, t) == [kind |-> k, text |-> t, id |-> "-"]
Launch(i)  == [kind |-> "run", text |-> <<>>, id |-> i]

Old   == <<"a1", "a2">>
New   == <<"b1", "b2">>
Bad   == <<"bad">>
Saves == {Save("put", New), Save("put", Bad), Save("post", New), Save("delete", <<>>)}

MCLines == {"a1", "a2", "b1", "b2", "bad"}
MCFirst == {<<>>, Old}
MCScenarios ==
  {(r1 :> Launch("x")) @@ (r2 :> Launch("x")) @@ (r3 :> u) @@ (r4 :> v) :
     u \in Saves \cup {Launch("y")}, v \in Saves \cup {Save("put", Old)}}
=============================================================================
